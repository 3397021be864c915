------------------------------- MODULE Autopilot -------------------------------
(* The task scheduler of one project (`scheduler.rs`), the supervisor that      *)
(* watches its agents (`supervisor.rs`) and the page that gives them a terminal *)
(* (`stores/schedulerStore.ts`).  A task is a line of `.planning/task.md` and   *)
(* its agent works in a worktree of its own.  An action is one section under    *)
(* the lock of the tasks or of the monitored agents, or one turn of the page.   *)
(* A panic ends the app, as the release build has `panic = "abort"`.            *)
EXTENDS Naturals, Sequences

CONSTANTS
    Tasks,
    NoTask,
    Plans,        \* what task.md may hold: sequences of lines
    NoPlan,       \* no task.md, or none that can be read
    FirstPlan,
    MaxRetries,   \* max_retries
    MaxEdits,     \* bound: edits of task.md
    MaxCrashes    \* bound: no crash once the app ended so often

Line == [text : Tasks, checked : BOOLEAN]

ASSUME AutopilotAssumption ==
    /\ NoTask \notin Tasks
    /\ Plans \subseteq Seq(Line) /\ NoPlan \notin Plans
    /\ FirstPlan \in Plans \cup {NoPlan}
    /\ MaxRetries \in Nat /\ MaxEdits \in Nat /\ MaxCrashes \in Nat

VARIABLES
    plan, edits,          \* task.md, and how often it was edited
    status, deps, lease, hasPath,       \* Task; "absent" is no record
    leases,               \* Scheduler.leases
    ticker,               \* per caller of trigger_scheduler_tick: what it has read
    work,                 \* per task: how far the future that starts it is
    worktrees,            \* on disk
    activity, retries,    \* MonitoredAgent, by its task; "none" is no record
    awake, toRestart, toKill, hand,     \* the supervisor's round
    asked,                \* AgentSpawnRequested on its way to the page
    requests,             \* history: how often that was published, per task
    crashes

disk == <<plan, edits, worktrees>>
tasks == <<status, deps, lease, hasPath, leases>>
agents == <<activity, retries>>
round == <<awake, toRestart, toKill, hand>>
news == <<asked, requests>>
vars == <<disk, tasks, ticker, work, agents, round, news, crashes>>

Tickers == {"page", "loop"}     \* the command, and the loop on PlanningUpdated
Started == {"running", "completed", "failed"}

TypeOK ==
    /\ plan \in Plans \cup {NoPlan} /\ edits \in 0..MaxEdits
    /\ status \in [Tasks -> {"absent", "pending"} \cup Started]
    /\ deps \in [Tasks -> SUBSET Tasks]
    /\ lease \in [Tasks -> BOOLEAN] /\ hasPath \in [Tasks -> BOOLEAN]
    /\ leases \subseteq Tasks
    /\ ticker \in [Tickers -> [pc : {"idle", "read", "loaded"}, plan : Plans \cup {NoPlan}]]
    /\ work \in [Tasks -> {"none", "provision", "path", "ask"}]
    /\ worktrees \subseteq Tasks
    /\ activity \in [Tasks -> {"none", "recent", "silent", "ahead"}]
    /\ retries \in [Tasks -> Nat]
    /\ awake \in BOOLEAN
    /\ toRestart \subseteq Tasks /\ toKill \subseteq Tasks
    /\ hand \in Tasks \cup {NoTask}
    /\ asked \subseteq Tasks
    /\ requests \in [Tasks -> Nat]
    /\ crashes \in Nat

Monitored(t) == activity[t] # "none"
Forgotten(t) ==
    /\ activity' = [activity EXCEPT ![t] = "none"]
    /\ retries' = [retries EXCEPT ![t] = 0]

-----------------------------------------------------------------------------
(* load_gsd_tasks.  The id of a task is its text, so equal lines are one task:   *)
(* the last gives what it depends on, and any checked one completes it, for the  *)
(* later lines inherit what an earlier one has put into the tasks.               *)

Listed(c) == {c[i].text : i \in DOMAIN c}
IsLast(c, t, i) == c[i].text = t /\ \A k \in DOMAIN c : k > i => c[k].text # t
Checked(c, t) == \E i \in DOMAIN c : c[i].text = t /\ c[i].checked
\* What it depends on: the line above.
Before(c, t) == {c[i - 1].text : i \in {k \in DOMAIN c \ {1} : IsLast(c, t, k)}}

\* What a reload leaves alone.  Mutant: only what runs.
KeptWhileRunning(t) == status[t] = "running"
Kept(t) == status[t] \in Started

\* trigger_scheduler_tick reads the file with no lock.
TickReads(a) ==
    /\ ticker[a].pc = "idle"
    /\ ticker' = [ticker EXCEPT ![a] =
           [pc |-> IF plan = NoPlan THEN "loaded" ELSE "read", plan |-> plan]]
    /\ UNCHANGED <<disk, tasks, work, agents, round, news, crashes>>

TickLoads(a) ==
    LET c == ticker[a].plan
    IN  /\ ticker[a].pc = "read"
        /\ ticker' = [ticker EXCEPT ![a] = [pc |-> "loaded", plan |-> NoPlan]]
        /\ status' = [t \in Tasks |->
               IF Kept(t) THEN status[t]
               ELSE IF t \notin Listed(c) THEN "absent"
               ELSE IF Checked(c, t) THEN "completed" ELSE "pending"]
        /\ deps' = [t \in Tasks |->
               IF t \in Listed(c) THEN Before(c, t)
               ELSE IF Kept(t) THEN deps[t] ELSE {}]
        /\ lease' = [t \in Tasks |-> Kept(t) /\ lease[t]]
        /\ hasPath' = [t \in Tasks |-> Kept(t) /\ hasPath[t]]
        /\ UNCHANGED <<disk, leases, work, agents, round, news, crashes>>

-----------------------------------------------------------------------------
(* run_scheduler_tick: pending to ready to running, then running to completed,   *)
(* all in one lock section, so that no task is seen ready.  The dependents of    *)
(* what completes here wait for another tick.                                    *)

MayStart(t) ==
    /\ status[t] = "pending" /\ \A d \in deps[t] : status[d] = "completed"
    /\ t \notin leases

\* `done`: the tasks whose worktree says that its plan is complete.
TickRuns(a) ==
    /\ ticker[a].pc = "loaded"
    /\ ticker' = [ticker EXCEPT ![a] = [pc |-> "idle", plan |-> NoPlan]]
    /\ \E done \in SUBSET {t \in Tasks : status[t] = "running" /\ hasPath[t]} :
          /\ status' = [t \in Tasks |-> IF MayStart(t) THEN "running"
                                        ELSE IF t \in done THEN "completed" ELSE status[t]]
          /\ lease' = [t \in Tasks |-> t \notin done /\ (MayStart(t) \/ lease[t])]
          /\ leases' = (leases \cup {t \in Tasks : MayStart(t)}) \ {t \in done : lease[t]}
    /\ work' = [t \in Tasks |-> IF MayStart(t) THEN "provision" ELSE work[t]]
    /\ UNCHANGED <<disk, deps, hasPath, agents, round, news, crashes>>

\* A task fails: by a cancel, for want of a worktree, or given up by the supervisor.
Fails(t) ==
    /\ status' = [status EXCEPT ![t] = "failed"]
    /\ lease' = [lease EXCEPT ![t] = FALSE]
    /\ leases' = IF lease[t] THEN leases \ {t} ELSE leases
    /\ UNCHANGED <<deps, hasPath>>

\* When an agent was active: its time may lie after the supervisor's clock.
Touched == IF awake THEN {"recent", "ahead"} ELSE {"recent"}

-----------------------------------------------------------------------------
(* The future that run_scheduler_tick spawns for each task it starts.           *)

GoesTo(t, w) == work' = [work EXCEPT ![t] = w]

\* The worktree is made and its agent monitored.  Mutant: one that is there is used.
ProvisionsAnyhow(t) ==
    /\ work[t] = "provision"
    /\ worktrees' = worktrees \cup {t}
    /\ \E now \in Touched : activity' = [activity EXCEPT ![t] = now]
    /\ retries' = [retries EXCEPT ![t] = 0]
    /\ GoesTo(t, "path")
    /\ UNCHANGED <<plan, edits, tasks, ticker, round, news, crashes>>
Provisions(t) ==
    /\ work[t] = "provision"
    /\ t \notin worktrees
    /\ worktrees' = worktrees \cup {t}
    /\ \E now \in Touched : activity' = [activity EXCEPT ![t] = now]
    /\ retries' = [retries EXCEPT ![t] = 0]
    /\ GoesTo(t, "path")
    /\ UNCHANGED <<plan, edits, tasks, ticker, round, news, crashes>>

\* A worktree of that name is there, or git fails.  Mutant: the error is logged.
LogsTheError(t) ==
    /\ work[t] = "provision"
    /\ GoesTo(t, "none")
    /\ UNCHANGED <<disk, tasks, ticker, agents, round, news, crashes>>
ProvisionFails(t) ==
    /\ work[t] = "provision"
    /\ Fails(t)
    /\ GoesTo(t, "none")
    /\ UNCHANGED <<disk, ticker, agents, round, news, crashes>>

\* The task may be gone by then, or over: the path is set and the agent asked for
\* whatever became of it.
SetsPath(t) ==
    /\ work[t] = "path"
    /\ hasPath' = [hasPath EXCEPT ![t] = status[t] # "absent"]
    /\ GoesTo(t, "ask")
    /\ UNCHANGED <<disk, status, deps, lease, leases, ticker, agents, round, news, crashes>>

AsksForAgent(t) ==
    /\ work[t] = "ask"
    /\ GoesTo(t, "none")
    /\ asked' = asked \cup {t}
    /\ requests' = [requests EXCEPT ![t] = @ + 1]
    /\ UNCHANGED <<disk, tasks, ticker, agents, round, crashes>>

-----------------------------------------------------------------------------
(* The end of the app, and its next start: only what is on disk stays.          *)

Dies ==
    /\ status' = [t \in Tasks |-> "absent"]
    /\ deps' = [t \in Tasks |-> {}]
    /\ lease' = [t \in Tasks |-> FALSE]
    /\ hasPath' = [t \in Tasks |-> FALSE]
    /\ leases' = {}
    /\ ticker' = [a \in Tickers |-> [pc |-> "idle", plan |-> NoPlan]]
    /\ work' = [t \in Tasks |-> "none"]
    /\ activity' = [t \in Tasks |-> "none"]
    /\ retries' = [t \in Tasks |-> 0]
    /\ awake' = FALSE /\ toRestart' = {} /\ toKill' = {} /\ hand' = NoTask
    /\ asked' = {}
    /\ crashes' = crashes + 1
    /\ UNCHANGED <<disk, requests>>

Crash == crashes < MaxCrashes /\ Dies

-----------------------------------------------------------------------------
(* start_supervisor_event_loop.                                                 *)

\* Ten minutes without activity.
GoesSilent(t) ==
    /\ activity[t] = "recent"
    /\ activity' = [activity EXCEPT ![t] = "silent"]
    /\ UNCHANGED <<disk, tasks, ticker, work, retries, round, news, crashes>>

\* Every five seconds the clock is read, and then the lock is taken.
Wakes ==
    /\ ~awake /\ toRestart = {} /\ toKill = {} /\ hand = NoTask
    /\ awake' = TRUE
    /\ UNCHANGED <<disk, tasks, ticker, work, agents, toRestart, toKill, hand, news, crashes>>

\* Mutant: an agent that is to be restarted starts from no retries.
CountsAnew(t) == 0
Counts(t) == retries[t] + 1

\* `now - last_activity_ms` wraps for an agent that was active after `now`.
Scans ==
    LET expired == {t \in Tasks : activity[t] \in {"silent", "ahead"}}
        again == {t \in expired : retries[t] + 1 <= MaxRetries}
    IN  /\ awake
        /\ awake' = FALSE
        /\ retries' = [t \in Tasks |-> IF t \in again THEN Counts(t)
                                       ELSE IF t \in expired THEN retries[t] + 1
                                       ELSE retries[t]]
        /\ activity' = [t \in Tasks |-> IF t \in again THEN "recent" ELSE activity[t]]
        /\ toRestart' = again
        /\ toKill' = expired \ again
        /\ UNCHANGED <<disk, tasks, ticker, work, hand, news, crashes>>

\* AgentRestarted is published, which nothing acts on; an agent that is not
\* monitored any more is unwrapped all the same.
Restarts(t) ==
    /\ t \in toRestart
    /\ IF Monitored(t)
       THEN /\ toRestart' = toRestart \ {t}
            /\ UNCHANGED <<disk, tasks, ticker, work, agents, awake, toKill, hand, news, crashes>>
       ELSE Dies

Kills(t) ==
    /\ toRestart = {} /\ t \in toKill /\ hand = NoTask
    /\ IF Monitored(t)
       THEN /\ Forgotten(t)
            /\ toKill' = toKill \ {t}
            /\ hand' = t
            /\ UNCHANGED <<disk, tasks, ticker, work, awake, toRestart, news, crashes>>
       ELSE Dies

\* Whatever the task has become.
GivesUp ==
    /\ hand # NoTask
    /\ hand' = NoTask
    /\ IF status[hand] # "absent" THEN Fails(hand) ELSE UNCHANGED tasks
    /\ UNCHANGED <<disk, ticker, work, agents, awake, toRestart, toKill, news, crashes>>

-----------------------------------------------------------------------------
(* cancel_task and the page.                                                    *)

\* A task that is not running is left alone.
Cancel(t) ==
    /\ status[t] = "running"
    /\ Fails(t)
    /\ Forgotten(t)
    /\ UNCHANGED <<disk, ticker, work, round, news, crashes>>

\* The page makes a terminal for the agent and publishes the one heartbeat an agent
\* ever has.
Hears(t) ==
    /\ t \in asked
    /\ asked' = asked \ {t}
    /\ IF Monitored(t)
       THEN \E now \in Touched : activity' = [activity EXCEPT ![t] = now]
       ELSE UNCHANGED activity
    /\ UNCHANGED <<disk, tasks, ticker, work, retries, round, requests, crashes>>

\* With the page closed nobody does.
Misses(t) ==
    /\ t \in asked
    /\ asked' = asked \ {t}
    /\ UNCHANGED <<disk, tasks, ticker, work, agents, round, requests, crashes>>

Edits ==
    /\ edits < MaxEdits
    /\ edits' = edits + 1
    /\ plan' \in (Plans \cup {NoPlan}) \ {plan}
    /\ UNCHANGED <<worktrees, tasks, ticker, work, agents, round, news, crashes>>

-----------------------------------------------------------------------------

Init ==
    /\ plan = FirstPlan /\ edits = 0
    /\ status = [t \in Tasks |-> "absent"]
    /\ deps = [t \in Tasks |-> {}]
    /\ lease = [t \in Tasks |-> FALSE]
    /\ hasPath = [t \in Tasks |-> FALSE]
    /\ leases = {}
    /\ ticker = [a \in Tickers |-> [pc |-> "idle", plan |-> NoPlan]]
    /\ work = [t \in Tasks |-> "none"]
    /\ worktrees = {}
    /\ activity = [t \in Tasks |-> "none"]
    /\ retries = [t \in Tasks |-> 0]
    /\ awake = FALSE /\ toRestart = {} /\ toKill = {} /\ hand = NoTask
    /\ asked = {}
    /\ requests = [t \in Tasks |-> 0]
    /\ crashes = 0

Ticks(a) == TickReads(a) \/ TickLoads(a) \/ TickRuns(a)
Works(t) == Provisions(t) \/ ProvisionFails(t) \/ SetsPath(t) \/ AsksForAgent(t)
Supervises == Wakes \/ Scans \/ GivesUp \/ \E t \in Tasks : Restarts(t) \/ Kills(t)

Next ==
    \/ \E a \in Tickers : Ticks(a)
    \/ \E t \in Tasks : Works(t) \/ GoesSilent(t)
    \/ Supervises
    \/ \E t \in Tasks : Cancel(t) \/ Hears(t) \/ Misses(t)
    \/ Edits \/ Crash

\* Futures run, time passes and the supervisor's loop goes on.  Nobody need tick,
\* and agents owe nothing.
Fairness ==
    /\ \A t \in Tasks : WF_vars(Works(t)) /\ WF_vars(GoesSilent(t))
    /\ WF_vars(Supervises)

Spec == Init /\ [][Next]_vars
FairSpec == Spec /\ Fairness

-----------------------------------------------------------------------------

\* Who runs is being started, or has a monitor or a supervisor that is about to
\* give it up: there is always somebody to end it, through cancels, failed
\* provisioning, reloads of other plans and rounds of the supervisor.
RunningIsWatched ==
    \A t \in Tasks : status[t] = "running" =>
        work[t] = "provision" \/ Monitored(t) \/ hand = t

\* A task has one agent, whatever plans are loaded, also late ones, and however
\* often the app is started again: two agents in one worktree would undo each other.
OneAgentEach == \A t \in Tasks : requests[t] <= 1

\* A task that is over stays as it ended, but for one the supervisor has in hand,
\* until the app ends: no reload starts it again.
EndsAreKept ==
    [][\A t \in Tasks : status[t] \in {"completed", "failed"} =>
         status'[t] = status[t] \/ hand = t \/ crashes' # crashes]_vars

\* Every task that runs comes to an end, although its agent may never be heard, or
\* its terminal never be made.
RunningEnds == \A t \in Tasks : status[t] = "running" ~> status[t] # "running"
===============================================================================
