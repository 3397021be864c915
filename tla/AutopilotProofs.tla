--------------------------- MODULE AutopilotProofs ---------------------------
(* What the task scheduler and its supervisor keep, for any tasks, plans,      *)
(* retries and crashes.                                                        *)
EXTENDS Autopilot, TLAPS

USE AutopilotAssumption

Steps(t) == Works(t) \/ GoesSilent(t) \/ Cancel(t) \/ Hears(t) \/ Misses(t)

\* A plan that was read is the one it was.
PlanIsRead == \A a \in Tickers : ticker[a].pc = "read" => ticker[a].plan \in Plans

Typed == TypeOK /\ PlanIsRead

LEMMA LinesAboveAreTasks ==
    ASSUME NEW c \in Plans, NEW t \in Tasks
    PROVE  Before(c, t) \subseteq Tasks
<1>1. c \in Seq(Line)
  OBVIOUS
<1>2. ASSUME NEW i \in DOMAIN c \ {1} PROVE c[i - 1].text \in Tasks
  <2>1. i - 1 \in DOMAIN c
    BY <1>1, DOMAIN c = 1..Len(c), Len(c) \in Nat
  <2>2. c[i - 1] \in Line
    BY <1>1, <2>1
  <2>. QED
    BY <2>2 DEF Line
<1>. QED
  BY <1>2 DEF Before

LEMMA FailingKeepsTypes ==
    ASSUME TypeOK, NEW t \in Tasks, Fails(t)
    PROVE  /\ status' \in [Tasks -> {"absent", "pending"} \cup Started]
           /\ deps' = deps /\ hasPath' = hasPath
           /\ lease' \in [Tasks -> BOOLEAN] /\ leases' \subseteq Tasks
<1>1. status' \in [Tasks -> {"absent", "pending"} \cup Started]
  BY DEF Fails, TypeOK, Started
<1>2. lease' \in [Tasks -> BOOLEAN] /\ leases' \subseteq Tasks
  BY DEF Fails, TypeOK
<1>. QED
  BY <1>1, <1>2 DEF Fails

LEMMA TicksKeepTypes ==
    ASSUME Typed, NEW a \in Tickers, Ticks(a)
    PROVE  Typed'
<1>1. CASE TickReads(a)
  <2>1. TypeOK'
    BY <1>1 DEF Typed, TypeOK, TickReads, disk, tasks, agents, round, news
  <2>2. PlanIsRead'
    BY <1>1 DEF Typed, TypeOK, PlanIsRead, TickReads, disk
  <2>. QED
    BY <2>1, <2>2 DEF Typed
<1>2. CASE TickLoads(a)
  <2>1. ticker[a].plan \in Plans
    BY <1>2 DEF TickLoads, Typed, PlanIsRead
  <2>2. deps' \in [Tasks -> SUBSET Tasks]
    BY <1>2, <2>1, LinesAboveAreTasks DEF TickLoads, Typed, TypeOK
  <2>3. status' \in [Tasks -> {"absent", "pending"} \cup Started]
    BY <1>2 DEF TickLoads, Typed, TypeOK, Started
  <2>4. lease' \in [Tasks -> BOOLEAN] /\ hasPath' \in [Tasks -> BOOLEAN]
    <3>1. \A t \in Tasks : (Kept(t) /\ lease[t]) \in BOOLEAN /\ (Kept(t) /\ hasPath[t]) \in BOOLEAN
      OBVIOUS
    <3>. QED
      BY <1>2, <3>1 DEF TickLoads
  <2>5. ticker' \in [Tickers -> [pc : {"idle", "read", "loaded"}, plan : Plans \cup {NoPlan}]]
    BY <1>2 DEF TickLoads, Typed, TypeOK
  <2>6. TypeOK'
    BY <1>2, <2>2, <2>3, <2>4, <2>5 DEF TickLoads, Typed, TypeOK, disk, agents, round, news
  <2>7. PlanIsRead'
    BY <1>2 DEF Typed, TypeOK, PlanIsRead, TickLoads
  <2>. QED
    BY <2>6, <2>7 DEF Typed
<1>3. CASE TickRuns(a)
  <2>1. PICK done \in SUBSET Tasks :
          /\ status' = [t \in Tasks |-> IF MayStart(t) THEN "running"
                                        ELSE IF t \in done THEN "completed" ELSE status[t]]
          /\ lease' = [t \in Tasks |-> t \notin done /\ (MayStart(t) \/ lease[t])]
          /\ leases' = (leases \cup {t \in Tasks : MayStart(t)}) \ {t \in done : lease[t]}
    BY <1>3 DEF TickRuns
  <2>2. status' \in [Tasks -> {"absent", "pending"} \cup Started]
    BY <2>1 DEF Typed, TypeOK, Started
  <2>3. lease' \in [Tasks -> BOOLEAN] /\ leases' \subseteq Tasks
    BY <2>1 DEF Typed, TypeOK
  <2>4. work' \in [Tasks -> {"none", "provision", "path", "ask"}]
    BY <1>3 DEF TickRuns, Typed, TypeOK
  <2>5. ticker' \in [Tickers -> [pc : {"idle", "read", "loaded"}, plan : Plans \cup {NoPlan}]]
    BY <1>3 DEF TickRuns, Typed, TypeOK
  <2>6. TypeOK'
    BY <1>3, <2>2, <2>3, <2>4, <2>5 DEF TickRuns, Typed, TypeOK, disk, agents, round, news
  <2>7. PlanIsRead'
    BY <1>3 DEF Typed, TypeOK, PlanIsRead, TickRuns
  <2>. QED
    BY <2>6, <2>7 DEF Typed
<1>. QED
  BY <1>1, <1>2, <1>3 DEF Ticks

LEMMA DyingKeepsTypes ==
    ASSUME Typed, Dies
    PROVE  Typed'
<1>1. /\ status' \in [Tasks -> {"absent", "pending"} \cup Started]
      /\ deps' \in [Tasks -> SUBSET Tasks]
      /\ lease' \in [Tasks -> BOOLEAN] /\ hasPath' \in [Tasks -> BOOLEAN]
  BY DEF Dies
<1>3. /\ ticker' \in [Tickers -> [pc : {"idle", "read", "loaded"}, plan : Plans \cup {NoPlan}]]
      /\ work' \in [Tasks -> {"none", "provision", "path", "ask"}]
  BY DEF Dies
<1>5. /\ activity' \in [Tasks -> {"none", "recent", "silent", "ahead"}]
      /\ retries' \in [Tasks -> Nat]
  BY DEF Dies
<1>6. /\ plan' \in Plans \cup {NoPlan} /\ edits' \in 0..MaxEdits /\ worktrees' \subseteq Tasks
      /\ requests' \in [Tasks -> Nat] /\ crashes' \in Nat
  BY DEF Dies, Typed, TypeOK, disk
<1>7. /\ leases' \subseteq Tasks /\ awake' \in BOOLEAN
      /\ toRestart' \subseteq Tasks /\ toKill' \subseteq Tasks
      /\ hand' \in Tasks \cup {NoTask} /\ asked' \subseteq Tasks
  BY DEF Dies
<1>4. TypeOK'
  BY <1>1, <1>3, <1>5, <1>6, <1>7 DEF TypeOK
<1>2. PlanIsRead'
  BY DEF Dies, PlanIsRead
<1>. QED
  BY <1>2, <1>4 DEF Typed

LEMMA StepsKeepTypes ==
    ASSUME Typed, NEW t \in Tasks, Steps(t)
    PROVE  Typed'
<1>1. PlanIsRead'
  BY DEF Typed, PlanIsRead, Steps, Works, Provisions, ProvisionFails, SetsPath, AsksForAgent,
         GoesSilent, Cancel, Hears, Misses
<1>2. CASE Provisions(t)
  BY <1>1, <1>2 DEF Typed, TypeOK, Provisions, GoesTo, Touched, tasks, round, news
<1>3. CASE ProvisionFails(t)
  BY <1>1, <1>3, FailingKeepsTypes DEF Typed, TypeOK, ProvisionFails, GoesTo, disk, agents, round, news
<1>4. CASE SetsPath(t)
  BY <1>1, <1>4 DEF Typed, TypeOK, SetsPath, GoesTo, disk, agents, round, news
<1>5. CASE AsksForAgent(t)
  BY <1>1, <1>5 DEF Typed, TypeOK, AsksForAgent, GoesTo, disk, tasks, agents, round
<1>6. CASE GoesSilent(t)
  BY <1>1, <1>6 DEF Typed, TypeOK, GoesSilent, disk, tasks, round, news
<1>7. CASE Cancel(t)
  BY <1>1, <1>7, FailingKeepsTypes DEF Typed, TypeOK, Cancel, Forgotten, disk, round, news
<1>8. CASE Hears(t)
  BY <1>1, <1>8 DEF Typed, TypeOK, Hears, Touched, disk, tasks, round
<1>9. CASE Misses(t)
  BY <1>1, <1>9 DEF Typed, TypeOK, Misses, disk, tasks, agents, round
<1>. QED
  BY <1>2, <1>3, <1>4, <1>5, <1>6, <1>7, <1>8, <1>9 DEF Steps, Works

LEMMA RoundKeepsTypes ==
    ASSUME Typed, Supervises
    PROVE  Typed'
<1>1. CASE Wakes
  BY <1>1 DEF Typed, TypeOK, PlanIsRead, Wakes, disk, tasks, agents, news
<1>2. CASE Scans
  <2>1. /\ activity' \in [Tasks -> {"none", "recent", "silent", "ahead"}]
        /\ retries' \in [Tasks -> Nat]
    BY <1>2 DEF Typed, TypeOK, Scans, Counts
  <2>2. awake' \in BOOLEAN /\ toRestart' \subseteq Tasks /\ toKill' \subseteq Tasks
    BY <1>2 DEF Scans
  <2>. QED
    BY <1>2, <2>1, <2>2 DEF Typed, TypeOK, PlanIsRead, Scans, disk, tasks, news
<1>3. CASE GivesUp
  <2>1. hand \in Tasks
    BY <1>3 DEF GivesUp, Typed, TypeOK
  <2>2. Fails(hand) \/ UNCHANGED tasks
    BY <1>3 DEF GivesUp
  <2>. QED
    BY <1>3, <2>1, <2>2, FailingKeepsTypes
    DEF Typed, TypeOK, PlanIsRead, GivesUp, disk, tasks, agents, news
<1>4. ASSUME NEW t \in Tasks, Restarts(t) PROVE Typed'
  BY <1>4, DyingKeepsTypes
  DEF Typed, TypeOK, PlanIsRead, Restarts, disk, tasks, agents, news
<1>5. ASSUME NEW t \in Tasks, Kills(t) PROVE Typed'
  <2>1. CASE Dies
    BY <2>1, DyingKeepsTypes
  <2>2. CASE ~Dies
    <3>1. /\ Forgotten(t) /\ toKill' = toKill \ {t} /\ hand' = t
          /\ UNCHANGED <<disk, tasks, ticker, work, awake, toRestart, news, crashes>>
      BY <1>5, <2>2 DEF Kills
    <3>2. activity' \in [Tasks -> {"none", "recent", "silent", "ahead"}] /\ retries' \in [Tasks -> Nat]
      BY <3>1 DEF Typed, TypeOK, Forgotten
    <3>. QED
      BY <3>1, <3>2 DEF Typed, TypeOK, PlanIsRead, disk, tasks, news
  <2>. QED
    BY <2>1, <2>2
<1>. QED
  BY <1>1, <1>2, <1>3, <1>4, <1>5 DEF Supervises

LEMMA NextKeepsTypes == Typed /\ [Next]_vars => Typed'
<1>. SUFFICES ASSUME Typed, [Next]_vars PROVE Typed'
  OBVIOUS
<1>1. CASE Edits
  BY <1>1 DEF Typed, TypeOK, PlanIsRead, Edits, tasks, agents, round, news
<1>2. CASE Crash
  BY <1>2, DyingKeepsTypes DEF Crash
<1>3. CASE UNCHANGED vars
  BY <1>3 DEF Typed, TypeOK, PlanIsRead, vars, disk, tasks, agents, round, news
<1>. QED
  BY <1>1, <1>2, <1>3, TicksKeepTypes, StepsKeepTypes, RoundKeepsTypes DEF Next, Steps

LEMMA TypedInit == Init => Typed
<1>. SUFFICES ASSUME Init PROVE Typed
  OBVIOUS
<1>1. /\ status \in [Tasks -> {"absent", "pending"} \cup Started]
      /\ deps \in [Tasks -> SUBSET Tasks]
      /\ lease \in [Tasks -> BOOLEAN] /\ hasPath \in [Tasks -> BOOLEAN]
  BY DEF Init
<1>2. /\ ticker \in [Tickers -> [pc : {"idle", "read", "loaded"}, plan : Plans \cup {NoPlan}]]
      /\ work \in [Tasks -> {"none", "provision", "path", "ask"}]
  BY DEF Init
<1>3. /\ activity \in [Tasks -> {"none", "recent", "silent", "ahead"}]
      /\ retries \in [Tasks -> Nat] /\ requests \in [Tasks -> Nat]
  BY DEF Init
<1>4. /\ plan \in Plans \cup {NoPlan} /\ edits \in 0..MaxEdits /\ crashes \in Nat
  BY DEF Init
<1>5. /\ leases \subseteq Tasks /\ worktrees \subseteq Tasks /\ asked \subseteq Tasks
      /\ toRestart \subseteq Tasks /\ toKill \subseteq Tasks
      /\ hand \in Tasks \cup {NoTask} /\ awake \in BOOLEAN
  BY DEF Init
<1>6. PlanIsRead
  BY DEF Init, PlanIsRead
<1>. QED
  BY <1>1, <1>2, <1>3, <1>4, <1>5, <1>6 DEF Typed, TypeOK

\* Every reachable state is well typed, for any tasks, plans and bounds.
THEOREM AutopilotTypes == Spec => []TypeOK
<1>1. Typed => TypeOK
  BY DEF Typed
<1>. QED
  BY <1>1, TypedInit, NextKeepsTypes, PTL DEF Spec

-----------------------------------------------------------------------------
(* Who runs is watched: inductive as it stands.                                 *)

LEMMA TicksKeepWatch ==
    ASSUME Typed, RunningIsWatched, NEW a \in Tickers, Ticks(a)
    PROVE  RunningIsWatched'
<1>1. CASE TickReads(a)
  BY <1>1 DEF RunningIsWatched, Monitored, TickReads, tasks, agents, round
<1>2. CASE TickLoads(a)
  BY <1>2 DEF RunningIsWatched, Monitored, TickLoads, agents, round, Typed, TypeOK
<1>3. CASE TickRuns(a)
  <2>. SUFFICES ASSUME NEW t \in Tasks, status'[t] = "running"
                PROVE  work'[t] = "provision" \/ activity'[t] # "none" \/ hand' = t
    BY DEF RunningIsWatched, Monitored
  <2>1. MayStart(t) \/ status[t] = "running"
    BY <1>3 DEF TickRuns
  <2>2. work'[t] = IF MayStart(t) THEN "provision" ELSE work[t]
    BY <1>3 DEF TickRuns
  <2>. QED
    BY <1>3, <2>1, <2>2 DEF RunningIsWatched, Monitored, TickRuns, agents, round
<1>. QED
  BY <1>1, <1>2, <1>3 DEF Ticks

LEMMA StepsKeepWatch ==
    ASSUME Typed, RunningIsWatched, NEW t \in Tasks, Steps(t)
    PROVE  RunningIsWatched'
<1>. USE DEF RunningIsWatched, Monitored
<1>1. CASE Provisions(t)
  BY <1>1 DEF Typed, TypeOK, Provisions, GoesTo, Touched, tasks, round
<1>2. CASE ProvisionFails(t)
  BY <1>2 DEF Typed, TypeOK, ProvisionFails, Fails, GoesTo, agents, round
<1>3. CASE SetsPath(t)
  BY <1>3 DEF Typed, TypeOK, SetsPath, GoesTo, agents, round
<1>4. CASE AsksForAgent(t)
  BY <1>4 DEF Typed, TypeOK, AsksForAgent, GoesTo, tasks, agents, round
<1>5. CASE GoesSilent(t)
  BY <1>5 DEF Typed, TypeOK, GoesSilent, tasks, round
<1>6. CASE Cancel(t)
  BY <1>6 DEF Typed, TypeOK, Cancel, Fails, Forgotten, round
<1>7. CASE Hears(t)
  BY <1>7 DEF Typed, TypeOK, Hears, Touched, tasks, round
<1>8. CASE Misses(t)
  BY <1>8 DEF Typed, TypeOK, Misses, tasks, agents, round
<1>. QED
  BY <1>1, <1>2, <1>3, <1>4, <1>5, <1>6, <1>7, <1>8 DEF Steps, Works

LEMMA DyingKeepsWatch == Dies => RunningIsWatched'
BY DEF Dies, RunningIsWatched

LEMMA RoundKeepsWatch ==
    ASSUME Typed, RunningIsWatched, Supervises
    PROVE  RunningIsWatched'
<1>. USE DEF RunningIsWatched, Monitored
<1>1. CASE Wakes
  BY <1>1 DEF Wakes, tasks, agents
<1>2. CASE Scans
  BY <1>2 DEF Typed, TypeOK, Scans, tasks
<1>3. CASE GivesUp
  BY <1>3 DEF Typed, TypeOK, GivesUp, Fails, tasks, agents
<1>4. ASSUME NEW t \in Tasks, Restarts(t) PROVE RunningIsWatched'
  BY <1>4, DyingKeepsWatch DEF Restarts, tasks, agents
<1>5. ASSUME NEW t \in Tasks, Kills(t) PROVE RunningIsWatched'
  <2>1. CASE ~Dies
    <3>1. /\ Forgotten(t) /\ hand = NoTask /\ hand' = t
          /\ UNCHANGED <<tasks, work>>
      BY <1>5, <2>1 DEF Kills
    <3>. QED
      BY <3>1 DEF Typed, TypeOK, Forgotten, tasks
  <2>. QED
    BY <2>1, DyingKeepsWatch
<1>. QED
  BY <1>1, <1>2, <1>3, <1>4, <1>5 DEF Supervises

\* Whoever runs is being started, watched or about to be given up, for any tasks and
\* plans, any number of edits and restarts, and any interleaving with the page.
THEOREM RunningStaysWatched == Spec => []RunningIsWatched
<1>1. Init => RunningIsWatched
  BY DEF Init, RunningIsWatched
<1>2. Typed /\ RunningIsWatched /\ [Next]_vars => RunningIsWatched'
  <2>. SUFFICES ASSUME Typed, RunningIsWatched, [Next]_vars PROVE RunningIsWatched'
    OBVIOUS
  <2>1. CASE Edits
    BY <2>1 DEF RunningIsWatched, Monitored, Edits, tasks, agents, round
  <2>2. CASE Crash
    BY <2>2, DyingKeepsWatch DEF Crash
  <2>3. CASE UNCHANGED vars
    BY <2>3 DEF RunningIsWatched, Monitored, vars, tasks, agents, round
  <2>. QED
    BY <2>1, <2>2, <2>3, TicksKeepWatch, StepsKeepWatch, RoundKeepsWatch DEF Next, Steps
<1>. QED
  BY <1>1, <1>2, TypedInit, NextKeepsTypes, PTL DEF Spec

-----------------------------------------------------------------------------
(* A worktree is made before an agent is asked for, and never a second time.    *)

Begun(t) == work[t] \in {"path", "ask"}

OneWorktreeEach ==
    \A t \in Tasks :
        /\ requests[t] = 0 \/ (requests[t] = 1 /\ ~Begun(t))
        /\ requests[t] = 1 \/ Begun(t) => t \in worktrees

LEMMA NextKeepsWorktrees ==
    ASSUME Typed, OneWorktreeEach, [Next]_vars
    PROVE  OneWorktreeEach'
<1>. USE DEF OneWorktreeEach, Begun
<1>1. ASSUME NEW a \in Tickers, Ticks(a) PROVE OneWorktreeEach'
  <2>1. \A t \in Tasks : work'[t] = work[t] \/ work'[t] = "provision"
    BY <1>1 DEF Ticks, TickReads, TickLoads, TickRuns
  <2>. QED
    BY <1>1, <2>1 DEF Ticks, TickReads, TickLoads, TickRuns, disk, news
<1>2. ASSUME NEW t \in Tasks, Steps(t) PROVE OneWorktreeEach'
  <2>1. CASE Provisions(t)
    BY <2>1 DEF Typed, TypeOK, Provisions, GoesTo, news
  <2>2. CASE ProvisionFails(t)
    BY <2>2 DEF Typed, TypeOK, ProvisionFails, GoesTo, disk, news
  <2>3. CASE SetsPath(t)
    BY <2>3 DEF Typed, TypeOK, SetsPath, GoesTo, disk, news
  <2>4. CASE AsksForAgent(t)
    BY <2>4 DEF Typed, TypeOK, AsksForAgent, GoesTo, disk
  <2>5. CASE GoesSilent(t) \/ Cancel(t) \/ Hears(t) \/ Misses(t)
    BY <2>5 DEF GoesSilent, Cancel, Hears, Misses, disk, news
  <2>. QED
    BY <1>2, <2>1, <2>2, <2>3, <2>4, <2>5 DEF Steps, Works
<1>3. CASE Dies
  BY <1>3 DEF Dies, disk
<1>4. CASE Supervises
  <2>1. UNCHANGED <<worktrees, work, requests>> \/ Dies
    BY <1>4 DEF Supervises, Wakes, Scans, GivesUp, Restarts, Kills, disk, news
  <2>. QED
    BY <1>3, <2>1
<1>5. CASE Edits
  BY <1>5 DEF Edits, news
<1>6. CASE UNCHANGED vars
  BY <1>6 DEF vars, disk, news
<1>. QED
  BY <1>1, <1>2, <1>3, <1>4, <1>5, <1>6 DEF Next, Steps, Crash

\* No task ever has a second agent, however often the app ends and starts again.
THEOREM OneAgentPerTask == Spec => []OneAgentEach
<1>1. Init => OneWorktreeEach
  <2>. SUFFICES ASSUME Init, NEW t \in Tasks
                PROVE  requests[t] = 0 /\ requests[t] # 1 /\ ~Begun(t)
    BY DEF OneWorktreeEach
  <2>1. requests[t] = 0 /\ work[t] = "none"
    BY DEF Init
  <2>. QED
    BY <2>1 DEF Begun
<1>2. OneWorktreeEach => OneAgentEach
  <2>. SUFFICES ASSUME OneWorktreeEach, NEW t \in Tasks
                PROVE  requests[t] <= 1
    BY DEF OneAgentEach
  <2>1. requests[t] = 0 \/ requests[t] = 1
    BY DEF OneWorktreeEach
  <2>. QED
    BY <2>1
<1>. QED
  BY <1>1, <1>2, TypedInit, NextKeepsTypes, NextKeepsWorktrees, PTL DEF Spec

-----------------------------------------------------------------------------
(* What was started is never started over: the future of a task only works for *)
(* one that a reload keeps, and a worktree is set once it is provisioned.       *)

StartedOnce ==
    \A t \in Tasks :
        /\ hasPath[t] => status[t] \in Started
        /\ work[t] # "none" => status[t] \in Started
        /\ work[t] = "provision" => status[t] # "completed" /\ ~hasPath[t]

LEMMA TicksKeepStarts ==
    ASSUME Typed, StartedOnce, NEW a \in Tickers, Ticks(a)
    PROVE  StartedOnce'
<1>. USE DEF StartedOnce, Started
<1>1. CASE TickReads(a)
  BY <1>1 DEF TickReads, tasks
<1>2. CASE TickLoads(a)
  <2>. SUFFICES ASSUME NEW t \in Tasks
                PROVE  /\ hasPath'[t] => status'[t] \in Started
                       /\ work'[t] # "none" => status'[t] \in Started
                       /\ work'[t] = "provision" => status'[t] # "completed" /\ ~hasPath'[t]
    OBVIOUS
  <2>1. /\ hasPath'[t] = (Kept(t) /\ hasPath[t]) /\ work'[t] = work[t]
        /\ Kept(t) => status'[t] = status[t]
    BY <1>2 DEF TickLoads
  <2>. QED
    BY <2>1 DEF Kept
<1>3. CASE TickRuns(a)
  <2>. SUFFICES ASSUME NEW t \in Tasks
                PROVE  /\ hasPath'[t] => status'[t] \in Started
                       /\ work'[t] # "none" => status'[t] \in Started
                       /\ work'[t] = "provision" => status'[t] # "completed" /\ ~hasPath'[t]
    OBVIOUS
  <2>1. /\ hasPath'[t] = hasPath[t]
        /\ work'[t] = IF MayStart(t) THEN "provision" ELSE work[t]
    BY <1>3 DEF TickRuns
  <2>2. \/ MayStart(t) /\ status'[t] = "running"
        \/ ~MayStart(t) /\ status'[t] = status[t]
        \/ ~MayStart(t) /\ hasPath[t] /\ status'[t] = "completed"
    BY <1>3 DEF TickRuns
  <2>3. MayStart(t) => ~hasPath[t]
    BY DEF MayStart
  <2>. QED
    BY <2>1, <2>2, <2>3
<1>. QED
  BY <1>1, <1>2, <1>3 DEF Ticks

LEMMA FailingKeepsStarts ==
    ASSUME Typed, StartedOnce, NEW t \in Tasks, Fails(t)
    PROVE  /\ \A u \in Tasks : status'[u] = IF u = t THEN "failed" ELSE status[u]
           /\ hasPath' = hasPath
BY DEF Fails, Typed, TypeOK

LEMMA StepsKeepStarts ==
    ASSUME Typed, StartedOnce, NEW t \in Tasks, Steps(t)
    PROVE  StartedOnce'
<1>. USE DEF StartedOnce, Started
<1>1. CASE Provisions(t)
  BY <1>1 DEF Typed, TypeOK, Provisions, GoesTo, tasks
<1>2. CASE ProvisionFails(t)
  BY <1>2, FailingKeepsStarts DEF Typed, TypeOK, ProvisionFails, GoesTo
<1>3. CASE SetsPath(t)
  BY <1>3 DEF Typed, TypeOK, SetsPath, GoesTo
<1>4. CASE AsksForAgent(t)
  BY <1>4 DEF Typed, TypeOK, AsksForAgent, GoesTo, tasks
<1>5. CASE Cancel(t)
  BY <1>5, FailingKeepsStarts DEF Cancel
<1>6. CASE GoesSilent(t) \/ Hears(t) \/ Misses(t)
  BY <1>6 DEF GoesSilent, Hears, Misses, tasks
<1>. QED
  BY <1>1, <1>2, <1>3, <1>4, <1>5, <1>6 DEF Steps, Works

LEMMA NextKeepsStarts ==
    ASSUME Typed, StartedOnce, [Next]_vars
    PROVE  StartedOnce'
<1>. USE DEF StartedOnce, Started
<1>1. CASE Dies
  BY <1>1 DEF Dies
<1>2. CASE GivesUp
  <2>1. hand \in Tasks
    BY <1>2 DEF GivesUp, Typed, TypeOK
  <2>2. Fails(hand) \/ UNCHANGED tasks
    BY <1>2 DEF GivesUp
  <2>. QED
    BY <1>2, <2>1, <2>2, FailingKeepsStarts DEF GivesUp, tasks
<1>3. CASE Supervises
  <2>1. GivesUp \/ Dies \/ UNCHANGED <<tasks, work>>
    BY <1>3 DEF Supervises, Wakes, Scans, Restarts, Kills
  <2>. QED
    BY <1>1, <1>2, <2>1 DEF tasks
<1>4. CASE Edits
  BY <1>4 DEF Edits, tasks
<1>5. CASE UNCHANGED vars
  BY <1>5 DEF vars, tasks
<1>. QED
  BY <1>1, <1>3, <1>4, <1>5, TicksKeepStarts, StepsKeepStarts DEF Next, Steps, Crash

\* The end of t is kept by this step.
KeepsEnd(t) ==
    status[t] \in {"completed", "failed"} =>
        status'[t] = status[t] \/ hand = t \/ crashes' # crashes

LEMMA NextKeepsEnds ==
    ASSUME Typed, StartedOnce, [Next]_vars, NEW t \in Tasks
    PROVE  KeepsEnd(t)
<1>. USE DEF KeepsEnd
<1>1. ASSUME NEW a \in Tickers, Ticks(a) PROVE KeepsEnd(t)
  <2>1. CASE TickReads(a)
    BY <2>1 DEF TickReads, tasks
  <2>2. CASE TickLoads(a)
    BY <2>2 DEF TickLoads, Kept, Started
  <2>3. CASE TickRuns(a)
    BY <2>3 DEF TickRuns, MayStart
  <2>. QED
    BY <1>1, <2>1, <2>2, <2>3 DEF Ticks
<1>2. ASSUME NEW u \in Tasks, Steps(u) PROVE KeepsEnd(t)
  <2>1. CASE ProvisionFails(u)
    <3>1. status[u] # "completed"
      BY <2>1 DEF StartedOnce, ProvisionFails
    <3>. QED
      BY <2>1, <3>1, FailingKeepsStarts DEF ProvisionFails
  <2>2. CASE Cancel(u)
    BY <2>2, FailingKeepsStarts DEF Cancel
  <2>3. CASE ~ProvisionFails(u) /\ ~Cancel(u)
    BY <1>2, <2>3 DEF Steps, Works, Provisions, SetsPath, AsksForAgent, GoesSilent, Hears, Misses, tasks
  <2>. QED
    BY <2>1, <2>2, <2>3
<1>3. CASE Dies
  BY <1>3 DEF Dies, Typed, TypeOK
<1>4. CASE Supervises
  <2>1. CASE GivesUp
    <3>1. hand \in Tasks
      BY <2>1 DEF GivesUp, Typed, TypeOK
    <3>2. Fails(hand) \/ UNCHANGED tasks
      BY <2>1 DEF GivesUp
    <3>. QED
      BY <3>1, <3>2, FailingKeepsStarts DEF tasks
  <2>2. GivesUp \/ Dies \/ UNCHANGED tasks
    BY <1>4 DEF Supervises, Wakes, Scans, Restarts, Kills
  <2>. QED
    BY <1>3, <2>1, <2>2 DEF tasks
<1>5. CASE Edits \/ UNCHANGED vars
  BY <1>5 DEF Edits, vars, tasks
<1>. QED
  BY <1>1, <1>2, <1>3, <1>4, <1>5 DEF Next, Steps, Crash

\* No reload, tick, cancel or late future reopens a task that is over.
THEOREM EndsStayAsTheyAre == Spec => EndsAreKept
<1>1. Init => StartedOnce
  BY DEF Init, StartedOnce
<1>2. Typed /\ StartedOnce /\ [Next]_vars =>
        \A t \in Tasks : status[t] \in {"completed", "failed"} =>
          status'[t] = status[t] \/ hand = t \/ crashes' # crashes
  BY NextKeepsEnds DEF KeepsEnd
<1>. QED
  BY <1>1, <1>2, TypedInit, NextKeepsTypes, NextKeepsStarts, PTL DEF Spec, EndsAreKept
=============================================================================
