----------------------------- MODULE Orchestrator -----------------------------
(***************************************************************************)
(* The delegation core of Alethe (src-tauri/src/orchestrator_core.rs): jobs *)
(* handed to worker processes, at most maxConcurrent of them at a time, the *)
(* rest waiting in a queue.  All state sits under one mutex, so an action   *)
(* here is one lock section; what a handler does between two sections       *)
(* (starting a process, writing to its stdin) is where other threads come   *)
(* in.  The threads are the tool calls planners make, one reader per worker *)
(* process and one watchdog per process.                                    *)
(***************************************************************************)
EXTENDS Naturals, Sequences, FiniteSets

CONSTANTS
    Jobs,           \* job ids
    Procs,          \* worker processes that can ever be started
    Callers,        \* threads that serve tool calls, one planner each
    NoJob, NoProc,
    FirstLimit,     \* DEFAULT_MAX_CONCURRENT, or what the host set
    Limits,         \* the limits Preferences may apply later
    ParkedLimit,    \* PARKED_LIMIT
    MaxInbox,       \* bound: messages waiting for one worker
    MaxSends,       \* bound: calls of alethe_send
    Events          \* what planners, workers and the machine do here

ASSUME NoIds == NoJob \notin Jobs /\ NoProc \notin Procs
ASSUME LimitsArePositive ==
    /\ FirstLimit \in Nat \ {0}
    /\ Limits \subseteq Nat \ {0}
    /\ ParkedLimit \in Nat
    /\ MaxInbox \in Nat
    /\ MaxSends \in Nat
ASSUME ThreadsAreDistinct ==
    /\ Callers \cap Procs = {}
    /\ \A p \in Procs : <<"watchdog", p>> \notin Callers \cup Procs

\* The tool calls and faults an instance may name in Events.
AllEvents ==
    { "send", "cancel", "release", "answer", "settings", "check",
      "lose",                                                       \* planners
      "ask", "refuse", "die",                                       \* workers
      "launchError", "budget" }                                     \* the host

Watchdog(p) == <<"watchdog", p>>
Threads == Callers \cup Procs \cup {Watchdog(p) : p \in Procs}

Statuses == { "absent", "queued", "running", "blocked", "done", "failed",
              "cancelled", "released", "interrupted" }
Settled == {"done", "failed", "cancelled", "released", "interrupted"}
Holding == {"running", "blocked"}
Labels == { "off", "idle", "drain", "spawn", "launch", "attach", "arm",
            "staged", "followup", "revive", "checking", "stopping" }
Phases == {"unborn", "started", "opening", "live", "asking", "dead"}
Messages == {"thread", "refused", "ask", "completed", "failed", "eof"}

VARIABLES
    status, stdin, threadId, pending, inbox, startedAt,     \* Job
    order, queue, running, maxConcurrent,                   \* Inner
    deliveries, seq,                                        \* Inner, the news
    thread,         \* where each thread is, with the job and process in hand
    watch,          \* per process: the run its watchdog was armed for, or 0
    worker,         \* per process: its job, its phase, the turns it was given
    pipe,           \* per process: what its reader has not read yet
    sends,          \* calls of alethe_send made
    seen            \* the notices that reached each planner, which it acks next

jobVars == <<status, stdin, threadId, pending, inbox, startedAt>>
slotVars == <<order, queue, running, maxConcurrent>>
newsVars == <<deliveries, seq>>
procVars == <<worker, pipe>>
vars == <<jobVars, slotVars, newsVars, thread, watch, procVars, sends, seen>>

TypeOK ==
    /\ status \in [Jobs -> Statuses]
    /\ stdin \in [Jobs -> Procs \cup {NoProc}]
    /\ threadId \in [Jobs -> BOOLEAN]
    /\ pending \in [Jobs -> BOOLEAN]
    /\ inbox \in [Jobs -> Nat]
    /\ startedAt \in [Jobs -> Nat]
    /\ order \in Seq(Jobs)
    /\ DOMAIN queue \subseteq Nat /\ queue \in [DOMAIN queue -> Jobs]
    /\ running \in Nat
    /\ maxConcurrent \in Nat \ {0}
    /\ deliveries \subseteq [seq : Nat, job : Jobs, sent : BOOLEAN]
    /\ seq \in Nat
    /\ thread \in [Threads -> [pc : Labels, job : Jobs \cup {NoJob},
                               proc : Procs \cup {NoProc}]]
    /\ watch \in [Procs -> Nat]
    /\ worker \in [Procs -> [job : Jobs \cup {NoJob}, phase : Phases, todo : Nat]]
    /\ pipe \in [Procs -> Seq(Messages)]
    /\ sends \in Nat
    /\ seen \in [Callers -> SUBSET Nat]

-----------------------------------------------------------------------------
(* The queue is a VecDeque: a finite function from positions to jobs, whose *)
(* front is its least position.  retain leaves the order of the rest alone. *)

Greatest(S) == CHOOSE n \in S : \A m \in S : m <= n
Least(S) == CHOOSE n \in S : \A m \in S : n <= m

Empty(q) == DOMAIN q = {}
Front(q) == q[Least(DOMAIN q)]
PopFront(q) == [i \in DOMAIN q \ {Least(DOMAIN q)} |-> q[i]]
PushBack(q, j) ==
    LET next == IF Empty(q) THEN 1 ELSE Greatest(DOMAIN q) + 1
    IN  [i \in DOMAIN q \cup {next} |-> IF i = next THEN j ELSE q[i]]
\* Mutant: the ended job keeps its place in the queue.
KeepsItsPlace(q, j) == q
Without(q, j) == [i \in {k \in DOMAIN q : q[k] # j} |-> q[i]]
Queued(j) == \E i \in DOMAIN queue : queue[i] = j

-----------------------------------------------------------------------------
(* Threads and processes. *)

At(t, l) == thread[t].pc = l
Goto(t, l, j, p) ==
    thread' = [thread EXCEPT ![t] = [pc |-> l, job |-> j, proc |-> p]]
GoHome(t) == Goto(t, "idle", NoJob, NoProc)
ThenDrain(t) == Goto(t, "drain", NoJob, NoProc)

Exists(j) == status[j] # "absent"
Alive(p) == worker[p].phase \notin {"unborn", "dead"}

\* teardown: the child is killed and waited for; its reader still has to see
\* what the process wrote before that, and then the end of the stream.
\* Mutant: the stdin is dropped and the child forgotten, never killed.
Forgotten(S) == worker
Killed(S) ==
    [p \in Procs |-> IF p \in S /\ Alive(p)
                     THEN [worker[p] EXCEPT !.phase = "dead"] ELSE worker[p]]
Closed(pipes, S) ==
    [p \in Procs |-> IF p \in S /\ Alive(p)
                     THEN Append(pipes[p], "eof") ELSE pipes[p]]

\* A turn written to the stdin of p.
Given(p) == [worker EXCEPT ![p].todo = @ + 1]

-----------------------------------------------------------------------------
(* Job::settled, push_delivery, release_oldest_parked, finish_turn. *)

\* Mutant: a cancelled job is not over yet.
IsSettledUnlessCancelled(j) == status[j] \in Settled \ {"cancelled"}
IsSettled(j) == status[j] \in Settled

\* held_slot: a queued job never took a slot.  Mutant: as before #242.
AlwaysHoldsSlot(j) == TRUE
HoldsSlot(j) == status[j] \in Holding

\* What is left of running when j ends: saturating_sub.  Mutant: a plain minus.
MinusOne(j) == IF HoldsSlot(j) THEN running - 1 ELSE running
GivesBack(j) == IF HoldsSlot(j) /\ running > 0 THEN running - 1 ELSE running

PushDelivery(j) ==
    /\ seq' = seq + 1
    /\ deliveries' = deliveries \cup {[seq |-> seq + 1, job |-> j, sent |-> FALSE]}

Earlier(k, l) == \E a, b \in DOMAIN order : a < b /\ order[a] = k /\ order[b] = l

\* What release_oldest_parked lets go, given the statuses and the stdins the
\* handler has reached: all but the last ParkedLimit parked jobs of the order.
\* Mutant: one parked job too many is kept.
SurplusByOne(st, open) ==
    LET parked == {k \in Jobs : st[k] \in Settled /\ open[k] # NoProc}
    IN  {k \in parked :
            Cardinality({l \in parked : Earlier(k, l)}) > ParkedLimit}
Surplus(st, open) ==
    LET parked == {k \in Jobs : st[k] \in Settled /\ open[k] # NoProc}
    IN  {k \in parked :
            Cardinality({l \in parked : Earlier(k, l)}) >= ParkedLimit}

\* The message waiting longest is the next turn of a worker that is still there.
TakesNext(j, terminal) ==
    ~terminal /\ stdin[j] # NoProc /\ threadId[j] /\ inbox[j] > 0

FinishTurn(t, j, st, terminal, pipes) ==
    LET p == stdin[j]
        ended == [status EXCEPT ![j] = st]
        open == IF terminal THEN [stdin EXCEPT ![j] = NoProc] ELSE stdin
        staged == TakesNext(j, terminal)
        surplus == IF staged THEN {} ELSE Surplus(ended, open)
        torn == {stdin[k] : k \in surplus} \cup (IF terminal THEN {p} ELSE {})
    IN  /\ status' = IF staged THEN [status EXCEPT ![j] = "running"]
                     ELSE [k \in Jobs |-> IF k \in surplus THEN "released" ELSE ended[k]]
        /\ stdin' = [k \in Jobs |-> IF k \in surplus THEN NoProc ELSE open[k]]
        /\ pending' = [pending EXCEPT ![j] = FALSE]
        /\ inbox' = IF staged THEN [inbox EXCEPT ![j] = @ - 1] ELSE inbox
        /\ running' = GivesBack(j) + (IF staged THEN 1 ELSE 0)
        /\ queue' = Without(queue, j)
        /\ PushDelivery(j)
        /\ worker' = Killed(torn)
        /\ pipe' = Closed(pipes, torn)
        /\ IF staged THEN Goto(t, "staged", j, p) ELSE ThenDrain(t)
        /\ UNCHANGED <<threadId, startedAt, order, maxConcurrent, watch, sends, seen>>

\* finish on a job that is already over returns at once: no drain, no news.
Finish(t, j, st, terminal, pipes, next) ==
    \/ /\ ~IsSettled(j)
       /\ FinishTurn(t, j, st, terminal, pipes)
    \/ /\ IsSettled(j)
       /\ Goto(t, next, NoJob, NoProc)
       /\ pipe' = pipes
       /\ UNCHANGED <<jobVars, slotVars, newsVars, watch, worker, sends, seen>>

-----------------------------------------------------------------------------
(* drain_queue and spawn_worker, run by whichever thread called them. *)

\* drain_queue's lock section: the limit is read and the front popped here,
\* but the slot is only counted in SpawnStart, a later lock section.
\* Mutant: the front is popped before the limit is read.
PopsFirst(t) ==
    /\ At(t, "drain")
    /\ IF Empty(queue)
       THEN GoHome(t) /\ UNCHANGED queue
       ELSE /\ IF running >= maxConcurrent THEN GoHome(t)
               ELSE Goto(t, "spawn", Front(queue), NoProc)
            /\ queue' = PopFront(queue)
    /\ UNCHANGED <<jobVars, order, running, maxConcurrent, newsVars, watch,
                   procVars, sends, seen>>
Drain(t) ==
    /\ At(t, "drain")
    /\ IF running >= maxConcurrent \/ Empty(queue)
       THEN GoHome(t) /\ UNCHANGED queue
       ELSE /\ Goto(t, "spawn", Front(queue), NoProc)
            /\ queue' = PopFront(queue)
    /\ UNCHANGED <<jobVars, order, running, maxConcurrent, newsVars, watch,
                   procVars, sends, seen>>

\* A worker that ended while it waited in the queue stays ended, and the loop
\* goes on.  Mutant: it stops there.
SpawnGivesUp(t) ==
    /\ At(t, "spawn")
    /\ IsSettled(thread[t].job)
    /\ GoHome(t)
    /\ UNCHANGED <<jobVars, slotVars, newsVars, watch, procVars, sends, seen>>
SpawnSkips(t) ==
    /\ At(t, "spawn")
    /\ IsSettled(thread[t].job)
    /\ ThenDrain(t)
    /\ UNCHANGED <<jobVars, slotVars, newsVars, watch, procVars, sends, seen>>

SpawnStart(t) ==
    /\ At(t, "spawn")
    /\ LET j == thread[t].job
       IN  /\ ~IsSettled(j)
           /\ status' = [status EXCEPT ![j] = "running"]
           /\ startedAt' = [startedAt EXCEPT ![j] = @ + 1]
           /\ inbox' = [inbox EXCEPT ![j] = IF @ > 0 THEN @ - 1 ELSE 0]
           /\ Goto(t, "launch", j, NoProc)
    /\ running' = running + 1
    /\ UNCHANGED <<stdin, threadId, pending, order, queue, maxConcurrent,
                   newsVars, watch, procVars, sends, seen>>

Launch(t) ==
    /\ At(t, "launch")
    /\ \E p \in Procs :
          /\ worker[p].phase = "unborn"
          /\ worker' = [worker EXCEPT ![p] = [job |-> thread[t].job,
                                              phase |-> "started", todo |-> 1]]
          /\ Goto(t, "attach", thread[t].job, p)
    /\ UNCHANGED <<jobVars, slotVars, newsVars, watch, pipe, sends, seen>>

\* No launcher, a spawn error or a child without stdin.
LaunchFails(t) ==
    /\ At(t, "launch")
    /\ "launchError" \in Events \/ \A p \in Procs : worker[p].phase # "unborn"
    /\ Finish(t, thread[t].job, "failed", TRUE, pipe, "drain")

\* The process is attached whatever became of the job meanwhile.
Attach(t) ==
    /\ At(t, "attach")
    /\ stdin' = [stdin EXCEPT ![thread[t].job] = thread[t].proc]
    /\ Goto(t, "arm", thread[t].job, thread[t].proc)
    /\ UNCHANGED <<status, threadId, pending, inbox, startedAt, slotVars,
                   newsVars, watch, procVars, sends, seen>>

\* The run a watchdog answers for.  Mutant: the one before.
RunBefore(j) == IF startedAt[j] > 0 THEN startedAt[j] - 1 ELSE 0
RunOf(j) == startedAt[j]

\* The first turn is written, the watchdog armed for the run the job is in now
\* and the reader started.
Arm(t) ==
    /\ At(t, "arm")
    /\ LET p == thread[t].proc
       IN  /\ worker' = IF worker[p].phase = "started"
                        THEN [worker EXCEPT ![p].phase = "opening"] ELSE worker
           /\ watch' = IF "budget" \in Events
                       THEN [watch EXCEPT ![p] = RunOf(thread[t].job)] ELSE watch
           /\ thread' = [thread EXCEPT
                            ![p].pc = "idle",
                            ![t] = [pc |-> "drain", job |-> NoJob, proc |-> NoProc]]
    /\ UNCHANGED <<jobVars, slotVars, newsVars, pipe, sends, seen>>

\* The turn finish_turn staged: a worker that cannot take it is failed.
WriteStaged(t) ==
    /\ At(t, "staged")
    /\ LET p == thread[t].proc
       IN  \/ /\ Alive(p)
              /\ worker' = Given(p)
              /\ ThenDrain(t)
              /\ UNCHANGED <<jobVars, slotVars, newsVars, watch, pipe, sends, seen>>
           \/ /\ ~Alive(p)
              /\ Finish(t, thread[t].job, "failed", TRUE, pipe, "idle")

-----------------------------------------------------------------------------
(* The worker: another program, known by what it writes to its stdout. *)

Says(p, m) == pipe' = [pipe EXCEPT ![p] = Append(@, m)]
Becomes(p, ph, todo) ==
    worker' = [worker EXCEPT ![p].phase = ph, ![p].todo = todo]
WorkerUnchanged ==
    UNCHANGED <<jobVars, slotVars, newsVars, thread, watch, sends, seen>>

WorkerOpens(p) ==
    /\ worker[p].phase = "opening"
    /\ Says(p, "thread")
    /\ Becomes(p, "live", worker[p].todo)
    /\ WorkerUnchanged

WorkerRefuses(p) ==
    /\ "refuse" \in Events
    /\ worker[p].phase = "opening"
    /\ Says(p, "refused")
    /\ Becomes(p, "live", 0)
    /\ WorkerUnchanged

WorkerAsks(p) ==
    /\ "ask" \in Events
    /\ worker[p].phase = "live" /\ worker[p].todo > 0
    /\ Says(p, "ask")
    /\ Becomes(p, "asking", worker[p].todo)
    /\ WorkerUnchanged

\* A worker ends its turn; one that was asked to stop may do so while asking.
WorkerEndsTurn(p) ==
    /\ worker[p].phase = "live" /\ worker[p].todo > 0
    /\ \E m \in {"completed", "failed"} : Says(p, m)
    /\ Becomes(p, "live", worker[p].todo - 1)
    /\ WorkerUnchanged

WorkerDies(p) ==
    /\ "die" \in Events
    /\ Alive(p)
    /\ Says(p, "eof")
    /\ Becomes(p, "dead", worker[p].todo)
    /\ WorkerUnchanged

-----------------------------------------------------------------------------
(* The reader of p: on_worker_message, on_worker_request, and finish when   *)
(* the stream ends.  It names the job, not the process, in what it reports. *)

Hears(p, m) == At(p, "idle") /\ pipe[p] # <<>> /\ Head(pipe[p]) = m
Read(p) == [pipe EXCEPT ![p] = Tail(@)]

ReadThread(p) ==
    /\ Hears(p, "thread")
    /\ threadId' = [threadId EXCEPT ![worker[p].job] = TRUE]
    /\ pipe' = Read(p)
    /\ UNCHANGED <<status, stdin, pending, inbox, startedAt, slotVars, newsVars,
                   thread, watch, worker, sends, seen>>

\* The question is recorded and the job marked blocked, whatever it was.
ReadAsk(p) ==
    /\ Hears(p, "ask")
    /\ pending' = [pending EXCEPT ![worker[p].job] = TRUE]
    /\ status' = [status EXCEPT ![worker[p].job] = "blocked"]
    /\ pipe' = Read(p)
    /\ UNCHANGED <<stdin, threadId, inbox, startedAt, slotVars, newsVars,
                   thread, watch, worker, sends, seen>>

ReadTurnEnd(p) ==
    \/ /\ Hears(p, "completed")
       /\ Finish(p, worker[p].job, "done", FALSE, Read(p), "idle")
    \/ /\ Hears(p, "failed")
       /\ Finish(p, worker[p].job, "failed", FALSE, Read(p), "idle")

ReadRefused(p) ==
    /\ Hears(p, "refused")
    /\ Finish(p, worker[p].job, "failed", TRUE, Read(p), "idle")

ReadEof(p) ==
    /\ Hears(p, "eof")
    /\ Finish(p, worker[p].job, "failed", TRUE, Read(p), "idle")

-----------------------------------------------------------------------------
(* The watchdog of p: its check and its stop are two lock sections. *)

Expires(p) == watch[p] > 0 /\ At(Watchdog(p), "idle")

WatchdogWakes(p) ==
    LET j == worker[p].job
    IN  /\ Expires(p)
        /\ watch' = [watch EXCEPT ![p] = 0]
        /\ IF IsSettled(j) \/ startedAt[j] # watch[p]
           THEN UNCHANGED thread
           ELSE Goto(Watchdog(p), "stopping", j, NoProc)
        /\ UNCHANGED <<jobVars, slotVars, newsVars, procVars, sends, seen>>

WatchdogStops(p) ==
    /\ At(Watchdog(p), "stopping")
    /\ Finish(Watchdog(p), thread[Watchdog(p)].job, "failed", TRUE, pipe, "idle")

-----------------------------------------------------------------------------
(* dispatch_tool, for a caller c. *)

\* Ids are reserved and worktrees built before this lock section, so batches of
\* two callers may enter in either order.
Batches ==
    {<<j>> : j \in Jobs} \cup {b \in Jobs \X Jobs : b[1] # b[2]}

Delegate(c, batch) ==
    /\ At(c, "idle")
    /\ \A i \in DOMAIN batch : ~Exists(batch[i])
    /\ status' = [j \in Jobs |-> IF \E i \in DOMAIN batch : batch[i] = j
                                 THEN "queued" ELSE status[j]]
    /\ order' = order \o batch
    /\ queue' = IF Len(batch) = 1 THEN PushBack(queue, batch[1])
                ELSE PushBack(PushBack(queue, batch[1]), batch[2])
    /\ ThenDrain(c)
    /\ UNCHANGED <<stdin, threadId, pending, inbox, startedAt, running,
                   maxConcurrent, newsVars, watch, procVars, sends, seen>>

MaySend(c, j) ==
    /\ "send" \in Events
    /\ At(c, "idle")
    /\ sends < MaxSends
    /\ inbox[j] < MaxInbox
    /\ Exists(j) /\ threadId[j]

\* A worker whose process is gone is started again, in a lock section of its own.
SendFindsNoProcess(c, j) ==
    /\ MaySend(c, j)
    /\ stdin[j] = NoProc
    /\ Goto(c, "revive", j, NoProc)
    /\ sends' = sends + 1
    /\ UNCHANGED <<jobVars, slotVars, newsVars, watch, procVars, seen>>

Revive(c) ==
    /\ At(c, "revive")
    /\ LET j == thread[c].job
       IN  /\ inbox' = [inbox EXCEPT ![j] = @ + 1]
           /\ status' = [status EXCEPT ![j] = "queued"]
           /\ queue' = PushBack(queue, j)
    /\ ThenDrain(c)
    /\ UNCHANGED <<stdin, threadId, pending, startedAt, order, running,
                   maxConcurrent, newsVars, watch, procVars, sends, seen>>

SendWaits(c, j) ==
    /\ MaySend(c, j)
    /\ stdin[j] # NoProc /\ ~IsSettled(j)
    /\ inbox' = [inbox EXCEPT ![j] = @ + 1]
    /\ sends' = sends + 1
    /\ UNCHANGED <<status, stdin, threadId, pending, startedAt, slotVars,
                   newsVars, thread, watch, procVars, seen>>

\* A parked worker gets its next turn at once, if a slot is free.
SendFollowUp(c, j) ==
    /\ MaySend(c, j)
    /\ stdin[j] # NoProc /\ IsSettled(j)
    /\ running < maxConcurrent
    /\ status' = [status EXCEPT ![j] = "running"]
    /\ running' = running + 1
    /\ Goto(c, "followup", j, stdin[j])
    /\ sends' = sends + 1
    /\ UNCHANGED <<stdin, threadId, pending, inbox, startedAt, order, queue,
                   maxConcurrent, newsVars, watch, procVars, seen>>

WriteFollowUp(c) ==
    /\ At(c, "followup")
    /\ LET p == thread[c].proc
       IN  \/ /\ Alive(p)
              /\ worker' = Given(p)
              /\ GoHome(c)
              /\ UNCHANGED <<jobVars, slotVars, newsVars, watch, pipe, sends, seen>>
           \/ /\ ~Alive(p)
              /\ Finish(c, thread[c].job, "failed", TRUE, pipe, "idle")

Cancel(c, j) ==
    /\ "cancel" \in Events
    /\ At(c, "idle")
    /\ Exists(j)
    /\ Finish(c, j, "cancelled", TRUE, pipe, "idle")

\* alethe_release: every listed job that is not running, in one lock section.
Release(c, listed) ==
    /\ "release" \in Events
    /\ At(c, "idle")
    /\ LET freed == {j \in listed : Exists(j) /\ status[j] # "running"}
           torn == {stdin[j] : j \in freed}
       IN  /\ status' = [j \in Jobs |-> IF j \in freed THEN "released" ELSE status[j]]
           /\ stdin' = [j \in Jobs |-> IF j \in freed THEN NoProc ELSE stdin[j]]
           /\ worker' = Killed(torn)
           /\ pipe' = Closed(pipe, torn)
    /\ UNCHANGED <<threadId, pending, inbox, startedAt, slotVars, newsVars,
                   thread, watch, sends, seen>>

\* The question is taken before the stdin is looked at.
Answer(c, j) ==
    /\ "answer" \in Events
    /\ At(c, "idle")
    /\ Exists(j) /\ pending[j]
    /\ pending' = [pending EXCEPT ![j] = FALSE]
    /\ IF stdin[j] = NoProc THEN UNCHANGED <<status, worker>>
       ELSE /\ status' = [status EXCEPT ![j] = "running"]
            /\ worker' = IF worker[stdin[j]].phase = "asking"
                         THEN [worker EXCEPT ![stdin[j]].phase = "live"] ELSE worker
    /\ UNCHANGED <<stdin, threadId, inbox, startedAt, slotVars, newsVars,
                   thread, watch, pipe, sends, seen>>

ApplySettings(c, n) ==
    /\ "settings" \in Events
    /\ At(c, "idle")
    /\ n # maxConcurrent
    /\ maxConcurrent' = n
    /\ ThenDrain(c)
    /\ UNCHANGED <<jobVars, order, queue, running, newsVars, watch, procVars,
                   sends, seen>>

\* A planner acknowledges the last notice of the last response that reached it.
Acks(c) == IF seen[c] = {} THEN 0 ELSE Greatest(seen[c])

\* Mutant: what was handed out once is not kept.
KeptUntilSent(c) == {d \in deliveries : ~d.sent}
KeptUntilAcked(c) == {d \in deliveries : d.seq > Acks(c)}

\* alethe_check with wait: the wait lets go of the lock.
CheckStarts(c) ==
    /\ "check" \in Events
    /\ At(c, "idle")
    /\ deliveries' = KeptUntilAcked(c)
    /\ Goto(c, "checking", NoJob, NoProc)
    /\ UNCHANGED <<jobVars, slotVars, seq, watch, procVars, sends, seen>>

\* It ends because nothing is busy, on news, or on the clock; the response may not
\* reach the planner.
CheckReturns(c) ==
    /\ At(c, "checking")
    /\ deliveries' = {[d EXCEPT !.sent = TRUE] : d \in deliveries}
    /\ \/ seen' = [seen EXCEPT ![c] = @ \cup {d.seq : d \in deliveries}]
       \/ "lose" \in Events /\ UNCHANGED seen
    /\ GoHome(c)
    /\ UNCHANGED <<jobVars, slotVars, seq, watch, procVars, sends>>

-----------------------------------------------------------------------------

Init ==
    /\ status = [j \in Jobs |-> "absent"]
    /\ stdin = [j \in Jobs |-> NoProc]
    /\ threadId = [j \in Jobs |-> FALSE]
    /\ pending = [j \in Jobs |-> FALSE]
    /\ inbox = [j \in Jobs |-> 0]
    /\ startedAt = [j \in Jobs |-> 0]
    /\ order = <<>>
    /\ queue = [i \in {} |-> NoJob]
    /\ running = 0
    /\ maxConcurrent = FirstLimit
    /\ deliveries = {}
    /\ seq = 0
    /\ thread = [t \in Threads |-> [pc |-> IF t \in Procs THEN "off" ELSE "idle",
                                    job |-> NoJob, proc |-> NoProc]]
    /\ watch = [p \in Procs |-> 0]
    /\ worker = [p \in Procs |-> [job |-> NoJob, phase |-> "unborn", todo |-> 0]]
    /\ pipe = [p \in Procs |-> <<>>]
    /\ sends = 0
    /\ seen = [c \in Callers |-> {}]

\* What a thread does on its own once it has begun.
Step(t) ==
    \/ Drain(t) \/ SpawnSkips(t) \/ SpawnStart(t) \/ Launch(t) \/ LaunchFails(t)
    \/ Attach(t) \/ Arm(t) \/ WriteStaged(t)

Reads(p) == ReadThread(p) \/ ReadAsk(p) \/ ReadTurnEnd(p) \/ ReadRefused(p) \/ ReadEof(p)

WatchdogActs(p) == WatchdogWakes(p) \/ WatchdogStops(p)

WorkerActs(p) ==
    \/ WorkerOpens(p) \/ WorkerRefuses(p) \/ WorkerAsks(p)
    \/ WorkerEndsTurn(p) \/ WorkerDies(p)

CallerActs(c) ==
    \/ \E batch \in Batches : Delegate(c, batch)
    \/ \E j \in Jobs : \/ SendFindsNoProcess(c, j) \/ SendWaits(c, j)
                       \/ SendFollowUp(c, j) \/ Cancel(c, j) \/ Answer(c, j)
    \/ \E listed \in SUBSET Jobs : Release(c, listed)
    \/ \E n \in Limits : ApplySettings(c, n)
    \/ CheckStarts(c)

CallerGoesOn(c) == Revive(c) \/ WriteFollowUp(c) \/ CheckReturns(c)

Next ==
    \/ \E t \in Threads : Step(t)
    \/ \E p \in Procs : Reads(p) \/ WatchdogActs(p) \/ WorkerActs(p)
    \/ \E c \in Callers : CallerActs(c) \/ CallerGoesOn(c)

\* Threads are scheduled, timers ring and readers read; workers owe nothing but
\* the end of their stream once they are dead, planners owe nothing at all.
Fairness ==
    /\ \A t \in Threads : WF_vars(Step(t))
    /\ \A p \in Procs : WF_vars(Reads(p)) /\ WF_vars(WatchdogActs(p))
    /\ \A c \in Callers : WF_vars(CallerGoesOn(c))

Spec == Init /\ [][Next]_vars
FairSpec == Spec /\ Fairness

-----------------------------------------------------------------------------
(* Properties. *)

Draining == {"drain", "spawn", "launch", "attach", "arm"}

\* No lost wake-up: while a worker waits and a slot is free, some thread is on
\* its way through drain_queue's loop.  Nothing polls the queue, so a handler
\* that frees a slot or queues a job and forgets to drain strands the worker.
NoStrandedQueue ==
    DOMAIN queue # {} /\ running < maxConcurrent
        => \E t \in Threads : thread[t].pc \in Draining

\* A queued worker is in the queue or in the hands of the thread that popped it,
\* through revivals, late messages and ends that race with the drain.
QueuedIsComing ==
    \A j \in Jobs : status[j] = "queued" =>
        \/ Queued(j)
        \/ \E t \in Threads : thread[t].pc = "spawn" /\ thread[t].job = j

\* The running counter is exactly the number of workers that hold a slot
\* (finish_turn's held_slot), the claim #242 was about.
SlotsAreCounted == running = Cardinality({j \in Jobs : status[j] \in Holding})

\* A worker that ended is not in the queue, where a drain would start it despite
\* its ending (finish_turn's retain).
EndedIsNotQueued == \A j \in Jobs : Queued(j) => status[j] \notin Settled

\* No process escapes: one that is alive is the process of its job, or in the
\* hands of the thread that launched it.  Nobody can stop any other.
NoOrphanProcess ==
    \A p \in Procs : Alive(p) =>
        \/ stdin[worker[p].job] = p
        \/ \E t \in Threads : thread[t].pc = "attach" /\ thread[t].proc = p

\* A job that was cancelled or released has no process left, even when its end
\* overtook the spawn_worker that was starting it.
StoppedHasNoProcess ==
    \A j \in Jobs : status[j] \in {"cancelled", "released"} => stdin[j] = NoProc

\* At most ParkedLimit finished workers keep a process, whatever ends they came to
\* (release_oldest_parked).
ParkedIsBounded ==
    Cardinality({j \in Jobs : status[j] \in Settled /\ stdin[j] # NoProc}) <= ParkedLimit

\* A notice is kept until it has reached a planner, although responses get lost
\* and planners check at the same time (Delivery: "Kept until the planner
\* acknowledges its `seq`").
Notices == {d.seq : d \in deliveries}
NoticesAreSeen == [][\A n \in Notices \ Notices' : \E c \in Callers : n \in seen[c]]_vars

\* Without follow-ups, the planners get one notice per worker at most, although
\* cancel, watchdog, reader and launcher may all end the same worker (finish).
AnnouncedOnce ==
    \A d, e \in deliveries : d.job = e.job => d = e

\* Every queued worker gets its turn, or is ended, sooner or later: drain_queue is
\* called often enough, and the watchdog frees the slot of a worker that hangs.
QueuedIsServed ==
    \A j \in Jobs : status[j] = "queued" ~> status[j] # "queued"

\* No worker holds a slot for good: arm_watchdog's promise.
SlotsAreGivenBack ==
    \A j \in Jobs : status[j] \in Holding ~> status[j] \notin Holding
===============================================================================
