------------------------ MODULE OrchestratorSlotProofs ------------------------
(* The proofs about the processes and the slots of the delegation core: no  *)
(* process escapes, the counter is right, finished workers that keep their  *)
(* process are few.  All three rest on one invariant, that a worker is      *)
(* started by one thread at a time.                                         *)
EXTENDS OrchestratorProofs, FiniteSetTheorems

-----------------------------------------------------------------------------
(* One start at a time.  A worker that is about to get a process is in the   *)
(* queue once or in the hands of one thread, and has none: this is what a    *)
(* second process for the same worker would break.  alethe_send breaks it in *)
(* one way only: it takes a worker that is about to get a process for one    *)
(* whose process is gone, as both have no stdin.                             *)

Starts == {"revive", "spawn", "launch", "attach"}
InStart(t, j) == thread[t].pc \in Starts /\ thread[t].job = j
Coming(j) == Queued(j) \/ \E t \in Threads : InStart(t, j)

\* What alethe_send should ask, and does not, before it starts a worker again.
NoSecondStart ==
    \A c \in Callers, j \in Jobs : SendFindsNoProcess(c, j) => ~Coming(j)

\* Every worker somebody has in hand, or in the queue, exists.
Known ==
    /\ \A t \in Threads : thread[t].pc \in Busy => Exists(thread[t].job)
    /\ \A p \in Procs : worker[p].phase # "unborn" => Exists(worker[p].job)
    /\ \A j \in Jobs : Coming(j) \/ stdin[j] # NoProc \/ threadId[j] => Exists(j)

\* A thread starts the process of the worker it has in hand.
OwnProcess ==
    \A t \in Threads :
        thread[t].pc \in Attaching => worker[thread[t].proc].job = thread[t].job

OneStart ==
    /\ \A i, k \in DOMAIN queue : queue[i] = queue[k] => i = k
    /\ \A t, u \in Threads :
          thread[t].pc \in Starts /\ thread[u].pc \in Starts /\ thread[t].job = thread[u].job
              => t = u
    /\ \A t \in Threads : thread[t].pc \in Starts => ~Queued(thread[t].job)
    /\ \A j \in Jobs : Coming(j) => stdin[j] = NoProc

\* Until then, whoever has heard of the process of a worker knows it is started.
FirstStart ==
    sends = 0 =>
        /\ \A p \in Procs : thread[p].pc # "off" \/ watch[p] > 0 => ~Coming(worker[p].job)
        /\ \A t \in Threads : thread[t].pc \in {"arm", "stopping"} => ~Coming(thread[t].job)
        /\ \A j \in Jobs : Coming(j) => ~threadId[j]

StartInv ==
    /\ Known
    /\ OwnProcess
    /\ OneStart
    /\ FirstStart
    /\ NoOrphanProcess

\* A step that starts nothing: a thread moves on, or out of its start, the queue
\* loses some workers, and no process comes to life.
LEMMA NoNewStart ==
    ASSUME TypeInv, TypeInv', ReadersWait, StartInv, NEW t \in Threads,
           thread' = thread \/ thread[t].pc \notin {"off", "attach"},
           \/ thread' = thread
           \/ \E l, j, p : /\ l \notin Starts \cup {"off", "arm"} /\ Goto(t, l, j, p)
                           /\ l \in Busy => Exists(j) /\ j \in Jobs
                           /\ l = "stopping" /\ sends = 0 => ~Coming(j),
           \A i \in DOMAIN queue' : i \in DOMAIN queue /\ queue'[i] = queue[i],
           \A j \in Jobs : Exists(j) => Exists(j)',
           \A j \in Jobs : stdin'[j] \in {stdin[j], NoProc},
           threadId' = threadId,
           \A p \in Procs : watch'[p] > 0 => watch[p] > 0,
           sends' = 0 => sends = 0,
           \A p \in Procs : /\ worker'[p].job = worker[p].job
                            /\ worker'[p].phase = "unborn" <=> worker[p].phase = "unborn"
                            /\ Alive(p)' => Alive(p)
                            /\ Alive(p)' /\ stdin[worker[p].job] = p
                                  => stdin'[worker[p].job] = p
    PROVE  StartInv'
<1>1. /\ \A u \in Threads \ {t} : thread'[u] = thread[u]
      /\ thread'[t] = thread[t] \/ thread'[t].pc \notin Starts \cup {"off", "arm"}
  BY GotoMoves
<1>2. \A u \in Threads : thread'[u].pc \in Starts \cup {"off", "arm"} => thread'[u] = thread[u]
  BY <1>1
<1>3. \A j \in Jobs : Queued(j)' => Queued(j)
  BY DEF Queued
<1>4. \A j \in Jobs : Coming(j)' => Coming(j)
  BY <1>2, <1>3 DEF Coming, InStart
<1>5. Known'
  <2>1. ASSUME NEW u \in Threads, thread'[u].pc \in Busy PROVE status'[thread'[u].job] # "absent"
    <3>1. CASE thread'[u] = thread[u]
      <4>1. thread[u].job \in Jobs /\ Exists(thread[u].job)
        BY <2>1, <3>1 DEF StartInv, Known, TypeInv, InHand
      <4>. QED
        BY <3>1, <4>1 DEF Exists
    <3>2. CASE thread'[u] # thread[u]
      <4>1. PICK l, j, p : Goto(t, l, j, p) /\ (l \in Busy => Exists(j) /\ j \in Jobs)
        BY <3>2
      <4>2. u = t /\ thread'[t].pc = l /\ thread'[t].job = j
        BY <1>1, <3>2, <4>1 DEF Goto, TypeInv, TypeOK
      <4>. QED
        BY <2>1, <4>1, <4>2 DEF Exists
    <3>. QED
      BY <3>1, <3>2
  <2>2. \A p \in Procs : worker'[p].phase # "unborn" => status'[worker'[p].job] # "absent"
    BY DEF StartInv, Known, Exists, TypeInv, Staffed
  <2>3. \A j \in Jobs : Coming(j)' \/ stdin'[j] # NoProc \/ threadId'[j] => Exists(j)'
    BY <1>4 DEF StartInv, Known
  <2>. QED
    BY <2>1, <2>2, <2>3 DEF Known, Exists
<1>6. OwnProcess'
  <2>1. \A u \in Threads : thread[u].pc \in Attaching => thread[u].proc \in Procs
    BY DEF TypeInv, InHand, Attaching, WithProcess
  <2>2. Attaching \subseteq Starts \cup {"arm"}
    BY DEF Attaching, Starts
  <2>. QED
    BY <1>2, <2>1, <2>2 DEF StartInv, OwnProcess
<1>7. OneStart'
  <2>1. \A u \in Threads : thread'[u].pc \in Starts => thread'[u].job \in Jobs
    BY DEF TypeInv, InHand, Starts, Busy
  <2>. QED
    BY <1>2, <1>3, <1>4, <2>1 DEF StartInv, OneStart
<1>8. FirstStart'
  <2>. SUFFICES ASSUME sends' = 0 PROVE FirstStart'
    BY DEF FirstStart
  <2>0. \A j \in Jobs : ~Coming(j) => ~Coming(j)'
    BY <1>4
  <2>1. ASSUME NEW p \in Procs, thread'[p].pc # "off" \/ watch'[p] > 0,
               NEW j, j = worker'[p].job
        PROVE  ~Coming(j)'
    <3>1. (thread[p].pc # "off" \/ watch[p] > 0) /\ j = worker[p].job
      BY <1>1, <2>1, ThreadKinds
    <3>2. j \in Jobs
      BY <3>1 DEF ReadersWait, TypeInv, Staffed
    <3>. QED
      BY <2>0, <3>1, <3>2 DEF StartInv, FirstStart
  <2>2. ASSUME NEW u \in Threads, thread'[u].pc \in {"arm", "stopping"},
               NEW j, j = thread'[u].job
        PROVE  ~Coming(j)'
    <3>1. j \in Jobs
      BY <2>2 DEF TypeInv, InHand, Busy
    <3>2. CASE thread'[u] = thread[u]
      BY <2>0, <2>2, <3>1, <3>2 DEF StartInv, FirstStart
    <3>3. CASE thread'[u] # thread[u]
      <4>1. PICK l, k, p : /\ Goto(t, l, k, p) /\ l # "arm"
                           /\ l = "stopping" /\ sends = 0 => ~Coming(k)
        BY <3>3
      <4>2. u = t /\ thread'[t].pc = l /\ thread'[t].job = k
        BY <1>1, <3>3, <4>1 DEF Goto, TypeInv, TypeOK
      <4>. QED
        BY <2>0, <2>2, <3>1, <4>1, <4>2
    <3>. QED
      BY <3>2, <3>3
  <2>3. \A j \in Jobs : Coming(j)' => ~threadId'[j]
    BY <1>4 DEF StartInv, FirstStart
  <2>. QED
    BY <2>1, <2>2, <2>3 DEF FirstStart
<1>9. NoOrphanProcess'
  <2>1. ASSUME NEW p \in Procs, Alive(p)'
        PROVE  \/ stdin'[worker'[p].job] = p
               \/ \E u \in Threads : thread'[u].pc = "attach" /\ thread'[u].proc = p
    <3>1. CASE stdin[worker[p].job] = p
      BY <2>1, <3>1
    <3>2. CASE \E u \in Threads : thread[u].pc = "attach" /\ thread[u].proc = p
      BY <1>1, <3>2
    <3>. QED
      BY <2>1, <3>1, <3>2 DEF StartInv, NoOrphanProcess
  <2>. QED
    BY <2>1 DEF NoOrphanProcess
<1>. QED
  BY <1>5, <1>6, <1>7, <1>8, <1>9 DEF StartInv

\* What teardown leaves of the processes.
LEMMA KillsOnly ==
    ASSUME TypeOK, NEW S, worker' = Killed(S)
    PROVE  \A p \in Procs : /\ worker'[p].job = worker[p].job
                            /\ worker'[p].phase = "unborn" <=> worker[p].phase = "unborn"
                            /\ Alive(p)' => Alive(p) /\ p \notin S
<1>1. ASSUME NEW p \in Procs, Alive(p), p \in S PROVE ~Alive(p)'
  <2>1. worker'[p] = [worker[p] EXCEPT !.phase = "dead"]
    BY <1>1 DEF Killed
  <2>2. worker[p] \in [job : Jobs \cup {NoJob}, phase : Phases, todo : Nat]
    BY DEF TypeOK
  <2>. QED
    BY <2>1, <2>2 DEF Alive
<1>2. ASSUME NEW p \in Procs, ~Alive(p) PROVE ~Alive(p)'
  BY <1>2 DEF Alive, Killed
<1>. QED
  BY <1>1, <1>2, KillsKeepTypes

LEMMA FinishStartsNothing ==
    ASSUME TypeInv, TypeInv', ReadersWait, StartInv,
           NEW t \in Threads, thread[t].pc \notin {"off", "attach"},
           NEW j \in Jobs, Exists(j), NEW st \in Endings, NEW terminal \in BOOLEAN,
           NEW pipes, NEW next \in {"idle", "drain"},
           Finish(t, j, st, terminal, pipes, next)
    PROVE  StartInv'
<1>. DEFINE Away == Starts \cup {"off", "arm"}
<1>0. {"idle", "drain", "staged"} \cap Away = {}
  BY DEF Starts
<1>1. CASE FinishTurn(t, j, st, terminal, pipes)
  <2>. DEFINE staged == TakesNext(j, terminal)
              ended == [status EXCEPT ![j] = st]
              open == IF terminal THEN [stdin EXCEPT ![j] = NoProc] ELSE stdin
              surplus == IF staged THEN {} ELSE Surplus(ended, open)
              torn == {stdin[k] : k \in surplus} \cup (IF terminal THEN {stdin[j]} ELSE {})
  <2>1. /\ worker' = Killed(torn)
        /\ stdin' = [k \in Jobs |-> IF k \in surplus THEN NoProc ELSE open[k]]
        /\ status' = IF staged THEN [status EXCEPT ![j] = "running"]
                     ELSE [k \in Jobs |-> IF k \in surplus THEN "released" ELSE ended[k]]
        /\ UNCHANGED <<threadId, watch, sends>>
        /\ queue' = Without(queue, j)
        /\ \/ Goto(t, "staged", j, stdin[j])
           \/ Goto(t, "drain", NoJob, NoProc)
    BY <1>1 DEF FinishTurn, ThenDrain
  <2>2. \A i \in DOMAIN queue' : i \in DOMAIN queue /\ queue'[i] = queue[i]
    BY <2>1 DEF Without
  <2>3. \A k \in Jobs : Exists(k) => Exists(k)'
    BY <2>1 DEF Exists, Endings, TypeInv, TypeOK
  <2>4. \A k \in Jobs : stdin'[k] = stdin[k] \/ (stdin'[k] = NoProc /\ stdin[k] \in torn)
    BY <2>1 DEF TypeInv, TypeOK
  <2>5. ASSUME NEW p \in Procs
        PROVE  /\ worker'[p].job = worker[p].job
               /\ worker'[p].phase = "unborn" <=> worker[p].phase = "unborn"
               /\ Alive(p)' => Alive(p)
               /\ Alive(p)' /\ stdin[worker[p].job] = p => stdin'[worker[p].job] = p
    <3>. HIDE DEF torn, surplus, open, ended, staged
    <3>1. /\ worker'[p].job = worker[p].job
          /\ worker'[p].phase = "unborn" <=> worker[p].phase = "unborn"
          /\ Alive(p)' => Alive(p) /\ p \notin torn
      BY <2>1, KillsOnly DEF TypeInv
    <3>2. Alive(p) => worker[p].job \in Jobs
      BY DEF Alive, TypeInv, Staffed
    <3>. QED
      BY <2>4, <3>1, <3>2
  <2>6. \E l, k, p : /\ l \notin Starts \cup {"off", "arm"} /\ Goto(t, l, k, p)
                     /\ l \in Busy => Exists(k) /\ k \in Jobs
                     /\ l = "stopping" /\ sends = 0 => ~Coming(k)
    BY <1>0, <2>1 DEF Busy
  <2>. HIDE DEF torn, surplus, open, ended, staged
  <2>. QED
    BY <2>1, <2>2, <2>3, <2>4, <2>5, <2>6, NoNewStart
<1>2. CASE /\ Goto(t, next, NoJob, NoProc)
           /\ UNCHANGED <<jobVars, slotVars, newsVars, watch, worker, sends, seen>>
  <2>1. \E l, k, p : /\ l \notin Starts \cup {"off", "arm"} /\ Goto(t, l, k, p)
                     /\ l \in Busy => Exists(k) /\ k \in Jobs
                     /\ l = "stopping" /\ sends = 0 => ~Coming(k)
    BY <1>0, <1>2 DEF Busy
  <2>2. UNCHANGED <<status, stdin, threadId, queue, watch, worker, sends>>
    BY <1>2 DEF jobVars, slotVars
  <2>. QED
    BY <2>1, <2>2, NoNewStart DEF Exists, Alive
<1>. QED
  BY <1>1, <1>2 DEF Finish

\* Who ends a worker is neither asleep nor about to attach its process.
LEMMA EnderIsAwake ==
    ASSUME TypeInv, StartInv, NEW t \in Threads, NEW j \in Jobs, MayEnd(t, j)
    PROVE  thread[t].pc \notin {"off", "attach"} /\ Exists(j)
BY DEF MayEnd, StartInv, Known, Busy, Exists

LEMMA EndingStartsNothing ==
    ASSUME TypeInv, TypeInv', ReadersWait, StartInv, Ending
    PROVE  StartInv'
<1>1. PICK t \in Threads, j \in Jobs, st \in Endings, terminal \in BOOLEAN,
           pipes \in Remaining, next \in {"idle", "drain"} :
              MayEnd(t, j) /\ Finish(t, j, st, terminal, pipes, next)
  BY DEF Ending
<1>. QED
  BY <1>1, EnderIsAwake, FinishStartsNothing

LEMMA GivingStartsNothing ==
    ASSUME TypeInv, TypeInv', ReadersWait, StartInv, Giving
    PROVE  StartInv'
<1>1. PICK t \in Threads, p \in Procs, l \in {"idle", "drain"} :
        /\ thread[t].pc \in {"staged", "followup"}
        /\ worker' = Given(p) /\ Goto(t, l, NoJob, NoProc)
        /\ UNCHANGED <<jobVars, slotVars, newsVars, watch, pipe, sends, seen>>
  BY DEF Giving
<1>2. \A q \in Procs : worker'[q].job = worker[q].job /\ worker'[q].phase = worker[q].phase
  BY <1>1 DEF Given, TypeInv, TypeOK
<1>3. l \notin Starts \cup {"off", "arm"} /\ l \notin Busy /\ l # "stopping"
  BY DEF Starts, Busy
<1>4. UNCHANGED <<status, stdin, threadId, queue, watch, sends>>
  BY <1>1 DEF jobVars, slotVars
<1>5. \A q \in Procs : /\ worker'[q].job = worker[q].job
                       /\ worker'[q].phase = "unborn" <=> worker[q].phase = "unborn"
                       /\ Alive(q)' => Alive(q)
                       /\ Alive(q)' /\ stdin[worker[q].job] = q => stdin'[worker[q].job] = q
  BY <1>2, <1>4 DEF Alive
<1>6. \E ll, j, pp : /\ ll \notin Starts \cup {"off", "arm"} /\ Goto(t, ll, j, pp)
                     /\ ll \in Busy => Exists(j) /\ j \in Jobs
                     /\ ll = "stopping" /\ sends = 0 => ~Coming(j)
  BY <1>1, <1>3
<1>7. thread[t].pc \notin {"off", "attach"}
  BY <1>1
<1>. QED
  BY <1>4, <1>5, <1>6, <1>7, NoNewStart DEF Exists

LEMMA HearingStartsNothing ==
    ASSUME TypeInv, TypeInv', ReadersWait, StartInv, NEW p \in Procs, Hearing(p)
    PROVE  StartInv'
<1>. USE DEF jobVars, slotVars, procVars
<1>0. p \in Threads /\ Watchdog(p) \in Threads
  BY ThreadKinds
<1>1. CASE ReadThread(p)
  <2>1. /\ thread[p].pc = "idle" /\ pipe[p] # <<>> /\ worker[p].job \in Jobs
        /\ UNCHANGED <<status, stdin, queue, thread, watch, worker, sends>>
        /\ threadId' = [threadId EXCEPT ![worker[p].job] = TRUE]
    BY <1>1 DEF ReadThread, Hears, At, TypeInv, Staffed
  <2>2. Exists(worker[p].job)
    BY <2>1 DEF StartInv, Known, TypeInv, Staffed
  <2>3. \A j \in Jobs : Coming(j)' <=> Coming(j)
    BY <2>1 DEF Coming, Queued, InStart
  <2>4. \A j \in Jobs : threadId'[j] => threadId[j] \/ j = worker[p].job
    BY <2>1 DEF TypeInv, TypeOK
  <2>5. sends = 0 => ~Coming(worker[p].job)
    BY <2>1 DEF StartInv, FirstStart
  <2>6. Known' /\ OwnProcess'
    BY <2>1, <2>2, <2>3, <2>4 DEF StartInv, Known, OwnProcess, Exists
  <2>7. OneStart' /\ NoOrphanProcess'
    BY <2>1, <2>3 DEF StartInv, OneStart, NoOrphanProcess, Queued, Alive
  <2>8. FirstStart'
    BY <2>1, <2>3, <2>4, <2>5 DEF StartInv, FirstStart, Coming, Queued, InStart
  <2>. QED
    BY <2>6, <2>7, <2>8 DEF StartInv
<1>2. CASE ReadAsk(p)
  <2>1. /\ thread[p].pc = "idle" /\ thread' = thread
        /\ UNCHANGED <<stdin, threadId, queue, watch, worker, sends>>
    BY <1>2 DEF ReadAsk, Hears, At
  <2>2. \A j \in Jobs : Exists(j) => Exists(j)'
    BY <1>2 DEF ReadAsk, Exists, TypeInv, TypeOK
  <2>. QED
    BY <1>0, <2>1, <2>2, NoNewStart DEF Alive
<1>3. CASE WatchdogWakes(p)
  <2>. DEFINE w == Watchdog(p)
              j == worker[p].job
  <2>1. /\ thread[w].pc = "idle" /\ watch[p] > 0
        /\ UNCHANGED <<status, stdin, threadId, queue, worker, sends>>
        /\ watch' = [watch EXCEPT ![p] = 0]
        /\ thread' = thread \/ Goto(w, "stopping", j, NoProc)
    BY <1>3 DEF WatchdogWakes, Expires, At
  <2>2. worker[p].phase # "unborn" /\ j \in Jobs /\ Exists(j)
    BY <2>1 DEF TypeInv, Staffed, StartInv, Known
  <2>3. sends = 0 => ~Coming(j)
    BY <2>1 DEF StartInv, FirstStart
  <2>4. "stopping" \notin Starts \cup {"off", "arm"}
    BY DEF Starts
  <2>5. thread[w].pc \notin {"off", "attach"}
    BY <2>1
  <2>6. \A q \in Procs : watch'[q] > 0 => watch[q] > 0
    BY <2>1 DEF TypeInv, TypeOK
  <2>. HIDE DEF w, j
  <2>7. \/ thread' = thread
        \/ \E l, k, pp : /\ l \notin Starts \cup {"off", "arm"} /\ Goto(w, l, k, pp)
                         /\ l \in Busy => Exists(k) /\ k \in Jobs
                         /\ l = "stopping" /\ sends = 0 => ~Coming(k)
    BY <2>1, <2>2, <2>3, <2>4
  <2>8. w \in Threads
    BY <1>0 DEF w
  <2>. QED
    BY <2>1, <2>5, <2>6, <2>7, <2>8, NoNewStart DEF Exists, Alive
<1>4. CASE WorkerActs(p)
  <2>1. UNCHANGED <<status, stdin, threadId, queue, thread, watch, sends>>
    BY <1>4 DEF WorkerActs, WorkerOpens, WorkerRefuses, WorkerAsks, WorkerEndsTurn,
                WorkerDies, WorkerUnchanged
  <2>2. Alive(p)
    BY <1>4 DEF WorkerActs, WorkerOpens, WorkerRefuses, WorkerAsks, WorkerEndsTurn,
                WorkerDies, Alive
  <2>3. PICK ph \in {"live", "asking", "dead"} : \E n : Becomes(p, ph, n)
    BY <1>4 DEF WorkerActs, WorkerOpens, WorkerRefuses, WorkerAsks, WorkerEndsTurn, WorkerDies
  <2>4. PICK n : Becomes(p, ph, n)
    BY <2>3
  <2>5. \A q \in Procs : /\ worker'[q].job = worker[q].job
                         /\ worker'[q].phase = worker[q].phase \/ (q = p /\ worker'[q].phase = ph)
    BY <2>4 DEF Becomes, TypeInv, TypeOK
  <2>6. \A q \in Procs : /\ worker'[q].job = worker[q].job
                         /\ worker'[q].phase = "unborn" <=> worker[q].phase = "unborn"
                         /\ Alive(q)' => Alive(q)
                         /\ Alive(q)' /\ stdin[worker[q].job] = q => stdin'[worker[q].job] = q
    BY <2>1, <2>2, <2>5 DEF Alive
  <2>. QED
    BY <1>0, <2>1, <2>6, NoNewStart DEF Exists
<1>. QED
  BY <1>1, <1>2, <1>3, <1>4 DEF Hearing

\* A worker moves on from the queue to the thread that popped it, and with that
\* thread towards its process.
LEMMA DrainKeepsStart ==
    ASSUME TypeInv, TypeInv', ReadersWait, StartInv, NEW t \in Threads, Drain(t)
    PROVE  StartInv'
<1>. USE DEF jobVars, slotVars, procVars
<1>1. /\ thread[t].pc = "drain"
      /\ UNCHANGED <<status, stdin, threadId, watch, worker, sends>>
  BY DEF Drain, At
<1>2. CASE running >= maxConcurrent \/ Empty(queue)
  <2>1. Goto(t, "idle", NoJob, NoProc) /\ queue' = queue
    BY <1>2 DEF Drain, GoHome
  <2>2. "idle" \notin Starts \cup {"off", "arm"} /\ "idle" \notin Busy
    BY DEF Starts, Busy
  <2>. QED
    BY <1>1, <2>1, <2>2, NoNewStart DEF Exists, Alive
<1>3. CASE ~(running >= maxConcurrent \/ Empty(queue))
  <2>. DEFINE i == Least(DOMAIN queue)
              j == Front(queue)
  <2>1. /\ i \in DOMAIN queue /\ j = queue[i] /\ j \in Jobs
        /\ DOMAIN queue' = DOMAIN queue \ {i}
        /\ \A k \in DOMAIN queue' : queue'[k] = queue[k]
    <3>1. IsQueue(queue) /\ ~Empty(queue) /\ queue' = PopFront(queue)
      BY <1>3 DEF Drain, TypeInv
    <3>2. i \in DOMAIN queue
      BY <3>1, LeastIsThere DEF IsQueue, Empty
    <3>. QED
      BY <3>1, <3>2, PopKeepsQueue DEF PopFront, Front
  <2>2. Goto(t, "spawn", j, NoProc)
    BY <1>3 DEF Drain
  <2>. HIDE DEF i, j
  <2>3. /\ thread'[t].pc = "spawn" /\ thread'[t].job = j
        /\ \A u \in Threads \ {t} : thread'[u] = thread[u]
    BY <2>2 DEF Goto, TypeInv, TypeOK
  <2>4. Queued(j)
    BY <2>1 DEF Queued
  <2>5. \A k \in DOMAIN queue : queue[k] = j => k = i
    BY <2>1 DEF StartInv, OneStart
  <2>6. \A k \in Jobs : Queued(k)' <=> Queued(k) /\ k # j
    BY <2>1, <2>5 DEF Queued
  <2>7. \A u \in Threads : thread'[u].pc \in Starts
             => u = t \/ (thread'[u] = thread[u] /\ thread[u].job # j)
    BY <2>3, <2>4 DEF StartInv, OneStart
  <2>8. \A k \in Jobs : Coming(k)' <=> Coming(k)
    BY <1>1, <2>3, <2>6, <2>4 DEF Coming, InStart, Starts
  <2>9. Coming(j) /\ Exists(j)
    BY <2>1, <2>4 DEF Coming, StartInv, Known
  <2>10. Known'
    <3>1. \A u \in Threads : thread'[u].pc \in Busy => Exists(thread'[u].job)
      BY <2>3, <2>9 DEF StartInv, Known
    <3>. QED
      BY <1>1, <2>8, <3>1 DEF StartInv, Known, Exists
  <2>11. OwnProcess'
    BY <1>1, <2>3 DEF StartInv, OwnProcess, Attaching
  <2>12. OneStart'
    <3>1. \A k, l \in DOMAIN queue' : queue'[k] = queue'[l] => k = l
      BY <2>1 DEF StartInv, OneStart
    <3>2. \A u, v \in Threads :
             thread'[u].pc \in Starts /\ thread'[v].pc \in Starts /\ thread'[u].job = thread'[v].job
                 => u = v
      BY <2>3, <2>7 DEF StartInv, OneStart
    <3>3. ASSUME NEW u \in Threads, thread'[u].pc \in Starts, NEW k, k = thread'[u].job
          PROVE  ~Queued(k)'
      <4>1. k \in Jobs
        BY <3>3 DEF TypeInv, InHand, Starts, Busy
      <4>. QED
        BY <2>3, <2>6, <2>7, <3>3, <4>1 DEF StartInv, OneStart
    <3>4. \A k \in Jobs : Coming(k)' => stdin'[k] = NoProc
      BY <1>1, <2>8 DEF StartInv, OneStart
    <3>. QED
      BY <3>1, <3>2, <3>3, <3>4 DEF OneStart
  <2>13. FirstStart'
    <3>. SUFFICES ASSUME sends = 0 PROVE FirstStart'
      BY <1>1 DEF FirstStart
    <3>1. ASSUME NEW p \in Procs, thread'[p].pc # "off" \/ watch'[p] > 0,
                 NEW k, k = worker'[p].job
          PROVE  ~Coming(k)'
      <4>1. (thread[p].pc # "off" \/ watch[p] > 0) /\ k = worker[p].job
        BY <1>1, <2>3, <3>1, ThreadKinds
      <4>2. k \in Jobs
        BY <4>1 DEF ReadersWait, TypeInv, Staffed
      <4>. QED
        BY <2>8, <4>1, <4>2 DEF StartInv, FirstStart
    <3>2. ASSUME NEW u \in Threads, thread'[u].pc \in {"arm", "stopping"},
                 NEW k, k = thread'[u].job
          PROVE  ~Coming(k)'
      <4>1. k \in Jobs /\ thread'[u] = thread[u]
        BY <2>3, <3>2 DEF TypeInv, InHand, Busy
      <4>. QED
        BY <2>8, <3>2, <4>1 DEF StartInv, FirstStart
    <3>3. \A k \in Jobs : Coming(k)' => ~threadId'[k]
      BY <1>1, <2>8 DEF StartInv, FirstStart
    <3>. QED
      BY <3>1, <3>2, <3>3 DEF FirstStart
  <2>14. NoOrphanProcess'
    BY <1>1, <2>3 DEF StartInv, NoOrphanProcess, Alive
  <2>. QED
    BY <2>10, <2>11, <2>12, <2>13, <2>14 DEF StartInv
<1>. QED
  BY <1>2, <1>3

LEMMA MovesOn ==
    ASSUME TypeInv, TypeInv', ReadersWait, StartInv, NEW t \in Threads,
           thread[t].pc \in Starts, NEW l \in Starts, NEW p, Goto(t, l, thread[t].job, p),
           UNCHANGED <<queue, stdin, threadId, watch, sends>>,
           \A j \in Jobs : Exists(j) => Exists(j)',
           \A q \in Procs : worker[q].phase # "unborn"
               => worker'[q].phase # "unborn" /\ worker'[q].job = worker[q].job,
           \A q \in Procs : worker'[q].phase # "unborn" => status'[worker'[q].job] # "absent"
    PROVE  Known' /\ OneStart' /\ FirstStart'
<1>1. /\ thread'[t].pc = l /\ thread'[t].job = thread[t].job
      /\ \A u \in Threads \ {t} : thread'[u] = thread[u]
  BY DEF Goto, TypeInv, TypeOK
<1>2. \A u \in Threads : /\ thread'[u].job = thread[u].job
                         /\ thread'[u].pc \in Starts <=> thread[u].pc \in Starts
  BY <1>1
<1>3. \A j \in Jobs : (Coming(j)' <=> Coming(j)) /\ (Queued(j)' <=> Queued(j))
  BY <1>2 DEF Coming, InStart, Queued
<1>4. \A u \in Threads : thread[u].pc \in Starts => thread[u].job \in Jobs /\ Exists(thread[u].job)
  BY DEF TypeInv, InHand, Starts, Busy, StartInv, Known
<1>5. Known'
  <2>1. ASSUME NEW u \in Threads, thread'[u].pc \in Busy PROVE status'[thread'[u].job] # "absent"
    <3>1. thread[u].job \in Jobs /\ Exists(thread[u].job)
      BY <1>1, <1>4, <2>1 DEF StartInv, Known, TypeInv, InHand
    <3>. QED
      BY <1>2, <3>1 DEF Exists
  <2>2. \A j \in Jobs : Coming(j)' \/ stdin'[j] # NoProc \/ threadId'[j] => Exists(j)'
    BY <1>3 DEF StartInv, Known
  <2>. QED
    BY <2>1, <2>2 DEF Known, Exists
<1>6. OneStart'
  <2>1. ASSUME NEW u \in Threads, thread'[u].pc \in Starts, NEW k, k = thread'[u].job
        PROVE  ~Queued(k)'
    BY <1>2, <1>3, <1>4, <2>1 DEF StartInv, OneStart
  <2>. QED
    BY <1>2, <1>3, <2>1 DEF StartInv, OneStart
<1>7. FirstStart'
  <2>. SUFFICES ASSUME sends = 0 PROVE FirstStart'
    BY DEF FirstStart
  <2>1. ASSUME NEW q \in Procs, thread'[q].pc # "off" \/ watch'[q] > 0,
               NEW k, k = worker'[q].job
        PROVE  ~Coming(k)'
    <3>1. thread[q].pc # "off" \/ watch[q] > 0
      BY <1>1, <2>1, ThreadKinds DEF Starts
    <3>2. worker[q].phase # "unborn" /\ worker[q].job \in Jobs
      BY <3>1 DEF ReadersWait, TypeInv, Staffed
    <3>. QED
      BY <1>3, <2>1, <3>1, <3>2 DEF StartInv, FirstStart
  <2>2. ASSUME NEW u \in Threads, thread'[u].pc \in {"arm", "stopping"},
               NEW k, k = thread'[u].job
        PROVE  ~Coming(k)'
    <3>1. k \in Jobs /\ thread'[u] = thread[u]
      BY <1>1, <2>2 DEF TypeInv, InHand, Busy, Starts
    <3>. QED
      BY <1>3, <2>2, <3>1 DEF StartInv, FirstStart
  <2>3. \A k \in Jobs : Coming(k)' => ~threadId'[k]
    BY <1>3 DEF StartInv, FirstStart
  <2>. QED
    BY <2>1, <2>2, <2>3 DEF FirstStart
<1>. QED
  BY <1>5, <1>6, <1>7

LEMMA SpawnKeepsStart ==
    ASSUME TypeInv, TypeInv', ReadersWait, StartInv, NEW t \in Threads,
           SpawnStart(t) \/ Launch(t)
    PROVE  StartInv'
<1>. USE DEF jobVars, slotVars, procVars
<1>1. CASE SpawnStart(t)
  <2>1. /\ thread[t].pc = "spawn" /\ thread[t].job \in Jobs
        /\ Goto(t, "launch", thread[t].job, NoProc)
        /\ UNCHANGED <<queue, stdin, threadId, watch, worker, sends>>
        /\ status' = [status EXCEPT ![thread[t].job] = "running"]
    BY <1>1 DEF SpawnStart, At, TypeInv, InHand, Busy
  <2>2. \A j \in Jobs : Exists(j) => Exists(j)'
    BY <2>1 DEF Exists, TypeInv, TypeOK
  <2>3. \A q \in Procs : worker'[q].phase # "unborn" => status'[worker'[q].job] # "absent"
    BY <2>1, <2>2 DEF StartInv, Known, Exists, TypeInv, Staffed
  <2>4. Known' /\ OneStart' /\ FirstStart'
    <3>1. "spawn" \in Starts /\ "launch" \in Starts
      BY DEF Starts
    <3>2. thread[t].pc \in Starts
      BY <2>1, <3>1
    <3>. QED
      BY <2>1, <2>2, <2>3, <3>1, <3>2, MovesOn
  <2>5. \A u \in Threads : thread'[u].pc \in Attaching \/ thread[u].pc \in Attaching
             => thread'[u] = thread[u]
    BY <2>1 DEF Goto, Attaching, TypeInv, TypeOK
  <2>6. OwnProcess'
    BY <2>1, <2>5 DEF StartInv, OwnProcess
  <2>7. NoOrphanProcess'
    BY <2>1, <2>5 DEF StartInv, NoOrphanProcess, Alive, Attaching
  <2>. QED
    BY <2>4, <2>6, <2>7 DEF StartInv
<1>2. CASE Launch(t)
  <2>. DEFINE j == thread[t].job
  <2>1. PICK p \in Procs :
           /\ worker[p].phase = "unborn"
           /\ worker' = [worker EXCEPT ![p] = [job |-> j, phase |-> "started", todo |-> 1]]
           /\ Goto(t, "attach", j, p)
    BY <1>2 DEF Launch
  <2>2. /\ thread[t].pc = "launch" /\ j \in Jobs /\ Exists(j)
        /\ UNCHANGED <<status, queue, stdin, threadId, watch, sends>>
    BY <1>2 DEF Launch, At, TypeInv, InHand, Busy, StartInv, Known
  <2>3. /\ worker'[p].job = j
        /\ \A q \in Procs \ {p} : worker'[q] = worker[q]
    BY <2>1 DEF TypeInv, TypeOK
  <2>4. Known' /\ OneStart' /\ FirstStart'
    <3>1. thread[t].pc \in Starts /\ "attach" \in Starts
      BY <2>2 DEF Starts
    <3>2. \A q \in Procs : worker[q].phase # "unborn"
               => worker'[q].phase # "unborn" /\ worker'[q].job = worker[q].job
      BY <2>1, <2>3
    <3>3. \A q \in Procs : worker'[q].phase # "unborn" => status'[worker'[q].job] # "absent"
      BY <2>1, <2>2, <2>3 DEF StartInv, Known, Exists
    <3>. QED
      BY <2>1, <2>2, <3>1, <3>2, <3>3, MovesOn DEF Exists
  <2>5. /\ thread'[t].pc = "attach" /\ thread'[t].job = j /\ thread'[t].proc = p
        /\ \A u \in Threads \ {t} : thread'[u] = thread[u]
    BY <2>1 DEF Goto, TypeInv, TypeOK
  <2>6. OwnProcess'
    <3>1. \A u \in Threads : thread[u].pc \in Attaching => thread[u].proc \in Procs \ {p}
      BY <2>1 DEF TypeInv, InHand, Attaching, WithProcess
    <3>. QED
      BY <2>3, <2>5, <3>1 DEF StartInv, OwnProcess
  <2>7. NoOrphanProcess'
    <3>1. ASSUME NEW q \in Procs, Alive(q)', q # p
          PROVE  \/ stdin'[worker'[q].job] = q
                 \/ \E u \in Threads : thread'[u].pc = "attach" /\ thread'[u].proc = q
      BY <2>2, <2>3, <2>5, <3>1 DEF StartInv, NoOrphanProcess, Alive
    <3>. QED
      BY <2>5, <3>1 DEF NoOrphanProcess
  <2>. QED
    BY <2>4, <2>6, <2>7 DEF StartInv
<1>. QED
  BY <1>1, <1>2

LEMMA AttachKeepsStart ==
    ASSUME TypeInv, TypeInv', ReadersWait, StartInv, NEW t \in Threads, Attach(t)
    PROVE  StartInv'
<1>. DEFINE j == thread[t].job
            p == thread[t].proc
<1>1. /\ thread[t].pc = "attach" /\ j \in Jobs /\ p \in Procs
      /\ stdin' = [stdin EXCEPT ![j] = p]
      /\ UNCHANGED <<status, threadId, queue, watch, worker, sends>>
  BY DEF Attach, At, TypeInv, InHand, Busy, WithProcess, slotVars, procVars
<1>2. /\ thread'[t].pc = "arm" /\ thread'[t].job = j /\ thread'[t].proc = p
      /\ \A u \in Threads \ {t} : thread'[u] = thread[u]
  BY DEF Attach, Goto, TypeInv, TypeOK
<1>3. Coming(j) /\ Exists(j) /\ ~Queued(j) /\ stdin[j] = NoProc /\ worker[p].job = j
  BY <1>1 DEF Coming, InStart, Starts, Attaching, Busy, StartInv, Known, OneStart, OwnProcess
<1>4. \A u \in Threads : thread'[u].pc \in Starts
          <=> (u # t /\ thread[u].pc \in Starts)
  BY <1>1, <1>2 DEF Starts
<1>5. \A u \in Threads \ {t} : thread[u].pc \in Starts => thread[u].job # j
  BY <1>1 DEF Starts, StartInv, OneStart
<1>6. \A k \in Jobs : Coming(k)' <=> Coming(k) /\ k # j
  <2>1. \A k \in Jobs : Queued(k)' <=> Queued(k)
    BY <1>1 DEF Queued
  <2>. QED
    BY <1>1, <1>2, <1>3, <1>4, <1>5, <2>1 DEF Coming, InStart
<1>7. \A k \in Jobs : stdin'[k] = IF k = j THEN p ELSE stdin[k]
  BY <1>1 DEF TypeInv, TypeOK
<1>8. Known'
  <2>1. \A u \in Threads : thread'[u].pc \in Busy => Exists(thread'[u].job)
    BY <1>2, <1>3 DEF StartInv, Known
  <2>. QED
    BY <1>1, <1>3, <1>6, <1>7, <2>1 DEF StartInv, Known, Exists
<1>9. OwnProcess'
  BY <1>1, <1>2, <1>3 DEF StartInv, OwnProcess
<1>10. OneStart'
  <2>1. ASSUME NEW u \in Threads, thread'[u].pc \in Starts, NEW k, k = thread'[u].job
        PROVE  ~Queued(k)'
    BY <1>1, <1>2, <1>4, <2>1 DEF StartInv, OneStart, Queued
  <2>2. \A k \in Jobs : Coming(k)' => stdin'[k] = NoProc
    BY <1>6, <1>7 DEF StartInv, OneStart
  <2>3. \A u, v \in Threads :
           thread'[u].pc \in Starts /\ thread'[v].pc \in Starts /\ thread'[u].job = thread'[v].job
               => u = v
    BY <1>2, <1>4 DEF StartInv, OneStart
  <2>. QED
    BY <1>1, <2>1, <2>2, <2>3 DEF StartInv, OneStart
<1>11. FirstStart'
  <2>. SUFFICES ASSUME sends = 0 PROVE FirstStart'
    BY <1>1 DEF FirstStart
  <2>1. ASSUME NEW q \in Procs, thread'[q].pc # "off" \/ watch'[q] > 0,
               NEW k, k = worker'[q].job
        PROVE  ~Coming(k)'
    <3>1. (thread[q].pc # "off" \/ watch[q] > 0) /\ k = worker[q].job
      BY <1>1, <1>2, <2>1, ThreadKinds
    <3>2. k \in Jobs
      BY <3>1 DEF ReadersWait, TypeInv, Staffed
    <3>. QED
      BY <1>6, <3>1, <3>2 DEF StartInv, FirstStart
  <2>2. ASSUME NEW u \in Threads, thread'[u].pc \in {"arm", "stopping"},
               NEW k, k = thread'[u].job
        PROVE  ~Coming(k)'
    <3>1. k \in Jobs
      BY <2>2 DEF TypeInv, InHand, Busy
    <3>. QED
      BY <1>2, <1>6, <2>2, <3>1 DEF StartInv, FirstStart
  <2>3. \A k \in Jobs : Coming(k)' => ~threadId'[k]
    BY <1>1, <1>6 DEF StartInv, FirstStart
  <2>. QED
    BY <2>1, <2>2, <2>3 DEF FirstStart
<1>12. NoOrphanProcess'
  <2>1. ASSUME NEW q \in Procs, Alive(q)'
        PROVE  \/ stdin'[worker'[q].job] = q
               \/ \E u \in Threads : thread'[u].pc = "attach" /\ thread'[u].proc = q
    <3>1. Alive(q) /\ worker'[q] = worker[q] /\ worker[q].job \in Jobs
      BY <1>1, <2>1 DEF Alive, TypeInv, Staffed
    <3>2. CASE q = p
      BY <1>3, <1>7, <3>1, <3>2
    <3>3. CASE q # p /\ stdin[worker[q].job] = q
      BY <1>3, <1>7, <3>1, <3>3, NoIds
    <3>4. CASE q # p /\ \E u \in Threads : thread[u].pc = "attach" /\ thread[u].proc = q
      BY <1>2, <3>4
    <3>. QED
      BY <3>1, <3>2, <3>3, <3>4 DEF StartInv, NoOrphanProcess
  <2>. QED
    BY <2>1 DEF NoOrphanProcess
<1>. QED
  BY <1>8, <1>9, <1>10, <1>11, <1>12 DEF StartInv

LEMMA ArmKeepsStart ==
    ASSUME TypeInv, TypeInv', ReadersWait, StartInv, NEW t \in Threads, Arm(t)
    PROVE  StartInv'
<1>. DEFINE j == thread[t].job
            p == thread[t].proc
<1>1. /\ thread[t].pc = "arm" /\ j \in Jobs /\ p \in Procs /\ worker[p].job = j
      /\ worker[p].phase # "unborn" /\ thread[p].pc = "off" /\ p # t
      /\ UNCHANGED <<status, stdin, threadId, queue, sends>>
  BY DEF Arm, At, TypeInv, InHand, Busy, WithProcess, jobVars, slotVars, ReadersWait,
         Attaching, StartInv, OwnProcess
<1>2. /\ thread'[t].pc = "drain" /\ thread'[p].pc = "idle" /\ p \in Threads
      /\ \A u \in Threads \ {t, p} : thread'[u] = thread[u]
  BY <1>1, ThreadKinds DEF Arm, TypeInv, TypeOK
<1>3. \A q \in Procs : /\ worker'[q].job = worker[q].job
                       /\ worker'[q].phase = "unborn" <=> worker[q].phase = "unborn"
                       /\ Alive(q)' <=> Alive(q)
  <2>1. \A q \in Procs : /\ worker'[q].job = worker[q].job
                         /\ \/ worker'[q].phase = worker[q].phase
                            \/ worker[q].phase = "started" /\ worker'[q].phase = "opening"
    BY <1>1 DEF Arm, TypeInv, TypeOK
  <2>. QED
    BY <2>1 DEF Alive
<1>4. \A q \in Procs : watch'[q] > 0 => watch[q] > 0 \/ q = p
  BY <1>1 DEF Arm, TypeInv, TypeOK
<1>5. \A u \in Threads : /\ thread'[u].pc \in Starts <=> thread[u].pc \in Starts
                         /\ thread'[u].pc \in Starts \cup Busy => thread'[u] = thread[u]
  BY <1>1, <1>2 DEF Starts, Busy
<1>6. \A k \in Jobs : (Coming(k)' <=> Coming(k)) /\ (Queued(k)' <=> Queued(k))
  BY <1>1, <1>5 DEF Coming, InStart, Queued
<1>7. sends = 0 => ~Coming(j)
  BY <1>1 DEF StartInv, FirstStart
<1>8. Known'
  <2>1. ASSUME NEW u \in Threads, thread'[u].pc \in Busy PROVE Exists(thread'[u].job)
    BY <1>5, <2>1 DEF StartInv, Known
  <2>. QED
    BY <1>1, <1>3, <1>6, <2>1 DEF StartInv, Known, Exists
<1>9. OwnProcess'
  <2>1. \A u \in Threads : thread'[u].pc \in Attaching
            => thread'[u] = thread[u] /\ thread[u].proc \in Procs
    BY <1>5 DEF Attaching, Busy, TypeInv, InHand, WithProcess
  <2>. QED
    BY <1>3, <2>1 DEF StartInv, OwnProcess
<1>10. OneStart'
  <2>1. ASSUME NEW u \in Threads, thread'[u].pc \in Starts, NEW k, k = thread'[u].job
        PROVE  ~Queued(k)'
    <3>1. k \in Jobs /\ k = thread[u].job /\ thread[u].pc \in Starts
      BY <1>5, <2>1 DEF TypeInv, InHand, Starts, Busy
    <3>. QED
      BY <1>6, <3>1 DEF StartInv, OneStart
  <2>2. \A u, v \in Threads :
           thread'[u].pc \in Starts /\ thread'[v].pc \in Starts /\ thread'[u].job = thread'[v].job
               => u = v
    BY <1>5 DEF StartInv, OneStart
  <2>. QED
    BY <1>1, <1>6, <2>1, <2>2 DEF StartInv, OneStart
<1>11. FirstStart'
  <2>. SUFFICES ASSUME sends = 0 PROVE FirstStart'
    BY <1>1 DEF FirstStart
  <2>1. ASSUME NEW q \in Procs, thread'[q].pc # "off" \/ watch'[q] > 0,
               NEW k, k = worker'[q].job
        PROVE  ~Coming(k)'
    <3>1. k = worker[q].job
      BY <1>3, <2>1
    <3>2. CASE q = p
      BY <1>1, <1>6, <1>7, <3>1, <3>2
    <3>3. CASE q # p
      <4>1. thread[q].pc # "off" \/ watch[q] > 0
        BY <1>1, <1>2, <1>4, <2>1, <3>3, ThreadKinds
      <4>2. k \in Jobs
        BY <3>1, <4>1 DEF ReadersWait, TypeInv, Staffed
      <4>. QED
        BY <1>6, <3>1, <4>1, <4>2 DEF StartInv, FirstStart
    <3>. QED
      BY <3>2, <3>3
  <2>2. ASSUME NEW u \in Threads, thread'[u].pc \in {"arm", "stopping"},
               NEW k, k = thread'[u].job
        PROVE  ~Coming(k)'
    <3>1. k \in Jobs /\ thread'[u] = thread[u]
      BY <1>5, <2>2 DEF TypeInv, InHand, Busy
    <3>. QED
      BY <1>6, <2>2, <3>1 DEF StartInv, FirstStart
  <2>3. \A k \in Jobs : Coming(k)' => ~threadId'[k]
    BY <1>1, <1>6 DEF StartInv, FirstStart
  <2>. QED
    BY <2>1, <2>2, <2>3 DEF FirstStart
<1>12. NoOrphanProcess'
  BY <1>1, <1>2, <1>3 DEF StartInv, NoOrphanProcess
<1>. QED
  BY <1>8, <1>9, <1>10, <1>11, <1>12 DEF StartInv

LEMMA StartingKeepsStart ==
    ASSUME TypeInv, TypeInv', ReadersWait, StartInv, NEW t \in Threads, Starting(t)
    PROVE  StartInv'
<1>1. CASE SpawnSkips(t)
  <2>1. /\ thread[t].pc = "spawn" /\ Goto(t, "drain", NoJob, NoProc)
        /\ UNCHANGED <<status, stdin, threadId, queue, watch, worker, sends>>
    BY <1>1 DEF SpawnSkips, At, ThenDrain, jobVars, slotVars, procVars
  <2>2. "drain" \notin Starts \cup {"off", "arm"} /\ "drain" \notin Busy
    BY DEF Starts, Busy
  <2>. QED
    BY <2>1, <2>2, NoNewStart DEF Exists, Alive
<1>. QED
  BY <1>1, DrainKeepsStart, SpawnKeepsStart, AttachKeepsStart, ArmKeepsStart DEF Starting

NoRepeat(q) == \A i, k \in DOMAIN q : q[i] = q[k] => i = k

LEMMA PushBackKeepsApart ==
    ASSUME NEW q, IsQueue(q), NoRepeat(q), NEW j \in Jobs, ~InQueue(q, j)
    PROVE  /\ NoRepeat(PushBack(q, j))
           /\ \A k : InQueue(PushBack(q, j), k) <=> InQueue(q, k) \/ k = j
<1>1. PICK n : n \notin DOMAIN q /\ PushBack(q, j) = [i \in DOMAIN q \cup {n} |->
                                                        IF i = n THEN j ELSE q[i]]
  BY PushBackIs
<1>. QED
  BY <1>1 DEF NoRepeat, InQueue

LEMMA DelegateKeepsStart ==
    ASSUME TypeInv, TypeInv', ReadersWait, StartInv, NEW c \in Callers,
           NEW batch \in Batches, Delegate(c, batch)
    PROVE  StartInv'
<1>. DEFINE New(k) == \E i \in DOMAIN batch : batch[i] = k
<1>1. \/ batch = <<batch[1]>> /\ Len(batch) = 1 /\ batch[1] \in Jobs
      \/ /\ batch = <<batch[1], batch[2]>> /\ Len(batch) = 2
         /\ batch[1] \in Jobs /\ batch[2] \in Jobs /\ batch[1] # batch[2]
  BY DEF Batches
<1>2. /\ c \in Threads /\ thread[c].pc = "idle"
      /\ UNCHANGED <<stdin, threadId, watch, worker, sends>>
      /\ \A k \in Jobs : New(k) => ~Exists(k)
      /\ \A k \in Jobs : Exists(k)' <=> Exists(k) \/ New(k)
  BY ThreadKinds DEF Delegate, At, procVars, Exists
<1>3. /\ thread'[c].pc = "drain"
      /\ \A u \in Threads \ {c} : thread'[u] = thread[u]
  BY <1>2, GotoMoves DEF Delegate, ThenDrain
<1>4. \A k \in Jobs : New(k) => ~InQueue(queue, k) /\ ~Coming(k)
  BY <1>2 DEF StartInv, Known, Coming, Queued, InQueue
<1>5. /\ NoRepeat(queue')
      /\ \A k \in Jobs : InQueue(queue', k) <=> InQueue(queue, k) \/ New(k)
  <2>1. IsQueue(queue) /\ NoRepeat(queue)
    BY DEF TypeInv, StartInv, OneStart, NoRepeat
  <2>2. CASE batch = <<batch[1]>> /\ Len(batch) = 1 /\ batch[1] \in Jobs
    <3>1. queue' = PushBack(queue, batch[1])
      BY <2>2 DEF Delegate
    <3>2. \A k : New(k) <=> k = batch[1]
      BY <2>2
    <3>. HIDE DEF New
    <3>. QED
      BY <1>4, <2>1, <2>2, <3>1, <3>2, PushBackKeepsApart
  <2>3. CASE /\ batch = <<batch[1], batch[2]>> /\ Len(batch) = 2
             /\ batch[1] \in Jobs /\ batch[2] \in Jobs /\ batch[1] # batch[2]
    <3>1. queue' = PushBack(PushBack(queue, batch[1]), batch[2])
      BY <2>3 DEF Delegate
    <3>2. \A k : New(k) <=> k = batch[1] \/ k = batch[2]
      BY <2>3
    <3>. HIDE DEF New
    <3>. DEFINE q == PushBack(queue, batch[1])
    <3>3. /\ IsQueue(q) /\ NoRepeat(q)
          /\ \A k : InQueue(q, k) <=> InQueue(queue, k) \/ k = batch[1]
      BY <1>4, <2>1, <2>3, <3>2, PushBackKeepsApart, QueueOperators
    <3>4. ~InQueue(q, batch[2])
      BY <1>4, <2>3, <3>2, <3>3
    <3>. HIDE DEF q
    <3>5. /\ NoRepeat(PushBack(q, batch[2]))
          /\ \A k : InQueue(PushBack(q, batch[2]), k) <=> InQueue(q, k) \/ k = batch[2]
      BY <2>3, <3>3, <3>4, PushBackKeepsApart
    <3>. QED
      BY <3>1, <3>2, <3>3, <3>5 DEF q
  <2>. QED
    BY <1>1, <2>2, <2>3
<1>. HIDE DEF New
<1>6. \A u \in Threads : thread'[u].pc \in Busy => thread'[u] = thread[u]
  BY <1>2, <1>3 DEF Busy
<1>7. Starts \cup {"arm", "stopping"} \subseteq Busy /\ Attaching \subseteq Busy
  BY DEF Starts, Busy, Attaching
<1>8. \A u \in Threads : thread[u].pc \in Busy => thread'[u] = thread[u]
  BY <1>2, <1>3 DEF Busy
<1>9. \A k \in Jobs : (Coming(k)' <=> Coming(k) \/ New(k)) /\ (Queued(k)' <=> Queued(k) \/ New(k))
  BY <1>5, <1>6, <1>7, <1>8 DEF Coming, InStart, Queued, InQueue
<1>10. Known'
  <2>1. ASSUME NEW u \in Threads, thread'[u].pc \in Busy PROVE status'[thread'[u].job] # "absent"
    <3>1. thread'[u] = thread[u] /\ thread[u].job \in Jobs /\ Exists(thread[u].job)
      BY <1>6, <2>1 DEF StartInv, Known, TypeInv, InHand
    <3>. QED
      BY <1>2, <3>1 DEF Exists
  <2>2. ASSUME NEW p \in Procs, worker'[p].phase # "unborn" PROVE status'[worker'[p].job] # "absent"
    <3>1. worker[p].job \in Jobs /\ Exists(worker[p].job)
      BY <1>2, <2>2 DEF StartInv, Known, TypeInv, Staffed
    <3>. QED
      BY <1>2, <3>1 DEF Exists
  <2>3. \A k \in Jobs : Coming(k)' \/ stdin'[k] # NoProc \/ threadId'[k] => Exists(k)'
    BY <1>2, <1>9 DEF StartInv, Known
  <2>. QED
    BY <2>1, <2>2, <2>3 DEF Known, Exists
<1>11. OwnProcess'
  BY <1>2, <1>6, <1>7 DEF StartInv, OwnProcess
<1>12. OneStart'
  <2>1. ASSUME NEW u \in Threads, thread'[u].pc \in Starts, NEW k, k = thread'[u].job
        PROVE  ~Queued(k)'
    <3>1. thread'[u] = thread[u] /\ k \in Jobs /\ Exists(k)
      BY <1>6, <1>7, <2>1 DEF TypeInv, InHand, StartInv, Known
    <3>2. ~New(k) /\ ~Queued(k)
      BY <1>2, <2>1, <3>1 DEF StartInv, OneStart
    <3>. QED
      BY <1>9, <3>1, <3>2
  <2>2. \A u, v \in Threads :
           thread'[u].pc \in Starts /\ thread'[v].pc \in Starts /\ thread'[u].job = thread'[v].job
               => u = v
    BY <1>6, <1>7 DEF StartInv, OneStart
  <2>3. \A k \in Jobs : Coming(k)' => stdin'[k] = NoProc
    BY <1>2, <1>9 DEF StartInv, OneStart, Known
  <2>. QED
    BY <1>5, <2>1, <2>2, <2>3 DEF OneStart, NoRepeat
<1>13. FirstStart'
  <2>. SUFFICES ASSUME sends = 0 PROVE FirstStart'
    BY <1>2 DEF FirstStart
  <2>1. ASSUME NEW q \in Procs, thread'[q].pc # "off" \/ watch'[q] > 0,
               NEW k, k = worker'[q].job
        PROVE  ~Coming(k)'
    <3>1. thread[q].pc # "off" \/ watch[q] > 0
      BY <1>2, <1>3, <2>1, ThreadKinds
    <3>2. k \in Jobs /\ k = worker[q].job /\ Exists(k)
      BY <1>2, <2>1, <3>1 DEF ReadersWait, TypeInv, Staffed, StartInv, Known
    <3>. QED
      BY <1>2, <1>9, <3>1, <3>2 DEF StartInv, FirstStart
  <2>2. ASSUME NEW u \in Threads, thread'[u].pc \in {"arm", "stopping"},
               NEW k, k = thread'[u].job
        PROVE  ~Coming(k)'
    <3>1. k \in Jobs /\ thread'[u] = thread[u] /\ Exists(k)
      BY <1>6, <1>7, <2>2 DEF TypeInv, InHand, StartInv, Known
    <3>. QED
      BY <1>2, <1>9, <2>2, <3>1 DEF StartInv, FirstStart
  <2>3. \A k \in Jobs : Coming(k)' => ~threadId'[k]
    BY <1>2, <1>9 DEF StartInv, FirstStart, Known
  <2>. QED
    BY <2>1, <2>2, <2>3 DEF FirstStart
<1>14. NoOrphanProcess'
  BY <1>2, <1>3 DEF StartInv, NoOrphanProcess, Alive
<1>. QED
  BY <1>10, <1>11, <1>12, <1>13, <1>14 DEF StartInv

LEMMA ReviveKeepsStart ==
    ASSUME TypeInv, TypeInv', ReadersWait, StartInv, NEW c \in Callers, Revive(c)
    PROVE  StartInv'
<1>. DEFINE j == thread[c].job
<1>1. /\ c \in Threads /\ thread[c].pc = "revive" /\ j \in Jobs
      /\ UNCHANGED <<stdin, threadId, watch, worker, sends>>
      /\ queue' = PushBack(queue, j)
      /\ status' = [status EXCEPT ![j] = "queued"]
  BY ThreadKinds DEF Revive, At, procVars, TypeInv, InHand, Busy
<1>2. /\ thread'[c].pc = "drain"
      /\ \A u \in Threads \ {c} : thread'[u] = thread[u]
  BY <1>1, GotoMoves DEF Revive, ThenDrain
<1>3. Coming(j) /\ ~Queued(j) /\ Exists(j)
  BY <1>1 DEF Coming, InStart, Starts, StartInv, OneStart, Known, Busy
<1>4. /\ NoRepeat(queue')
      /\ \A k : InQueue(queue', k) <=> InQueue(queue, k) \/ k = j
  BY <1>1, <1>3, PushBackKeepsApart DEF TypeInv, StartInv, OneStart, NoRepeat, Queued, InQueue
<1>5. \A u \in Threads : thread'[u].pc \in Busy => u # c /\ thread'[u] = thread[u]
  BY <1>1, <1>2 DEF Busy
<1>6. Starts \cup {"arm", "stopping"} \subseteq Busy /\ Attaching \subseteq Busy
  BY DEF Starts, Busy, Attaching
<1>7. \A k \in Jobs : (Coming(k)' <=> Coming(k)) /\ (Queued(k)' <=> Queued(k) \/ k = j)
  BY <1>1, <1>2, <1>3, <1>4, <1>5, <1>6 DEF Coming, InStart, Queued, InQueue, Starts
<1>8. \A k \in Jobs : Exists(k)' <=> Exists(k)
  BY <1>1, <1>3 DEF Exists, TypeInv, TypeOK
<1>9. Known'
  <2>1. ASSUME NEW u \in Threads, thread'[u].pc \in Busy PROVE status'[thread'[u].job] # "absent"
    <3>1. thread'[u] = thread[u] /\ thread[u].job \in Jobs /\ Exists(thread[u].job)
      BY <1>5, <2>1 DEF StartInv, Known, TypeInv, InHand
    <3>. QED
      BY <1>8, <3>1 DEF Exists
  <2>2. ASSUME NEW p \in Procs, worker'[p].phase # "unborn" PROVE status'[worker'[p].job] # "absent"
    <3>1. worker[p].job \in Jobs /\ Exists(worker[p].job)
      BY <1>1, <2>2 DEF StartInv, Known, TypeInv, Staffed
    <3>. QED
      BY <1>1, <1>8, <3>1 DEF Exists
  <2>3. \A k \in Jobs : Coming(k)' \/ stdin'[k] # NoProc \/ threadId'[k] => Exists(k)'
    BY <1>1, <1>7, <1>8 DEF StartInv, Known
  <2>. QED
    BY <2>1, <2>2, <2>3 DEF Known, Exists
<1>10. OwnProcess'
  BY <1>1, <1>5, <1>6 DEF StartInv, OwnProcess
<1>11. OneStart'
  <2>1. ASSUME NEW u \in Threads, thread'[u].pc \in Starts, NEW k, k = thread'[u].job
        PROVE  ~Queued(k)'
    <3>1. u # c /\ thread'[u] = thread[u] /\ k \in Jobs
      BY <1>5, <1>6, <2>1 DEF TypeInv, InHand
    <3>2. k # j /\ ~Queued(k)
      BY <1>1, <2>1, <3>1 DEF StartInv, OneStart, Starts
    <3>. QED
      BY <1>7, <3>1, <3>2
  <2>2. \A u, v \in Threads :
           thread'[u].pc \in Starts /\ thread'[v].pc \in Starts /\ thread'[u].job = thread'[v].job
               => u = v
    BY <1>5, <1>6 DEF StartInv, OneStart
  <2>3. \A k \in Jobs : Coming(k)' => stdin'[k] = NoProc
    BY <1>1, <1>7 DEF StartInv, OneStart
  <2>. QED
    BY <1>4, <2>1, <2>2, <2>3 DEF OneStart, NoRepeat
<1>12. FirstStart'
  <2>. SUFFICES ASSUME sends = 0 PROVE FirstStart'
    BY <1>1 DEF FirstStart
  <2>1. ASSUME NEW q \in Procs, thread'[q].pc # "off" \/ watch'[q] > 0,
               NEW k, k = worker'[q].job
        PROVE  ~Coming(k)'
    <3>1. (thread[q].pc # "off" \/ watch[q] > 0) /\ k = worker[q].job
      BY <1>1, <1>2, <2>1, ThreadKinds
    <3>2. k \in Jobs
      BY <3>1 DEF ReadersWait, TypeInv, Staffed
    <3>. QED
      BY <1>7, <3>1, <3>2 DEF StartInv, FirstStart
  <2>2. ASSUME NEW u \in Threads, thread'[u].pc \in {"arm", "stopping"},
               NEW k, k = thread'[u].job
        PROVE  ~Coming(k)'
    <3>1. k \in Jobs /\ thread'[u] = thread[u]
      BY <1>5, <1>6, <2>2 DEF TypeInv, InHand
    <3>. QED
      BY <1>7, <2>2, <3>1 DEF StartInv, FirstStart
  <2>3. \A k \in Jobs : Coming(k)' => ~threadId'[k]
    BY <1>1, <1>7 DEF StartInv, FirstStart
  <2>. QED
    BY <2>1, <2>2, <2>3 DEF FirstStart
<1>13. NoOrphanProcess'
  BY <1>1, <1>2 DEF StartInv, NoOrphanProcess, Alive
<1>. QED
  BY <1>9, <1>10, <1>11, <1>12, <1>13 DEF StartInv

\* The one step that starts a worker again.
LEMMA SendKeepsStart ==
    ASSUME TypeInv, TypeInv', ReadersWait, StartInv, NoSecondStart, NEW c \in Callers,
           NEW j \in Jobs, SendFindsNoProcess(c, j)
    PROVE  StartInv'
<1>1. /\ c \in Threads /\ thread[c].pc = "idle" /\ threadId[j] /\ stdin[j] = NoProc /\ Exists(j)
      /\ sends' = sends + 1
      /\ UNCHANGED <<status, stdin, threadId, queue, watch, worker>>
  BY ThreadKinds DEF SendFindsNoProcess, MaySend, At, jobVars, slotVars, procVars
<1>2. sends' # 0
  BY <1>1 DEF TypeInv, TypeOK
<1>3. ~Coming(j)
  BY DEF NoSecondStart
<1>4. /\ thread'[c].pc = "revive" /\ thread'[c].job = j
      /\ \A u \in Threads \ {c} : thread'[u] = thread[u]
  BY <1>1 DEF SendFindsNoProcess, Goto, TypeInv, TypeOK
<1>5. \A u \in Threads : thread'[u].pc \in Busy => u = c \/ thread'[u] = thread[u]
  BY <1>4
<1>6. \A k \in Jobs : (Coming(k)' <=> Coming(k) \/ k = j) /\ (Queued(k)' <=> Queued(k))
  BY <1>1, <1>4 DEF Coming, InStart, Queued, Starts
<1>7. Known'
  <2>1. \A u \in Threads : thread'[u].pc \in Busy => Exists(thread'[u].job)
    BY <1>1, <1>4 DEF StartInv, Known
  <2>. QED
    BY <1>1, <1>6, <2>1 DEF StartInv, Known, Exists
<1>8. OwnProcess'
  BY <1>1, <1>4 DEF StartInv, OwnProcess, Attaching
<1>9. OneStart'
  <2>1. \A u \in Threads : thread[u].pc \in Starts => thread[u].job # j
    BY <1>3 DEF Coming, InStart
  <2>2. ~Queued(j)
    BY <1>3 DEF Coming
  <2>3. ASSUME NEW u \in Threads, thread'[u].pc \in Starts, NEW k, k = thread'[u].job
        PROVE  ~Queued(k)'
    BY <1>1, <1>4, <2>2, <2>3 DEF StartInv, OneStart, Queued
  <2>4. \A u, v \in Threads :
           thread'[u].pc \in Starts /\ thread'[v].pc \in Starts /\ thread'[u].job = thread'[v].job
               => u = v
    BY <1>4, <2>1 DEF StartInv, OneStart
  <2>5. \A k \in Jobs : Coming(k)' => stdin'[k] = NoProc
    BY <1>1, <1>6 DEF StartInv, OneStart
  <2>. QED
    BY <1>1, <2>3, <2>4, <2>5 DEF StartInv, OneStart
<1>10. FirstStart'
  BY <1>2 DEF FirstStart
<1>11. NoOrphanProcess'
  BY <1>1, <1>4 DEF StartInv, NoOrphanProcess, Alive
<1>. QED
  BY <1>7, <1>8, <1>9, <1>10, <1>11 DEF StartInv

LEMMA CallingKeepsStart ==
    ASSUME TypeInv, TypeInv', ReadersWait, StartInv, NoSecondStart, NEW c \in Callers,
           Calling(c)
    PROVE  StartInv'
<1>. USE DEF jobVars, slotVars, procVars
<1>0. c \in Threads /\ sends \in Nat
  BY ThreadKinds DEF TypeInv, TypeOK
<1>1. ASSUME NEW l \in {"followup", "drain", "checking", "idle"}, NEW j, NEW p,
             Goto(c, l, j, p), l = "followup" => Exists(j) /\ j \in Jobs,
             thread[c].pc \in {"idle", "checking"},
             \A k \in Jobs : Exists(k) => Exists(k)',
             UNCHANGED <<stdin, threadId, queue, watch, worker>>, sends <= sends'
      PROVE  StartInv'
  <2>1. l \notin Starts \cup {"off", "arm"} /\ (l \in Busy => l = "followup")
    BY DEF Starts, Busy
  <2>2. sends' = 0 => sends = 0
    BY <1>0, <1>1 DEF TypeInv, TypeOK
  <2>. QED
    BY <1>0, <1>1, <2>1, <2>2, NoNewStart DEF Alive
<1>2. ASSUME NEW j \in Jobs, SendFollowUp(c, j) PROVE StartInv'
  <2>1. /\ Goto(c, "followup", j, stdin[j]) /\ Exists(j) /\ thread[c].pc = "idle"
        /\ UNCHANGED <<stdin, threadId, queue, watch, worker>> /\ sends <= sends'
    BY <1>0, <1>2 DEF SendFollowUp, MaySend, At
  <2>2. \A k \in Jobs : Exists(k) => Exists(k)'
    BY <1>2 DEF SendFollowUp, Exists, TypeInv, TypeOK
  <2>. QED
    BY <1>1, <2>1, <2>2
<1>3. ASSUME NEW j \in Jobs, SendWaits(c, j) PROVE StartInv'
  <2>1. /\ UNCHANGED <<status, stdin, threadId, queue, watch, worker, thread>>
        /\ sends' = sends + 1
    BY <1>3 DEF SendWaits
  <2>2. sends' = 0 => sends = 0
    BY <1>0, <2>1
  <2>. QED
    BY <1>0, <2>1, <2>2, NoNewStart DEF Exists, Alive
<1>4. ASSUME NEW j \in Jobs, Answer(c, j) PROVE StartInv'
  <2>1. UNCHANGED <<stdin, threadId, queue, watch, thread, sends>>
    BY <1>4 DEF Answer
  <2>2. \A k \in Jobs : Exists(k) => Exists(k)'
    BY <1>4 DEF Answer, Exists, TypeInv, TypeOK
  <2>3. \A p \in Procs : /\ worker'[p].job = worker[p].job
                         /\ \/ worker'[p].phase = worker[p].phase
                            \/ worker[p].phase = "asking" /\ worker'[p].phase = "live"
    <3>1. \/ worker' = worker
          \/ /\ worker[stdin[j]].phase = "asking"
             /\ worker' = [worker EXCEPT ![stdin[j]].phase = "live"]
      BY <1>4 DEF Answer
    <3>2. worker \in [Procs -> [job : Jobs \cup {NoJob}, phase : Phases, todo : Nat]]
      BY DEF TypeInv, TypeOK
    <3>. QED
      BY <3>1, <3>2
  <2>4. \A p \in Procs : /\ worker'[p].job = worker[p].job
                         /\ worker'[p].phase = "unborn" <=> worker[p].phase = "unborn"
                         /\ Alive(p)' => Alive(p)
                         /\ Alive(p)' /\ stdin[worker[p].job] = p => stdin'[worker[p].job] = p
    BY <2>1, <2>3 DEF Alive
  <2>. QED
    BY <1>0, <2>1, <2>2, <2>4, NoNewStart
<1>5. ASSUME NEW listed \in SUBSET Jobs, Release(c, listed) PROVE StartInv'
  <2>. DEFINE freed == {j \in listed : Exists(j) /\ status[j] # "running"}
              torn == {stdin[j] : j \in freed}
  <2>1. /\ UNCHANGED <<threadId, queue, watch, thread, sends>>
        /\ stdin' = [j \in Jobs |-> IF j \in freed THEN NoProc ELSE stdin[j]]
        /\ worker' = Killed(torn)
    BY <1>5 DEF Release
  <2>2. \A k \in Jobs : Exists(k) => Exists(k)'
    BY <1>5 DEF Release, Exists
  <2>3. \A k \in Jobs : stdin'[k] = stdin[k] \/ (stdin'[k] = NoProc /\ stdin[k] \in torn)
    BY <2>1
  <2>4. ASSUME NEW p \in Procs
        PROVE  /\ worker'[p].job = worker[p].job
               /\ worker'[p].phase = "unborn" <=> worker[p].phase = "unborn"
               /\ Alive(p)' => Alive(p)
               /\ Alive(p)' /\ stdin[worker[p].job] = p => stdin'[worker[p].job] = p
    <3>. HIDE DEF torn, freed
    <3>1. /\ worker'[p].job = worker[p].job
          /\ worker'[p].phase = "unborn" <=> worker[p].phase = "unborn"
          /\ Alive(p)' => Alive(p) /\ p \notin torn
      BY <2>1, KillsOnly DEF TypeInv
    <3>2. Alive(p) => worker[p].job \in Jobs
      BY DEF Alive, TypeInv, Staffed
    <3>. QED
      BY <2>3, <3>1, <3>2
  <2>. HIDE DEF torn, freed
  <2>. QED
    BY <1>0, <2>1, <2>2, <2>3, <2>4, NoNewStart
<1>6. CASE (\E n \in Limits : ApplySettings(c, n)) \/ CheckStarts(c) \/ CheckReturns(c)
  <2>1. /\ \E l \in {"drain", "checking", "idle"} : Goto(c, l, NoJob, NoProc)
        /\ thread[c].pc \in {"idle", "checking"}
        /\ UNCHANGED <<status, stdin, threadId, queue, watch, worker, sends>>
    BY <1>6 DEF ApplySettings, CheckStarts, CheckReturns, At, ThenDrain, GoHome
  <2>2. \A k \in Jobs : Exists(k) => Exists(k)'
    BY <2>1 DEF Exists
  <2>. QED
    BY <1>0, <1>1, <2>1, <2>2
<1>. QED
  BY <1>2, <1>3, <1>4, <1>5, <1>6, DelegateKeepsStart, ReviveKeepsStart, SendKeepsStart
  DEF Calling

LEMMA NextKeepsStart ==
    ASSUME TypeInv, TypeInv', QueueInv, StartInv, [Next]_vars, [NoSecondStart]_vars
    PROVE  StartInv'
<1>1. CASE UNCHANGED vars
  BY <1>1 DEF vars, jobVars, slotVars, procVars, StartInv, Known, OwnProcess, OneStart,
              FirstStart, NoOrphanProcess, Coming, InStart, Queued, Exists, Alive
<1>2. CASE Next /\ NoSecondStart
  BY <1>2, StepKinds, EndingStartsNothing, GivingStartsNothing, StartingKeepsStart,
     HearingStartsNothing, CallingKeepsStart DEF QueueInv
<1>. QED
  BY <1>1, <1>2

LEMMA StartInvInit == Init => StartInv
<1>. SUFFICES ASSUME Init PROVE StartInv
  OBVIOUS
<1>1. /\ \A t \in Threads : thread[t].pc \in {"off", "idle"}
      /\ \A p \in Procs : worker[p].phase = "unborn"
      /\ \A j \in Jobs : stdin[j] = NoProc /\ ~threadId[j]
      /\ \A j \in Jobs : ~Queued(j)
      /\ DOMAIN queue = {}
  BY DEF Init, Queued
<1>2. \A j : ~Coming(j)
  BY <1>1 DEF Coming, InStart, Starts, Queued
<1>. QED
  BY <1>1, <1>2 DEF StartInv, Known, OwnProcess, OneStart, FirstStart, NoOrphanProcess, Alive,
                    Busy, Attaching, Starts

LEMMA StartInvAlways == Spec /\ [][NoSecondStart]_vars => [](TypeInv /\ QueueInv /\ StartInv)
<1>1. TypeInv /\ TypeInv' /\ QueueInv /\ StartInv /\ [Next]_vars /\ [NoSecondStart]_vars => StartInv'
  BY NextKeepsStart
<1>. QED
  BY <1>1, StartInvInit, TypeInvInit, NextKeepsTypes, QueueInvAlways, PTL DEF Spec

\* No process escapes: what spawn_worker starts is the process of its worker, or
\* in the hands of the thread that is about to attach it, so that a cancel, a
\* release or the watchdog can still reach it, however often workers are started
\* again, ended and written to.  The one step that breaks it is alethe_send's when
\* it starts a worker again that is being started already.
THEOREM NoProcessEscapes == Spec /\ [][NoSecondStart]_vars => []NoOrphanProcess
<1>1. StartInv => NoOrphanProcess
  BY DEF StartInv
<1>. QED
  BY <1>1, StartInvAlways, PTL

-----------------------------------------------------------------------------
(* The counter is the number of workers that hold a slot.  A worker takes   *)
(* its slot once: whoever holds one has a process, or is in the hands of    *)
(* the thread that is starting it, and is neither queued nor about to be.   *)
(* Beside a second start, two steps break it: a question that is read when  *)
(* its worker holds no slot any more, and a release of a blocked worker.    *)

\* What on_worker_request should ask before it marks the worker blocked.
NoLateQuestion == \A p \in Procs : ReadAsk(p) => HoldsSlot(worker[p].job)

\* What alethe_release should not let go without giving its slot back.
NoBlockedRelease ==
    \A c \in Callers, listed \in SUBSET Jobs :
        Release(c, listed) => \A j \in listed : status[j] # "blocked"

SlotsKept == NoSecondStart /\ NoLateQuestion /\ NoBlockedRelease

Holders == {j \in Jobs : status[j] \in Holding}

Placed(j) ==
    /\ stdin[j] # NoProc \/ \E t \in Threads : thread[t].pc \in {"launch", "attach"} /\ thread[t].job = j
    /\ ~Queued(j)
    /\ \A t \in Threads : thread[t].job = j => thread[t].pc \notin {"revive", "spawn"}

\* A worker whose question waits holds its slot.
QuestionsHold == \A j \in Jobs : pending[j] => j \in Holders

SlotsInv ==
    /\ QuestionsHold
    /\ \A j \in Holders : Placed(j)
    /\ IsFiniteSet(Holders)
    /\ SlotsAreCounted

\* A step of t on its way from or to a process leaves the other workers in place.
LEMMA PlacedStays ==
    ASSUME TypeInv, NEW t \in Threads, NEW j \in Jobs, Placed(j),
           ~(thread[t].pc \in {"launch", "attach"} /\ thread[t].job = j),
           thread' = thread \/ (\E l, k, p : Goto(t, l, k, p) /\ (l \in {"revive", "spawn"} => k # j)),
           \A i \in DOMAIN queue' : i \in DOMAIN queue /\ queue'[i] = queue[i],
           stdin[j] # NoProc => stdin'[j] # NoProc
    PROVE  Placed(j)'
<1>1. /\ \A u \in Threads \ {t} : thread'[u] = thread[u]
      /\ thread'[t] = thread[t] \/ (thread'[t].job = j => thread'[t].pc \notin {"revive", "spawn"})
  BY DEF Goto, TypeInv, TypeOK
<1>2. ~Queued(j)'
  BY DEF Placed, Queued
<1>3. \A u \in Threads : thread'[u].job = j => thread'[u].pc \notin {"revive", "spawn"}
  BY <1>1 DEF Placed
<1>4. \/ stdin'[j] # NoProc
      \/ \E u \in Threads : thread'[u].pc \in {"launch", "attach"} /\ thread'[u].job = j
  BY <1>1 DEF Placed
<1>. QED
  BY <1>2, <1>3, <1>4 DEF Placed

LEMMA TakesSlot ==
    ASSUME TypeInv, SlotsInv, NEW j \in Jobs, Holders' = Holders \cup {j},
           running' = IF j \in Holders THEN running ELSE running + 1
    PROVE  IsFiniteSet(Holders)' /\ SlotsAreCounted'
<1>1. /\ IsFiniteSet(Holders \cup {j})
      /\ Cardinality(Holders \cup {j}) =
            IF j \in Holders THEN Cardinality(Holders) ELSE Cardinality(Holders) + 1
  BY FS_AddElement DEF SlotsInv
<1>2. running = Cardinality(Holders)
  BY DEF SlotsInv, SlotsAreCounted, Holders
<1>3. running' = Cardinality(Holders')
  BY <1>1, <1>2
<1>. QED
  BY <1>1, <1>3 DEF SlotsAreCounted, Holders

LEMMA GivesSlotBack ==
    ASSUME TypeInv, SlotsInv, NEW j \in Jobs
    PROVE  /\ IsFiniteSet(Holders \ {j})
           /\ GivesBack(j) + 1 = IF j \in Holders THEN running ELSE running + 1
           /\ GivesBack(j) + 0 = Cardinality(Holders \ {j})
<1>1. /\ IsFiniteSet(Holders \ {j})
      /\ Cardinality(Holders \ {j}) =
            IF j \in Holders THEN Cardinality(Holders) - 1 ELSE Cardinality(Holders)
  BY FS_RemoveElement DEF SlotsInv
<1>2. running = Cardinality(Holders) /\ running \in Nat
  BY DEF SlotsInv, SlotsAreCounted, Holders, TypeInv, TypeOK
<1>3. Cardinality(Holders \ {j}) \in Nat
  BY <1>1, FS_CardinalityType
<1>4. CASE j \in Holders
  <2>1. HoldsSlot(j) /\ Cardinality(Holders \ {j}) = running - 1
    BY <1>1, <1>2, <1>4 DEF Holders, HoldsSlot
  <2>2. running > 0
    BY <1>2, <1>3, <2>1
  <2>3. GivesBack(j) = running - 1
    BY <2>1, <2>2 DEF GivesBack
  <2>. QED
    BY <1>1, <1>2, <1>4, <2>1, <2>3
<1>5. CASE j \notin Holders
  <2>1. ~HoldsSlot(j)
    BY <1>5 DEF Holders, HoldsSlot
  <2>2. GivesBack(j) = running
    BY <2>1 DEF GivesBack
  <2>. QED
    BY <1>1, <1>2, <1>5, <2>2
<1>. QED
  BY <1>4, <1>5

\* A step that ends nobody and starts nobody.
LEMMA QuietSlots ==
    ASSUME TypeInv, SlotsInv, NEW t \in Threads, running' = running, pending' = pending,
           \A j \in Jobs : status'[j] = status[j] \/ {status[j], status'[j]} \cap Holding = {},
           thread' = thread \/ (\E l, k, p : /\ Goto(t, l, k, p)
                                             /\ l \in {"revive", "spawn"} => k \notin Holders),
           \A j \in Holders : ~(thread[t].pc \in {"launch", "attach"} /\ thread[t].job = j),
           \A i \in DOMAIN queue' : i \in DOMAIN queue /\ queue'[i] = queue[i],
           \A j \in Holders : stdin[j] # NoProc => stdin'[j] # NoProc
    PROVE  SlotsInv'
<1>1. Holders' = Holders /\ QuestionsHold'
  <2>1. Holders' = Holders
    BY DEF Holders
  <2>. QED
    BY <2>1 DEF QuestionsHold, SlotsInv
<1>2. ASSUME NEW j \in Holders PROVE Placed(j)'
  <2>1. j \in Jobs /\ Placed(j)
    BY DEF Holders, SlotsInv
  <2>2. thread' = thread \/ (\E l, k, p : Goto(t, l, k, p) /\ (l \in {"revive", "spawn"} => k # j))
    OBVIOUS
  <2>. QED
    BY <2>1, <2>2, PlacedStays
<1>3. IsFiniteSet(Holders)' /\ SlotsAreCounted'
  BY <1>1 DEF SlotsInv, SlotsAreCounted, Holders
<1>. QED
  BY <1>1, <1>2, <1>3 DEF SlotsInv

LEMMA EndingKeepsSlots ==
    ASSUME TypeInv, StartInv, SlotsInv, Ending
    PROVE  SlotsInv'
<1>1. PICK t \in Threads, j \in Jobs, st \in Endings, terminal \in BOOLEAN,
           pipes \in Remaining, next \in {"idle", "drain"} :
              MayEnd(t, j) /\ Finish(t, j, st, terminal, pipes, next)
  BY DEF Ending
<1>2. \A k \in Jobs : thread[t].pc \in {"launch", "attach"} /\ thread[t].job = k => k = j
  BY <1>1 DEF MayEnd
<1>3. CASE FinishTurn(t, j, st, terminal, pipes) /\ TakesNext(j, terminal)
  <2>1. /\ status' = [status EXCEPT ![j] = "running"] /\ stdin' = stdin /\ stdin[j] # NoProc
        /\ queue' = Without(queue, j) /\ running' = GivesBack(j) + 1
        /\ pending' = [pending EXCEPT ![j] = FALSE]
        /\ Goto(t, "staged", j, stdin[j])
    BY <1>3 DEF FinishTurn, TakesNext, TypeInv, TypeOK
  <2>2. Holders' = Holders \cup {j} /\ QuestionsHold'
    <3>1. Holders' = Holders \cup {j}
      BY <2>1 DEF Holders, Holding, TypeInv, TypeOK
    <3>2. \A k \in Jobs : k # j => pending'[k] = pending[k]
      BY <2>1 DEF TypeInv, TypeOK
    <3>. QED
      BY <3>1, <3>2 DEF QuestionsHold, SlotsInv
  <2>3. running' = IF j \in Holders THEN running ELSE running + 1
    BY <2>1, GivesSlotBack
  <2>4. \A i \in DOMAIN queue' : i \in DOMAIN queue /\ queue'[i] = queue[i] /\ queue[i] # j
    BY <2>1 DEF Without
  <2>5. ASSUME NEW k \in Holders, k # j PROVE Placed(k)'
    <3>1. k \in Jobs /\ Placed(k)
      BY <2>5 DEF Holders, SlotsInv
    <3>. QED
      BY <1>2, <2>1, <2>4, <2>5, <3>1, PlacedStays
  <2>6. Placed(j)'
    <3>1. ~Coming(j)
      BY <2>1 DEF StartInv, OneStart
    <3>2. \A u \in Threads \ {t} : thread'[u] = thread[u]
      BY <2>1, GotoMoves
    <3>3. thread'[t].pc = "staged"
      BY <2>1 DEF Goto, TypeInv, TypeOK
    <3>4. \A u \in Threads : thread'[u].job = j => thread'[u].pc \notin {"revive", "spawn"}
      BY <3>1, <3>2, <3>3 DEF Coming, InStart, Starts
    <3>. QED
      BY <2>1, <2>4, <3>4 DEF Placed, Queued
  <2>7. \A k \in Holders' : Placed(k)'
    BY <2>2, <2>5, <2>6
  <2>. QED
    BY <2>2, <2>3, <2>7, TakesSlot DEF SlotsInv
<1>4. CASE FinishTurn(t, j, st, terminal, pipes) /\ ~TakesNext(j, terminal)
  <2>. DEFINE ended == [status EXCEPT ![j] = st]
              open == IF terminal THEN [stdin EXCEPT ![j] = NoProc] ELSE stdin
              surplus == Surplus(ended, open)
  <2>1. /\ status' = [k \in Jobs |-> IF k \in surplus THEN "released" ELSE ended[k]]
        /\ stdin' = [k \in Jobs |-> IF k \in surplus THEN NoProc ELSE open[k]]
        /\ queue' = Without(queue, j) /\ running' = GivesBack(j) + 0
        /\ pending' = [pending EXCEPT ![j] = FALSE]
        /\ Goto(t, "drain", NoJob, NoProc)
    BY <1>4 DEF FinishTurn, ThenDrain
  <2>2. /\ st \notin Holding
        /\ \A k \in surplus : ended[k] \notin Holding
    BY DEF Surplus, Settled, Holding, Endings
  <2>. HIDE DEF surplus
  <2>3. ASSUME NEW k \in Jobs
        PROVE  /\ k = j => status'[k] \notin Holding
               /\ k # j => /\ status'[k] \in Holding <=> status[k] \in Holding
                           /\ status[k] \in Holding => stdin'[k] = stdin[k]
    <3>1. ended[k] = (IF k = j THEN st ELSE status[k])
      BY DEF TypeInv, TypeOK
    <3>2. k # j => open[k] = stdin[k]
      BY DEF TypeInv, TypeOK
    <3>3. "released" \notin Holding
      BY DEF Holding
    <3>. HIDE DEF ended, open
    <3>. QED
      BY <2>1, <2>2, <3>1, <3>2, <3>3
  <2>4. Holders' = Holders \ {j} /\ QuestionsHold'
    <3>1. Holders' = Holders \ {j}
      BY <2>3 DEF Holders
    <3>2. \A k \in Jobs : IF k = j THEN ~pending'[k] ELSE pending'[k] = pending[k]
      BY <2>1 DEF TypeInv, TypeOK
    <3>. QED
      BY <3>1, <3>2 DEF QuestionsHold, SlotsInv
  <2>5. \A i \in DOMAIN queue' : i \in DOMAIN queue /\ queue'[i] = queue[i]
    BY <2>1 DEF Without
  <2>. HIDE DEF open, ended
  <2>6. ASSUME NEW k \in Holders, k # j PROVE Placed(k)'
    <3>1. k \in Jobs /\ Placed(k) /\ stdin'[k] = stdin[k]
      BY <2>3, <2>6 DEF Holders, SlotsInv
    <3>2. ~(thread[t].pc \in {"launch", "attach"} /\ thread[t].job = k)
      BY <1>2, <2>6, <3>1
    <3>3. \E l, i, p : Goto(t, l, i, p) /\ (l \in {"revive", "spawn"} => i # k)
      BY <2>1
    <3>. QED
      BY <2>5, <3>1, <3>2, <3>3, PlacedStays
  <2>7. IsFiniteSet(Holders)' /\ SlotsAreCounted'
    <3>1. running' = Cardinality(Holders') /\ IsFiniteSet(Holders')
      BY <2>1, <2>4, GivesSlotBack
    <3>. QED
      BY <3>1 DEF SlotsAreCounted, Holders
  <2>. QED
    BY <2>4, <2>6, <2>7 DEF SlotsInv
<1>5. CASE IsSettled(j) /\ Goto(t, next, NoJob, NoProc) /\ UNCHANGED <<jobVars, slotVars>>
  <2>1. j \notin Holders
    BY <1>5 DEF IsSettled, Holders, Holding, Settled
  <2>2. \A k \in Holders : ~(thread[t].pc \in {"launch", "attach"} /\ thread[t].job = k)
    BY <1>2, <2>1 DEF Holders
  <2>3. \E l, k, p : Goto(t, l, k, p) /\ (l \in {"revive", "spawn"} => k \notin Holders)
    BY <1>5
  <2>. QED
    BY <1>5, <2>2, <2>3, QuietSlots DEF jobVars, slotVars
<1>. QED
  BY <1>1, <1>3, <1>4, <1>5 DEF Finish

LEMMA GivingKeepsSlots ==
    ASSUME TypeInv, SlotsInv, Giving
    PROVE  SlotsInv'
<1>1. PICK t \in Threads, l \in {"idle", "drain"} :
        /\ thread[t].pc \in {"staged", "followup"}
        /\ Goto(t, l, NoJob, NoProc) /\ UNCHANGED <<jobVars, slotVars>>
  BY DEF Giving
<1>2. \E ll, k, p : Goto(t, ll, k, p) /\ (ll \in {"revive", "spawn"} => k \notin Holders)
  BY <1>1
<1>. QED
  BY <1>1, <1>2, QuietSlots DEF jobVars, slotVars

LEMMA StartingKeepsSlots ==
    ASSUME TypeInv, ReadersWait, StartInv, SlotsInv, NEW t \in Threads, Starting(t)
    PROVE  SlotsInv'
<1>. USE DEF jobVars, slotVars
<1>1. CASE Drain(t)
  <2>1. thread[t].pc = "drain" /\ UNCHANGED <<status, stdin, running, pending>>
    BY <1>1 DEF Drain, At
  <2>2. CASE Goto(t, "idle", NoJob, NoProc) /\ queue' = queue
    <3>1. \E l, k, p : Goto(t, l, k, p) /\ (l \in {"revive", "spawn"} => k \notin Holders)
      BY <2>2
    <3>. QED
      BY <2>1, <2>2, <3>1, QuietSlots
  <2>3. CASE Goto(t, "spawn", Front(queue), NoProc) /\ queue' = PopFront(queue) /\ ~Empty(queue)
    <3>1. /\ Queued(Front(queue))
          /\ \A i \in DOMAIN queue' : i \in DOMAIN queue /\ queue'[i] = queue[i]
      BY <2>3, LeastIsThere DEF TypeInv, IsQueue, Front, PopFront, Empty, Queued
    <3>2. Front(queue) \notin Holders
      BY <3>1 DEF SlotsInv, Placed
    <3>3. \E l, k, p : Goto(t, l, k, p) /\ (l \in {"revive", "spawn"} => k \notin Holders)
      BY <2>3, <3>2
    <3>. QED
      BY <2>1, <3>1, <3>3, QuietSlots
  <2>. QED
    BY <1>1, <2>2, <2>3 DEF Drain, GoHome
<1>2. CASE SpawnSkips(t)
  <2>1. /\ thread[t].pc = "spawn" /\ UNCHANGED <<status, stdin, running, queue, pending>>
        /\ Goto(t, "drain", NoJob, NoProc)
    BY <1>2 DEF SpawnSkips, At, ThenDrain
  <2>2. \E l, k, p : Goto(t, l, k, p) /\ (l \in {"revive", "spawn"} => k \notin Holders)
    BY <2>1
  <2>. QED
    BY <2>1, <2>2, QuietSlots
<1>3. CASE SpawnStart(t)
  <2>. DEFINE j == thread[t].job
  <2>1. /\ thread[t].pc = "spawn" /\ j \in Jobs
        /\ status' = [status EXCEPT ![j] = "running"]
        /\ Goto(t, "launch", j, NoProc) /\ running' = running + 1
        /\ UNCHANGED <<stdin, queue, pending>>
    BY <1>3 DEF SpawnStart, At, TypeInv, InHand, Busy
  <2>2. Holders' = Holders \cup {j} /\ QuestionsHold'
    <3>1. Holders' = Holders \cup {j}
      BY <2>1 DEF Holders, Holding, TypeInv, TypeOK
    <3>. QED
      BY <2>1, <3>1 DEF QuestionsHold, SlotsInv
  <2>3. j \notin Holders
    BY <2>1 DEF SlotsInv, Placed
  <2>4. ASSUME NEW k \in Holders PROVE Placed(k)'
    <3>1. k \in Jobs /\ Placed(k) /\ k # j
      BY <2>3 DEF Holders, SlotsInv
    <3>. QED
      BY <2>1, <3>1, PlacedStays
  <2>5. ASSUME NEW k, k = j PROVE Placed(k)'
    <3>1. ~Queued(k) /\ \A u \in Threads : thread[u].pc \in Starts /\ thread[u].job = k => u = t
      BY <2>1, <2>5 DEF StartInv, OneStart, Starts
    <3>2. /\ \A u \in Threads \ {t} : thread'[u] = thread[u]
          /\ thread'[t].pc = "launch" /\ thread'[t].job = k
      BY <2>1, <2>5 DEF Goto, TypeInv, TypeOK
    <3>. QED
      BY <2>1, <3>1, <3>2 DEF Placed, Queued, Starts
  <2>. QED
    BY <2>1, <2>2, <2>3, <2>4, <2>5, TakesSlot DEF SlotsInv
<1>4. CASE Launch(t) \/ Attach(t)
  <2>. DEFINE j == thread[t].job
  <2>1. /\ j \in Jobs /\ UNCHANGED <<status, running, queue, pending>>
        /\ \/ /\ thread[t].pc = "launch" /\ stdin' = stdin
              /\ \E p \in Procs : Goto(t, "attach", j, p)
           \/ /\ thread[t].pc = "attach" /\ stdin' = [stdin EXCEPT ![j] = thread[t].proc]
              /\ thread[t].proc \in Procs
              /\ Goto(t, "arm", j, thread[t].proc)
    BY <1>4 DEF Launch, Attach, At, TypeInv, InHand, Busy, WithProcess
  <2>2. Holders' = Holders /\ QuestionsHold'
    BY <2>1 DEF Holders, QuestionsHold, SlotsInv
  <2>3. /\ \A u \in Threads \ {t} : thread'[u] = thread[u]
        /\ thread'[t].job = j /\ thread'[t].pc \in {"attach", "arm"}
        /\ thread'[t].pc = "attach" \/ stdin'[j] # NoProc
        /\ \A k \in Jobs \ {j} : stdin'[k] = stdin[k]
    BY <2>1, NoIds DEF Goto, TypeInv, TypeOK
  <2>4. ASSUME NEW k \in Holders PROVE Placed(k)'
    <3>1. k \in Jobs /\ Placed(k)
      BY DEF Holders, SlotsInv
    <3>2. \/ stdin'[k] # NoProc
          \/ \E u \in Threads : thread'[u].pc \in {"launch", "attach"} /\ thread'[u].job = k
      <4>1. CASE k = j
        BY <2>3, <4>1
      <4>2. CASE k # j
        BY <2>3, <3>1, <4>2 DEF Placed
      <4>. QED
        BY <4>1, <4>2
    <3>3. \A u \in Threads : thread'[u].job = k => thread'[u].pc \notin {"revive", "spawn"}
      BY <2>3, <3>1 DEF Placed
    <3>. QED
      BY <2>1, <3>1, <3>2, <3>3 DEF Placed, Queued
  <2>. QED
    BY <2>1, <2>2, <2>4 DEF SlotsInv, SlotsAreCounted, Holders
<1>5. CASE Arm(t)
  <2>1. thread[t].pc = "arm" /\ UNCHANGED <<status, stdin, running, queue, pending>>
    BY <1>5 DEF Arm, At
  <2>2. /\ thread[t].proc \in Procs /\ thread[thread[t].proc].pc = "off"
        /\ thread[t].proc \in Threads
    BY <2>1, ThreadKinds DEF TypeInv, InHand, WithProcess, ReadersWait, Attaching
  <2>3. \A u \in Threads : \/ thread'[u] = thread[u]
                           \/ /\ thread[u].pc \notin {"launch", "attach"}
                              /\ thread'[u].pc \in {"idle", "drain"}
    BY <1>5, <2>1, <2>2 DEF Arm, TypeInv, TypeOK
  <2>4. ASSUME NEW k \in Holders PROVE Placed(k)'
    <3>1. k \in Jobs /\ Placed(k)
      BY DEF Holders, SlotsInv
    <3>. QED
      BY <2>1, <2>3, <3>1 DEF Placed, Queued
  <2>. QED
    BY <2>1, <2>4 DEF SlotsInv, SlotsAreCounted, Holders, QuestionsHold
<1>. QED
  BY <1>1, <1>2, <1>3, <1>4, <1>5 DEF Starting

LEMMA HearingKeepsSlots ==
    ASSUME TypeInv, NoLateQuestion, SlotsInv, NEW p \in Procs, Hearing(p)
    PROVE  SlotsInv'
<1>. USE DEF jobVars, slotVars
<1>0. p \in Threads /\ Watchdog(p) \in Threads
  BY ThreadKinds
<1>1. CASE ReadAsk(p)
  <2>. DEFINE j == worker[p].job
  <2>1. /\ thread[p].pc = "idle" /\ j \in Jobs /\ j \in Holders
        /\ status' = [status EXCEPT ![j] = "blocked"]
        /\ pending' = [pending EXCEPT ![j] = TRUE]
        /\ UNCHANGED <<stdin, running, queue, thread>>
    BY <1>1 DEF ReadAsk, Hears, At, TypeInv, Staffed, NoLateQuestion, HoldsSlot, Holders
  <2>2. Holders' = Holders
    BY <2>1 DEF Holders, Holding, TypeInv, TypeOK
  <2>3. QuestionsHold'
    <3>1. \A k \in Jobs : k # j => pending'[k] = pending[k]
      BY <2>1 DEF TypeInv, TypeOK
    <3>. QED
      BY <2>1, <2>2, <3>1 DEF QuestionsHold, SlotsInv
  <2>. QED
    BY <2>1, <2>2, <2>3 DEF SlotsInv, SlotsAreCounted, Holders, Placed, Queued
<1>2. ASSUME ~ReadAsk(p) PROVE UNCHANGED <<status, stdin, running, queue, pending>>
  BY <1>2 DEF Hearing, ReadThread, WatchdogWakes, WorkerActs, WorkerOpens, WorkerRefuses,
              WorkerAsks, WorkerEndsTurn, WorkerDies, WorkerUnchanged
<1>3. CASE WatchdogWakes(p) /\ ~ReadAsk(p)
  <2>1. /\ thread[Watchdog(p)].pc = "idle"
        /\ thread' = thread \/ Goto(Watchdog(p), "stopping", worker[p].job, NoProc)
    BY <1>3 DEF WatchdogWakes, Expires, At
  <2>2. \/ thread' = thread
        \/ \E l, k, i : /\ Goto(Watchdog(p), l, k, i)
                        /\ l \in {"revive", "spawn"} => k \notin Holders
    BY <2>1
  <2>. QED
    BY <1>0, <1>2, <1>3, <2>1, <2>2, QuietSlots
<1>4. CASE ReadThread(p) /\ ~ReadAsk(p)
  <2>1. thread' = thread /\ thread[p].pc = "idle"
    BY <1>4 DEF ReadThread, Hears, At
  <2>. QED
    BY <1>0, <1>2, <1>4, <2>1, QuietSlots
<1>5. CASE WorkerActs(p) /\ ~ReadAsk(p)
  <2>1. thread' = thread
    BY <1>5 DEF WorkerActs, WorkerOpens, WorkerRefuses, WorkerAsks, WorkerEndsTurn, WorkerDies,
                WorkerUnchanged
  <2>. QED
    BY <1>2, <1>5, <2>1 DEF SlotsInv, SlotsAreCounted, Holders, Placed, Queued, QuestionsHold
<1>. QED
  BY <1>1, <1>3, <1>4, <1>5 DEF Hearing

LEMMA CallingKeepsSlots ==
    ASSUME TypeInv, StartInv, NoSecondStart, NoBlockedRelease, SlotsInv,
           NEW c \in Callers, Calling(c)
    PROVE  SlotsInv'
<1>. USE DEF jobVars, slotVars
<1>0. c \in Threads
  BY ThreadKinds
<1>1. ASSUME NEW batch \in Batches, Delegate(c, batch) PROVE SlotsInv'
  <2>. DEFINE New(k) == \E i \in DOMAIN batch : batch[i] = k
  <2>1. /\ thread[c].pc = "idle" /\ Goto(c, "drain", NoJob, NoProc)
        /\ UNCHANGED <<stdin, running, pending>>
        /\ \A k \in Jobs : IF New(k) THEN status'[k] = "queued" /\ ~Exists(k)
                           ELSE status'[k] = status[k]
    BY <1>1 DEF Delegate, At, ThenDrain
  <2>2. Holders' = Holders /\ QuestionsHold'
    <3>1. Holders' = Holders
      BY <2>1 DEF Holders, Holding, Exists
    <3>. QED
      BY <2>1, <3>1 DEF QuestionsHold, SlotsInv
  <2>3. ASSUME NEW k \in Holders PROVE Placed(k)'
    <3>1. k \in Jobs /\ Placed(k) /\ ~New(k)
      BY <2>1 DEF Holders, Holding, Exists, SlotsInv
    <3>2. ~Queued(k)'
      <4>1. ASSUME NEW q, NEW j, NEW i \in DOMAIN PushBack(q, j), PushBack(q, j)[i] = k, j # k
            PROVE  \E n \in DOMAIN q : q[n] = k
        BY <4>1 DEF PushBack
      <4>2. 1 \in DOMAIN batch /\ (Len(batch) = 1 \/ 2 \in DOMAIN batch)
        BY DEF Batches
      <4>3. batch[1] # k /\ (Len(batch) = 1 \/ batch[2] # k)
        BY <3>1, <4>2
      <4>4. ~Queued(k)
        BY <3>1 DEF Placed
      <4>. QED
        BY <1>1, <4>1, <4>3, <4>4 DEF Delegate, Queued
    <3>3. /\ \A u \in Threads \ {c} : thread'[u] = thread[u]
          /\ thread'[c].pc = "drain"
      BY <1>0, <2>1, GotoMoves
    <3>4. \/ stdin'[k] # NoProc
          \/ \E u \in Threads : thread'[u].pc \in {"launch", "attach"} /\ thread'[u].job = k
      BY <2>1, <3>1, <3>3 DEF Placed
    <3>5. \A u \in Threads : thread'[u].job = k => thread'[u].pc \notin {"revive", "spawn"}
      BY <3>1, <3>3 DEF Placed
    <3>. QED
      BY <3>2, <3>4, <3>5 DEF Placed
  <2>. QED
    BY <2>1, <2>2, <2>3 DEF SlotsInv, SlotsAreCounted, Holders
<1>2. CASE Revive(c)
  <2>. DEFINE j == thread[c].job
  <2>1. /\ thread[c].pc = "revive" /\ j \in Jobs
        /\ UNCHANGED <<stdin, running, pending>> /\ queue' = PushBack(queue, j)
        /\ status' = [status EXCEPT ![j] = "queued"]
        /\ Goto(c, "drain", NoJob, NoProc)
    BY <1>0, <1>2 DEF Revive, At, ThenDrain, TypeInv, InHand, Busy
  <2>2. j \notin Holders
    BY <1>0, <2>1 DEF SlotsInv, Placed
  <2>3. Holders' = Holders /\ QuestionsHold'
    <3>1. Holders' = Holders
      BY <2>1, <2>2 DEF Holders, Holding, TypeInv, TypeOK
    <3>. QED
      BY <2>1, <3>1 DEF QuestionsHold, SlotsInv
  <2>4. ASSUME NEW k \in Holders PROVE Placed(k)'
    <3>1. k \in Jobs /\ Placed(k) /\ k # j
      BY <2>2 DEF Holders, SlotsInv
    <3>2. ~Queued(k)'
      BY <2>1, <3>1 DEF PushBack, Queued, Placed
    <3>3. /\ \A u \in Threads \ {c} : thread'[u] = thread[u]
          /\ thread'[c].pc = "drain"
      BY <1>0, <2>1, GotoMoves
    <3>4. \/ stdin'[k] # NoProc
          \/ \E u \in Threads : thread'[u].pc \in {"launch", "attach"} /\ thread'[u].job = k
      BY <2>1, <3>1, <3>3 DEF Placed
    <3>5. \A u \in Threads : thread'[u].job = k => thread'[u].pc \notin {"revive", "spawn"}
      BY <3>1, <3>3 DEF Placed
    <3>. QED
      BY <3>2, <3>4, <3>5 DEF Placed
  <2>. QED
    BY <2>1, <2>3, <2>4 DEF SlotsInv, SlotsAreCounted, Holders
<1>3. ASSUME NEW j \in Jobs, SendFindsNoProcess(c, j) PROVE SlotsInv'
  <2>1. /\ thread[c].pc = "idle" /\ stdin[j] = NoProc /\ Goto(c, "revive", j, NoProc)
        /\ UNCHANGED <<status, stdin, running, queue, pending>>
    BY <1>3 DEF SendFindsNoProcess, MaySend, At
  <2>3. ~Coming(j)
    BY <1>3 DEF NoSecondStart
  <2>4. j \notin Holders
    BY <2>1, <2>3 DEF SlotsInv, Placed, Coming, InStart, Starts
  <2>5. \E l, k, p : Goto(c, l, k, p) /\ (l \in {"revive", "spawn"} => k \notin Holders)
    BY <2>1, <2>4
  <2>. QED
    BY <1>0, <2>1, <2>5, QuietSlots
<1>4. ASSUME NEW j \in Jobs, SendFollowUp(c, j) PROVE SlotsInv'
  <2>1. /\ thread[c].pc = "idle" /\ stdin[j] # NoProc /\ IsSettled(j)
        /\ Goto(c, "followup", j, stdin[j]) /\ running' = running + 1
        /\ status' = [status EXCEPT ![j] = "running"] /\ UNCHANGED <<stdin, queue, pending>>
    BY <1>4 DEF SendFollowUp, MaySend, At
  <2>2. Holders' = Holders \cup {j} /\ QuestionsHold'
    <3>1. Holders' = Holders \cup {j}
      BY <2>1 DEF Holders, Holding, TypeInv, TypeOK
    <3>. QED
      BY <2>1, <3>1 DEF QuestionsHold, SlotsInv
  <2>3. j \notin Holders
    BY <2>1 DEF Holders, Holding, IsSettled, Settled
  <2>4. ASSUME NEW k \in Holders PROVE Placed(k)'
    <3>1. k \in Jobs /\ Placed(k)
      BY DEF Holders, SlotsInv
    <3>. QED
      BY <1>0, <2>1, <3>1, PlacedStays
  <2>5. Placed(j)'
    <3>1. ~Coming(j)
      BY <2>1 DEF StartInv, OneStart
    <3>2. /\ \A u \in Threads \ {c} : thread'[u] = thread[u]
          /\ thread'[c].pc = "followup"
      BY <1>0, <2>1, GotoMoves
    <3>. QED
      BY <2>1, <3>1, <3>2 DEF Placed, Coming, InStart, Starts, Queued
  <2>. QED
    BY <2>1, <2>2, <2>3, <2>4, <2>5, TakesSlot DEF SlotsInv
<1>5. ASSUME NEW j \in Jobs, SendWaits(c, j) PROVE SlotsInv'
  BY <1>5 DEF SendWaits, SlotsInv, SlotsAreCounted, Holders, Placed, Queued, QuestionsHold
<1>6. ASSUME NEW j \in Jobs, Answer(c, j) PROVE SlotsInv'
  <2>1. /\ j \in Holders /\ UNCHANGED <<stdin, running, queue, thread>>
        /\ pending' = [pending EXCEPT ![j] = FALSE]
        /\ status' = status \/ status' = [status EXCEPT ![j] = "running"]
    BY <1>6 DEF Answer, SlotsInv, QuestionsHold
  <2>2. Holders' = Holders
    BY <2>1 DEF Holders, Holding, TypeInv, TypeOK
  <2>3. QuestionsHold'
    <3>1. \A k \in Jobs : pending'[k] => pending[k]
      BY <2>1 DEF TypeInv, TypeOK
    <3>. QED
      BY <2>2, <3>1 DEF QuestionsHold, SlotsInv
  <2>. QED
    BY <2>1, <2>2, <2>3 DEF SlotsInv, SlotsAreCounted, Holders, Placed, Queued
<1>7. ASSUME NEW listed \in SUBSET Jobs, Release(c, listed) PROVE SlotsInv'
  <2>1. /\ UNCHANGED <<thread, running, queue, pending>>
        /\ \A j \in Jobs : \/ status'[j] = status[j] /\ stdin'[j] = stdin[j]
                           \/ /\ status[j] \notin {"running", "blocked"}
                              /\ status'[j] = "released"
    BY <1>7 DEF Release, NoBlockedRelease
  <2>2. \A j \in Jobs : /\ status'[j] \in Holding <=> status[j] \in Holding
                        /\ status[j] \in Holding => stdin'[j] = stdin[j]
    BY <2>1 DEF Holding
  <2>3. Holders' = Holders /\ QuestionsHold'
    <3>1. Holders' = Holders
      BY <2>2 DEF Holders
    <3>. QED
      BY <2>1, <3>1 DEF QuestionsHold, SlotsInv
  <2>4. ASSUME NEW k \in Holders PROVE Placed(k)'
    <3>1. k \in Jobs /\ Placed(k) /\ stdin'[k] = stdin[k]
      BY <2>2 DEF Holders, SlotsInv
    <3>. QED
      BY <2>1, <3>1 DEF Placed, Queued
  <2>. QED
    BY <2>1, <2>2, <2>3, <2>4 DEF SlotsInv, SlotsAreCounted, Holders
<1>8. CASE (\E n \in Limits : ApplySettings(c, n)) \/ CheckStarts(c) \/ CheckReturns(c)
  <2>1. /\ thread[c].pc \in {"idle", "checking"} /\ UNCHANGED <<status, stdin, running, queue, pending>>
        /\ \E l \in {"drain", "checking", "idle"} : Goto(c, l, NoJob, NoProc)
    BY <1>8 DEF ApplySettings, CheckStarts, CheckReturns, At, ThenDrain, GoHome
  <2>2. \E l, k, p : Goto(c, l, k, p) /\ (l \in {"revive", "spawn"} => k \notin Holders)
    BY <2>1
  <2>. QED
    BY <1>0, <2>1, <2>2, QuietSlots
<1>. QED
  BY <1>1, <1>2, <1>3, <1>4, <1>5, <1>6, <1>7, <1>8 DEF Calling

\* The claim of #242: running is the number of workers that hold a slot, whichever
\* of the reader, the watchdog, the launcher and the planners ends each of them,
\* however late, and however often it is written to, started again and asks.  The
\* steps that break it are the three SlotsKept names, and no other.
THEOREM TheCounterIsRight == Spec /\ [][SlotsKept]_vars => []SlotsAreCounted
<1>1. Init => SlotsInv
  <2>. SUFFICES ASSUME Init PROVE SlotsInv
    OBVIOUS
  <2>1. Holders = {} /\ QuestionsHold
    BY DEF Init, Holders, Holding, QuestionsHold
  <2>. QED
    BY <2>1, FS_EmptySet DEF Init, SlotsInv, SlotsAreCounted, Holders
<1>2. TypeInv /\ QueueInv /\ StartInv /\ SlotsInv /\ [Next]_vars /\ [SlotsKept]_vars => SlotsInv'
  <2>. SUFFICES ASSUME TypeInv, QueueInv, StartInv, SlotsInv, [Next]_vars, [SlotsKept]_vars
                PROVE  SlotsInv'
    OBVIOUS
  <2>1. CASE UNCHANGED vars
    BY <2>1 DEF vars, jobVars, slotVars, SlotsInv, SlotsAreCounted, Holders, Placed, Queued,
                QuestionsHold
  <2>2. CASE Next /\ SlotsKept
    BY <2>2, StepKinds, EndingKeepsSlots, GivingKeepsSlots, StartingKeepsSlots,
       HearingKeepsSlots, CallingKeepsSlots DEF QueueInv, SlotsKept
  <2>. QED
    BY <2>1, <2>2
<1>3. SlotsInv => SlotsAreCounted
  BY DEF SlotsInv
<1>4. [SlotsKept]_vars => [NoSecondStart]_vars
  BY DEF SlotsKept
<1>. QED
  BY <1>1, <1>2, <1>3, <1>4, StartInvAlways, PTL DEF Spec

-----------------------------------------------------------------------------
(* Finished workers that keep their process are few.  What release_oldest_  *)
(* parked spares are the last of the order; every other step only takes     *)
(* workers away, because a process is attached to a running worker.         *)

Parked == {j \in Jobs : status[j] \in Settled /\ stdin[j] # NoProc}

Listed ==
    /\ \A a, b \in DOMAIN order : order[a] = order[b] => a = b
    /\ \A a \in DOMAIN order : Exists(order[a])
    /\ \A j \in Jobs : Exists(j) => \E a \in DOMAIN order : order[a] = j

ParkedInv ==
    /\ Listed
    /\ \A t \in Threads : thread[t].pc \in {"launch", "attach"} => status[thread[t].job] = "running"
    /\ ParkedIsBounded

\* The workers of a set that have fewer than limit of it behind them in the order
\* are limit at most: all of them but the first are behind the first.
LEMMA LastOnes ==
    ASSUME order \in Seq(Jobs), NEW S, IsFiniteSet(S), NEW limit \in Nat,
           \A a, b \in DOMAIN order : order[a] = order[b] => a = b,
           \A k \in S : \E a \in DOMAIN order : order[a] = k
    PROVE  Cardinality({k \in S : ~(Cardinality({l \in S : Earlier(k, l)}) >= limit)}) <= limit
<1>. DEFINE After(k) == {l \in S : Earlier(k, l)}
            K == {k \in S : ~(Cardinality(After(k)) >= limit)}
            Places == {a \in DOMAIN order : order[a] \in K}
<1>1. K \subseteq S /\ IsFiniteSet(K) /\ Cardinality(K) \in Nat
  <2>1. K \subseteq S
    OBVIOUS
  <2>. HIDE DEF K
  <2>. QED
    BY <2>1, FS_Subset, FS_CardinalityType
<1>2. CASE K = {}
  <2>. HIDE DEF K
  <2>1. Cardinality(K) <= limit
    BY <1>2, FS_EmptySet
  <2>. QED
    BY <2>1 DEF K
<1>3. CASE K # {}
  <2>. HIDE DEF K
  <2>0. PICK k \in K : TRUE
    BY <1>3
  <2>1. Places \in SUBSET Nat /\ Places # {}
    <3>1. \E b \in DOMAIN order : order[b] = k
      BY <1>1, <2>0
    <3>. QED
      BY <3>1, <2>0
  <2>2. PICK a \in Places : \A b \in Places : a <= b
    BY <2>1, LeastIsThere
  <2>3. K \ {order[a]} \subseteq After(order[a])
    <3>1. ASSUME NEW l \in K, l # order[a] PROVE Earlier(order[a], l)
      <4>1. PICK b \in DOMAIN order : order[b] = l
        BY <1>1, <3>1
      <4>2. b \in Places /\ a # b /\ a \in Nat /\ b \in Nat
        BY <2>1, <3>1, <4>1
      <4>3. a < b
        BY <2>2, <4>2
      <4>. QED
        BY <2>2, <4>1, <4>3 DEF Earlier
    <3>. QED
      BY <1>1, <3>1
  <2>4. IsFiniteSet(After(order[a])) /\ Cardinality(After(order[a])) \in Nat
    BY FS_Subset, FS_CardinalityType
  <2>5. Cardinality(After(order[a])) < limit
    <3>1. order[a] \in K
      BY <2>2
    <3>2. ~(Cardinality(After(order[a])) >= limit)
      BY <3>1 DEF K
    <3>. HIDE DEF After
    <3>. QED
      BY <2>4, <3>2
  <2>6. Cardinality(K \ {order[a]}) <= Cardinality(After(order[a]))
    BY <2>3, <2>4, FS_Subset
  <2>7. Cardinality(K \ {order[a]}) = Cardinality(K) - 1
    BY <1>1, <2>2, FS_RemoveElement
  <2>. HIDE DEF After
  <2>8. Cardinality(K) <= limit
    BY <1>1, <2>4, <2>5, <2>6, <2>7
  <2>. QED
    BY <2>8 DEF K, After
<1>. QED
  BY <1>2, <1>3

LEMMA ExistingAreFinite ==
    ASSUME TypeInv, Listed
    PROVE  IsFiniteSet({j \in Jobs : Exists(j)})
<1>. DEFINE R == {order[a] : a \in DOMAIN order}
<1>1. order \in Seq(Jobs) /\ DOMAIN order = 1..Len(order) /\ Len(order) \in Nat
  BY DEF TypeInv, TypeOK
<1>2. IsFiniteSet(1..Len(order))
  BY <1>1, FS_Interval
<1>3. order \in Surjection(1..Len(order), R)
  BY <1>1 DEF Surjection
<1>4. IsFiniteSet(R)
  BY <1>2, <1>3, FS_Surjection
<1>5. {j \in Jobs : Exists(j)} \subseteq R
  BY DEF Listed
<1>. QED
  BY <1>4, <1>5, FS_Subset

\* A step that parks nobody.
LEMMA QuietParked ==
    ASSUME TypeInv, ParkedInv, order' = order,
           \A j \in Jobs : Exists(j)' <=> Exists(j),
           \A j \in Jobs : status'[j] \in Settled /\ stdin'[j] # NoProc
               => status[j] \in Settled /\ stdin[j] # NoProc,
           \A t \in Threads : thread'[t].pc \in {"launch", "attach"}
               => status'[thread'[t].job] = "running"
    PROVE  ParkedInv'
<1>1. Listed'
  BY DEF ParkedInv, Listed, TypeInv, TypeOK
<1>2. ParkedIsBounded'
  <2>1. IsFiniteSet(Parked)
    <3>1. Parked \subseteq {j \in Jobs : Exists(j)}
      BY DEF Parked, Exists, Settled
    <3>. QED
      BY <3>1, ExistingAreFinite, FS_Subset DEF ParkedInv
  <2>2. Parked' \subseteq Parked
    BY DEF Parked
  <2>3. Cardinality(Parked) <= ParkedLimit /\ Cardinality(Parked) \in Nat
    BY <2>1, FS_CardinalityType DEF ParkedInv, ParkedIsBounded, Parked
  <2>4. IsFiniteSet(Parked') /\ Cardinality(Parked') <= Cardinality(Parked)
    BY <2>1, <2>2, FS_Subset
  <2>5. Cardinality(Parked') \in Nat /\ ParkedLimit \in Nat
    BY <2>4, FS_CardinalityType, LimitsArePositive
  <2>6. Cardinality(Parked') <= ParkedLimit
    BY <2>3, <2>4, <2>5
  <2>. QED
    BY <2>6 DEF ParkedIsBounded, Parked
<1>. QED
  BY <1>1, <1>2 DEF ParkedInv

\* Nobody ends a worker that is being started but the thread that starts it.
LEMMA OnlyTheStarterEnds ==
    ASSUME StartInv, NobodySends, "cancel" \notin Events,
           NEW t \in Threads, NEW j \in Jobs, MayEnd(t, j),
           NEW u \in Threads, u # t, thread[u].pc \in {"launch", "attach"}
    PROVE  thread[u].job # j
<1>. SUFFICES ASSUME thread[u].job = j PROVE FALSE
  OBVIOUS
<1>1. Coming(j) /\ thread[u].pc \in Starts
  BY DEF Coming, InStart, Starts
<1>2. ~(thread[t].pc = "launch" /\ thread[t].job = j)
  BY <1>1 DEF StartInv, OneStart, Starts
<1>3. ~(thread[t].pc = "stopping" /\ thread[t].job = j)
  BY <1>1 DEF StartInv, FirstStart, NobodySends
<1>4. ~(t \in Procs /\ thread[t].pc = "idle" /\ worker[t].job = j)
  BY <1>1 DEF StartInv, FirstStart, NobodySends
<1>5. thread[t].pc \notin {"staged", "followup"}
  BY DEF NobodySends, FollowingUp
<1>. QED
  BY <1>2, <1>3, <1>4, <1>5 DEF MayEnd

LEMMA EndingKeepsParked ==
    ASSUME TypeInv, StartInv, NobodySends, ParkedInv, "cancel" \notin Events, Ending
    PROVE  ParkedInv'
<1>1. PICK t \in Threads, j \in Jobs, st \in Endings, terminal \in BOOLEAN,
           pipes \in Remaining, next \in {"idle", "drain"} :
              MayEnd(t, j) /\ Finish(t, j, st, terminal, pipes, next)
  BY DEF Ending
<1>2. \A u \in Threads : u # t /\ thread[u].pc \in {"launch", "attach"} => thread[u].job # j
  BY <1>1, OnlyTheStarterEnds
<1>3. CASE FinishTurn(t, j, st, terminal, pipes)
  <2>. DEFINE ended == [status EXCEPT ![j] = st]
              open == IF terminal THEN [stdin EXCEPT ![j] = NoProc] ELSE stdin
              S == {k \in Jobs : ended[k] \in Settled /\ open[k] # NoProc}
              surplus == Surplus(ended, open)
  <2>1. ~TakesNext(j, terminal)
    BY DEF TakesNext, NobodySends
  <2>2. /\ status' = [k \in Jobs |-> IF k \in surplus THEN "released" ELSE ended[k]]
        /\ stdin' = [k \in Jobs |-> IF k \in surplus THEN NoProc ELSE open[k]]
        /\ order' = order /\ Goto(t, "drain", NoJob, NoProc)
    BY <1>3, <2>1 DEF FinishTurn, ThenDrain
  <2>3. Exists(j)
    BY <1>1, EnderIsAwake
  <2>4. surplus = {k \in S : Cardinality({l \in S : Earlier(k, l)}) >= ParkedLimit}
    BY DEF Surplus
  <2>5. \A k \in Jobs : ended[k] = IF k = j THEN st ELSE status[k]
    BY DEF TypeInv, TypeOK
  <2>6. st \in Settled /\ \A k \in S : ended[k] \in Settled
    BY DEF Endings, Settled
  <2>. HIDE DEF surplus, ended, open
  <2>7. \A k \in Jobs : Exists(k)' <=> Exists(k)
    BY <2>2, <2>3, <2>4, <2>5, <2>6 DEF Exists, Settled
  <2>8. Parked' = {k \in S : ~(Cardinality({l \in S : Earlier(k, l)}) >= ParkedLimit)}
    <3>1. ASSUME NEW k \in Jobs
          PROVE  status'[k] \in Settled /\ stdin'[k] # NoProc <=> k \in S /\ k \notin surplus
      BY <2>2
    <3>2. Parked' = {k \in S : k \notin surplus}
      BY <3>1 DEF Parked
    <3>. QED
      BY <2>4, <3>2
  <2>9. Cardinality(Parked') <= ParkedLimit
    <3>1. S \subseteq {k \in Jobs : Exists(k)}
      BY <2>3, <2>5 DEF Exists, Settled
    <3>2. IsFiniteSet(S)
      BY <3>1, ExistingAreFinite, FS_Subset DEF ParkedInv
    <3>3. \A k \in S : \E a \in DOMAIN order : order[a] = k
      BY <3>1 DEF ParkedInv, Listed
    <3>4. order \in Seq(Jobs) /\ ParkedLimit \in Nat
      BY LimitsArePositive DEF TypeInv, TypeOK
    <3>. HIDE DEF S
    <3>5. Cardinality({k \in S : ~(Cardinality({l \in S : Earlier(k, l)}) >= ParkedLimit)})
             <= ParkedLimit
      BY <3>2, <3>3, <3>4, LastOnes DEF ParkedInv, Listed
    <3>. QED
      BY <2>8, <3>5
  <2>10. Listed'
    BY <2>2, <2>7 DEF ParkedInv, Listed, TypeInv, TypeOK
  <2>11. ASSUME NEW u \in Threads, thread'[u].pc \in {"launch", "attach"}
         PROVE  status'[thread'[u].job] = "running"
    <3>1. u # t /\ thread'[u] = thread[u]
      BY <2>2, <2>11, GotoMoves
    <3>2. thread[u].job \in Jobs /\ thread[u].job # j /\ status[thread[u].job] = "running"
      BY <1>2, <2>11, <3>1 DEF ParkedInv, TypeInv, InHand, Busy
    <3>3. ended[thread[u].job] = "running"
      BY <2>5, <3>2
    <3>4. thread[u].job \notin surplus
      BY <2>4, <2>6, <3>3 DEF Settled
    <3>. QED
      BY <2>2, <3>1, <3>2, <3>3, <3>4
  <2>. QED
    BY <2>9, <2>10, <2>11 DEF ParkedInv, ParkedIsBounded, Parked
<1>4. CASE Goto(t, next, NoJob, NoProc) /\ UNCHANGED <<jobVars, slotVars>>
  <2>1. \A u \in Threads : thread'[u].pc \in {"launch", "attach"} => thread'[u] = thread[u]
    BY <1>4, GotoMoves
  <2>. QED
    BY <1>4, <2>1, QuietParked DEF jobVars, slotVars, ParkedInv, Exists
<1>. QED
  BY <1>1, <1>3, <1>4 DEF Finish

LEMMA StartingKeepsParked ==
    ASSUME TypeInv, ReadersWait, StartInv, ParkedInv, NEW t \in Threads, Starting(t)
    PROVE  ParkedInv'
<1>. USE DEF jobVars, slotVars
<1>1. CASE Drain(t) \/ SpawnSkips(t)
  <2>1. /\ UNCHANGED <<status, stdin, order>>
        /\ \E l \in {"idle", "spawn", "drain"} : \E j : Goto(t, l, j, NoProc)
    BY <1>1 DEF Drain, SpawnSkips, GoHome, ThenDrain
  <2>2. \A u \in Threads : thread'[u].pc \in {"launch", "attach"} => thread'[u] = thread[u]
    BY <2>1, GotoMoves
  <2>. QED
    BY <2>1, <2>2, QuietParked DEF ParkedInv, Exists
<1>2. CASE SpawnStart(t)
  <2>. DEFINE j == thread[t].job
  <2>1. /\ thread[t].pc = "spawn" /\ j \in Jobs /\ Exists(j)
        /\ status' = [status EXCEPT ![j] = "running"]
        /\ Goto(t, "launch", j, NoProc) /\ UNCHANGED <<stdin, order>>
    BY <1>2 DEF SpawnStart, At, TypeInv, InHand, Busy, StartInv, Known
  <2>2. /\ \A u \in Threads \ {t} : thread'[u] = thread[u]
        /\ thread'[t].job = j
    BY <2>1 DEF Goto, TypeInv, TypeOK
  <2>3. /\ \A k \in Jobs : Exists(k)' <=> Exists(k)
        /\ \A k \in Jobs : status'[k] \in Settled => status[k] \in Settled
        /\ \A k \in Jobs : status[k] = "running" \/ k = j => status'[k] = "running"
    BY <2>1 DEF Exists, Settled, TypeInv, TypeOK
  <2>4. \A u \in Threads : thread'[u].pc \in {"launch", "attach"}
            => status'[thread'[u].job] = "running"
    BY <2>1, <2>2, <2>3 DEF ParkedInv, TypeInv, InHand, Busy
  <2>. QED
    BY <2>1, <2>3, <2>4, QuietParked
<1>3. CASE Launch(t)
  <2>1. /\ thread[t].pc = "launch" /\ UNCHANGED <<status, stdin, order>>
        /\ \E p : Goto(t, "attach", thread[t].job, p)
    BY <1>3 DEF Launch, At
  <2>2. \A u \in Threads : thread'[u].pc \in {"launch", "attach"}
            => thread[u].pc \in {"launch", "attach"} /\ thread'[u].job = thread[u].job
    BY <2>1 DEF Goto, TypeInv, TypeOK
  <2>. QED
    BY <2>1, <2>2, QuietParked DEF ParkedInv, Exists
<1>4. CASE Attach(t)
  <2>. DEFINE j == thread[t].job
  <2>1. /\ thread[t].pc = "attach" /\ UNCHANGED <<status, order>>
        /\ stdin' = [stdin EXCEPT ![j] = thread[t].proc]
        /\ Goto(t, "arm", j, thread[t].proc)
    BY <1>4 DEF Attach, At
  <2>2. status[j] = "running"
    BY <2>1 DEF ParkedInv
  <2>3. \A k \in Jobs : status'[k] \in Settled /\ stdin'[k] # NoProc
            => status[k] \in Settled /\ stdin[k] # NoProc
    BY <2>1, <2>2 DEF Settled, TypeInv, TypeOK
  <2>4. \A u \in Threads : thread'[u].pc \in {"launch", "attach"} => thread'[u] = thread[u]
    BY <2>1, GotoMoves
  <2>. QED
    BY <2>1, <2>3, <2>4, QuietParked DEF ParkedInv, Exists
<1>5. CASE Arm(t)
  <2>1. thread[t].proc \in Procs /\ thread[t].proc \in Threads
    BY <1>5, ThreadKinds DEF Arm, At, TypeInv, InHand, WithProcess
  <2>2. \A u \in Threads : thread'[u].pc \in {"launch", "attach"} => thread'[u] = thread[u]
    BY <1>5, <2>1 DEF Arm, TypeInv, TypeOK
  <2>3. UNCHANGED <<status, stdin, order>>
    BY <1>5 DEF Arm
  <2>. QED
    BY <2>2, <2>3, QuietParked DEF ParkedInv, Exists
<1>. QED
  BY <1>1, <1>2, <1>3, <1>4, <1>5 DEF Starting

LEMMA HearingKeepsParked ==
    ASSUME TypeInv, StartInv, NobodySends, ParkedInv, NEW p \in Procs, Hearing(p)
    PROVE  ParkedInv'
<1>. USE DEF jobVars, slotVars
<1>1. CASE ReadAsk(p)
  <2>. DEFINE j == worker[p].job
  <2>1. /\ thread[p].pc = "idle" /\ j \in Jobs /\ Exists(j)
        /\ status' = [status EXCEPT ![j] = "blocked"]
        /\ UNCHANGED <<stdin, order, thread>>
    BY <1>1 DEF ReadAsk, Hears, At, TypeInv, Staffed, StartInv, Known
  <2>2. ~Coming(j)
    BY <2>1 DEF StartInv, FirstStart, NobodySends
  <2>3. /\ \A k \in Jobs : Exists(k)' <=> Exists(k)
        /\ \A k \in Jobs : status'[k] \in Settled => status[k] \in Settled
        /\ \A k \in Jobs : status[k] = "running" /\ k # j => status'[k] = "running"
    BY <2>1 DEF Exists, Settled, TypeInv, TypeOK
  <2>4. ASSUME NEW u \in Threads, thread'[u].pc \in {"launch", "attach"}
        PROVE  status'[thread'[u].job] = "running"
    <3>1. /\ thread'[u] = thread[u] /\ thread[u].job \in Jobs
          /\ status[thread[u].job] = "running"
      BY <2>1, <2>4 DEF ParkedInv, TypeInv, InHand, Busy
    <3>2. thread[u].job # j
      BY <2>2, <2>4, <3>1 DEF Coming, InStart, Starts
    <3>. QED
      BY <2>3, <3>1, <3>2
  <2>. QED
    BY <2>1, <2>3, <2>4, QuietParked
<1>2. CASE ReadThread(p) \/ WatchdogWakes(p) \/ WorkerActs(p)
  <2>1. UNCHANGED <<status, stdin, order>>
    BY <1>2 DEF ReadThread, WatchdogWakes, WorkerActs, WorkerOpens, WorkerRefuses,
                WorkerAsks, WorkerEndsTurn, WorkerDies, WorkerUnchanged
  <2>2. thread' = thread \/ Goto(Watchdog(p), "stopping", worker[p].job, NoProc)
    BY <1>2 DEF ReadThread, WatchdogWakes, WorkerActs, WorkerOpens, WorkerRefuses,
                WorkerAsks, WorkerEndsTurn, WorkerDies, WorkerUnchanged
  <2>3. \A u \in Threads : thread'[u].pc \in {"launch", "attach"} => thread'[u] = thread[u]
    BY <2>2, GotoMoves, ThreadKinds
  <2>. QED
    BY <2>1, <2>3, QuietParked DEF ParkedInv, Exists
<1>. QED
  BY <1>1, <1>2 DEF Hearing

LEMMA CallingKeepsParked ==
    ASSUME TypeInv, StartInv, NobodySends, ParkedInv, "send" \notin Events,
           NEW c \in Callers, Calling(c)
    PROVE  ParkedInv'
<1>. USE DEF jobVars, slotVars
<1>0. c \in Threads
  BY ThreadKinds
<1>1. ASSUME NEW batch \in Batches, Delegate(c, batch) PROVE ParkedInv'
  <2>. DEFINE New(k) == \E i \in DOMAIN batch : batch[i] = k
  <2>1. /\ Goto(c, "drain", NoJob, NoProc) /\ UNCHANGED stdin /\ order' = order \o batch
        /\ \A k \in Jobs : IF New(k) THEN status'[k] = "queued" /\ ~Exists(k)
                           ELSE status'[k] = status[k]
    BY <1>1 DEF Delegate, ThenDrain
  <2>2. /\ batch \in Seq(Jobs) /\ order \in Seq(Jobs)
        /\ \A i, k \in DOMAIN batch : batch[i] = batch[k] => i = k
    <3>1. order \in Seq(Jobs)
      BY DEF TypeInv, TypeOK
    <3>2. CASE \E j \in Jobs : batch = <<j>>
      BY <3>1, <3>2
    <3>3. CASE batch \in Jobs \X Jobs /\ batch[1] # batch[2]
      <4>1. PICK i \in Jobs, k \in Jobs : batch = <<i, k>> /\ i # k
        BY <3>3
      <4>. QED
        BY <3>1, <4>1
    <3>. QED
      BY <3>2, <3>3 DEF Batches
  <2>3. \A k \in Jobs : Exists(k)' <=> Exists(k) \/ New(k)
    BY <2>1 DEF Exists
  <2>4. Listed'
    <3>1. /\ order' \in Seq(Jobs) /\ Len(order') = Len(order) + Len(batch)
          /\ \A a \in DOMAIN order' :
                \/ a \in DOMAIN order /\ order'[a] = order[a]
                \/ /\ a - Len(order) \in DOMAIN batch /\ order'[a] = batch[a - Len(order)]
                   /\ a \notin DOMAIN order
      BY <2>1, <2>2
    <3>2. ASSUME NEW a \in DOMAIN order', NEW b \in DOMAIN order', order'[a] = order'[b]
          PROVE  a = b
      <4>1. \A i \in DOMAIN order, k \in DOMAIN batch : order[i] # batch[k]
        <5>1. \A k \in DOMAIN batch : batch[k] \in Jobs /\ ~Exists(batch[k])
          BY <1>1, <2>2 DEF Delegate
        <5>. QED
          BY <5>1 DEF ParkedInv, Listed
      <4>2. CASE a \in DOMAIN order /\ b \in DOMAIN order
        BY <3>1, <3>2, <4>2 DEF ParkedInv, Listed
      <4>3. CASE a \notin DOMAIN order /\ b \notin DOMAIN order
        <5>1. a - Len(order) = b - Len(order)
          BY <2>2, <3>1, <3>2, <4>3
        <5>2. a \in Int /\ b \in Int /\ Len(order) \in Int
          BY <2>2, <3>1
        <5>. QED
          BY <5>1, <5>2
      <4>4. CASE ~(a \in DOMAIN order <=> b \in DOMAIN order)
        BY <3>1, <3>2, <4>1, <4>4
      <4>. QED
        BY <4>2, <4>3, <4>4
    <3>3. ASSUME NEW a \in DOMAIN order', NEW k, k = order'[a] PROVE Exists(k)'
      <4>1. k \in Jobs /\ (Exists(k) \/ New(k))
        BY <2>2, <3>1, <3>3 DEF ParkedInv, Listed
      <4>. QED
        BY <2>3, <4>1
    <3>4. ASSUME NEW k \in Jobs, Exists(k)' PROVE \E a \in DOMAIN order' : order'[a] = k
      <4>1. CASE Exists(k)
        <5>1. PICK a \in DOMAIN order : order[a] = k
          BY <4>1 DEF ParkedInv, Listed
        <5>. QED
          BY <2>1, <2>2, <5>1
      <4>2. CASE New(k)
        <5>1. PICK i \in DOMAIN batch : batch[i] = k
          BY <4>2
        <5>2. Len(order) + i \in DOMAIN order' /\ order'[Len(order) + i] = k
          BY <2>1, <2>2, <5>1
        <5>. QED
          BY <5>2
      <4>. QED
        BY <2>3, <3>4, <4>1, <4>2
    <3>5. \A a \in DOMAIN order' : status'[order'[a]] # "absent"
      BY <3>3 DEF Exists
    <3>. QED
      BY <3>2, <3>4, <3>5 DEF Listed, Exists
  <2>5. Parked' = Parked
    BY <2>1 DEF Parked, Exists, Settled
  <2>6. ASSUME NEW u \in Threads, thread'[u].pc \in {"launch", "attach"}
        PROVE  status'[thread'[u].job] = "running"
    <3>1. thread'[u] = thread[u]
      BY <1>0, <2>1, <2>6, GotoMoves
    <3>2. thread[u].job \in Jobs /\ status[thread[u].job] = "running"
      BY <2>6, <3>1 DEF ParkedInv, TypeInv, InHand, Busy
    <3>. QED
      BY <2>1, <3>1, <3>2 DEF Exists
  <2>. QED
    BY <2>4, <2>5, <2>6 DEF ParkedInv, ParkedIsBounded, Parked
<1>2. ~Revive(c)
  BY <1>0 DEF Revive, At, NobodySends, FollowingUp
<1>3. ASSUME NEW j \in Jobs
      PROVE  ~(SendFindsNoProcess(c, j) \/ SendWaits(c, j) \/ SendFollowUp(c, j))
  BY DEF SendFindsNoProcess, SendWaits, SendFollowUp, MaySend
<1>4. ASSUME NEW j \in Jobs, Answer(c, j) PROVE ParkedInv'
  <2>1. /\ UNCHANGED <<stdin, order, thread>> /\ Exists(j)
        /\ status' \in {status, [status EXCEPT ![j] = "running"]}
    BY <1>4 DEF Answer
  <2>2. /\ \A k \in Jobs : Exists(k)' <=> Exists(k)
        /\ \A k \in Jobs : status'[k] \in Settled => status[k] \in Settled
        /\ \A k \in Jobs : status[k] = "running" => status'[k] = "running"
    BY <2>1 DEF Exists, Settled, TypeInv, TypeOK
  <2>3. \A u \in Threads : thread'[u].pc \in {"launch", "attach"}
            => status'[thread'[u].job] = "running"
    BY <2>1, <2>2 DEF ParkedInv, TypeInv, InHand, Busy
  <2>. QED
    BY <2>1, <2>2, <2>3, QuietParked
<1>5. ASSUME NEW listed \in SUBSET Jobs, Release(c, listed) PROVE ParkedInv'
  <2>1. /\ UNCHANGED <<order, thread>>
        /\ \A j \in Jobs : \/ status'[j] = status[j] /\ stdin'[j] = stdin[j]
                           \/ /\ status[j] # "running" /\ Exists(j)
                              /\ status'[j] = "released" /\ stdin'[j] = NoProc
    BY <1>5 DEF Release
  <2>2. \A u \in Threads : thread'[u].pc \in {"launch", "attach"}
            => status'[thread'[u].job] = "running"
    BY <2>1 DEF ParkedInv, TypeInv, InHand, Busy
  <2>. QED
    BY <2>1, <2>2, QuietParked DEF Exists
<1>6. CASE (\E n \in Limits : ApplySettings(c, n)) \/ CheckStarts(c) \/ CheckReturns(c)
  <2>1. /\ UNCHANGED <<status, stdin, order>>
        /\ \E l \in {"drain", "checking", "idle"} : Goto(c, l, NoJob, NoProc)
    BY <1>6 DEF ApplySettings, CheckStarts, CheckReturns, ThenDrain, GoHome
  <2>2. \A u \in Threads : thread'[u].pc \in {"launch", "attach"} => thread'[u] = thread[u]
    BY <1>0, <2>1, GotoMoves
  <2>. QED
    BY <2>1, <2>2, QuietParked DEF ParkedInv, Exists
<1>. QED
  BY <1>1, <1>2, <1>3, <1>4, <1>5, <1>6 DEF Calling

\* release_oldest_parked keeps its promise: ParkedLimit finished workers at most
\* keep their process, for every limit and whatever ends their turns.  A planner
\* neither cancels nor sends: a worker that is cancelled while it is started is
\* parked by the start, which trims nothing.
THEOREM ParkedAreFew ==
    ASSUME Events \cap {"cancel", "send"} = {}
    PROVE  Spec => []ParkedIsBounded
<1>1. Init => ParkedInv
  <2>. SUFFICES ASSUME Init PROVE ParkedInv
    OBVIOUS
  <2>1. Parked = {} /\ Listed /\ \A t \in Threads : thread[t].pc \in {"off", "idle"}
    BY DEF Init, Parked, Listed, Exists, Settled
  <2>2. Cardinality(Parked) <= ParkedLimit
    BY <2>1, FS_EmptySet, LimitsArePositive
  <2>. QED
    BY <2>1, <2>2 DEF ParkedInv, ParkedIsBounded, Parked
<1>2. TypeInv /\ QueueInv /\ StartInv /\ NobodySends /\ ParkedInv /\ [Next]_vars
         => NobodySends' /\ ParkedInv'
  <2>. SUFFICES ASSUME TypeInv, QueueInv, StartInv, NobodySends, ParkedInv, [Next]_vars
                PROVE  NobodySends' /\ ParkedInv'
    OBVIOUS
  <2>1. CASE UNCHANGED vars
    BY <2>1 DEF vars, jobVars, slotVars, NobodySends, ParkedInv, ParkedIsBounded, Listed, Exists,
                Earlier
  <2>2. CASE Next
    <3>1. NobodySends'
      BY <2>2, NobodySendsKept
    <3>2. ~Giving
      BY DEF Giving, NobodySends, FollowingUp
    <3>3. ParkedInv'
      BY <2>2, <3>2, StepKinds, EndingKeepsParked, StartingKeepsParked, HearingKeepsParked,
         CallingKeepsParked DEF QueueInv
    <3>. QED
      BY <3>1, <3>3
  <2>. QED
    BY <2>1, <2>2
<1>3. ParkedInv => ParkedIsBounded
  BY DEF ParkedInv
<1>4. [Next]_vars => [NoSecondStart]_vars
  BY DEF NoSecondStart, SendFindsNoProcess, MaySend
<1>. QED
  BY <1>1, <1>2, <1>3, <1>4, StartInvAlways, NobodySendsFirst, PTL DEF Spec
===============================================================================
