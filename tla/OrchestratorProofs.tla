-------------------------- MODULE OrchestratorProofs --------------------------
(* The proofs about the delegation core: its types, its drain, its notices, *)
(* its queue, and, for instances without some of the events, what becomes   *)
(* of a worker that ended.  OrchestratorSlotProofs goes on with processes.  *)
EXTENDS Orchestrator, WellFoundedInduction, TLAPS

(* The least and the greatest of a set of naturals exist. *)
LEMMA LeastIsThere ==
    ASSUME NEW S \in SUBSET Nat, S # {}
    PROVE  Least(S) \in S /\ \A m \in S : Least(S) <= m
<1>1. PICK x \in S : \A y \in S : <<y, x>> \notin OpToRel(<, Nat)
  BY WFMin, NatLessThanWellFounded
<1>2. ASSUME NEW y \in S PROVE x <= y
  <2>1. <<y, x>> \notin {ss \in Nat \X Nat : ss[1] < ss[2]}
    BY <1>1 DEF OpToRel
  <2>2. <<y, x>> \in Nat \X Nat
    OBVIOUS
  <2>3. ~(y < x)
    BY <2>1, <2>2
  <2>. QED
    BY <2>3
<1>. QED
  BY <1>2 DEF Least

LEMMA GreatestIsThere ==
    ASSUME NEW S \in SUBSET Nat, S # {}, NEW b \in Nat, \A m \in S : m <= b
    PROVE  Greatest(S) \in S /\ \A m \in S : m <= Greatest(S)
<1>. DEFINE U == {n \in Nat : \A m \in S : m <= n}
<1>1. U \in SUBSET Nat /\ U # {}
  OBVIOUS
<1>2. PICK u \in U : \A n \in U : u <= n
  BY <1>1, LeastIsThere
<1>3. u \in S
  <2>1. SUFFICES ASSUME u \notin S PROVE FALSE
    OBVIOUS
  <2>2. \A m \in S : m < u
    BY <2>1, <1>2
  <2>3. PICK m \in S : m < u
    BY <2>2
  <2>4. u - 1 \in Nat /\ \A k \in S : k <= u - 1
    BY <2>2, <2>3
  <2>5. u - 1 \in U
    BY <2>4
  <2>. QED
    BY <2>4, <2>5, <1>2
<1>. QED
  BY <1>2, <1>3 DEF Greatest

-----------------------------------------------------------------------------
(* The queue's operators keep its shape. *)

IsQueue(q) ==
    /\ q \in [DOMAIN q -> Jobs] /\ DOMAIN q \subseteq Nat
    /\ \E b \in Nat : \A i \in DOMAIN q : i <= b

LEMMA PopKeepsQueue ==
    ASSUME NEW q, IsQueue(q), ~Empty(q)
    PROVE  IsQueue(PopFront(q)) /\ Front(q) \in Jobs
BY LeastIsThere DEF IsQueue, PopFront, Front, Empty

LEMMA QueueOperators ==
    ASSUME NEW q, IsQueue(q), NEW j \in Jobs
    PROVE  IsQueue(Without(q, j)) /\ IsQueue(PushBack(q, j))
<1>1. IsQueue(Without(q, j))
  BY DEF IsQueue, Without
<1>2. IsQueue(PushBack(q, j))
  <2>. DEFINE next == IF Empty(q) THEN 1 ELSE Greatest(DOMAIN q) + 1
  <2>1. next \in Nat
    BY GreatestIsThere DEF IsQueue, Empty
  <2>2. PICK b \in Nat : \A i \in DOMAIN q : i <= b
    BY DEF IsQueue
  <2>3. b + next \in Nat /\ \A i \in DOMAIN q \cup {next} : i <= b + next
    BY <2>1, <2>2 DEF IsQueue
  <2>. HIDE DEF next
  <2>4. IsQueue([i \in DOMAIN q \cup {next} |-> IF i = next THEN j ELSE q[i]])
    BY <2>1, <2>3 DEF IsQueue
  <2>. QED
    BY <2>4 DEF PushBack, next
<1>. QED
  BY <1>1, <1>2

-----------------------------------------------------------------------------
(* Type correctness.  TypeOK is not inductive by itself: a thread in the    *)
(* middle of a handler must have a job in hand, a process that has said     *)
(* something must have one, and the positions of the queue and the numbers  *)
(* of the notices must stay bounded.                                        *)

Busy == {"spawn", "launch", "attach", "arm", "staged", "followup", "revive", "stopping"}
WithProcess == {"attach", "arm", "staged", "followup"}

InHand ==
    \A t \in Threads :
        /\ thread[t].pc \in Busy => thread[t].job \in Jobs
        /\ thread[t].pc \in WithProcess =>
              thread[t].proc \in Procs /\ worker[thread[t].proc].phase # "unborn"

Staffed ==
    \A p \in Procs :
        /\ worker[p].phase # "unborn" => worker[p].job \in Jobs
        /\ pipe[p] # <<>> \/ watch[p] > 0 => worker[p].phase # "unborn"

Attached == \A j \in Jobs : stdin[j] # NoProc => worker[stdin[j]].phase # "unborn"

TypeInv ==
    /\ TypeOK
    /\ IsQueue(queue)
    /\ \A d \in deliveries : d.seq <= seq
    /\ InHand
    /\ Staffed
    /\ Attached

USE NoIds, LimitsArePositive, ThreadsAreDistinct

LEMMA ThreadKinds ==
    /\ Callers \subseteq Threads
    /\ Procs \subseteq Threads
    /\ \A p \in Procs : Watchdog(p) \in Threads
BY DEF Threads

LEMMA TypeInvInit == Init => TypeInv
<1>. SUFFICES ASSUME Init PROVE TypeInv
  OBVIOUS
<1>1. TypeOK
  BY DEF Init, TypeOK, Statuses, Labels, Phases
<1>2. IsQueue(queue)
  BY DEF Init, IsQueue
<1>3. \A d \in deliveries : d.seq <= seq
  BY DEF Init
<1>4. \A t \in Threads : thread[t].pc \in {"off", "idle"}
  BY DEF Init
<1>5. InHand
  BY <1>4 DEF InHand, Busy, WithProcess
<1>6. Staffed /\ Attached
  BY DEF Init, Staffed, Attached
<1>. QED
  BY <1>1, <1>2, <1>3, <1>5, <1>6 DEF TypeInv

\* What a thread may be left with: nothing, or a job and a process in hand.
LEMMA KillsKeepTypes ==
    ASSUME TypeOK, NEW S
    PROVE  /\ Killed(S) \in [Procs -> [job : Jobs \cup {NoJob}, phase : Phases, todo : Nat]]
           /\ \A p \in Procs : /\ Killed(S)[p].job = worker[p].job
                               /\ Killed(S)[p].phase = "unborn" <=> worker[p].phase = "unborn"
<1>. DEFINE W == [job : Jobs \cup {NoJob}, phase : Phases, todo : Nat]
<1>1. ASSUME NEW p \in Procs
      PROVE  /\ Killed(S)[p] \in W
             /\ Killed(S)[p].job = worker[p].job
             /\ Killed(S)[p].phase = "unborn" <=> worker[p].phase = "unborn"
  <2>1. worker[p] \in W
    BY DEF TypeOK
  <2>2. CASE p \in S /\ Alive(p)
    <3>1. Killed(S)[p] = [worker[p] EXCEPT !.phase = "dead"]
      BY <2>2 DEF Killed
    <3>. QED
      BY <2>1, <2>2, <3>1 DEF Alive, Phases
  <2>3. CASE ~(p \in S /\ Alive(p))
    BY <2>1, <2>3 DEF Killed
  <2>. QED
    BY <2>2, <2>3
<1>2. Killed(S) = [p \in Procs |-> Killed(S)[p]]
  BY DEF Killed
<1>. QED
  BY <1>1, <1>2

LEMMA ClosingKeepsTypes ==
    ASSUME TypeOK, NEW S, NEW pipes \in [Procs -> Seq(Messages)]
    PROVE  /\ Closed(pipes, S) \in [Procs -> Seq(Messages)]
           /\ \A p \in Procs : worker[p].phase = "unborn" => Closed(pipes, S)[p] = pipes[p]
BY DEF Closed, TypeOK, Messages, Alive

LEMMA FinishTurnKeepsTypes ==
    ASSUME TypeInv, NEW t \in Threads, NEW j \in Jobs,
           NEW st \in Settled, NEW terminal \in BOOLEAN,
           NEW pipes \in [Procs -> Seq(Messages)],
           \A p \in Procs : worker[p].phase = "unborn" => pipes[p] = pipe[p],
           FinishTurn(t, j, st, terminal, pipes)
    PROVE  TypeInv'
<1>. DEFINE staged == TakesNext(j, terminal)
<1>1. PICK S : worker' = Killed(S) /\ pipe' = Closed(pipes, S)
  BY DEF FinishTurn
<1>2. /\ worker' \in [Procs -> [job : Jobs \cup {NoJob}, phase : Phases, todo : Nat]]
      /\ \A p \in Procs : /\ worker'[p].job = worker[p].job
                          /\ worker'[p].phase = "unborn" <=> worker[p].phase = "unborn"
  BY <1>1, KillsKeepTypes DEF TypeInv
<1>3. /\ pipe' \in [Procs -> Seq(Messages)]
      /\ \A p \in Procs : worker[p].phase = "unborn" => pipe'[p] = pipe[p]
  BY <1>1, ClosingKeepsTypes DEF TypeInv
<1>4. status' \in [Jobs -> Statuses] /\ stdin' \in [Jobs -> Procs \cup {NoProc}]
  BY DEF FinishTurn, TypeInv, TypeOK, Statuses, Settled
<1>5. running' \in Nat
  BY DEF FinishTurn, GivesBack, TypeInv, TypeOK
<1>6. inbox' \in [Jobs -> Nat] /\ pending' \in [Jobs -> BOOLEAN]
  BY DEF FinishTurn, TakesNext, TypeInv, TypeOK
<1>7. IsQueue(queue)'
  BY QueueOperators DEF FinishTurn, TypeInv, IsQueue
<1>8. /\ seq' \in Nat /\ deliveries' \subseteq [seq : Nat, job : Jobs, sent : BOOLEAN]
      /\ \A d \in deliveries' : d.seq <= seq'
  <2>1. /\ seq' = seq + 1
        /\ deliveries' = deliveries \cup {[seq |-> seq + 1, job |-> j, sent |-> FALSE]}
    BY DEF FinishTurn, PushDelivery
  <2>2. seq \in Nat /\ deliveries \subseteq [seq : Nat, job : Jobs, sent : BOOLEAN]
    BY DEF TypeInv, TypeOK
  <2>3. [seq |-> seq + 1, job |-> j, sent |-> FALSE] \in [seq : Nat, job : Jobs, sent : BOOLEAN]
    BY <2>2
  <2>4. \A d \in deliveries : d.seq \in Nat /\ d.seq <= seq
    BY <2>2 DEF TypeInv
  <2>5. seq' \in Nat /\ seq <= seq'
    BY <2>1, <2>2
  <2>6. deliveries' \subseteq [seq : Nat, job : Jobs, sent : BOOLEAN]
    BY <2>1, <2>2, <2>3
  <2>7. ASSUME NEW d \in deliveries' PROVE d.seq <= seq'
    <3>1. CASE d \in deliveries
      BY <3>1, <2>2, <2>4, <2>5
    <3>2. CASE d = [seq |-> seq + 1, job |-> j, sent |-> FALSE]
      BY <3>2, <2>1, <2>5
    <3>. QED
      BY <3>1, <3>2, <2>1
  <2>. QED
    BY <2>5, <2>6, <2>7
<1>9. /\ thread' \in [Threads -> [pc : Labels, job : Jobs \cup {NoJob}, proc : Procs \cup {NoProc}]]
      /\ InHand'
  <2>1. stdin[j] # NoProc => stdin[j] \in Procs /\ worker[stdin[j]].phase # "unborn"
    BY DEF TypeInv, TypeOK, Attached
  <2>2. \/ staged /\ Goto(t, "staged", j, stdin[j])
        \/ ThenDrain(t)
    BY DEF FinishTurn
  <2>3. PICK l \in {"staged", "drain"}, jj \in Jobs \cup {NoJob}, pp \in Procs \cup {NoProc} :
           /\ thread' = [thread EXCEPT ![t] = [pc |-> l, job |-> jj, proc |-> pp]]
           /\ l = "staged" => jj \in Jobs /\ pp \in Procs /\ worker[pp].phase # "unborn"
    BY <2>1, <2>2 DEF Goto, ThenDrain, TakesNext
  <2>4. thread \in [Threads -> [pc : Labels, job : Jobs \cup {NoJob}, proc : Procs \cup {NoProc}]]
    BY DEF TypeInv, TypeOK
  <2>5. thread' \in [Threads -> [pc : Labels, job : Jobs \cup {NoJob}, proc : Procs \cup {NoProc}]]
    BY <2>3, <2>4 DEF Labels
  <2>6. ASSUME NEW u \in Threads
        PROVE  /\ thread'[u].pc \in Busy => thread'[u].job \in Jobs
               /\ thread'[u].pc \in WithProcess =>
                     thread'[u].proc \in Procs /\ worker'[thread'[u].proc].phase # "unborn"
    <3>1. CASE u = t
      BY <3>1, <2>3, <2>4, <1>2 DEF Busy, WithProcess
    <3>2. CASE u # t
      BY <3>2, <2>3, <2>4, <1>2 DEF TypeInv, InHand
    <3>. QED
      BY <3>1, <3>2
  <2>. QED
    BY <2>5, <2>6 DEF InHand
<1>10. Staffed' /\ Attached'
  BY <1>2, <1>3, <1>4 DEF FinishTurn, TypeInv, TypeOK, Staffed, Attached
<1>. QED
  BY <1>2, <1>3, <1>4, <1>5, <1>6, <1>7, <1>8, <1>9, <1>10
     DEF FinishTurn, TypeInv, TypeOK, IsQueue

\* A thread that goes on with what it needs in hand keeps the types, as long as
\* no process is unmade.
LEMMA GotoKeepsTypes ==
    ASSUME TypeInv, NEW t \in Threads, NEW l \in Labels,
           NEW j \in Jobs \cup {NoJob}, NEW p \in Procs \cup {NoProc},
           l \in Busy => j \in Jobs,
           l \in WithProcess => p \in Procs /\ worker'[p].phase # "unborn",
           \A q \in Procs : worker[q].phase # "unborn" => worker'[q].phase # "unborn",
           Goto(t, l, j, p)
    PROVE  /\ thread' \in [Threads -> [pc : Labels, job : Jobs \cup {NoJob},
                                       proc : Procs \cup {NoProc}]]
           /\ InHand'
<1>1. thread \in [Threads -> [pc : Labels, job : Jobs \cup {NoJob}, proc : Procs \cup {NoProc}]]
  BY DEF TypeInv, TypeOK
<1>2. thread' = [thread EXCEPT ![t] = [pc |-> l, job |-> j, proc |-> p]]
  BY DEF Goto
<1>3. thread' \in [Threads -> [pc : Labels, job : Jobs \cup {NoJob}, proc : Procs \cup {NoProc}]]
  BY <1>1, <1>2
<1>4. ASSUME NEW u \in Threads
      PROVE  /\ thread'[u].pc \in Busy => thread'[u].job \in Jobs
             /\ thread'[u].pc \in WithProcess =>
                   thread'[u].proc \in Procs /\ worker'[thread'[u].proc].phase # "unborn"
  <2>1. CASE u = t
    BY <2>1, <1>1, <1>2
  <2>2. CASE u # t
    BY <2>2, <1>1, <1>2 DEF TypeInv, InHand
  <2>. QED
    BY <2>1, <2>2
<1>. QED
  BY <1>3, <1>4 DEF InHand

LEMMA FinishKeepsTypes ==
    ASSUME TypeInv, NEW t \in Threads, NEW j \in Jobs, NEW st \in Settled,
           NEW terminal \in BOOLEAN, NEW pipes \in [Procs -> Seq(Messages)],
           \A p \in Procs : worker[p].phase = "unborn" => pipes[p] = pipe[p],
           NEW next \in {"idle", "drain"},
           Finish(t, j, st, terminal, pipes, next)
    PROVE  TypeInv'
<1>1. CASE FinishTurn(t, j, st, terminal, pipes)
  BY <1>1, FinishTurnKeepsTypes
<1>2. CASE /\ Goto(t, next, NoJob, NoProc)
           /\ pipe' = pipes
           /\ UNCHANGED <<jobVars, slotVars, newsVars, watch, worker, sends, seen>>
  <2>1. /\ thread' \in [Threads -> [pc : Labels, job : Jobs \cup {NoJob}, proc : Procs \cup {NoProc}]]
        /\ InHand'
    <3>1. next \in Labels /\ next \notin Busy /\ next \notin WithProcess
      BY DEF Labels, Busy, WithProcess
    <3>2. worker' = worker
      BY <1>2
    <3>. QED
      BY <1>2, <3>1, <3>2, GotoKeepsTypes
  <2>. QED
    BY <1>2, <2>1 DEF TypeInv, TypeOK, IsQueue, Staffed, Attached, jobVars, slotVars, newsVars
<1>. QED
  BY <1>1, <1>2 DEF Finish

-----------------------------------------------------------------------------
(* One step per action. *)

LEMMA IdleLabels ==
    /\ {"idle", "drain", "checking"} \subseteq Labels
    /\ {"idle", "drain", "checking"} \cap (Busy \cup WithProcess) = {}
    /\ Busy \subseteq Labels /\ WithProcess \subseteq Busy
BY DEF Labels, Busy, WithProcess

\* A turn written to a process, by a thread that then has nothing in hand.
LEMMA GiveKeepsTypes ==
    ASSUME TypeInv, NEW t \in Threads, NEW p \in Procs, NEW l \in {"idle", "drain"},
           worker' = Given(p), Goto(t, l, NoJob, NoProc),
           UNCHANGED <<jobVars, slotVars, newsVars, watch, pipe, sends, seen>>
    PROVE  TypeInv'
<1>1. /\ worker' \in [Procs -> [job : Jobs \cup {NoJob}, phase : Phases, todo : Nat]]
      /\ \A q \in Procs : /\ worker'[q].job = worker[q].job
                          /\ worker'[q].phase = "unborn" <=> worker[q].phase = "unborn"
  <2>1. worker' = [worker EXCEPT ![p].todo = @ + 1]
    BY DEF Given
  <2>2. worker \in [Procs -> [job : Jobs \cup {NoJob}, phase : Phases, todo : Nat]]
    BY DEF TypeInv, TypeOK
  <2>3. worker[p].todo + 1 \in Nat
    BY <2>2
  <2>4. \A q \in Procs : worker'[q] = IF q = p THEN [worker[p] EXCEPT !.todo = worker[p].todo + 1]
                                     ELSE worker[q]
    BY <2>1, <2>2
  <2>. QED
    BY <2>1, <2>2, <2>3, <2>4
<1>2. /\ thread' \in [Threads -> [pc : Labels, job : Jobs \cup {NoJob}, proc : Procs \cup {NoProc}]]
      /\ InHand'
  BY <1>1, IdleLabels, GotoKeepsTypes
<1>. QED
  BY <1>1, <1>2 DEF TypeInv, TypeOK, IsQueue, Staffed, Attached, jobVars, slotVars, newsVars

LEMMA StepKeepsTypes ==
    ASSUME TypeInv, NEW t \in Threads, Step(t)
    PROVE  TypeInv'
<1>. USE DEF jobVars, slotVars, newsVars, procVars, IsQueue
<1>1. CASE Drain(t)
  <2>1. IsQueue(queue') /\ (~Empty(queue) => Front(queue) \in Jobs)
    <3>1. IsQueue(queue) /\ (queue' = queue \/ (~Empty(queue) /\ queue' = PopFront(queue)))
      BY <1>1 DEF Drain, TypeInv
    <3>. HIDE DEF IsQueue
    <3>. QED
      BY <3>1, PopKeepsQueue
  <2>2. \/ Goto(t, "idle", NoJob, NoProc)
        \/ ~Empty(queue) /\ Goto(t, "spawn", Front(queue), NoProc)
    BY <1>1 DEF Drain, GoHome
  <2>3. /\ thread' \in [Threads -> [pc : Labels, job : Jobs \cup {NoJob}, proc : Procs \cup {NoProc}]]
        /\ InHand'
    <3>1. worker' = worker /\ "idle" \in Labels /\ "spawn" \in Labels
          /\ "idle" \notin Busy /\ "idle" \notin WithProcess /\ "spawn" \notin WithProcess
      BY <1>1 DEF Drain, Labels, Busy, WithProcess
    <3>2. CASE Goto(t, "idle", NoJob, NoProc)
      BY <3>1, <3>2, GotoKeepsTypes
    <3>3. CASE ~Empty(queue) /\ Goto(t, "spawn", Front(queue), NoProc)
      BY <3>1, <3>3, <2>1, GotoKeepsTypes
    <3>. QED
      BY <2>2, <3>2, <3>3
  <2>. QED
    BY <1>1, <2>1, <2>3 DEF Drain, TypeInv, TypeOK, Staffed, Attached
<1>2. CASE SpawnSkips(t)
  <2>1. /\ thread' \in [Threads -> [pc : Labels, job : Jobs \cup {NoJob}, proc : Procs \cup {NoProc}]]
        /\ InHand'
    BY <1>2, IdleLabels, GotoKeepsTypes DEF SpawnSkips, ThenDrain
  <2>. QED
    BY <1>2, <2>1 DEF SpawnSkips, TypeInv, TypeOK, Staffed, Attached
<1>3. CASE SpawnStart(t)
  <2>1. thread[t].job \in Jobs
    BY <1>3 DEF SpawnStart, At, TypeInv, InHand, Busy
  <2>2. /\ thread' \in [Threads -> [pc : Labels, job : Jobs \cup {NoJob}, proc : Procs \cup {NoProc}]]
        /\ InHand'
    <3>1. worker' = worker /\ "launch" \in Labels /\ "launch" \notin WithProcess
      BY <1>3 DEF SpawnStart, Labels, WithProcess
    <3>2. Goto(t, "launch", thread[t].job, NoProc)
      BY <1>3 DEF SpawnStart
    <3>. QED
      BY <2>1, <3>1, <3>2, GotoKeepsTypes
  <2>3. /\ status' \in [Jobs -> Statuses] /\ startedAt' \in [Jobs -> Nat]
        /\ inbox' \in [Jobs -> Nat] /\ running' \in Nat
    BY <1>3, <2>1 DEF SpawnStart, TypeInv, TypeOK, Statuses
  <2>. QED
    BY <1>3, <2>2, <2>3 DEF SpawnStart, TypeInv, TypeOK, Staffed, Attached
<1>4. CASE Launch(t)
  <2>1. thread[t].job \in Jobs
    BY <1>4 DEF Launch, At, TypeInv, InHand, Busy
  <2>2. PICK p \in Procs :
          /\ worker[p].phase = "unborn"
          /\ worker' = [worker EXCEPT ![p] = [job |-> thread[t].job,
                                              phase |-> "started", todo |-> 1]]
          /\ Goto(t, "attach", thread[t].job, p)
    BY <1>4 DEF Launch
  <2>3. worker' \in [Procs -> [job : Jobs \cup {NoJob}, phase : Phases, todo : Nat]]
    BY <2>1, <2>2 DEF TypeInv, TypeOK, Phases
  <2>4. /\ \A q \in Procs : q # p => worker'[q] = worker[q]
        /\ worker'[p].phase = "started" /\ worker'[p].job \in Jobs
    BY <2>1, <2>2 DEF TypeInv, TypeOK
  <2>5. /\ thread' \in [Threads -> [pc : Labels, job : Jobs \cup {NoJob}, proc : Procs \cup {NoProc}]]
        /\ InHand'
    <3>1. "attach" \in Labels
      BY DEF Labels
    <3>. QED
      BY <2>1, <2>2, <2>4, <3>1, GotoKeepsTypes
  <2>6. Staffed'
    BY <1>4, <2>4 DEF Launch, TypeInv, Staffed
  <2>7. Attached'
    BY <1>4, <2>4 DEF Launch, TypeInv, TypeOK, Attached
  <2>. QED
    BY <1>4, <2>3, <2>5, <2>6, <2>7 DEF Launch, TypeInv, TypeOK
<1>5. CASE LaunchFails(t)
  <2>1. thread[t].job \in Jobs /\ pipe \in [Procs -> Seq(Messages)]
    BY <1>5 DEF LaunchFails, At, TypeInv, TypeOK, InHand, Busy
  <2>. QED
    BY <1>5, <2>1, FinishKeepsTypes DEF LaunchFails, Settled
<1>6. CASE Attach(t)
  <2>1. /\ thread[t].job \in Jobs
        /\ thread[t].proc \in Procs /\ worker[thread[t].proc].phase # "unborn"
    BY <1>6 DEF Attach, At, TypeInv, InHand, Busy, WithProcess
  <2>2. /\ thread' \in [Threads -> [pc : Labels, job : Jobs \cup {NoJob}, proc : Procs \cup {NoProc}]]
        /\ InHand'
    <3>1. worker' = worker /\ "arm" \in Labels
      BY <1>6 DEF Attach, Labels
    <3>2. Goto(t, "arm", thread[t].job, thread[t].proc)
      BY <1>6 DEF Attach
    <3>. QED
      BY <2>1, <3>1, <3>2, GotoKeepsTypes
  <2>3. stdin' \in [Jobs -> Procs \cup {NoProc}] /\ Attached'
    BY <1>6, <2>1 DEF Attach, TypeInv, TypeOK, Attached
  <2>. QED
    BY <1>6, <2>2, <2>3 DEF Attach, TypeInv, TypeOK, Staffed
<1>7. CASE Arm(t)
  <2>. DEFINE p == thread[t].proc
  <2>1. /\ thread[t].job \in Jobs
        /\ p \in Procs /\ worker[p].phase # "unborn"
    BY <1>7 DEF Arm, At, TypeInv, InHand, Busy, WithProcess
  <2>2. worker' \in [Procs -> [job : Jobs \cup {NoJob}, phase : Phases, todo : Nat]]
    <3>1. worker' \in {worker, [worker EXCEPT ![p].phase = "opening"]}
      BY <1>7 DEF Arm
    <3>2. worker \in [Procs -> [job : Jobs \cup {NoJob}, phase : Phases, todo : Nat]]
      BY DEF TypeInv, TypeOK
    <3>. QED
      BY <2>1, <3>1, <3>2 DEF Phases
  <2>3. \A q \in Procs : /\ worker'[q].job = worker[q].job
                         /\ worker'[q].phase = "unborn" <=> worker[q].phase = "unborn"
    BY <1>7, <2>1 DEF Arm, TypeInv, TypeOK
  <2>4. watch' \in [Procs -> Nat] /\ \A q \in Procs : q # p => watch'[q] = watch[q]
    BY <1>7, <2>1 DEF Arm, TypeInv, TypeOK, RunOf
  <2>5. thread \in [Threads -> [pc : Labels, job : Jobs \cup {NoJob}, proc : Procs \cup {NoProc}]]
    BY DEF TypeInv, TypeOK
  <2>6. thread' = [thread EXCEPT ![p].pc = "idle",
                                 ![t] = [pc |-> "drain", job |-> NoJob, proc |-> NoProc]]
    BY <1>7 DEF Arm
  <2>7. thread' \in [Threads -> [pc : Labels, job : Jobs \cup {NoJob}, proc : Procs \cup {NoProc}]]
    BY <2>1, <2>5, <2>6, IdleLabels, ThreadKinds
  <2>8. ASSUME NEW u \in Threads
        PROVE  /\ thread'[u].pc \in Busy => thread'[u].job \in Jobs
               /\ thread'[u].pc \in WithProcess =>
                     thread'[u].proc \in Procs /\ worker'[thread'[u].proc].phase # "unborn"
    <3>1. CASE u = t
      BY <3>1, <2>5, <2>6, IdleLabels
    <3>2. CASE u # t /\ u = p
      <4>1. thread'[u].pc = "idle"
        BY <3>2, <2>5, <2>6
      <4>. QED
        BY <4>1, IdleLabels
    <3>3. CASE u # t /\ u # p
      BY <3>3, <2>3, <2>5, <2>6 DEF TypeInv, InHand
    <3>. QED
      BY <3>1, <3>2, <3>3
  <2>9. InHand'
    BY <2>8 DEF InHand
  <2>10. Staffed' /\ Attached'
    BY <1>7, <2>1, <2>3, <2>4 DEF Arm, TypeInv, TypeOK, Staffed, Attached
  <2>. QED
    BY <1>7, <2>2, <2>4, <2>7, <2>9, <2>10 DEF Arm, TypeInv, TypeOK
<1>8. CASE WriteStaged(t)
  <2>1. /\ thread[t].job \in Jobs /\ pipe \in [Procs -> Seq(Messages)]
        /\ thread[t].proc \in Procs
    BY <1>8 DEF WriteStaged, At, TypeInv, TypeOK, InHand, Busy, WithProcess
  <2>2. CASE /\ worker' = Given(thread[t].proc)
             /\ ThenDrain(t)
             /\ UNCHANGED <<jobVars, slotVars, newsVars, watch, pipe, sends, seen>>
    BY <2>1, <2>2, GiveKeepsTypes DEF ThenDrain
  <2>3. CASE Finish(t, thread[t].job, "failed", TRUE, pipe, "idle")
    BY <2>1, <2>3, FinishKeepsTypes DEF Settled
  <2>. QED
    BY <1>8, <2>2, <2>3 DEF WriteStaged
<1>. QED
  BY <1>1, <1>2, <1>3, <1>4, <1>5, <1>6, <1>7, <1>8 DEF Step

LEMMA ReadKeepsTypes ==
    ASSUME TypeInv, NEW p \in Procs, pipe[p] # <<>>
    PROVE  /\ worker[p].job \in Jobs
           /\ Read(p) \in [Procs -> Seq(Messages)]
           /\ \A q \in Procs : worker[q].phase = "unborn" => Read(p)[q] = pipe[q]
<1>1. worker[p].phase # "unborn" /\ worker[p].job \in Jobs
  BY DEF TypeInv, Staffed
<1>2. pipe \in [Procs -> Seq(Messages)] /\ Tail(pipe[p]) \in Seq(Messages)
  BY DEF TypeInv, TypeOK
<1>3. Read(p) = [pipe EXCEPT ![p] = Tail(pipe[p])]
  BY DEF Read
<1>. QED
  BY <1>1, <1>2, <1>3

LEMMA ReadsKeepTypes ==
    ASSUME TypeInv, NEW p \in Procs, Reads(p)
    PROVE  TypeInv'
<1>1. pipe[p] # <<>>
  BY DEF Reads, ReadThread, ReadAsk, ReadTurnEnd, ReadRefused, ReadEof, Hears
<1>2. /\ worker[p].job \in Jobs
      /\ Read(p) \in [Procs -> Seq(Messages)]
      /\ \A q \in Procs : worker[q].phase = "unborn" => Read(p)[q] = pipe[q]
  BY <1>1, ReadKeepsTypes
<1>3. CASE ReadThread(p)
  <2>1. threadId' \in [Jobs -> BOOLEAN]
    BY <1>2, <1>3 DEF ReadThread, TypeInv, TypeOK
  <2>. QED
    BY <1>2, <1>3, <2>1 DEF ReadThread, TypeInv, TypeOK, IsQueue, InHand, Staffed,
                            Attached, slotVars, newsVars
<1>4. CASE ReadAsk(p)
  <2>1. pending' \in [Jobs -> BOOLEAN] /\ status' \in [Jobs -> Statuses]
    BY <1>2, <1>4 DEF ReadAsk, TypeInv, TypeOK, Statuses
  <2>. QED
    BY <1>2, <1>4, <2>1 DEF ReadAsk, TypeInv, TypeOK, IsQueue, InHand, Staffed,
                            Attached, slotVars, newsVars
<1>5. CASE ReadTurnEnd(p)
  BY <1>2, <1>5, FinishKeepsTypes, ThreadKinds DEF ReadTurnEnd, Settled
<1>6. CASE ReadRefused(p)
  BY <1>2, <1>6, FinishKeepsTypes, ThreadKinds DEF ReadRefused, Settled
<1>7. CASE ReadEof(p)
  BY <1>2, <1>7, FinishKeepsTypes, ThreadKinds DEF ReadEof, Settled
<1>. QED
  BY <1>3, <1>4, <1>5, <1>6, <1>7 DEF Reads

LEMMA WatchdogKeepsTypes ==
    ASSUME TypeInv, NEW p \in Procs, WatchdogActs(p)
    PROVE  TypeInv'
<1>. DEFINE w == Watchdog(p)
<1>1. w \in Threads
  BY ThreadKinds
<1>2. CASE WatchdogWakes(p)
  <2>1. worker[p].job \in Jobs
    BY <1>2 DEF WatchdogWakes, Expires, TypeInv, Staffed
  <2>2. watch' \in [Procs -> Nat] /\ \A q \in Procs : watch'[q] > 0 => watch[q] > 0
    BY <1>2 DEF WatchdogWakes, TypeInv, TypeOK
  <2>3. \/ thread' = thread
        \/ Goto(w, "stopping", worker[p].job, NoProc)
    BY <1>2 DEF WatchdogWakes
  <2>4. worker' = worker
    BY <1>2 DEF WatchdogWakes, procVars
  <2>5. /\ thread' \in [Threads -> [pc : Labels, job : Jobs \cup {NoJob}, proc : Procs \cup {NoProc}]]
        /\ InHand'
    <3>1. CASE thread' = thread
      BY <2>4, <3>1 DEF TypeInv, TypeOK, InHand
    <3>2. CASE Goto(w, "stopping", worker[p].job, NoProc)
      <4>1. "stopping" \in Labels /\ "stopping" \notin WithProcess
        BY DEF Labels, WithProcess
      <4>. QED
        BY <1>1, <2>1, <2>4, <3>2, <4>1, GotoKeepsTypes
    <3>. QED
      BY <2>3, <3>1, <3>2
  <2>. QED
    BY <1>2, <2>2, <2>5 DEF WatchdogWakes, TypeInv, TypeOK, IsQueue, Staffed, Attached,
                            jobVars, slotVars, newsVars, procVars
<1>3. CASE WatchdogStops(p)
  <2>1. thread[w].job \in Jobs /\ pipe \in [Procs -> Seq(Messages)]
    BY <1>1, <1>3 DEF WatchdogStops, At, TypeInv, TypeOK, InHand, Busy
  <2>. QED
    BY <1>1, <1>3, <2>1, FinishKeepsTypes DEF WatchdogStops, Settled
<1>. QED
  BY <1>2, <1>3 DEF WatchdogActs

LEMMA WorkerKeepsTypes ==
    ASSUME TypeInv, NEW p \in Procs, WorkerActs(p)
    PROVE  TypeInv'
<1>1. /\ worker[p].phase # "unborn" /\ WorkerUnchanged
      /\ \E m \in Messages : Says(p, m)
      /\ \E ph \in Phases, n \in Nat : ph # "unborn" /\ Becomes(p, ph, n)
  <2>1. worker[p].todo \in Nat
    BY DEF TypeInv, TypeOK
  <2>2. CASE WorkerOpens(p)
    BY <2>1, <2>2 DEF WorkerOpens, Messages, Phases
  <2>3. CASE WorkerRefuses(p)
    BY <2>1, <2>3 DEF WorkerRefuses, Messages, Phases
  <2>4. CASE WorkerAsks(p)
    BY <2>1, <2>4 DEF WorkerAsks, Messages, Phases
  <2>5. CASE WorkerEndsTurn(p)
    <3>1. worker[p].todo - 1 \in Nat
      BY <2>1, <2>5 DEF WorkerEndsTurn
    <3>. QED
      BY <2>5, <3>1 DEF WorkerEndsTurn, Messages, Phases
  <2>6. CASE WorkerDies(p)
    BY <2>1, <2>6 DEF WorkerDies, Alive, Messages, Phases
  <2>. QED
    BY <2>2, <2>3, <2>4, <2>5, <2>6 DEF WorkerActs
<1>2. PICK m \in Messages : pipe' = [pipe EXCEPT ![p] = Append(pipe[p], m)]
  BY <1>1 DEF Says
<1>3. PICK ph \in Phases, n \in Nat :
        ph # "unborn" /\ worker' = [worker EXCEPT ![p].phase = ph, ![p].todo = n]
  BY <1>1 DEF Becomes
<1>4. worker \in [Procs -> [job : Jobs \cup {NoJob}, phase : Phases, todo : Nat]]
  BY DEF TypeInv, TypeOK
<1>5. /\ worker' \in [Procs -> [job : Jobs \cup {NoJob}, phase : Phases, todo : Nat]]
      /\ \A q \in Procs : /\ worker'[q].job = worker[q].job
                          /\ worker'[q].phase = "unborn" <=> worker[q].phase = "unborn"
  BY <1>1, <1>3, <1>4
<1>6. pipe' \in [Procs -> Seq(Messages)] /\ \A q \in Procs : q # p => pipe'[q] = pipe[q]
  BY <1>2 DEF TypeInv, TypeOK
<1>7. InHand'
  BY <1>1, <1>5 DEF WorkerUnchanged, TypeInv, TypeOK, InHand
<1>8. Staffed' /\ Attached'
  BY <1>1, <1>5, <1>6 DEF WorkerUnchanged, TypeInv, TypeOK, Staffed, Attached, jobVars
<1>. QED
  BY <1>1, <1>5, <1>6, <1>7, <1>8 DEF WorkerUnchanged, TypeInv, TypeOK, IsQueue,
                                      jobVars, slotVars, newsVars

LEMMA DelegateKeepsTypes ==
    ASSUME TypeInv, NEW c \in Callers, NEW batch \in Batches, Delegate(c, batch)
    PROVE  TypeInv'
<1>1. /\ batch \in Seq(Jobs)
      /\ \/ Len(batch) = 1 /\ batch[1] \in Jobs
         \/ Len(batch) = 2 /\ batch[1] \in Jobs /\ batch[2] \in Jobs
  <2>1. CASE \E j \in Jobs : batch = <<j>>
    BY <2>1
  <2>2. CASE batch \in Jobs \X Jobs
    <3>1. PICK i \in Jobs, j \in Jobs : batch = <<i, j>>
      BY <2>2
    <3>. QED
      BY <3>1
  <2>. QED
    BY <2>1, <2>2 DEF Batches
<1>2. IsQueue(queue)
  BY DEF TypeInv
<1>3. IsQueue(queue')
  <2>1. CASE Len(batch) = 1 /\ batch[1] \in Jobs
    BY <1>2, <2>1, QueueOperators DEF Delegate
  <2>2. CASE Len(batch) = 2 /\ batch[1] \in Jobs /\ batch[2] \in Jobs
    <3>1. IsQueue(PushBack(queue, batch[1]))
      BY <1>2, <2>2, QueueOperators
    <3>2. IsQueue(PushBack(PushBack(queue, batch[1]), batch[2]))
      BY <2>2, <3>1, QueueOperators
    <3>. QED
      BY <2>2, <3>2 DEF Delegate
  <2>. QED
    BY <1>1, <2>1, <2>2
<1>4. order' \in Seq(Jobs) /\ status' \in [Jobs -> Statuses]
  BY <1>1 DEF Delegate, TypeInv, TypeOK, Statuses
<1>5. /\ thread' \in [Threads -> [pc : Labels, job : Jobs \cup {NoJob}, proc : Procs \cup {NoProc}]]
      /\ InHand'
  BY IdleLabels, GotoKeepsTypes, ThreadKinds DEF Delegate, ThenDrain, procVars
<1>. QED
  BY <1>3, <1>4, <1>5 DEF Delegate, TypeInv, TypeOK, IsQueue, Staffed, Attached,
                          newsVars, procVars

LEMMA SendKeepsTypes ==
    ASSUME TypeInv, NEW c \in Callers, NEW j \in Jobs,
           SendFindsNoProcess(c, j) \/ SendWaits(c, j) \/ SendFollowUp(c, j)
    PROVE  TypeInv'
<1>. USE DEF jobVars, slotVars, newsVars, procVars
<1>1. CASE SendFindsNoProcess(c, j)
  <2>1. /\ thread' \in [Threads -> [pc : Labels, job : Jobs \cup {NoJob}, proc : Procs \cup {NoProc}]]
        /\ InHand'
    <3>1. "revive" \in Labels /\ "revive" \notin WithProcess /\ worker' = worker
      BY <1>1 DEF SendFindsNoProcess, Labels, WithProcess
    <3>. QED
      BY <1>1, <3>1, GotoKeepsTypes, ThreadKinds DEF SendFindsNoProcess
  <2>2. sends' \in Nat
    BY <1>1 DEF SendFindsNoProcess, TypeInv, TypeOK
  <2>3. TypeOK'
    BY <1>1, <2>1, <2>2, Zenon DEF SendFindsNoProcess, TypeInv, TypeOK
  <2>4. IsQueue(queue)' /\ (\A d \in deliveries : d.seq <= seq)'
    BY <1>1 DEF SendFindsNoProcess, TypeInv, IsQueue
  <2>5. Staffed' /\ Attached'
    BY <1>1 DEF SendFindsNoProcess, TypeInv, Staffed, Attached
  <2>. QED
    BY <2>1, <2>3, <2>4, <2>5 DEF TypeInv
<1>2. CASE SendWaits(c, j)
  <2>1. inbox' \in [Jobs -> Nat] /\ sends' \in Nat
    BY <1>2 DEF SendWaits, TypeInv, TypeOK
  <2>2. InHand' /\ Staffed' /\ Attached'
    BY <1>2 DEF SendWaits, TypeInv, InHand, Staffed, Attached
  <2>. QED
    BY <1>2, <2>1, <2>2 DEF SendWaits, TypeInv, TypeOK, IsQueue
<1>3. CASE SendFollowUp(c, j)
  <2>1. /\ thread' \in [Threads -> [pc : Labels, job : Jobs \cup {NoJob}, proc : Procs \cup {NoProc}]]
        /\ InHand'
    <3>1. "followup" \in Labels /\ worker' = worker
      BY <1>3 DEF SendFollowUp, Labels
    <3>2. stdin[j] \in Procs /\ worker[stdin[j]].phase # "unborn"
      BY <1>3 DEF SendFollowUp, TypeInv, TypeOK, Attached
    <3>. QED
      BY <1>3, <3>1, <3>2, GotoKeepsTypes, ThreadKinds DEF SendFollowUp
  <2>2. status' \in [Jobs -> Statuses] /\ running' \in Nat /\ sends' \in Nat
    BY <1>3 DEF SendFollowUp, TypeInv, TypeOK, Statuses
  <2>. QED
    BY <1>3, <2>1, <2>2 DEF SendFollowUp, TypeInv, TypeOK, IsQueue, Staffed, Attached
<1>. QED
  BY <1>1, <1>2, <1>3

LEMMA ReleaseKeepsTypes ==
    ASSUME TypeInv, NEW c \in Callers, NEW listed \in SUBSET Jobs, Release(c, listed)
    PROVE  TypeInv'
<1>1. PICK S : worker' = Killed(S) /\ pipe' = Closed(pipe, S)
  BY DEF Release
<1>2. /\ worker' \in [Procs -> [job : Jobs \cup {NoJob}, phase : Phases, todo : Nat]]
      /\ \A p \in Procs : /\ worker'[p].job = worker[p].job
                          /\ worker'[p].phase = "unborn" <=> worker[p].phase = "unborn"
  BY <1>1, KillsKeepTypes DEF TypeInv
<1>3. /\ pipe' \in [Procs -> Seq(Messages)]
      /\ \A p \in Procs : worker[p].phase = "unborn" => pipe'[p] = pipe[p]
  <2>1. pipe \in [Procs -> Seq(Messages)]
    BY DEF TypeInv, TypeOK
  <2>. QED
    BY <1>1, <2>1, ClosingKeepsTypes DEF TypeInv
<1>4. /\ status' \in [Jobs -> Statuses] /\ stdin' \in [Jobs -> Procs \cup {NoProc}]
      /\ \A j \in Jobs : stdin'[j] # NoProc => stdin'[j] = stdin[j]
  BY DEF Release, TypeInv, TypeOK, Statuses
<1>5. InHand' /\ Staffed' /\ Attached'
  BY <1>2, <1>3, <1>4 DEF Release, TypeInv, TypeOK, InHand, Staffed, Attached
<1>. QED
  BY <1>2, <1>3, <1>4, <1>5 DEF Release, TypeInv, TypeOK, IsQueue, slotVars, newsVars

LEMMA CheckKeepsTypes ==
    ASSUME TypeInv, NEW c \in Callers, CheckStarts(c) \/ CheckReturns(c)
    PROVE  TypeInv'
<1>. USE DEF jobVars, slotVars, newsVars, procVars
<1>1. deliveries \subseteq [seq : Nat, job : Jobs, sent : BOOLEAN] /\ seq \in Nat
      /\ \A d \in deliveries : d.seq <= seq
  BY DEF TypeInv, TypeOK
<1>2. CASE CheckStarts(c)
  <2>1. /\ thread' \in [Threads -> [pc : Labels, job : Jobs \cup {NoJob}, proc : Procs \cup {NoProc}]]
        /\ InHand'
    BY <1>2, IdleLabels, GotoKeepsTypes, ThreadKinds DEF CheckStarts
  <2>2. deliveries' \subseteq deliveries /\ seq' = seq
    BY <1>2 DEF CheckStarts, KeptUntilAcked
  <2>. QED
    <3>1. Staffed' /\ Attached' /\ \A d \in deliveries' : d.seq <= seq'
      BY <1>1, <1>2, <2>2 DEF CheckStarts, TypeInv, Staffed, Attached
    <3>2. deliveries' \subseteq [seq : Nat, job : Jobs, sent : BOOLEAN]
      BY <1>1, <2>2
    <3>. QED
      BY <1>2, <2>1, <3>1, <3>2 DEF CheckStarts, TypeInv, TypeOK, IsQueue
<1>3. CASE CheckReturns(c)
  <2>1. /\ thread' \in [Threads -> [pc : Labels, job : Jobs \cup {NoJob}, proc : Procs \cup {NoProc}]]
        /\ InHand'
    BY <1>3, IdleLabels, GotoKeepsTypes, ThreadKinds DEF CheckReturns, GoHome
  <2>2. /\ deliveries' \subseteq [seq : Nat, job : Jobs, sent : BOOLEAN]
        /\ \A d \in deliveries' : d.seq <= seq
    <3>1. deliveries' = {[d EXCEPT !.sent = TRUE] : d \in deliveries}
      BY <1>3 DEF CheckReturns
    <3>2. ASSUME NEW e \in deliveries'
          PROVE  e \in [seq : Nat, job : Jobs, sent : BOOLEAN] /\ e.seq <= seq
      <4>1. PICK d \in deliveries : e = [d EXCEPT !.sent = TRUE]
        BY <3>1
      <4>2. d \in [seq : Nat, job : Jobs, sent : BOOLEAN] /\ d.seq <= seq
        BY <1>1
      <4>. QED
        BY <4>1, <4>2
    <3>. QED
      BY <3>2
  <2>3. seen' \in [Callers -> SUBSET Nat]
    <3>. DEFINE S == {d.seq : d \in deliveries}
    <3>1. S \subseteq Nat
      BY <1>1
    <3>2. seen' = [seen EXCEPT ![c] = @ \cup S] \/ seen' = seen
      BY <1>3 DEF CheckReturns
    <3>3. seen \in [Callers -> SUBSET Nat]
      BY DEF TypeInv, TypeOK
    <3>. HIDE DEF S
    <3>. QED
      BY <3>1, <3>2, <3>3
  <2>. QED
    BY <1>1, <1>3, <2>1, <2>2, <2>3 DEF CheckReturns, TypeInv, TypeOK, IsQueue, Staffed, Attached
<1>. QED
  BY <1>2, <1>3

LEMMA CallerKeepsTypes ==
    ASSUME TypeInv, NEW c \in Callers, CallerActs(c) \/ CallerGoesOn(c)
    PROVE  TypeInv'
<1>. USE DEF jobVars, slotVars, newsVars, procVars
<1>1. ASSUME NEW batch \in Batches, Delegate(c, batch) PROVE TypeInv'
  BY <1>1, DelegateKeepsTypes
<1>2. ASSUME NEW j \in Jobs,
             SendFindsNoProcess(c, j) \/ SendWaits(c, j) \/ SendFollowUp(c, j)
      PROVE  TypeInv'
  BY <1>2, SendKeepsTypes
<1>3. ASSUME NEW j \in Jobs, Cancel(c, j) PROVE TypeInv'
  <2>1. pipe \in [Procs -> Seq(Messages)]
    BY DEF TypeInv, TypeOK
  <2>. QED
    BY <1>3, <2>1, FinishKeepsTypes, ThreadKinds DEF Cancel, Settled
<1>4. ASSUME NEW j \in Jobs, Answer(c, j) PROVE TypeInv'
  <2>1. /\ worker' \in [Procs -> [job : Jobs \cup {NoJob}, phase : Phases, todo : Nat]]
        /\ \A p \in Procs : /\ worker'[p].job = worker[p].job
                            /\ worker'[p].phase = "unborn" <=> worker[p].phase = "unborn"
    <3>1. CASE worker' = worker
      BY <3>1 DEF TypeInv, TypeOK
    <3>2. CASE worker[stdin[j]].phase = "asking" /\ stdin[j] # NoProc
               /\ worker' = [worker EXCEPT ![stdin[j]].phase = "live"]
      BY <3>2 DEF TypeInv, TypeOK, Phases
    <3>. QED
      BY <1>4, <3>1, <3>2 DEF Answer
  <2>2. status' \in [Jobs -> Statuses] /\ pending' \in [Jobs -> BOOLEAN]
    BY <1>4 DEF Answer, TypeInv, TypeOK, Statuses
  <2>3. InHand'
    BY <1>4, <2>1 DEF Answer, TypeInv, TypeOK, InHand
  <2>. QED
    <3>1. Staffed' /\ Attached'
      BY <1>4, <2>1 DEF Answer, TypeInv, TypeOK, Staffed, Attached
    <3>. QED
      BY <1>4, <2>1, <2>2, <2>3, <3>1 DEF Answer, TypeInv, TypeOK, IsQueue
<1>5. ASSUME NEW listed \in SUBSET Jobs, Release(c, listed) PROVE TypeInv'
  BY <1>5, ReleaseKeepsTypes
<1>6. ASSUME NEW n \in Limits, ApplySettings(c, n) PROVE TypeInv'
  <2>1. /\ thread' \in [Threads -> [pc : Labels, job : Jobs \cup {NoJob}, proc : Procs \cup {NoProc}]]
        /\ InHand'
    BY <1>6, IdleLabels, GotoKeepsTypes, ThreadKinds DEF ApplySettings, ThenDrain
  <2>. QED
    BY <1>6, <2>1 DEF ApplySettings, TypeInv, TypeOK, IsQueue, Staffed, Attached
<1>7. CASE CheckStarts(c) \/ CheckReturns(c)
  BY <1>7, CheckKeepsTypes
<1>8. CASE Revive(c)
  <2>1. thread[c].job \in Jobs
    BY <1>8, ThreadKinds DEF Revive, At, TypeInv, InHand, Busy
  <2>2. /\ thread' \in [Threads -> [pc : Labels, job : Jobs \cup {NoJob}, proc : Procs \cup {NoProc}]]
        /\ InHand'
    BY <1>8, IdleLabels, GotoKeepsTypes, ThreadKinds DEF Revive, ThenDrain
  <2>3. IsQueue(queue')
    BY <1>8, <2>1, QueueOperators DEF Revive, TypeInv
  <2>4. status' \in [Jobs -> Statuses] /\ inbox' \in [Jobs -> Nat]
    BY <1>8, <2>1 DEF Revive, TypeInv, TypeOK, Statuses
  <2>. QED
    BY <1>8, <2>2, <2>3, <2>4 DEF Revive, TypeInv, TypeOK, IsQueue, Staffed, Attached
<1>9. CASE WriteFollowUp(c)
  <2>1. /\ thread[c].job \in Jobs /\ thread[c].proc \in Procs
        /\ pipe \in [Procs -> Seq(Messages)]
    BY <1>9, ThreadKinds DEF WriteFollowUp, At, TypeInv, TypeOK, InHand, Busy, WithProcess
  <2>2. CASE /\ worker' = Given(thread[c].proc)
             /\ GoHome(c)
             /\ UNCHANGED <<jobVars, slotVars, newsVars, watch, pipe, sends, seen>>
    BY <2>1, <2>2, GiveKeepsTypes, ThreadKinds DEF GoHome
  <2>3. CASE Finish(c, thread[c].job, "failed", TRUE, pipe, "idle")
    BY <2>1, <2>3, FinishKeepsTypes, ThreadKinds DEF Settled
  <2>. QED
    BY <1>9, <2>2, <2>3 DEF WriteFollowUp
<1>. QED
  BY <1>1, <1>2, <1>3, <1>4, <1>5, <1>6, <1>7, <1>8, <1>9 DEF CallerActs, CallerGoesOn

LEMMA NextKeepsTypes == TypeInv /\ [Next]_vars => TypeInv'
<1>. SUFFICES ASSUME TypeInv, [Next]_vars PROVE TypeInv'
  OBVIOUS
<1>1. CASE UNCHANGED vars
  BY <1>1 DEF vars, jobVars, slotVars, newsVars, procVars, TypeInv, TypeOK, IsQueue,
              InHand, Staffed, Attached
<1>2. CASE Next
  BY <1>2, StepKeepsTypes, ReadsKeepTypes, WatchdogKeepsTypes, WorkerKeepsTypes,
     CallerKeepsTypes DEF Next
<1>. QED
  BY <1>1, <1>2

\* Every reachable state is well typed: no handler subtracts from a counter at
\* zero, works on without a job in hand, or leaves the queue without a front.
THEOREM TypeCorrect == Spec => []TypeOK
<1>1. Spec => []TypeInv
  BY TypeInvInit, NextKeepsTypes, PTL DEF Spec
<1>2. TypeInv => TypeOK
  BY DEF TypeInv
<1>. QED
  BY <1>1, <1>2, PTL

-----------------------------------------------------------------------------
(* No lost wake-up.  A step either leaves a thread inside drain_queue's     *)
(* loop, or moves a thread that was not in it while the queue gains nothing *)
(* and no slot is freed.                                                    *)

LEMMA NowDraining ==
    ASSUME NEW t \in Threads, thread'[t].pc \in Draining
    PROVE  NoStrandedQueue'
BY DEF NoStrandedQueue

LEMMA StillDraining ==
    ASSUME TypeInv, TypeInv', NoStrandedQueue, NEW t \in Threads,
           thread[t].pc \notin Draining,
           \A u \in Threads \ {t} : thread'[u] = thread[u],
           DOMAIN queue' # {} => DOMAIN queue # {},
           running <= running', maxConcurrent' = maxConcurrent
    PROVE  NoStrandedQueue'
<1>1. SUFFICES ASSUME DOMAIN queue' # {}, running' < maxConcurrent'
               PROVE  \E u \in Threads : thread'[u].pc \in Draining
  BY DEF NoStrandedQueue
<1>2. running \in Nat /\ running' \in Nat /\ maxConcurrent \in Nat
  BY DEF TypeInv, TypeOK
<1>3. running < maxConcurrent
  BY <1>1, <1>2
<1>4. PICK u \in Threads : thread[u].pc \in Draining
  BY <1>1, <1>3 DEF NoStrandedQueue
<1>. QED
  BY <1>4

\* Where a thread goes, when it does go somewhere.
LEMMA GotoMoves ==
    ASSUME TypeInv, NEW t \in Threads, NEW l, NEW j, NEW p, Goto(t, l, j, p)
    PROVE  /\ thread'[t].pc = l
           /\ \A u \in Threads \ {t} : thread'[u] = thread[u]
BY DEF Goto, TypeInv, TypeOK

LEMMA FinishKeepsDraining ==
    ASSUME TypeInv, TypeInv', NoStrandedQueue, NEW t \in Threads, NEW j \in Jobs,
           NEW st, NEW terminal \in BOOLEAN, NEW pipes, NEW next,
           \/ thread[t].pc \notin Draining
           \/ terminal /\ next = "drain",
           Finish(t, j, st, terminal, pipes, next)
    PROVE  NoStrandedQueue'
<1>1. CASE FinishTurn(t, j, st, terminal, pipes) /\ ThenDrain(t)
  BY <1>1, GotoMoves, NowDraining DEF ThenDrain, Draining
<1>2. CASE FinishTurn(t, j, st, terminal, pipes) /\ ~ThenDrain(t)
  <2>1. /\ Goto(t, "staged", j, stdin[j]) /\ ~terminal
        /\ running' = GivesBack(j) + 1
    BY <1>2 DEF FinishTurn, TakesNext
  <2>2. running <= running' /\ maxConcurrent' = maxConcurrent
    BY <1>2, <2>1 DEF FinishTurn, GivesBack, TypeInv, TypeOK
  <2>3. DOMAIN queue' # {} => DOMAIN queue # {}
    BY <1>2 DEF FinishTurn, Without
  <2>. QED
    BY <2>1, <2>2, <2>3, GotoMoves, StillDraining
<1>3. CASE /\ Goto(t, next, NoJob, NoProc)
           /\ UNCHANGED <<jobVars, slotVars, newsVars, watch, worker, sends, seen>>
  <2>1. CASE thread[t].pc \notin Draining
    <3>1. running <= running' /\ maxConcurrent' = maxConcurrent /\ queue' = queue
      BY <1>3 DEF slotVars, TypeInv, TypeOK
    <3>. QED
      BY <1>3, <2>1, <3>1, GotoMoves, StillDraining
  <2>2. CASE terminal /\ next = "drain"
    BY <1>3, <2>2, GotoMoves, NowDraining DEF Draining
  <2>. QED
    BY <2>1, <2>2
<1>. QED
  BY <1>1, <1>2, <1>3 DEF Finish

LEMMA StepKeepsDraining ==
    ASSUME TypeInv, TypeInv', NoStrandedQueue, NEW t \in Threads, Step(t)
    PROVE  NoStrandedQueue'
<1>1. CASE Drain(t)
  <2>1. CASE running >= maxConcurrent \/ Empty(queue)
    BY <1>1, <2>1 DEF Drain, Empty, NoStrandedQueue, TypeInv, TypeOK
  <2>2. CASE ~(running >= maxConcurrent \/ Empty(queue))
    BY <1>1, <2>2, GotoMoves, NowDraining DEF Drain, Draining
  <2>. QED
    BY <2>1, <2>2
<1>2. CASE SpawnSkips(t)
  BY <1>2, GotoMoves, NowDraining DEF SpawnSkips, ThenDrain, Draining
<1>3. CASE SpawnStart(t)
  BY <1>3, GotoMoves, NowDraining DEF SpawnStart, Draining
<1>4. CASE Launch(t)
  BY <1>4, GotoMoves, NowDraining DEF Launch, Draining
<1>5. CASE LaunchFails(t)
  <2>1. thread[t].job \in Jobs
    BY <1>5 DEF LaunchFails, At, TypeInv, InHand, Busy
  <2>. QED
    BY <1>5, <2>1, FinishKeepsDraining DEF LaunchFails
<1>6. CASE Attach(t)
  BY <1>6, GotoMoves, NowDraining DEF Attach, Draining
<1>7. CASE Arm(t)
  BY <1>7, NowDraining DEF Arm, Draining, TypeInv, TypeOK
<1>8. CASE WriteStaged(t)
  <2>1. thread[t].job \in Jobs /\ thread[t].pc \notin Draining
    BY <1>8 DEF WriteStaged, At, TypeInv, InHand, Busy, Draining
  <2>2. CASE ThenDrain(t)
    BY <2>2, GotoMoves, NowDraining DEF ThenDrain, Draining
  <2>3. CASE Finish(t, thread[t].job, "failed", TRUE, pipe, "idle")
    BY <2>1, <2>3, FinishKeepsDraining
  <2>. QED
    BY <1>8, <2>2, <2>3 DEF WriteStaged
<1>. QED
  BY <1>1, <1>2, <1>3, <1>4, <1>5, <1>6, <1>7, <1>8 DEF Step

LEMMA ProcessKeepsDraining ==
    ASSUME TypeInv, TypeInv', NoStrandedQueue, NEW p \in Procs,
           Reads(p) \/ WatchdogActs(p) \/ WorkerActs(p)
    PROVE  NoStrandedQueue'
<1>1. CASE ReadThread(p) \/ ReadAsk(p) \/ WorkerActs(p)
  <2>1. UNCHANGED <<queue, running, maxConcurrent, thread>>
    BY <1>1 DEF ReadThread, ReadAsk, WorkerActs, WorkerOpens, WorkerRefuses, WorkerAsks,
                WorkerEndsTurn, WorkerDies, WorkerUnchanged, slotVars
  <2>. QED
    BY <2>1 DEF NoStrandedQueue
<1>2. CASE ReadTurnEnd(p) \/ ReadRefused(p) \/ ReadEof(p)
  <2>1. thread[p].pc \notin Draining /\ worker[p].job \in Jobs
    BY <1>2 DEF ReadTurnEnd, ReadRefused, ReadEof, Hears, At, Draining, TypeInv, Staffed
  <2>2. \/ Finish(p, worker[p].job, "done", FALSE, Read(p), "idle")
        \/ Finish(p, worker[p].job, "failed", FALSE, Read(p), "idle")
        \/ Finish(p, worker[p].job, "failed", TRUE, Read(p), "idle")
    BY <1>2 DEF ReadTurnEnd, ReadRefused, ReadEof
  <2>3. ASSUME NEW st, NEW terminal \in BOOLEAN,
               Finish(p, worker[p].job, st, terminal, Read(p), "idle")
        PROVE  NoStrandedQueue'
    BY <2>1, <2>3, FinishKeepsDraining, ThreadKinds
  <2>. QED
    BY <2>2, <2>3
<1>3. CASE WatchdogWakes(p)
  <2>1. UNCHANGED <<queue, running, maxConcurrent>>
    BY <1>3 DEF WatchdogWakes, slotVars
  <2>2. CASE UNCHANGED thread
    BY <2>1, <2>2 DEF NoStrandedQueue
  <2>3. CASE Goto(Watchdog(p), "stopping", worker[p].job, NoProc)
    <3>1. thread[Watchdog(p)].pc \notin Draining
      BY <1>3 DEF WatchdogWakes, Expires, At, Draining
    <3>2. running <= running'
      BY <2>1 DEF TypeInv, TypeOK
    <3>. QED
      BY <2>1, <2>3, <3>1, <3>2, GotoMoves, StillDraining, ThreadKinds
  <2>. QED
    BY <1>3, <2>2, <2>3 DEF WatchdogWakes
<1>4. CASE WatchdogStops(p)
  <2>. DEFINE w == Watchdog(p)
  <2>1. w \in Threads /\ thread[w].pc \notin Draining /\ thread[w].job \in Jobs
    BY <1>4, ThreadKinds DEF WatchdogStops, At, Draining, TypeInv, InHand, Busy
  <2>. QED
    BY <1>4, <2>1, FinishKeepsDraining DEF WatchdogStops
<1>. QED
  BY <1>1, <1>2, <1>3, <1>4 DEF Reads, WatchdogActs

LEMMA CallerKeepsDraining ==
    ASSUME TypeInv, TypeInv', NoStrandedQueue, NEW c \in Callers,
           CallerActs(c) \/ CallerGoesOn(c)
    PROVE  NoStrandedQueue'
<1>1. c \in Threads /\ running \in Nat
  BY ThreadKinds DEF TypeInv, TypeOK
<1>2. ASSUME NEW batch \in Batches, Delegate(c, batch) PROVE NoStrandedQueue'
  BY <1>1, <1>2, GotoMoves, NowDraining DEF Delegate, ThenDrain, Draining
<1>3. CASE Revive(c)
  BY <1>1, <1>3, GotoMoves, NowDraining DEF Revive, ThenDrain, Draining
<1>4. ASSUME NEW n \in Limits, ApplySettings(c, n) PROVE NoStrandedQueue'
  BY <1>1, <1>4, GotoMoves, NowDraining DEF ApplySettings, ThenDrain, Draining
<1>5. ASSUME NEW j \in Jobs, SendFindsNoProcess(c, j) \/ SendFollowUp(c, j)
      PROVE  NoStrandedQueue'
  <2>1. /\ thread[c].pc \notin Draining /\ running <= running'
        /\ queue' = queue /\ maxConcurrent' = maxConcurrent
    BY <1>1, <1>5 DEF SendFindsNoProcess, SendFollowUp, MaySend, At, Draining, slotVars
  <2>2. \E l, p : Goto(c, l, j, p)
    BY <1>5 DEF SendFindsNoProcess, SendFollowUp
  <2>. QED
    BY <1>1, <2>1, <2>2, GotoMoves, StillDraining
<1>6. CASE CheckStarts(c) \/ CheckReturns(c)
  <2>1. /\ thread[c].pc \notin Draining /\ running <= running'
        /\ queue' = queue /\ maxConcurrent' = maxConcurrent
    BY <1>1, <1>6 DEF CheckStarts, CheckReturns, At, Draining, slotVars
  <2>2. \E l : Goto(c, l, NoJob, NoProc)
    BY <1>6 DEF CheckStarts, CheckReturns, GoHome
  <2>. QED
    BY <1>1, <2>1, <2>2, GotoMoves, StillDraining
<1>7. ASSUME NEW j \in Jobs, SendWaits(c, j) \/ Answer(c, j) PROVE NoStrandedQueue'
  <2>1. UNCHANGED <<queue, running, maxConcurrent, thread>>
    BY <1>7 DEF SendWaits, Answer, slotVars
  <2>. QED
    BY <2>1 DEF NoStrandedQueue
<1>8. ASSUME NEW j \in Jobs, Cancel(c, j) PROVE NoStrandedQueue'
  <2>1. thread[c].pc \notin Draining
    BY <1>8 DEF Cancel, At, Draining
  <2>. QED
    BY <1>1, <1>8, <2>1, FinishKeepsDraining DEF Cancel
<1>9. CASE WriteFollowUp(c)
  <2>1. thread[c].pc \notin Draining /\ thread[c].job \in Jobs
    BY <1>1, <1>9 DEF WriteFollowUp, At, Draining, TypeInv, InHand, Busy
  <2>2. CASE GoHome(c) /\ UNCHANGED slotVars
    <3>1. running <= running' /\ queue' = queue /\ maxConcurrent' = maxConcurrent
      BY <1>1, <2>2 DEF slotVars
    <3>. QED
      BY <1>1, <2>1, <2>2, <3>1, GotoMoves, StillDraining DEF GoHome
  <2>3. CASE Finish(c, thread[c].job, "failed", TRUE, pipe, "idle")
    BY <1>1, <2>1, <2>3, FinishKeepsDraining
  <2>. QED
    BY <1>9, <2>2, <2>3 DEF WriteFollowUp
<1>10. ASSUME NEW listed \in SUBSET Jobs, Release(c, listed) PROVE NoStrandedQueue'
  <2>1. UNCHANGED <<queue, running, maxConcurrent, thread>>
    BY <1>10 DEF Release, slotVars
  <2>. QED
    BY <2>1 DEF NoStrandedQueue
<1>. QED
  BY <1>2, <1>3, <1>4, <1>5, <1>6, <1>7, <1>8, <1>9, <1>10 DEF CallerActs, CallerGoesOn

\* No lost wake-up, for any number of workers, planners and slots: whenever a
\* worker waits in the queue and a slot is free, some thread is on its way
\* through drain_queue's loop.
THEOREM NoLostWakeUp == Spec => []NoStrandedQueue
<1>1. Init => NoStrandedQueue
  BY DEF Init, NoStrandedQueue
<1>2. TypeInv /\ TypeInv' /\ NoStrandedQueue /\ [Next]_vars => NoStrandedQueue'
  <2>. SUFFICES ASSUME TypeInv, TypeInv', NoStrandedQueue, [Next]_vars
                PROVE  NoStrandedQueue'
    OBVIOUS
  <2>1. CASE UNCHANGED vars
    BY <2>1 DEF vars, slotVars, NoStrandedQueue
  <2>2. CASE Next
    BY <2>2, StepKeepsDraining, ProcessKeepsDraining, CallerKeepsDraining DEF Next
  <2>. QED
    BY <2>1, <2>2
<1>. QED
  BY <1>1, <1>2, TypeInvInit, NextKeepsTypes, PTL DEF Spec
-----------------------------------------------------------------------------
(* The news. *)

\* Whoever received a notice received all that came before it and are still there;
\* that is why a planner may acknowledge by the last number it has.
SeenInOrder ==
    /\ \A d \in deliveries : d.seq > 0
    /\ \A c \in Callers : \A n \in seen[c] :
          n <= seq /\ \A d \in deliveries : d.seq <= n => d.seq \in seen[c]

Quiet == UNCHANGED <<deliveries, seq, seen>>
Announces == (\E j : PushDelivery(j)) /\ UNCHANGED seen

LEMMA FinishAnnounces ==
    ASSUME NEW t, NEW j, NEW st, NEW terminal, NEW pipes, NEW next,
           Finish(t, j, st, terminal, pipes, next)
    PROVE  Quiet \/ Announces
BY DEF Finish, FinishTurn, Quiet, Announces, newsVars

LEMMA StepMovesNews ==
    ASSUME NEW t \in Threads, Step(t)
    PROVE  Quiet \/ Announces
<1>1. CASE LaunchFails(t)
  BY <1>1, FinishAnnounces DEF LaunchFails
<1>2. CASE WriteStaged(t)
  BY <1>2, FinishAnnounces DEF WriteStaged, Quiet, newsVars
<1>3. CASE Drain(t) \/ SpawnSkips(t) \/ SpawnStart(t) \/ Launch(t) \/ Attach(t) \/ Arm(t)
  BY <1>3 DEF Drain, SpawnSkips, SpawnStart, Launch, Attach, Arm, Quiet, newsVars
<1>. QED
  BY <1>1, <1>2, <1>3 DEF Step

LEMMA ProcessMovesNews ==
    ASSUME NEW p \in Procs, Reads(p) \/ WatchdogActs(p) \/ WorkerActs(p)
    PROVE  Quiet \/ Announces
<1>1. CASE ReadTurnEnd(p) \/ ReadRefused(p) \/ ReadEof(p)
  BY <1>1, FinishAnnounces DEF ReadTurnEnd, ReadRefused, ReadEof
<1>2. CASE ReadThread(p) \/ ReadAsk(p)
  BY <1>2 DEF ReadThread, ReadAsk, Quiet, newsVars
<1>3. CASE WatchdogWakes(p)
  BY <1>3 DEF WatchdogWakes, Quiet, newsVars
<1>4. CASE WatchdogStops(p)
  BY <1>4, FinishAnnounces DEF WatchdogStops
<1>5. CASE WorkerActs(p)
  BY <1>5 DEF WorkerActs, WorkerOpens, WorkerRefuses, WorkerAsks, WorkerEndsTurn, WorkerDies,
              WorkerUnchanged, Quiet, newsVars
<1>. QED
  BY <1>1, <1>2, <1>3, <1>4, <1>5 DEF Reads, WatchdogActs

LEMMA CallerMovesNews ==
    ASSUME NEW c \in Callers, CallerActs(c) \/ CallerGoesOn(c)
    PROVE  Quiet \/ Announces \/ CheckStarts(c) \/ CheckReturns(c)
<1>1. ASSUME NEW j \in Jobs, Cancel(c, j) PROVE Quiet \/ Announces
  BY <1>1, FinishAnnounces DEF Cancel
<1>2. CASE WriteFollowUp(c)
  BY <1>2, FinishAnnounces DEF WriteFollowUp, Quiet, newsVars
<1>3. CASE Revive(c)
  BY <1>3 DEF Revive, Quiet, newsVars
<1>4. ASSUME NEW batch \in Batches, Delegate(c, batch) PROVE Quiet
  BY <1>4 DEF Delegate, Quiet, newsVars
<1>5. ASSUME NEW j \in Jobs,
             SendFindsNoProcess(c, j) \/ SendWaits(c, j) \/ SendFollowUp(c, j) \/ Answer(c, j)
      PROVE  Quiet
  BY <1>5 DEF SendFindsNoProcess, SendWaits, SendFollowUp, Answer, Quiet, newsVars
<1>6. ASSUME NEW listed \in SUBSET Jobs, Release(c, listed) PROVE Quiet
  BY <1>6 DEF Release, Quiet, newsVars
<1>7. ASSUME NEW n \in Limits, ApplySettings(c, n) PROVE Quiet
  BY <1>7 DEF ApplySettings, Quiet, newsVars
<1>. QED
  BY <1>1, <1>2, <1>3, <1>4, <1>5, <1>6, <1>7 DEF CallerActs, CallerGoesOn

\* The number a planner acknowledges is one it received.
LEMMA AcksWhatItSaw ==
    ASSUME TypeInv, SeenInOrder, NEW c \in Callers
    PROVE  seen[c] # {} => Acks(c) \in seen[c]
<1>1. seen[c] \in SUBSET Nat /\ seq \in Nat /\ \A n \in seen[c] : n <= seq
  BY DEF TypeInv, TypeOK, SeenInOrder
<1>. QED
  BY <1>1, GreatestIsThere DEF Acks

LEMMA NewsKeepOrder ==
    ASSUME TypeInv, SeenInOrder, [Next]_vars
    PROVE  SeenInOrder'
<1>1. /\ seq \in Nat /\ seen \in [Callers -> SUBSET Nat]
      /\ \A d \in deliveries : d.seq \in Nat /\ d.seq <= seq
  BY DEF TypeInv, TypeOK
<1>2. CASE Quiet
  BY <1>2 DEF Quiet, SeenInOrder
<1>3. CASE Announces
  <2>1. seen' = seen /\ seq' = seq + 1
    BY <1>3 DEF Announces, PushDelivery
  <2>2. \A d \in deliveries' : d \in deliveries \/ d.seq = seq + 1
    BY <1>3 DEF Announces, PushDelivery
  <2>0. \A d \in deliveries' : d.seq > 0
    BY <1>1, <2>2 DEF SeenInOrder
  <2>3. SUFFICES ASSUME NEW c \in Callers, NEW n \in seen[c]
                 PROVE  n <= seq + 1 /\ \A d \in deliveries' : d.seq <= n => d.seq \in seen[c]
    BY <2>0, <2>1 DEF SeenInOrder
  <2>4. n \in Nat /\ n <= seq /\ \A d \in deliveries : d.seq <= n => d.seq \in seen[c]
    BY <1>1 DEF SeenInOrder
  <2>. QED
    BY <1>1, <2>2, <2>4
<1>4. ASSUME NEW c \in Callers, CheckStarts(c) PROVE SeenInOrder'
  BY <1>4 DEF CheckStarts, KeptUntilAcked, SeenInOrder
<1>5. ASSUME NEW c \in Callers, CheckReturns(c) PROVE SeenInOrder'
  <2>. DEFINE S == {d.seq : d \in deliveries}
  <2>1. seq' = seq /\ \A d \in deliveries' : d.seq \in S
    <3>1. \A d \in deliveries : [d EXCEPT !.sent = TRUE].seq = d.seq
      BY DEF TypeInv, TypeOK
    <3>. QED
      BY <1>5, <3>1 DEF CheckReturns
  <2>2. seen' = [seen EXCEPT ![c] = @ \cup S] \/ seen' = seen
    BY <1>5 DEF CheckReturns
  <2>3. \A e \in Callers : \A n \in seen[e] : n <= seq /\ \A s \in S : s <= n => s \in seen[e]
    BY DEF SeenInOrder
  <2>4. \A s \in S : s <= seq /\ s > 0
    BY <1>1 DEF SeenInOrder
  <2>5. ASSUME NEW e \in Callers, NEW n \in seen'[e]
        PROVE  n <= seq /\ \A s \in S : s <= n => s \in seen'[e]
    <3>. HIDE DEF S
    <3>1. seen'[e] = seen[e] \/ seen'[e] = seen[e] \cup S
      BY <1>1, <2>2
    <3>. QED
      BY <2>3, <2>4, <2>5, <3>1
  <2>. HIDE DEF S
  <2>. QED
    BY <2>1, <2>4, <2>5 DEF SeenInOrder
<1>6. CASE UNCHANGED vars
  BY <1>2, <1>6 DEF vars, newsVars, Quiet
<1>. QED
  BY <1>2, <1>3, <1>4, <1>5, <1>6, StepMovesNews, ProcessMovesNews, CallerMovesNews DEF Next

\* At least once: a notice is dropped only after it has reached a planner, for any
\* planners, and whatever responses get lost (struct Delivery).
THEOREM NoticesReachPlanners == Spec => NoticesAreSeen
<1>1. Init => SeenInOrder
  BY DEF Init, SeenInOrder
<1>2. TypeInv /\ SeenInOrder /\ [Next]_vars
        => [\A n \in Notices \ Notices' : \E c \in Callers : n \in seen[c]]_vars
  <2>. SUFFICES ASSUME TypeInv, SeenInOrder, [Next]_vars
                PROVE  \A n \in Notices \ Notices' : \E c \in Callers : n \in seen[c]
    OBVIOUS
  <2>1. CASE Quiet \/ Announces
    BY <2>1 DEF Quiet, Announces, PushDelivery, Notices
  <2>2. ASSUME NEW c \in Callers, CheckStarts(c), NEW d \in deliveries, d.seq \notin Notices'
        PROVE  d.seq \in seen[c]
    <3>1. ~(d.seq > Acks(c)) /\ d.seq \in Nat
      BY <2>2 DEF CheckStarts, KeptUntilAcked, Notices, TypeInv, TypeOK
    <3>2. CASE seen[c] # {}
      <4>1. Acks(c) \in seen[c] /\ Acks(c) \in Nat
        BY <3>2, AcksWhatItSaw DEF TypeInv, TypeOK
      <4>. QED
        BY <3>1, <4>1 DEF SeenInOrder
    <3>3. CASE seen[c] = {}
      <4>1. Acks(c) = 0
        BY <3>3 DEF Acks
      <4>. QED
        BY <3>1, <4>1 DEF SeenInOrder
    <3>. QED
      BY <3>2, <3>3
  <2>3. ASSUME NEW c \in Callers, CheckReturns(c) PROVE Notices' = Notices
    <3>1. \A d \in deliveries : [d EXCEPT !.sent = TRUE].seq = d.seq
      BY DEF TypeInv, TypeOK
    <3>. QED
      BY <2>3, <3>1 DEF CheckReturns, Notices
  <2>4. CASE UNCHANGED vars
    BY <2>4 DEF vars, newsVars, Notices
  <2>. QED
    BY <2>1, <2>2, <2>3, <2>4, StepMovesNews, ProcessMovesNews, CallerMovesNews
    DEF Next, Notices
<1>. QED
  BY <1>1, <1>2, NewsKeepOrder, TypeInvInit, NextKeepsTypes, PTL DEF Spec, NoticesAreSeen

-----------------------------------------------------------------------------
(* No worker is lost on its way from the queue to its process.  The one way *)
(* a thread could drop the job it popped is to be reset as the reader of a  *)
(* new process, so the invariant also says that a reader does nothing until *)
(* its process is armed, and that two threads never start the same process. *)

Attaching == {"attach", "arm"}

ReadersWait ==
    /\ \A p \in Procs : worker[p].phase = "unborn" => thread[p].pc = "off"
    /\ \A t \in Threads : thread[t].pc \in Attaching => thread[thread[t].proc].pc = "off"
    /\ \A t, u \in Threads :
          thread[t].pc \in Attaching /\ thread[u].pc \in Attaching /\ t # u
              => thread[t].proc # thread[u].proc

QueueInv == ReadersWait /\ QueuedIsComing

InQueue(q, j) == \E i \in DOMAIN q : q[i] = j

LEMMA PushBackIs ==
    ASSUME NEW q, IsQueue(q), NEW j \in Jobs
    PROVE  \E n : n \notin DOMAIN q /\ PushBack(q, j) = [i \in DOMAIN q \cup {n} |->
                                                           IF i = n THEN j ELSE q[i]]
<1>. DEFINE next == IF Empty(q) THEN 1 ELSE Greatest(DOMAIN q) + 1
<1>1. next \notin DOMAIN q
  <2>1. CASE Empty(q)
    BY <2>1 DEF Empty
  <2>2. CASE ~Empty(q)
    <3>1. Greatest(DOMAIN q) \in Nat /\ \A i \in DOMAIN q : i \in Nat /\ i <= Greatest(DOMAIN q)
      BY <2>2, GreatestIsThere DEF IsQueue, Empty
    <3>. QED
      BY <2>2, <3>1
  <2>. QED
    BY <2>1, <2>2
<1>. QED
  BY <1>1 DEF PushBack

LEMMA PushBackAdds ==
    ASSUME NEW q, IsQueue(q), NEW j \in Jobs
    PROVE  /\ InQueue(PushBack(q, j), j)
           /\ \A k \in Jobs : InQueue(q, k) => InQueue(PushBack(q, j), k)
<1>1. PICK n : n \notin DOMAIN q /\ PushBack(q, j) = [i \in DOMAIN q \cup {n} |->
                                                        IF i = n THEN j ELSE q[i]]
  BY ONLY IsQueue(q), j \in Jobs, PushBackIs
<1>. QED
  BY <1>1 DEF InQueue

LEMMA PopFrontKeepsTheRest ==
    ASSUME NEW q, IsQueue(q), ~Empty(q), NEW k, InQueue(q, k), k # Front(q)
    PROVE  InQueue(PopFront(q), k)
BY DEF InQueue, PopFront, Front

LEMMA WithoutKeepsTheRest ==
    ASSUME NEW q, NEW j, NEW k, InQueue(q, k), k # j
    PROVE  InQueue(Without(q, j), k)
BY DEF InQueue, Without

\* A step of t that starts no process: a reader waits on, and a job that is
\* queued afterwards is in the queue, in the hands of t, or where it was.
LEMMA QuietStep ==
    ASSUME TypeInv, QueueInv, NEW t \in Threads,
           thread[t].pc # "off",
           thread' = thread \/ (\E l, j, p : l \notin Attaching /\ Goto(t, l, j, p)),
           \A p \in Procs : worker'[p].phase = "unborn" => worker[p].phase = "unborn",
           \A j \in Jobs : status'[j] = "queued" =>
               \/ InQueue(queue', j)
               \/ thread'[t].pc = "spawn" /\ thread'[t].job = j
               \/ /\ status[j] = "queued" /\ ~InQueue(queue, j)
                  /\ ~(thread[t].pc = "spawn" /\ thread[t].job = j)
    PROVE  QueueInv'
<1>1. /\ \A u \in Threads \ {t} : thread'[u] = thread[u]
      /\ thread'[t] = thread[t] \/ thread'[t].pc \notin Attaching
  BY GotoMoves
<1>2. \A u \in Threads : thread'[u].pc \in Attaching => thread'[u] = thread[u]
  BY <1>1
<1>3. \A u \in Threads : thread[u].pc = "off" => thread'[u] = thread[u]
  BY <1>1
<1>4. \A u \in Threads : thread[u].pc \in Attaching => thread[u].proc \in Threads
  BY ThreadKinds DEF TypeInv, InHand, Attaching, WithProcess
<1>5. ReadersWait'
  <2>1. ASSUME NEW p \in Procs, worker'[p].phase = "unborn" PROVE thread'[p].pc = "off"
    BY <2>1, <1>3, ThreadKinds DEF QueueInv, ReadersWait
  <2>2. ASSUME NEW u \in Threads, thread'[u].pc \in Attaching
        PROVE  thread'[thread'[u].proc].pc = "off"
    BY <2>2, <1>2, <1>3, <1>4 DEF QueueInv, ReadersWait
  <2>3. ASSUME NEW u \in Threads, NEW v \in Threads, u # v,
               thread'[u].pc \in Attaching, thread'[v].pc \in Attaching
        PROVE  thread'[u].proc # thread'[v].proc
    BY <2>3, <1>2 DEF QueueInv, ReadersWait
  <2>. QED
    BY <2>1, <2>2, <2>3 DEF ReadersWait
<1>6. ASSUME NEW j \in Jobs, status'[j] = "queued"
      PROVE  InQueue(queue', j) \/ \E u \in Threads : thread'[u].pc = "spawn" /\ thread'[u].job = j
  <2>1. CASE /\ status[j] = "queued" /\ ~InQueue(queue, j)
             /\ ~(thread[t].pc = "spawn" /\ thread[t].job = j)
    <3>1. PICK u \in Threads : thread[u].pc = "spawn" /\ thread[u].job = j
      BY <2>1 DEF QueueInv, QueuedIsComing, Queued, InQueue
    <3>. QED
      BY <1>1, <2>1, <3>1
  <2>. QED
    BY <1>6, <2>1
<1>. QED
  BY <1>5, <1>6 DEF QueueInv, QueuedIsComing, Queued, InQueue

LEMMA FinishKeepsQueue ==
    ASSUME TypeInv, QueueInv, NEW t \in Threads, thread[t].pc \notin {"off", "spawn"},
           NEW j \in Jobs, NEW st \in Settled, NEW terminal \in BOOLEAN, NEW pipes,
           NEW next \in {"idle", "drain"},
           Finish(t, j, st, terminal, pipes, next)
    PROVE  QueueInv'
<1>1. CASE FinishTurn(t, j, st, terminal, pipes)
  <2>1. \E l, k, p : l \notin Attaching /\ Goto(t, l, k, p)
    BY <1>1 DEF FinishTurn, ThenDrain, Attaching
  <2>2. \A p \in Procs : worker'[p].phase = "unborn" => worker[p].phase = "unborn"
    BY <1>1, KillsKeepTypes DEF FinishTurn, TypeInv
  <2>3. ASSUME NEW k \in Jobs, status'[k] = "queued" PROVE status[k] = "queued" /\ k # j
    BY <1>1, <2>3 DEF FinishTurn, Settled, TypeInv, TypeOK
  <2>4. queue' = Without(queue, j)
    BY <1>1 DEF FinishTurn
  <2>. QED
    BY <2>1, <2>2, <2>3, <2>4, WithoutKeepsTheRest, QuietStep
<1>2. CASE /\ Goto(t, next, NoJob, NoProc)
           /\ UNCHANGED <<jobVars, slotVars, newsVars, watch, worker, sends, seen>>
  <2>1. next \notin Attaching
    BY DEF Attaching
  <2>. QED
    BY <1>2, <2>1, QuietStep DEF jobVars, slotVars
<1>. QED
  BY <1>1, <1>2 DEF Finish

LEMMA StartingKeepsQueue ==
    ASSUME TypeInv, QueueInv, NEW t \in Threads, Launch(t) \/ Attach(t) \/ Arm(t)
    PROVE  QueueInv'
<1>1. UNCHANGED <<status, queue>>
  BY DEF Launch, Attach, Arm, jobVars, slotVars
<1>2. CASE Launch(t)
  <2>1. PICK p \in Procs : /\ worker[p].phase = "unborn"
                           /\ worker' = [worker EXCEPT ![p] = [job |-> thread[t].job,
                                            phase |-> "started", todo |-> 1]]
                           /\ Goto(t, "attach", thread[t].job, p)
    BY <1>2 DEF Launch
  <2>2. /\ thread'[t].pc = "attach" /\ thread'[t].proc = p
        /\ \A u \in Threads \ {t} : thread'[u] = thread[u]
    BY <2>1 DEF Goto, TypeInv, TypeOK
  <2>3. thread[p].pc = "off" /\ thread[t].pc = "launch"
    BY <1>2, <2>1 DEF Launch, At, QueueInv, ReadersWait
  <2>4. \A u \in Threads : thread[u].pc \in Attaching =>
           /\ thread[u].proc \in Procs /\ thread[u].proc # p
           /\ thread[thread[u].proc].pc = "off"
    BY <2>1 DEF TypeInv, InHand, Attaching, WithProcess, QueueInv, ReadersWait
  <2>5. \A q \in Procs : worker'[q].phase = "unborn" => worker[q].phase = "unborn"
    BY <2>1 DEF TypeInv, TypeOK
  <2>6. ReadersWait'
    <3>1. \A q \in Procs : worker'[q].phase = "unborn" => thread'[q].pc = "off"
      BY <2>2, <2>3, <2>5, ThreadKinds DEF QueueInv, ReadersWait
    <3>2. \A u \in Threads : thread'[u].pc \in Attaching => thread'[thread'[u].proc].pc = "off"
      BY <2>2, <2>3, <2>4, ThreadKinds
    <3>3. \A u, v \in Threads :
             thread'[u].pc \in Attaching /\ thread'[v].pc \in Attaching /\ u # v
                 => thread'[u].proc # thread'[v].proc
      BY <2>2, <2>4 DEF QueueInv, ReadersWait
    <3>. QED
      BY <3>1, <3>2, <3>3 DEF ReadersWait
  <2>7. QueuedIsComing'
    BY <1>1, <2>2, <2>3 DEF QueueInv, QueuedIsComing, Queued
  <2>. QED
    BY <2>6, <2>7 DEF QueueInv
<1>3. CASE Attach(t)
  <2>1. /\ thread[t].pc = "attach" /\ worker' = worker
        /\ thread'[t].pc = "arm" /\ thread'[t].proc = thread[t].proc
        /\ \A u \in Threads \ {t} : thread'[u] = thread[u]
    BY <1>3 DEF Attach, At, Goto, procVars, TypeInv, TypeOK
  <2>2. \A u \in Threads : /\ thread'[u].pc \in Attaching <=> thread[u].pc \in Attaching
                           /\ thread'[u].proc = thread[u].proc
                           /\ thread'[u].pc = "off" <=> thread[u].pc = "off"
                           /\ thread[u].pc = "spawn" => thread'[u] = thread[u]
    BY <2>1 DEF Attaching
  <2>3. \A u \in Threads : thread[u].pc \in Attaching => thread[u].proc \in Threads
    BY ThreadKinds DEF TypeInv, InHand, Attaching, WithProcess
  <2>4. ReadersWait'
    BY <2>1, <2>2, <2>3, ThreadKinds DEF QueueInv, ReadersWait
  <2>5. QueuedIsComing'
    BY <1>1, <2>2 DEF QueueInv, QueuedIsComing, Queued
  <2>. QED
    BY <2>4, <2>5 DEF QueueInv
<1>4. CASE Arm(t)
  <2>. DEFINE p == thread[t].proc
  <2>1. /\ thread[t].pc = "arm" /\ p \in Procs /\ worker[p].phase # "unborn"
        /\ thread[p].pc = "off"
    BY <1>4 DEF Arm, At, TypeInv, InHand, WithProcess, QueueInv, ReadersWait, Attaching
  <2>2. /\ thread'[t].pc = "drain" /\ thread'[p].pc = "idle"
        /\ \A u \in Threads \ {t, p} : thread'[u] = thread[u]
    BY <1>4, <2>1, ThreadKinds DEF Arm, TypeInv, TypeOK
  <2>3. \A q \in Procs : worker'[q].phase = "unborn" => worker[q].phase = "unborn"
    BY <1>4, <2>1 DEF Arm, TypeInv, TypeOK
  <2>4. \A u \in Threads : thread'[u].pc \in Attaching =>
           u # t /\ thread'[u] = thread[u] /\ thread[u].proc # p /\ thread[u].proc \in Threads
    BY <2>1, <2>2, ThreadKinds
       DEF Attaching, TypeInv, InHand, WithProcess, QueueInv, ReadersWait
  <2>5. ReadersWait'
    <3>1. \A q \in Procs : worker'[q].phase = "unborn" => thread'[q].pc = "off"
      BY <2>1, <2>2, <2>3, ThreadKinds DEF QueueInv, ReadersWait
    <3>2. \A u \in Threads : thread'[u].pc \in Attaching => thread'[thread'[u].proc].pc = "off"
      BY <2>1, <2>2, <2>4 DEF QueueInv, ReadersWait
    <3>3. \A u, v \in Threads :
             thread'[u].pc \in Attaching /\ thread'[v].pc \in Attaching /\ u # v
                 => thread'[u].proc # thread'[v].proc
      BY <2>4 DEF QueueInv, ReadersWait
    <3>. QED
      BY <3>1, <3>2, <3>3 DEF ReadersWait
  <2>6. QueuedIsComing'
    BY <1>1, <2>1, <2>2 DEF QueueInv, QueuedIsComing, Queued
  <2>. QED
    BY <2>5, <2>6 DEF QueueInv
<1>. QED
  BY <1>2, <1>3, <1>4

LEMMA StepKeepsQueue ==
    ASSUME TypeInv, QueueInv, NEW t \in Threads, Step(t)
    PROVE  QueueInv'
<1>. USE DEF jobVars, slotVars, procVars
<1>1. CASE Drain(t)
  <2>1. thread[t].pc = "drain" /\ worker' = worker /\ status' = status
    BY <1>1 DEF Drain, At
  <2>2. CASE running >= maxConcurrent \/ Empty(queue)
    <3>1. Goto(t, "idle", NoJob, NoProc) /\ queue' = queue
      BY <1>1, <2>2 DEF Drain, GoHome
    <3>. QED
      BY <2>1, <3>1, QuietStep DEF Attaching
  <2>3. CASE ~(running >= maxConcurrent \/ Empty(queue))
    <3>1. Goto(t, "spawn", Front(queue), NoProc) /\ queue' = PopFront(queue) /\ ~Empty(queue)
      BY <1>1, <2>3 DEF Drain
    <3>2. thread'[t].pc = "spawn" /\ thread'[t].job = Front(queue)
      BY <3>1 DEF Goto, TypeInv, TypeOK
    <3>3. \A j \in Jobs : InQueue(queue, j) => InQueue(queue', j) \/ j = Front(queue)
      BY <3>1, PopFrontKeepsTheRest DEF TypeInv
    <3>4. "spawn" \notin Attaching
      BY DEF Attaching
    <3>. QED
      BY <2>1, <3>1, <3>2, <3>3, <3>4, QuietStep
  <2>. QED
    BY <2>2, <2>3
<1>2. CASE SpawnSkips(t)
  <2>1. thread[t].pc = "spawn" /\ status[thread[t].job] # "queued"
    BY <1>2 DEF SpawnSkips, At, IsSettled, Settled
  <2>2. Goto(t, "drain", NoJob, NoProc) /\ UNCHANGED <<status, queue, worker>>
    BY <1>2 DEF SpawnSkips, ThenDrain
  <2>. QED
    BY <2>1, <2>2, QuietStep DEF Attaching
<1>3. CASE SpawnStart(t)
  <2>1. thread[t].pc = "spawn" /\ thread[t].job \in Jobs
    BY <1>3 DEF SpawnStart, At, TypeInv, InHand, Busy
  <2>2. /\ Goto(t, "launch", thread[t].job, NoProc) /\ UNCHANGED <<queue, worker>>
        /\ status' = [status EXCEPT ![thread[t].job] = "running"]
    BY <1>3 DEF SpawnStart
  <2>3. \A j \in Jobs : status'[j] = "queued" => j # thread[t].job /\ status[j] = "queued"
    BY <2>1, <2>2 DEF TypeInv, TypeOK
  <2>. QED
    BY <2>1, <2>2, <2>3, QuietStep DEF Attaching
<1>4. CASE Launch(t) \/ Attach(t) \/ Arm(t)
  BY <1>4, StartingKeepsQueue
<1>5. CASE LaunchFails(t)
  <2>1. thread[t].job \in Jobs /\ thread[t].pc = "launch"
    BY <1>5 DEF LaunchFails, At, TypeInv, InHand, Busy
  <2>. QED
    BY <1>5, <2>1, FinishKeepsQueue DEF LaunchFails, Settled
<1>6. CASE WriteStaged(t)
  <2>1. thread[t].job \in Jobs /\ thread[t].proc \in Procs /\ thread[t].pc = "staged"
    BY <1>6 DEF WriteStaged, At, TypeInv, InHand, Busy, WithProcess
  <2>2. CASE /\ worker' = Given(thread[t].proc) /\ ThenDrain(t)
             /\ UNCHANGED <<jobVars, slotVars, newsVars, watch, pipe, sends, seen>>
    <3>1. \A p \in Procs : worker'[p].phase = "unborn" => worker[p].phase = "unborn"
      BY <2>1, <2>2 DEF Given, TypeInv, TypeOK
    <3>. QED
      BY <2>1, <2>2, <3>1, QuietStep DEF ThenDrain, Attaching
  <2>3. CASE Finish(t, thread[t].job, "failed", TRUE, pipe, "idle")
    BY <2>1, <2>3, FinishKeepsQueue DEF Settled
  <2>. QED
    BY <1>6, <2>2, <2>3 DEF WriteStaged
<1>. QED
  BY <1>1, <1>2, <1>3, <1>4, <1>5, <1>6 DEF Step

LEMMA ProcessKeepsQueue ==
    ASSUME TypeInv, QueueInv, NEW p \in Procs,
           Reads(p) \/ WatchdogActs(p) \/ WorkerActs(p)
    PROVE  QueueInv'
<1>. USE DEF jobVars, slotVars, procVars
<1>1. CASE ReadThread(p) \/ ReadAsk(p)
  <2>1. thread[p].pc = "idle" /\ UNCHANGED <<queue, thread, worker>>
    BY <1>1 DEF ReadThread, ReadAsk, Hears, At
  <2>2. \A j \in Jobs : status'[j] = "queued" => status[j] = "queued"
    BY <1>1 DEF ReadThread, ReadAsk, TypeInv, TypeOK
  <2>. QED
    BY <2>1, <2>2, QuietStep, ThreadKinds
<1>2. CASE ReadTurnEnd(p) \/ ReadRefused(p) \/ ReadEof(p)
  <2>1. thread[p].pc = "idle" /\ worker[p].job \in Jobs
    BY <1>2 DEF ReadTurnEnd, ReadRefused, ReadEof, Hears, At, TypeInv, Staffed
  <2>2. \/ Finish(p, worker[p].job, "done", FALSE, Read(p), "idle")
        \/ Finish(p, worker[p].job, "failed", FALSE, Read(p), "idle")
        \/ Finish(p, worker[p].job, "failed", TRUE, Read(p), "idle")
    BY <1>2 DEF ReadTurnEnd, ReadRefused, ReadEof
  <2>3. ASSUME NEW st \in Settled, NEW terminal \in BOOLEAN,
               Finish(p, worker[p].job, st, terminal, Read(p), "idle")
        PROVE  QueueInv'
    BY <2>1, <2>3, FinishKeepsQueue, ThreadKinds
  <2>. QED
    BY <2>2, <2>3 DEF Settled
<1>3. CASE WatchdogWakes(p)
  <2>1. /\ thread[Watchdog(p)].pc = "idle" /\ UNCHANGED <<status, queue, worker>>
        /\ thread' = thread \/ Goto(Watchdog(p), "stopping", worker[p].job, NoProc)
    BY <1>3 DEF WatchdogWakes, Expires, At
  <2>. QED
    BY <2>1, QuietStep, ThreadKinds DEF Attaching
<1>4. CASE WatchdogStops(p)
  <2>. DEFINE w == Watchdog(p)
  <2>1. w \in Threads /\ thread[w].pc = "stopping" /\ thread[w].job \in Jobs
    BY <1>4, ThreadKinds DEF WatchdogStops, At, TypeInv, InHand, Busy
  <2>. QED
    BY <1>4, <2>1, FinishKeepsQueue DEF WatchdogStops, Settled
<1>5. CASE WorkerActs(p)
  <2>1. UNCHANGED <<status, queue, thread>>
    BY <1>5 DEF WorkerActs, WorkerOpens, WorkerRefuses, WorkerAsks, WorkerEndsTurn,
                WorkerDies, WorkerUnchanged
  <2>2. worker[p].phase # "unborn"
    BY <1>5 DEF WorkerActs, WorkerOpens, WorkerRefuses, WorkerAsks, WorkerEndsTurn,
                WorkerDies, Alive
  <2>3. \E ph \in {"live", "asking", "dead"} : \E n : Becomes(p, ph, n)
    BY <1>5 DEF WorkerActs, WorkerOpens, WorkerRefuses, WorkerAsks, WorkerEndsTurn, WorkerDies
  <2>4. \A q \in Procs : worker'[q].phase = "unborn" => worker[q].phase = "unborn"
    BY <2>2, <2>3 DEF Becomes, TypeInv, TypeOK
  <2>. QED
    BY <2>1, <2>4 DEF QueueInv, ReadersWait, QueuedIsComing, Queued
<1>. QED
  BY <1>1, <1>2, <1>3, <1>4, <1>5 DEF Reads, WatchdogActs

LEMMA CallerKeepsQueue ==
    ASSUME TypeInv, QueueInv, NEW c \in Callers, CallerActs(c) \/ CallerGoesOn(c)
    PROVE  QueueInv'
<1>. USE DEF jobVars, slotVars, procVars
<1>1. c \in Threads
  BY ThreadKinds
<1>2. ASSUME NEW batch \in Batches, Delegate(c, batch) PROVE QueueInv'
  <2>1. \/ batch = <<batch[1]>> /\ Len(batch) = 1 /\ batch[1] \in Jobs
        \/ batch = <<batch[1], batch[2]>> /\ Len(batch) = 2 /\ batch[1] \in Jobs /\ batch[2] \in Jobs
    BY DEF Batches
  <2>2. \A j \in Jobs : status'[j] = "queued" => status[j] = "queued" \/ \E i \in DOMAIN batch : batch[i] = j
    BY <1>2 DEF Delegate
  <2>3. ASSUME NEW j \in Jobs,
               InQueue(queue, j) \/ \E i \in DOMAIN batch : batch[i] = j
        PROVE  InQueue(queue', j)
    <3>1. IsQueue(queue)
      BY DEF TypeInv
    <3>2. CASE batch = <<batch[1]>> /\ Len(batch) = 1 /\ batch[1] \in Jobs
      <4>1. queue' = PushBack(queue, batch[1])
        BY <1>2, <3>2 DEF Delegate
      <4>2. (\E i \in DOMAIN batch : batch[i] = j) => j = batch[1]
        BY <3>2
      <4>. QED
        BY <2>3, <3>1, <3>2, <4>1, <4>2, PushBackAdds
    <3>3. CASE batch = <<batch[1], batch[2]>> /\ Len(batch) = 2 /\ batch[1] \in Jobs /\ batch[2] \in Jobs
      <4>1. queue' = PushBack(PushBack(queue, batch[1]), batch[2])
        BY <1>2, <3>3 DEF Delegate
      <4>2. (\E i \in DOMAIN batch : batch[i] = j) => j = batch[1] \/ j = batch[2]
        BY <3>3
      <4>3. IsQueue(PushBack(queue, batch[1]))
        BY <3>1, <3>3, QueueOperators
      <4>4. InQueue(PushBack(queue, batch[1]), j) \/ j = batch[2]
        BY <2>3, <3>1, <3>3, <4>2, PushBackAdds
      <4>. QED
        BY <3>3, <4>1, <4>3, <4>4, PushBackAdds
    <3>. QED
      BY <2>1, <3>2, <3>3
  <2>4. thread[c].pc = "idle" /\ worker' = worker /\ Goto(c, "drain", NoJob, NoProc)
    BY <1>2 DEF Delegate, At, ThenDrain
  <2>5. "drain" \notin Attaching
    BY DEF Attaching
  <2>. QED
    BY <1>1, <2>2, <2>3, <2>4, <2>5, QuietStep
<1>3. CASE Revive(c)
  <2>1. thread[c].pc = "revive" /\ thread[c].job \in Jobs
    BY <1>1, <1>3 DEF Revive, At, TypeInv, InHand, Busy
  <2>2. /\ worker' = worker /\ Goto(c, "drain", NoJob, NoProc)
        /\ \A j \in Jobs : status'[j] = "queued" => status[j] = "queued" \/ j = thread[c].job
    BY <1>3, <2>1 DEF Revive, ThenDrain, TypeInv, TypeOK
  <2>3. \A j \in Jobs : InQueue(queue, j) \/ j = thread[c].job => InQueue(queue', j)
    BY <1>3, <2>1, PushBackAdds DEF Revive, TypeInv
  <2>4. "drain" \notin Attaching
    BY DEF Attaching
  <2>. QED
    BY <1>1, <2>1, <2>2, <2>3, <2>4, QuietStep
<1>4. ASSUME NEW j \in Jobs, Cancel(c, j) PROVE QueueInv'
  <2>1. thread[c].pc \notin {"off", "spawn"}
    BY <1>4 DEF Cancel, At
  <2>. QED
    BY <1>1, <1>4, <2>1, FinishKeepsQueue DEF Cancel, Settled
<1>5. CASE WriteFollowUp(c)
  <2>1. thread[c].job \in Jobs /\ thread[c].proc \in Procs /\ thread[c].pc = "followup"
    BY <1>1, <1>5 DEF WriteFollowUp, At, TypeInv, InHand, Busy, WithProcess
  <2>2. CASE /\ worker' = Given(thread[c].proc) /\ GoHome(c)
             /\ UNCHANGED <<jobVars, slotVars, newsVars, watch, pipe, sends, seen>>
    <3>1. \A p \in Procs : worker'[p].phase = "unborn" => worker[p].phase = "unborn"
      BY <2>1, <2>2 DEF Given, TypeInv, TypeOK
    <3>. QED
      BY <1>1, <2>1, <2>2, <3>1, QuietStep DEF GoHome, Attaching
  <2>3. CASE Finish(c, thread[c].job, "failed", TRUE, pipe, "idle")
    BY <1>1, <2>1, <2>3, FinishKeepsQueue DEF Settled
  <2>. QED
    BY <1>5, <2>2, <2>3 DEF WriteFollowUp
\* The calls that neither queue a worker nor end one.
<1>6. ASSUME NEW j \in Jobs,
             SendFindsNoProcess(c, j) \/ SendWaits(c, j) \/ SendFollowUp(c, j)
      PROVE  QueueInv'
  <2>1. thread[c].pc \in {"idle", "checking"} /\ queue' = queue /\ worker' = worker
    BY <1>6 DEF SendFindsNoProcess, SendWaits, SendFollowUp, MaySend, At
  <2>2. thread' = thread \/ \E l \in {"revive", "followup"} : \E p : Goto(c, l, j, p)
    BY <1>6 DEF SendFindsNoProcess, SendWaits, SendFollowUp
  <2>3. \A k \in Jobs : status'[k] = "queued" => status[k] = "queued"
    BY <1>6 DEF SendFindsNoProcess, SendWaits, SendFollowUp, TypeInv, TypeOK
  <2>. QED
    <3>1. \A l \in {"revive", "followup"} : l \notin Attaching
      BY DEF Attaching
    <3>2. thread' = thread \/ \E l, k, p : l \notin Attaching /\ Goto(c, l, k, p)
      BY <2>2, <3>1
    <3>. QED
      BY <1>1, <2>1, <2>3, <3>2, QuietStep
<1>7. ASSUME NEW j \in Jobs, Answer(c, j) PROVE QueueInv'
  <2>1. thread[c].pc = "idle" /\ UNCHANGED <<queue, thread>>
    BY <1>7 DEF Answer, At
  <2>2. \A p \in Procs : worker'[p].phase = "unborn" => worker[p].phase = "unborn"
    <3>1. worker' = worker \/ worker' = [worker EXCEPT ![stdin[j]].phase = "live"]
      BY <1>7 DEF Answer
    <3>2. worker \in [Procs -> [job : Jobs \cup {NoJob}, phase : Phases, todo : Nat]]
      BY DEF TypeInv, TypeOK
    <3>. QED
      BY <3>1, <3>2
  <2>3. \A k \in Jobs : status'[k] = "queued" => status[k] = "queued"
    BY <1>7 DEF Answer, TypeInv, TypeOK
  <2>. QED
    BY <1>1, <2>1, <2>2, <2>3, QuietStep
<1>8. ASSUME NEW listed \in SUBSET Jobs, Release(c, listed) PROVE QueueInv'
  <2>1. thread[c].pc = "idle" /\ UNCHANGED <<queue, thread>>
    BY <1>8 DEF Release, At
  <2>2. \A p \in Procs : worker'[p].phase = "unborn" => worker[p].phase = "unborn"
    BY <1>8, KillsKeepTypes DEF Release, TypeInv
  <2>3. \A k \in Jobs : status'[k] = "queued" => status[k] = "queued"
    BY <1>8 DEF Release, TypeInv, TypeOK
  <2>. QED
    BY <1>1, <2>1, <2>2, <2>3, QuietStep
<1>9. CASE CheckStarts(c) \/ CheckReturns(c)
  <2>1. /\ thread[c].pc \in {"idle", "checking"} /\ UNCHANGED <<status, queue, worker>>
        /\ \E l \in {"checking", "idle"} : Goto(c, l, NoJob, NoProc)
    BY <1>9 DEF CheckStarts, CheckReturns, At, GoHome
  <2>. QED
    BY <1>1, <2>1, QuietStep DEF Attaching
<1>10. ASSUME NEW n \in Limits, ApplySettings(c, n) PROVE QueueInv'
  <2>1. /\ thread[c].pc = "idle" /\ UNCHANGED <<status, queue, worker>>
        /\ Goto(c, "drain", NoJob, NoProc)
    BY <1>10 DEF ApplySettings, At, ThenDrain
  <2>. QED
    BY <1>1, <2>1, QuietStep DEF Attaching
<1>. QED
  BY <1>2, <1>3, <1>4, <1>5, <1>6, <1>7, <1>8, <1>9, <1>10 DEF CallerActs, CallerGoesOn

LEMMA QueueInvAlways == Spec => [](TypeInv /\ QueueInv)
<1>1. Init => QueueInv
  BY ThreadKinds DEF Init, QueueInv, ReadersWait, Attaching, QueuedIsComing
<1>2. TypeInv /\ QueueInv /\ [Next]_vars => QueueInv'
  <2>. SUFFICES ASSUME TypeInv, QueueInv, [Next]_vars PROVE QueueInv'
    OBVIOUS
  <2>1. CASE UNCHANGED vars
    BY <2>1 DEF vars, jobVars, slotVars, procVars, QueueInv, ReadersWait, QueuedIsComing, Queued
  <2>2. CASE Next
    BY <2>2, StepKeepsQueue, ProcessKeepsQueue, CallerKeepsQueue DEF Next
  <2>. QED
    BY <2>1, <2>2
<1>. QED
  BY <1>1, <1>2, TypeInvInit, NextKeepsTypes, PTL DEF Spec

\* No queued worker is ever lost: from alethe_delegate or a revival until its
\* spawn takes it over, it is in the queue or in the hands of the thread that
\* popped it, whatever races with the drain.
THEOREM QueuedWorkersAreKept == Spec => []QueuedIsComing
<1>1. QueueInv => QueuedIsComing
  BY DEF QueueInv
<1>. QED
  BY <1>1, QueueInvAlways, PTL

-----------------------------------------------------------------------------
(* What a step can be: a worker is ended by one of the threads that may end *)
(* it, a turn is written, or one of the other lock sections.                *)

Endings == {"done", "failed", "cancelled"}

MayEnd(t, j) ==
    \/ thread[t].pc \in {"launch", "staged", "followup", "stopping"} /\ thread[t].job = j
    \/ t \in Procs /\ thread[t].pc = "idle" /\ worker[t].job = j /\ worker[t].phase # "unborn"
    \/ "cancel" \in Events /\ thread[t].pc = "idle" /\ Exists(j)

Remaining == {pipe} \cup {Read(p) : p \in {q \in Procs : pipe[q] # <<>>}}

Ending ==
    \E t \in Threads, j \in Jobs, st \in Endings, terminal \in BOOLEAN,
       pipes \in Remaining, next \in {"idle", "drain"} :
        MayEnd(t, j) /\ Finish(t, j, st, terminal, pipes, next)

Giving ==
    \E t \in Threads, p \in Procs, l \in {"idle", "drain"} :
        /\ thread[t].pc \in {"staged", "followup"}
        /\ worker' = Given(p) /\ Goto(t, l, NoJob, NoProc)
        /\ UNCHANGED <<jobVars, slotVars, newsVars, watch, pipe, sends, seen>>

Starting(t) ==
    Drain(t) \/ SpawnSkips(t) \/ SpawnStart(t) \/ Launch(t) \/ Attach(t) \/ Arm(t)

Hearing(p) == ReadThread(p) \/ ReadAsk(p) \/ WatchdogWakes(p) \/ WorkerActs(p)

Calling(c) ==
    \/ \E batch \in Batches : Delegate(c, batch)
    \/ \E j \in Jobs : SendFindsNoProcess(c, j) \/ SendWaits(c, j) \/ SendFollowUp(c, j)
                       \/ Answer(c, j)
    \/ Revive(c)
    \/ \E listed \in SUBSET Jobs : Release(c, listed)
    \/ \E n \in Limits : ApplySettings(c, n)
    \/ CheckStarts(c) \/ CheckReturns(c)

LEMMA FinishIsEnding ==
    ASSUME NEW t \in Threads, NEW j \in Jobs, NEW st \in Endings, NEW terminal \in BOOLEAN,
           NEW pipes \in Remaining, NEW next \in {"idle", "drain"},
           MayEnd(t, j), Finish(t, j, st, terminal, pipes, next)
    PROVE  Ending
BY DEF Ending

LEMMA StepKinds ==
    ASSUME TypeInv, Next
    PROVE  \/ Ending \/ Giving
           \/ \E t \in Threads : Starting(t)
           \/ \E p \in Procs : Hearing(p)
           \/ \E c \in Callers : Calling(c)
<1>0. /\ pipe \in Remaining
      /\ \A p \in Procs : pipe[p] # <<>> => Read(p) \in Remaining
  BY DEF Remaining
<1>00. {"failed", "done", "cancelled"} = Endings
  BY DEF Endings
<1>1. ASSUME NEW t \in Threads, LaunchFails(t) PROVE Ending
  <2>1. thread[t].job \in Jobs /\ thread[t].pc = "launch"
    BY <1>1 DEF LaunchFails, At, TypeInv, InHand, Busy
  <2>2. MayEnd(t, thread[t].job)
    BY <2>1 DEF MayEnd
  <2>. QED
    BY <1>0, <1>00, <1>1, <2>1, <2>2, FinishIsEnding DEF LaunchFails
<1>2. ASSUME NEW t \in Threads, WriteStaged(t) \/ (t \in Callers /\ WriteFollowUp(t))
      PROVE  Ending \/ Giving
  <2>1. /\ thread[t].job \in Jobs /\ thread[t].proc \in Procs
        /\ thread[t].pc \in {"staged", "followup"}
    BY <1>2 DEF WriteStaged, WriteFollowUp, At, TypeInv, InHand, Busy, WithProcess
  <2>2. MayEnd(t, thread[t].job)
    BY <2>1 DEF MayEnd
  <2>3. CASE Finish(t, thread[t].job, "failed", TRUE, pipe, "idle")
    BY <1>0, <1>00, <2>1, <2>2, <2>3, FinishIsEnding
  <2>4. CASE \E l \in {"idle", "drain"} :
               /\ worker' = Given(thread[t].proc) /\ Goto(t, l, NoJob, NoProc)
               /\ UNCHANGED <<jobVars, slotVars, newsVars, watch, pipe, sends, seen>>
    BY <2>1, <2>4 DEF Giving
  <2>. QED
    BY <1>2, <2>3, <2>4 DEF WriteStaged, WriteFollowUp, GoHome, ThenDrain
<1>3. ASSUME NEW p \in Procs, ReadTurnEnd(p) \/ ReadRefused(p) \/ ReadEof(p)
      PROVE  Ending
  <2>1. /\ worker[p].job \in Jobs /\ worker[p].phase # "unborn"
        /\ thread[p].pc = "idle" /\ pipe[p] # <<>>
    BY <1>3 DEF ReadTurnEnd, ReadRefused, ReadEof, Hears, At, TypeInv, Staffed
  <2>2. MayEnd(p, worker[p].job)
    BY <2>1 DEF MayEnd
  <2>3. \E st \in Endings, terminal \in BOOLEAN :
           Finish(p, worker[p].job, st, terminal, Read(p), "idle")
    BY <1>00, <1>3 DEF ReadTurnEnd, ReadRefused, ReadEof
  <2>. QED
    BY <1>0, <2>1, <2>2, <2>3, FinishIsEnding, ThreadKinds
<1>4. ASSUME NEW p \in Procs, WatchdogStops(p) PROVE Ending
  <2>. DEFINE w == Watchdog(p)
  <2>1. w \in Threads /\ thread[w].pc = "stopping" /\ thread[w].job \in Jobs
    BY <1>4, ThreadKinds DEF WatchdogStops, At, TypeInv, InHand, Busy
  <2>2. MayEnd(w, thread[w].job)
    BY <2>1 DEF MayEnd
  <2>. QED
    BY <1>0, <1>00, <1>4, <2>1, <2>2, FinishIsEnding DEF WatchdogStops
<1>5. ASSUME NEW c \in Callers, NEW j \in Jobs, Cancel(c, j) PROVE Ending
  <2>1. MayEnd(c, j)
    BY <1>5 DEF Cancel, At, MayEnd
  <2>. QED
    BY <1>0, <1>00, <1>5, <2>1, FinishIsEnding, ThreadKinds DEF Cancel
<1>6. ASSUME NEW t \in Threads, Step(t) PROVE Ending \/ Giving \/ Starting(t)
  BY <1>1, <1>2, <1>6 DEF Step, Starting
<1>7. ASSUME NEW p \in Procs, Reads(p) \/ WatchdogActs(p) \/ WorkerActs(p)
      PROVE  Ending \/ Hearing(p)
  BY <1>3, <1>4, <1>7 DEF Reads, WatchdogActs, Hearing
<1>8. ASSUME NEW c \in Callers, CallerActs(c) \/ CallerGoesOn(c)
      PROVE  Ending \/ Giving \/ Calling(c)
  BY <1>2, <1>5, <1>8, ThreadKinds DEF CallerActs, CallerGoesOn, Calling
<1>. QED
  BY <1>6, <1>7, <1>8 DEF Next

-----------------------------------------------------------------------------
(* A worker that ended is out of the queue. *)

LEMMA EndedKept ==
    ASSUME TypeInv, EndedIsNotQueued, "release" \notin Events, Next
    PROVE  EndedIsNotQueued'
<1>. USE DEF jobVars, slotVars, procVars
<1>1. CASE Ending
  <2>1. PICK t \in Threads, j \in Jobs, st \in Endings, terminal \in BOOLEAN,
             pipes \in Remaining, next \in {"idle", "drain"} :
                Finish(t, j, st, terminal, pipes, next)
    BY <1>1 DEF Ending
  <2>2. CASE FinishTurn(t, j, st, terminal, pipes)
    <3>1. queue' = Without(queue, j)
      BY <2>2 DEF FinishTurn
    <3>2. \A k \in Jobs : Queued(k)' => k # j /\ Queued(k)
      BY <3>1 DEF Queued, Without
    <3>3. \A k \in Jobs : k # j /\ status'[k] \in Settled => status[k] \in Settled
      BY <2>2 DEF FinishTurn, Surplus, Settled, TypeInv, TypeOK
    <3>. QED
      BY <3>2, <3>3 DEF EndedIsNotQueued
  <2>3. CASE UNCHANGED <<jobVars, slotVars>>
    BY <2>3 DEF EndedIsNotQueued, Queued
  <2>. QED
    BY <2>1, <2>2, <2>3 DEF Finish
<1>2. CASE Giving
  BY <1>2 DEF Giving, EndedIsNotQueued, Queued
<1>3. ASSUME NEW t \in Threads, Starting(t) PROVE EndedIsNotQueued'
  <2>1. \A k \in Jobs : Queued(k)' => Queued(k)
    BY <1>3 DEF Starting, Drain, SpawnSkips, SpawnStart, Launch, Attach, Arm, PopFront, Queued
  <2>2. \A k \in Jobs : status'[k] \in Settled => status[k] \in Settled
    BY <1>3 DEF Starting, Drain, SpawnSkips, SpawnStart, Launch, Attach, Arm, Settled,
                TypeInv, TypeOK
  <2>. QED
    BY <2>1, <2>2 DEF EndedIsNotQueued
<1>4. ASSUME NEW p \in Procs, Hearing(p) PROVE EndedIsNotQueued'
  <2>1. queue' = queue
    BY <1>4 DEF Hearing, ReadThread, ReadAsk, WatchdogWakes, WorkerActs, WorkerOpens,
                WorkerRefuses, WorkerAsks, WorkerEndsTurn, WorkerDies, WorkerUnchanged
  <2>2. \A k \in Jobs : status'[k] \in Settled => status[k] \in Settled
    BY <1>4 DEF Hearing, ReadThread, ReadAsk, WatchdogWakes, WorkerActs, WorkerOpens,
                WorkerRefuses, WorkerAsks, WorkerEndsTurn, WorkerDies, WorkerUnchanged,
                Settled, TypeInv, TypeOK
  <2>. QED
    BY <2>1, <2>2 DEF EndedIsNotQueued, Queued
<1>5. ASSUME NEW c \in Callers, Calling(c) PROVE EndedIsNotQueued'
  <2>1. ASSUME NEW batch \in Batches, Delegate(c, batch) PROVE EndedIsNotQueued'
    <3>1. \A k \in Jobs : (\E i \in DOMAIN batch : batch[i] = k) \/ status'[k] = status[k]
      BY <2>1 DEF Delegate
    <3>2. \A k \in Jobs : (\E i \in DOMAIN batch : batch[i] = k) => status'[k] \notin Settled
      BY <2>1 DEF Delegate, Settled
    <3>3. ASSUME NEW k \in Jobs, Queued(k)', ~\E i \in DOMAIN batch : batch[i] = k
          PROVE  Queued(k)
      <4>1. ASSUME NEW q, NEW j, NEW i \in DOMAIN PushBack(q, j), PushBack(q, j)[i] = k, j # k
            PROVE  \E n \in DOMAIN q : q[n] = k
        BY <4>1 DEF PushBack
      <4>2. 1 \in DOMAIN batch /\ (Len(batch) = 1 \/ 2 \in DOMAIN batch)
        BY DEF Batches
      <4>3. batch[1] # k /\ (Len(batch) = 1 \/ batch[2] # k)
        BY <3>3, <4>2
      <4>. QED
        BY <2>1, <3>3, <4>1, <4>3 DEF Delegate, Queued
    <3>. QED
      BY <3>1, <3>2, <3>3 DEF EndedIsNotQueued
  <2>2. CASE Revive(c)
    <3>1. thread[c].job \in Jobs
      BY <2>2, ThreadKinds DEF Revive, At, TypeInv, InHand, Busy
    <3>2. status' = [status EXCEPT ![thread[c].job] = "queued"]
      BY <2>2 DEF Revive
    <3>3. \A k \in Jobs : Queued(k)' => Queued(k) \/ k = thread[c].job
      BY <2>2 DEF Revive, PushBack, Queued
    <3>. QED
      BY <3>1, <3>2, <3>3 DEF EndedIsNotQueued, Settled, TypeInv, TypeOK
  <2>3. ASSUME NEW j \in Jobs,
               SendFindsNoProcess(c, j) \/ SendWaits(c, j) \/ SendFollowUp(c, j) \/ Answer(c, j)
        PROVE  EndedIsNotQueued'
    <3>1. queue' = queue
      BY <2>3 DEF SendFindsNoProcess, SendWaits, SendFollowUp, Answer
    <3>2. \A k \in Jobs : status'[k] \in Settled => status[k] \in Settled
      BY <2>3 DEF SendFindsNoProcess, SendWaits, SendFollowUp, Answer, Settled, TypeInv, TypeOK
    <3>. QED
      BY <3>1, <3>2 DEF EndedIsNotQueued, Queued
  <2>4. ASSUME (\E n \in Limits : ApplySettings(c, n)) \/ CheckStarts(c) \/ CheckReturns(c)
        PROVE  EndedIsNotQueued'
    BY <2>4 DEF ApplySettings, CheckStarts, CheckReturns, EndedIsNotQueued, Queued
  <2>. QED
    BY <1>5, <2>1, <2>2, <2>3, <2>4 DEF Calling, Release
<1>. QED
  BY <1>1, <1>2, <1>3, <1>4, <1>5, StepKinds

\* finish_turn's retain does its work: a worker that ended is not in the queue,
\* whoever ended it, however often it was revived.  alethe_release is left out: it
\* marks a queued worker released and leaves it in the queue.
THEOREM EndedLeaveTheQueue ==
    ASSUME "release" \notin Events
    PROVE  Spec => []EndedIsNotQueued
<1>1. Init => EndedIsNotQueued
  BY DEF Init, EndedIsNotQueued, Queued
<1>2. TypeInv /\ EndedIsNotQueued /\ [Next]_vars => EndedIsNotQueued'
  <2>. SUFFICES ASSUME TypeInv, EndedIsNotQueued, [Next]_vars PROVE EndedIsNotQueued'
    OBVIOUS
  <2>1. CASE UNCHANGED vars
    BY <2>1 DEF vars, jobVars, slotVars, EndedIsNotQueued, Queued
  <2>. QED
    BY <2>1, EndedKept
<1>. QED
  BY <1>1, <1>2, TypeInvInit, NextKeepsTypes, PTL DEF Spec

-----------------------------------------------------------------------------
(* Where no worker asks, no question is on its way or pending.              *)

Answers == Messages \ {"ask"}

NobodyAsks ==
    /\ pipe \in [Procs -> Seq(Answers)]
    /\ \A j \in Jobs : ~pending[j]

LEMMA NoQuestionIsRead ==
    ASSUME NobodyAsks, NEW p \in Procs
    PROVE  ~ReadAsk(p)
<1>1. SUFFICES ASSUME pipe[p] # <<>>, Head(pipe[p]) = "ask" PROVE FALSE
  BY DEF ReadAsk, Hears
<1>2. pipe[p] \in Seq(Answers)
  BY DEF NobodyAsks
<1>3. Head(pipe[p]) \in Answers
  BY <1>1, <1>2
<1>. QED
  BY <1>1, <1>3 DEF Answers

LEMMA NobodyAsksKept ==
    ASSUME TypeInv, NobodyAsks, "ask" \notin Events, Next
    PROVE  NobodyAsks'
<1>. USE DEF jobVars, slotVars, procVars
<1>0. {"thread", "refused", "completed", "failed", "eof"} \subseteq Answers
  BY DEF Answers, Messages
<1>1. ASSUME NEW S, NEW pipes \in [Procs -> Seq(Answers)]
      PROVE  Closed(pipes, S) \in [Procs -> Seq(Answers)]
  BY <1>0 DEF Closed
<1>2. ASSUME NEW p \in Procs, pipe[p] # <<>> PROVE Read(p) \in [Procs -> Seq(Answers)]
  <2>1. pipe[p] \in Seq(Answers)
    BY DEF NobodyAsks
  <2>2. Tail(pipe[p]) \in Seq(Answers)
    BY <1>2, <2>1
  <2>. QED
    BY <2>2 DEF Read, NobodyAsks
<1>3. ASSUME NEW p \in Procs, NEW m \in Answers, Says(p, m)
      PROVE  pipe' \in [Procs -> Seq(Answers)]
  BY <1>3 DEF Says, NobodyAsks
<1>4. CASE Ending
  <2>1. PICK t \in Threads, j \in Jobs, st \in Endings, terminal \in BOOLEAN,
             pipes \in Remaining, next \in {"idle", "drain"} :
                Finish(t, j, st, terminal, pipes, next)
    BY <1>4 DEF Ending
  <2>2. pipes \in [Procs -> Seq(Answers)]
    BY <1>2 DEF Remaining, NobodyAsks
  <2>3. CASE FinishTurn(t, j, st, terminal, pipes)
    <3>1. \A k \in Jobs : ~pending'[k]
      BY <2>3 DEF FinishTurn, NobodyAsks, TypeInv, TypeOK
    <3>2. \E S : pipe' = Closed(pipes, S)
      BY <2>3 DEF FinishTurn
    <3>. QED
      BY <1>1, <2>2, <3>1, <3>2 DEF NobodyAsks
  <2>4. CASE pipe' = pipes /\ UNCHANGED jobVars
    BY <2>2, <2>4 DEF NobodyAsks
  <2>. QED
    BY <2>1, <2>3, <2>4 DEF Finish
<1>5. CASE Giving
  BY <1>5 DEF Giving, NobodyAsks
<1>6. ASSUME NEW t \in Threads, Starting(t) PROVE NobodyAsks'
  BY <1>6 DEF Starting, Drain, SpawnSkips, SpawnStart, Launch, Attach, Arm, NobodyAsks
<1>7. ASSUME NEW p \in Procs, Hearing(p) PROVE NobodyAsks'
  <2>1. CASE ReadThread(p)
    BY <1>2, <2>1 DEF ReadThread, Hears, NobodyAsks
  <2>2. ~ReadAsk(p)
    BY NoQuestionIsRead
  <2>3. CASE WatchdogWakes(p)
    BY <2>3 DEF WatchdogWakes, NobodyAsks
  <2>4. CASE WorkerActs(p)
    <3>1. \E m \in Answers : Says(p, m)
      BY <1>0, <2>4 DEF WorkerActs, WorkerOpens, WorkerRefuses, WorkerAsks, WorkerEndsTurn,
                        WorkerDies
    <3>2. pending' = pending
      BY <2>4 DEF WorkerActs, WorkerOpens, WorkerRefuses, WorkerAsks, WorkerEndsTurn,
                  WorkerDies, WorkerUnchanged
    <3>. QED
      BY <1>3, <3>1, <3>2 DEF NobodyAsks
  <2>. QED
    BY <1>7, <2>1, <2>2, <2>3, <2>4 DEF Hearing
<1>8. ASSUME NEW c \in Callers, Calling(c) PROVE NobodyAsks'
  <2>1. ASSUME NEW listed \in SUBSET Jobs, Release(c, listed) PROVE NobodyAsks'
    <3>1. \E S : pipe' = Closed(pipe, S)
      BY <2>1 DEF Release
    <3>. QED
      BY <1>1, <2>1, <3>1 DEF Release, NobodyAsks
  <2>2. ASSUME NEW j \in Jobs PROVE ~Answer(c, j)
    BY DEF Answer, NobodyAsks
  <2>3. CASE ~\E listed \in SUBSET Jobs : Release(c, listed)
    BY <1>8, <2>2, <2>3 DEF Calling, Delegate, SendFindsNoProcess, SendWaits, SendFollowUp,
             Revive, ApplySettings, CheckStarts, CheckReturns, NobodyAsks
  <2>. QED
    BY <2>1, <2>3
<1>. QED
  BY <1>4, <1>5, <1>6, <1>7, <1>8, StepKinds

LEMMA NobodyAsksAlways ==
    ASSUME "ask" \notin Events
    PROVE  Spec => [](TypeInv /\ NobodyAsks)
<1>1. Init => NobodyAsks
  BY DEF Init, NobodyAsks
<1>2. TypeInv /\ NobodyAsks /\ [Next]_vars => NobodyAsks'
  <2>. SUFFICES ASSUME TypeInv, NobodyAsks, [Next]_vars PROVE NobodyAsks'
    OBVIOUS
  <2>1. CASE UNCHANGED vars
    BY <2>1 DEF vars, jobVars, procVars, NobodyAsks
  <2>. QED
    BY <2>1, NobodyAsksKept
<1>. QED
  BY <1>1, <1>2, TypeInvInit, NextKeepsTypes, PTL DEF Spec

-----------------------------------------------------------------------------
(* Where no planner sends, no worker is given more than its first turn.     *)

FollowingUp == {"revive", "followup", "staged"}

NobodySends ==
    /\ sends = 0
    /\ \A j \in Jobs : inbox[j] = 0
    /\ \A t \in Threads : thread[t].pc \notin FollowingUp

LEMMA NobodySendsKept ==
    ASSUME TypeInv, NobodySends, "send" \notin Events, Next
    PROVE  NobodySends'
<1>. USE DEF jobVars, slotVars, procVars
<1>1. ASSUME NEW t \in Threads, NEW l, NEW j, NEW p, Goto(t, l, j, p), l \notin FollowingUp
      PROVE  \A u \in Threads : thread'[u].pc \notin FollowingUp
  BY <1>1, GotoMoves DEF NobodySends
<1>2. {"idle", "drain", "spawn", "launch", "attach", "arm", "stopping", "checking"}
         \cap FollowingUp = {}
  BY DEF FollowingUp
<1>3. CASE Ending
  <2>1. PICK t \in Threads, j \in Jobs, st \in Endings, terminal \in BOOLEAN,
             pipes \in Remaining, next \in {"idle", "drain"} :
                Finish(t, j, st, terminal, pipes, next)
    BY <1>3 DEF Ending
  <2>2. CASE FinishTurn(t, j, st, terminal, pipes)
    <3>1. ~TakesNext(j, terminal)
      BY DEF TakesNext, NobodySends
    <3>2. inbox' = inbox /\ sends' = sends /\ ThenDrain(t)
      BY <2>2, <3>1 DEF FinishTurn
    <3>. QED
      BY <1>1, <1>2, <3>2 DEF ThenDrain, NobodySends
  <2>3. CASE Goto(t, next, NoJob, NoProc) /\ UNCHANGED <<jobVars, sends>>
    BY <1>1, <1>2, <2>3 DEF NobodySends
  <2>. QED
    BY <2>1, <2>2, <2>3 DEF Finish
<1>4. ~Giving
  BY DEF Giving, NobodySends, FollowingUp
<1>5. ASSUME NEW t \in Threads, Starting(t) PROVE NobodySends'
  <2>1. CASE SpawnStart(t)
    <3>1. \A j \in Jobs : inbox'[j] = 0
      BY <2>1 DEF SpawnStart, NobodySends, TypeInv, TypeOK
    <3>. QED
      BY <1>1, <1>2, <2>1, <3>1 DEF SpawnStart, NobodySends
  <2>2. CASE Drain(t) \/ SpawnSkips(t) \/ Launch(t) \/ Attach(t)
    <3>1. \E l \in {"idle", "spawn", "drain", "attach", "arm"} : \E j, p : Goto(t, l, j, p)
      BY <2>2 DEF Drain, SpawnSkips, Launch, Attach, GoHome, ThenDrain
    <3>2. UNCHANGED <<inbox, sends>>
      BY <2>2 DEF Drain, SpawnSkips, Launch, Attach
    <3>. QED
      BY <1>1, <1>2, <3>1, <3>2 DEF NobodySends
  <2>3. CASE Arm(t)
    <3>0. /\ thread \in [Threads -> [pc : Labels, job : Jobs \cup {NoJob},
                                     proc : Procs \cup {NoProc}]]
          /\ thread' = [thread EXCEPT
                           ![thread[t].proc].pc = "idle",
                           ![t] = [pc |-> "drain", job |-> NoJob, proc |-> NoProc]]
      BY <2>3 DEF Arm, TypeInv, TypeOK
    <3>1. \A u \in Threads : thread'[u].pc \in {thread[u].pc, "idle", "drain"}
      BY <3>0
    <3>2. UNCHANGED <<inbox, sends>>
      BY <2>3 DEF Arm
    <3>. QED
      BY <1>2, <3>1, <3>2 DEF NobodySends
  <2>. QED
    BY <1>5, <2>1, <2>2, <2>3 DEF Starting
<1>6. ASSUME NEW p \in Procs, Hearing(p) PROVE NobodySends'
  <2>1. CASE WatchdogWakes(p)
    <3>1. thread' = thread \/ Goto(Watchdog(p), "stopping", worker[p].job, NoProc)
      BY <2>1 DEF WatchdogWakes
    <3>. QED
      BY <1>1, <1>2, <2>1, <3>1, ThreadKinds DEF WatchdogWakes, NobodySends
  <2>2. CASE ReadThread(p) \/ ReadAsk(p) \/ WorkerActs(p)
    BY <2>2 DEF ReadThread, ReadAsk, WorkerActs, WorkerOpens, WorkerRefuses, WorkerAsks,
                WorkerEndsTurn, WorkerDies, WorkerUnchanged, NobodySends
  <2>. QED
    BY <1>6, <2>1, <2>2 DEF Hearing
<1>7. ASSUME NEW c \in Callers, Calling(c) PROVE NobodySends'
  <2>1. c \in Threads
    BY ThreadKinds
  <2>2. ~Revive(c)
    BY <2>1 DEF Revive, At, NobodySends, FollowingUp
  <2>3. ASSUME NEW j \in Jobs
        PROVE  ~(SendFindsNoProcess(c, j) \/ SendWaits(c, j) \/ SendFollowUp(c, j))
    BY DEF SendFindsNoProcess, SendWaits, SendFollowUp, MaySend
  <2>4. CASE \/ \E j \in Jobs : Answer(c, j)
             \/ \E listed \in SUBSET Jobs : Release(c, listed)
    BY <2>4 DEF Answer, Release, NobodySends
  <2>5. CASE \/ \E batch \in Batches : Delegate(c, batch)
             \/ \E n \in Limits : ApplySettings(c, n)
             \/ CheckStarts(c) \/ CheckReturns(c)
    <3>1. \E l \in {"drain", "checking", "idle"} : Goto(c, l, NoJob, NoProc)
      BY <2>5 DEF Delegate, ApplySettings, CheckStarts, CheckReturns, ThenDrain, GoHome
    <3>2. UNCHANGED <<inbox, sends>>
      BY <2>5 DEF Delegate, ApplySettings, CheckStarts, CheckReturns
    <3>. QED
      BY <1>1, <1>2, <2>1, <3>1, <3>2 DEF NobodySends
  <2>. QED
    BY <1>7, <2>2, <2>3, <2>4, <2>5 DEF Calling
<1>. QED
  BY <1>3, <1>4, <1>5, <1>6, <1>7, StepKinds

LEMMA NobodySendsFirst == Init => NobodySends
BY DEF Init, NobodySends, FollowingUp

-----------------------------------------------------------------------------
(* One notice per worker.  Without follow-ups and questions an ended worker *)
(* stays ended, and finish says nothing of a worker that is over already.   *)

ToldIsOver ==
    /\ \A d \in deliveries : status[d.job] \in Settled
    /\ AnnouncedOnce

\* A step that sends no news, and leaves what is over alone.
LEMMA QuietNews ==
    ASSUME TypeInv, ToldIsOver, deliveries' \subseteq deliveries,
           \A k \in Jobs : status[k] \in Settled => status'[k] \in Settled
    PROVE  ToldIsOver'
<1>1. \A d \in deliveries : d.job \in Jobs
  BY DEF TypeInv, TypeOK
<1>. QED
  BY <1>1 DEF ToldIsOver, AnnouncedOnce

LEMMA ToldKept ==
    ASSUME TypeInv, NobodyAsks, NobodySends, ToldIsOver, Events \cap {"ask", "send"} = {}, Next
    PROVE  ToldIsOver'
<1>. USE DEF jobVars, slotVars, newsVars, procVars
<1>0. \A d \in deliveries : d.job \in Jobs
  BY DEF TypeInv, TypeOK
<1>1. CASE Ending
  <2>1. PICK t \in Threads, j \in Jobs, st \in Endings, terminal \in BOOLEAN,
             pipes \in Remaining, next \in {"idle", "drain"} :
                Finish(t, j, st, terminal, pipes, next)
    BY <1>1 DEF Ending
  <2>2. CASE ~IsSettled(j) /\ FinishTurn(t, j, st, terminal, pipes)
    <3>1. ~TakesNext(j, terminal)
      BY DEF TakesNext, NobodySends
    <3>2. \A k \in Jobs : status[k] \in Settled \/ k = j => status'[k] \in Settled
      BY <2>2, <3>1 DEF FinishTurn, Surplus, Settled, Endings, TypeInv, TypeOK
    <3>3. deliveries' = deliveries \cup {[seq |-> seq + 1, job |-> j, sent |-> FALSE]}
      BY <2>2 DEF FinishTurn, PushDelivery
    <3>4. \A d \in deliveries : d.job # j
      BY <2>2 DEF ToldIsOver, IsSettled
    <3>. DEFINE new == [seq |-> seq + 1, job |-> j, sent |-> FALSE]
    <3>5. new.job = j
      OBVIOUS
    <3>. HIDE DEF new
    <3>. QED
      BY <1>0, <3>2, <3>3, <3>4, <3>5 DEF ToldIsOver, AnnouncedOnce, new
  <2>3. CASE UNCHANGED <<jobVars, newsVars>>
    BY <2>3, QuietNews DEF ToldIsOver
  <2>. QED
    BY <2>1, <2>2, <2>3 DEF Finish
<1>2. CASE Giving
  BY <1>2, QuietNews DEF Giving, ToldIsOver
<1>3. ASSUME NEW t \in Threads, Starting(t) PROVE ToldIsOver'
  <2>1. CASE SpawnStart(t)
    <3>1. thread[t].job \in Jobs /\ ~IsSettled(thread[t].job)
      BY <2>1 DEF SpawnStart, At, TypeInv, InHand, Busy
    <3>2. /\ \A k \in Jobs : status[k] \in Settled => status'[k] \in Settled
          /\ deliveries' = deliveries
      BY <2>1, <3>1 DEF SpawnStart, IsSettled, ToldIsOver, TypeInv, TypeOK
    <3>. QED
      BY <3>2, QuietNews
  <2>2. CASE Drain(t) \/ SpawnSkips(t) \/ Launch(t) \/ Attach(t) \/ Arm(t)
    <3>1. UNCHANGED <<status, deliveries>>
      BY <2>2 DEF Drain, SpawnSkips, Launch, Attach, Arm
    <3>. QED
      BY <3>1, QuietNews DEF ToldIsOver
  <2>. QED
    BY <1>3, <2>1, <2>2 DEF Starting
<1>4. ASSUME NEW p \in Procs, Hearing(p) PROVE ToldIsOver'
  <2>1. ~ReadAsk(p)
    BY NoQuestionIsRead
  <2>2. UNCHANGED <<status, deliveries>>
    BY <1>4, <2>1 DEF Hearing, ReadThread, WatchdogWakes, WorkerActs, WorkerOpens,
                WorkerRefuses, WorkerAsks, WorkerEndsTurn, WorkerDies, WorkerUnchanged
  <2>. QED
    BY <2>2, QuietNews DEF ToldIsOver
<1>5. ASSUME NEW c \in Callers, Calling(c) PROVE ToldIsOver'
  <2>1. ASSUME NEW batch \in Batches, Delegate(c, batch) PROVE ToldIsOver'
    <3>1. \A k \in Jobs : status[k] \in Settled => status'[k] \in Settled
      BY <2>1 DEF Delegate, Exists, Settled
    <3>. QED
      BY <2>1, <3>1, QuietNews DEF Delegate, ToldIsOver
  <2>2. ~Revive(c)
    BY ThreadKinds DEF Revive, At, NobodySends, FollowingUp
  <2>3. ASSUME NEW j \in Jobs PROVE ~(SendFindsNoProcess(c, j) \/ SendWaits(c, j)
                                       \/ SendFollowUp(c, j) \/ Answer(c, j))
    BY DEF SendFindsNoProcess, SendWaits, SendFollowUp, MaySend, Answer, NobodyAsks
  <2>4. ASSUME NEW listed \in SUBSET Jobs, Release(c, listed) PROVE ToldIsOver'
    <3>1. \A k \in Jobs : status[k] \in Settled => status'[k] \in Settled
      BY <2>4 DEF Release, Settled
    <3>. QED
      BY <2>4, <3>1, QuietNews DEF Release, ToldIsOver
  <2>5. ASSUME NEW n \in Limits, ApplySettings(c, n) PROVE ToldIsOver'
    BY <2>5, QuietNews DEF ApplySettings, ToldIsOver
  <2>6. CASE CheckStarts(c)
    BY <2>6, QuietNews DEF CheckStarts, KeptUntilAcked, ToldIsOver
  <2>7. CASE CheckReturns(c)
    <3>1. \A d \in deliveries : [d EXCEPT !.sent = TRUE].job = d.job
      BY DEF TypeInv, TypeOK
    <3>2. /\ deliveries' = {[d EXCEPT !.sent = TRUE] : d \in deliveries}
          /\ status' = status
      BY <2>7 DEF CheckReturns
    <3>3. ASSUME NEW d \in deliveries', NEW e \in deliveries', d.job = e.job
          PROVE  d = e /\ status[d.job] \in Settled
      <4>1. PICK a \in deliveries, b \in deliveries :
                d = [a EXCEPT !.sent = TRUE] /\ e = [b EXCEPT !.sent = TRUE]
        BY <3>2, <3>3
      <4>2. a = b
        BY <3>1, <3>3, <4>1 DEF ToldIsOver, AnnouncedOnce
      <4>. QED
        BY <3>1, <4>1, <4>2 DEF ToldIsOver
    <3>. QED
      BY <3>2, <3>3 DEF ToldIsOver, AnnouncedOnce
  <2>. QED
    BY <1>5, <2>1, <2>2, <2>3, <2>4, <2>5, <2>6, <2>7 DEF Calling
<1>. QED
  BY <1>1, <1>2, <1>3, <1>4, <1>5, StepKinds

\* finish says nothing of a worker that is over: without follow-ups and questions
\* the planners get one notice per worker at most, however many of its launcher,
\* its reader, its watchdog and a cancelling planner end it.
THEOREM OneNoticeEach ==
    ASSUME Events \cap {"ask", "send"} = {}
    PROVE  Spec => []AnnouncedOnce
<1>1. Init => ToldIsOver
  BY DEF Init, ToldIsOver, AnnouncedOnce
<1>2. TypeInv /\ NobodyAsks /\ NobodySends /\ ToldIsOver /\ [Next]_vars
         => NobodySends' /\ ToldIsOver'
  <2>. SUFFICES ASSUME TypeInv, NobodyAsks, NobodySends, ToldIsOver, [Next]_vars
                PROVE  NobodySends' /\ ToldIsOver'
    OBVIOUS
  <2>1. CASE UNCHANGED vars
    BY <2>1 DEF vars, jobVars, newsVars, NobodySends, ToldIsOver, AnnouncedOnce
  <2>. QED
    BY <2>1, NobodySendsKept, ToldKept
<1>3. ToldIsOver => AnnouncedOnce
  BY DEF ToldIsOver
<1>4. Spec => [](TypeInv /\ NobodyAsks)
  BY NobodyAsksAlways
<1>. QED
  BY <1>1, <1>2, <1>3, <1>4, NobodySendsFirst, PTL DEF Spec
===============================================================================
