----------------------------- MODULE ShellsProofs -----------------------------
(* What holds of the shells for any number of threads, commands, shells and  *)
(* runs, and whatever calls and faults are allowed.                          *)
EXTENDS Shells, FiniteSetTheorems, TLAPS

Statuses == {"none", "running", "exited", "stopped"}
Phases == {"unborn", "alive", "ended", "announced"}
Stages == {"no", "tree", "child"}

Activities == [Threads -> [pc : Labels, call : Calls, id : Nat, run : Nat,
                           cmd : Commands \cup {NoCommand}]]

\* TypeOK without its bounds, and of the variables the arguments below read.
Shape ==
    /\ counter \in Nat
    /\ status \in [Ids -> Statuses]
    /\ run \in [Ids -> Nat]
    /\ thread \in Activities
    /\ session \in [Ids -> Nat]
    /\ root \in [Ids -> Nat]
    /\ ending \in [Procs -> Stages]
    /\ phase \in [Procs -> Phases]
    /\ calm \in [Ids -> BOOLEAN]

-----------------------------------------------------------------------------
(* Shape *)

LEMMA InitShape == Init => Shape
BY DEF Init, Shape, Activities, Ids, Runs, Procs, Statuses, Phases, Stages, Idle, Labels, Calls

LEMMA StepShape == Shape /\ [Next]_vars => Shape'
<1> SUFFICES ASSUME Shape, [Next]_vars PROVE Shape'
  OBVIOUS
<1> USE DEF Shape, Activities, Statuses, Phases, Stages, Labels, Calls
<1>1. ASSUME NEW t \in Threads, NEW c \in Commands, OpenLooks(t, c) PROVE Shape'
  BY <1>1 DEF OpenLooks, At, Idle, records, ptys, events
<1>2. ASSUME NEW t \in Threads, NEW i \in Ids, StopReads(t, i) PROVE Shape'
  BY <1>2 DEF StopReads, Starts, records, ptys, events, Ids
<1>3. ASSUME NEW t \in Threads, NEW i \in Ids, RestartMarks(t, i) PROVE Shape'
  BY <1>3 DEF RestartMarks, Starts, ptys, events, Ids
<1>4. ASSUME NEW t \in Threads, NEW i \in Ids, RemoveReads(t, i) PROVE Shape'
  BY <1>4 DEF RemoveReads, Starts, records, ptys, events, Ids
<1>5. ASSUME NEW t \in Threads, OpenRegisters(t) PROVE Shape'
  <2>1. counter' \in Nat /\ thread' \in Activities
    BY <1>5 DEF OpenRegisters
  <2>2. status' \in [Ids -> Statuses] /\ run' \in [Ids -> Nat]
    BY <1>5 DEF OpenRegisters
  <2>. QED
    BY <1>5, <2>1, <2>2 DEF OpenRegisters, ptys, events
<1>6. ASSUME NEW t \in Threads, HostListens(t) PROVE Shape'
  BY <1>6 DEF HostListens, Goto, records, ptys
<1>7. ASSUME NEW t \in Threads, HostSpawns(t) PROVE Shape'
  <2>1. thread' \in Activities
    BY <1>7 DEF HostSpawns, Returns, Goto, Idle
  <2>2. /\ session' \in [Ids -> Nat] /\ root' \in [Ids -> Nat]
        /\ ending' \in [Procs -> Stages] /\ phase' \in [Procs -> Phases]
    BY <1>7 DEF HostSpawns, ptys
  <2>. QED
    BY <1>7, <2>1, <2>2 DEF HostSpawns, records, events
<1>7a. ASSUME NEW t \in Threads, HostInserts(t) PROVE Shape'
  BY <1>7a DEF HostInserts, Returns, Idle, records, events
<1>8. ASSUME NEW t \in Threads, SpawnFails(t) PROVE Shape'
  BY <1>8 DEF SpawnFails, Unstarted, Returns, Idle, ptys, events
<1>9. ASSUME NEW t \in Threads, StopMarks(t) PROVE Shape'
  BY <1>9 DEF StopMarks, Goto, ptys, events
<1> USE DEF AfterStop, Goto, Returns, Idle, TakesOut
<1>10. ASSUME NEW t \in Threads, HostSignals(t) PROVE Shape'
  BY <1>10 DEF HostSignals, records, ptys, events
<1>11. ASSUME NEW t \in Threads, HostKills(t) PROVE Shape'
  <2>1. thread[t].id \in Ids => session[thread[t].id] \in Nat
    OBVIOUS
  <2>2. thread' \in Activities
    BY <1>11 DEF HostKills
  <2>3. session' \in [Ids -> Nat] /\ ending' \in [Procs -> Stages]
    BY <1>11 DEF HostKills
  <2>. QED
    BY <1>11, <2>2, <2>3 DEF HostKills, records, events
<1>11a. ASSUME NEW t \in Threads, HostReleases(t) PROVE Shape'
  BY <1>11a DEF HostReleases, records, ptys, events
<1>12. ASSUME NEW t \in Threads, HostDrains(t) PROVE Shape'
  BY <1>12 DEF HostDrains, records, events, ptys
<1>13. ASSUME NEW t \in Threads, RestartBumps(t) PROVE Shape'
  BY <1>13 DEF RestartBumps, records, events, ptys
<1>14. ASSUME NEW t \in Threads, RemoveDrops(t) PROVE Shape'
  BY <1>14 DEF RemoveDrops, events, ptys
<1>15. ASSUME NEW p \in Procs, ProcessEnds(p) \/ ChildIsKilled(p) PROVE Shape'
  <2>1. phase' \in [Procs -> Phases] /\ ending' \in [Procs -> Stages]
    BY <1>15 DEF ProcessEnds, ChildIsKilled, Ended
  <2>. QED
    BY <1>15, <2>1 DEF ProcessEnds, ChildIsKilled, records, events
<1>15a. ASSUME NEW p \in Procs, TreeIsKilled(p) PROVE Shape'
  <2>1. phase' \in [Procs -> Phases]
    BY <1>15a DEF TreeIsKilled, Ended
  <2>. QED
    BY <1>15a, <2>1 DEF TreeIsKilled, records, events
<1>16. ASSUME NEW p \in Procs, WatcherPolls(p) PROVE Shape'
  BY <1>16 DEF WatcherPolls, records, events
<1>17. ASSUME NEW p \in Procs, ReaderEmits(p) PROVE Shape'
  BY <1>17 DEF ReaderEmits, records
<1>18. ASSUME NEW i \in Ids, NEW r \in Runs, ShellExited(i, r) PROVE Shape'
  BY <1>18 DEF ShellExited, ptys
<1>19. CASE UNCHANGED vars
  BY <1>19 DEF vars, records, ptys, events
<1> QED
  BY <1>1, <1>2, <1>3, <1>4, <1>5, <1>6, <1>7, <1>7a, <1>8, <1>9, <1>10, <1>11, <1>11a,
     <1>12, <1>13, <1>14, <1>15, <1>15a, <1>16, <1>17, <1>18, <1>19 DEF Next, Goes

THEOREM ShapeIsKept == Spec => []Shape
BY InitShape, StepShape, PTL DEF Spec

-----------------------------------------------------------------------------
(* No process out of reach.  A process is only started when its shell has no   *)
(* session and nobody else is about to insert one, and a session leaves the    *)
(* map only to be terminated, or once its process has ended.                   *)

ComingOrThere ==
    \A p \in Procs : Kept(p) => session[p[1]] = p[2] \/ IsComing(p)

\* The reservation: one start of a shell at a time, and only without a session.
OneStart ==
    \A i \in Ids :
        /\ \A t, u \in Inserting(i) : t = u
        /\ Inserting(i) # {} => session[i] = 0

ReachInv == ComingOrThere /\ OneStart

\* What is not a start: sessions only leave the map, and when the session of a
\* process that goes on living leaves it, the process is being killed.
LEMMA ReachIsKept ==
    ASSUME ReachInv,
           \A i \in Ids : Inserting(i)' = Inserting(i),
           \A i \in Ids : \A t \in Inserting(i) : thread'[t].run = thread[t].run,
           \A i \in Ids : session'[i] \in {0, session[i]},
           \A p \in Procs : Kept(p)' => Kept(p),
           \A p \in Procs : Kept(p)' /\ session[p[1]] = p[2] => session'[p[1]] = p[2]
    PROVE  ReachInv'
<1>1. \A p \in Procs : IsComing(p) => IsComing(p)'
  BY DEF IsComing, Procs
<1>2. ComingOrThere'
  BY <1>1 DEF ReachInv, ComingOrThere
<1>3. OneStart'
  BY DEF ReachInv, OneStart
<1> QED
  BY <1>2, <1>3 DEF ReachInv

\* Steps that leave the processes and their sessions alone.
LEMMA OtherThreads ==
    ASSUME ReachInv, UNCHANGED <<session, phase, ending>>,
           \A t \in Threads : thread'[t] # thread[t] =>
               thread[t].pc # "insert" /\ thread'[t].pc # "insert"
    PROVE  ReachInv'
<1>1. \A i \in Ids : Inserting(i)' = Inserting(i)
  BY DEF Inserting, At
<1>2. \A i \in Ids : \A t \in Inserting(i) : thread'[t].run = thread[t].run
  BY DEF Inserting, At
<1>3. \A p \in Procs : Kept(p)' => Kept(p)
  BY DEF Kept, Living, BeingKilled
<1> QED
  BY <1>1, <1>2, <1>3, ReachIsKept

\* Whose session is taken out is being killed.
LEMMA TakenOut ==
    ASSUME Shape, NEW i, TakesOut(i), UNCHANGED phase
    PROVE  /\ \A k \in Ids : session'[k] \in {0, session[k]}
           /\ \A p \in Procs : Kept(p)' => Kept(p)
           /\ \A p \in Procs : Kept(p)' /\ session[p[1]] = p[2] => session'[p[1]] = p[2]
<1>. USE DEF Shape, TakesOut, Kept, Living, BeingKilled
<1>1. \A k \in Ids : session'[k] \in {0, session[k]}
  OBVIOUS
<1>2. \A p \in Procs : Kept(p)' => Kept(p)
  OBVIOUS
<1>3. ASSUME NEW p \in Procs, Kept(p)', session[p[1]] = p[2]
      PROVE  session'[p[1]] = p[2]
  <2>1. p[1] \in Ids /\ p = <<p[1], p[2]>>
    BY DEF Procs
  <2>2. p # <<i, session[i]>>
    BY <1>3
  <2>3. p[1] # i
    BY <1>3, <2>1, <2>2
  <2> QED
    BY <1>3, <2>1, <2>3
<1> QED
  BY <1>1, <1>2, <1>3

LEMMA StepReach == Shape /\ ReachInv /\ [Next]_vars => ReachInv'
<1> SUFFICES ASSUME Shape, ReachInv, [Next]_vars PROVE ReachInv'
  OBVIOUS
<1>. USE DEF Shape, Activities
<1>1. ASSUME NEW t \in Threads, HostSpawns(t), NEW i, i = thread[t].id PROVE ReachInv'
  <2>. DEFINE p == <<i, thread[t].run>>
  <2>0. p[1] = i /\ p[2] = thread[t].run
    OBVIOUS
  <2>1. CASE ~MaySpawn(i)
    BY <1>1, <2>1, OtherThreads DEF HostSpawns, ptys, Returns, Idle, At
  <2>2. CASE MaySpawn(i)
    <3>1. /\ phase' = [phase EXCEPT ![p] = "alive"] /\ UNCHANGED <<session, ending>>
          /\ thread' = [thread EXCEPT ![t].pc = "insert"]
          /\ thread[t].pc = "spawn" /\ Inserting(i) = {} /\ session[i] = 0
      BY <1>1, <2>2 DEF HostSpawns, Goto, At, MaySpawn
    <3>. HIDE DEF p
    <3>2. Inserting(i)' = {t} /\ \A k \in Ids : k # i => Inserting(k)' = Inserting(k)
      <4>1. /\ \A u \in Threads : u # t => thread'[u] = thread[u]
            /\ thread'[t].pc = "insert" /\ thread'[t].id = i
        BY <1>1, <3>1
      <4>2. \A u \in Threads : ~(thread[u].pc = "insert" /\ thread[u].id = i)
        BY <3>1 DEF Inserting, At
      <4>3. Inserting(i)' = {t}
        BY <4>1, <4>2 DEF Inserting, At
      <4>4. \A k \in Ids : k # i => Inserting(k)' = Inserting(k)
        BY <1>1, <3>1, <4>1 DEF Inserting, At
      <4> QED
        BY <4>3, <4>4
    <3>3. OneStart'
      BY <3>1, <3>2 DEF ReachInv, OneStart
    <3>4. ASSUME NEW q \in Procs, Kept(q)' PROVE session'[q[1]] = q[2] \/ IsComing(q)'
      <4>1. q = <<q[1], q[2]>> /\ q[1] \in Ids
        BY DEF Procs
      <4>2. CASE q = p
        BY <2>0, <3>1, <3>2, <4>2 DEF IsComing
      <4>3. CASE q # p
        <5>1. Kept(q)
          BY <3>1, <3>4, <4>3 DEF Kept, Living, BeingKilled
        <5>2. session[q[1]] = q[2] \/ IsComing(q)
          BY <5>1 DEF ReachInv, ComingOrThere
        <5>3. CASE IsComing(q)
          <6>1. q[1] # i
            BY <3>1, <5>3 DEF IsComing
          <6>2. PICK u \in Inserting(q[1]) : thread[u].run = q[2]
            BY <5>3 DEF IsComing
          <6>3. u # t
            BY <3>1, <6>2 DEF Inserting, At
          <6> QED
            BY <3>1, <3>2, <4>1, <6>1, <6>2, <6>3 DEF IsComing, Inserting
        <5> QED
          BY <3>1, <5>2, <5>3
      <4> QED
        BY <4>2, <4>3
    <3> QED
      BY <3>3, <3>4 DEF ReachInv, ComingOrThere
  <2> QED
    BY <2>1, <2>2
<1>2. ASSUME NEW t \in Threads, HostInserts(t), NEW i, i = thread[t].id PROVE ReachInv'
  <2>1. /\ session' = [session EXCEPT ![i] = thread[t].run] /\ UNCHANGED <<phase, ending>>
        /\ thread' = [thread EXCEPT ![t] = Idle] /\ t \in Inserting(i)
    BY <1>2 DEF HostInserts, Returns, Inserting
  <2>2. Inserting(i)' = Inserting(i) \ {t} /\ \A k \in Ids : k # i => Inserting(k)' = Inserting(k)
    BY <2>1 DEF Inserting, At, Idle
  <2>3. i \in Ids => Inserting(i)' = {}
    BY <2>1, <2>2 DEF ReachInv, OneStart
  <2>4. OneStart'
    BY <2>1, <2>2, <2>3 DEF ReachInv, OneStart
  <2>5. ASSUME NEW q \in Procs, Kept(q)' PROVE session'[q[1]] = q[2] \/ IsComing(q)'
    <3>1. q[1] \in Ids /\ q[2] # 0
      BY DEF Procs, Runs
    <3>2. session[q[1]] = q[2] \/ IsComing(q)
      BY <2>1, <2>5 DEF ReachInv, ComingOrThere, Kept, Living, BeingKilled
    <3>3. CASE q[1] = i
      <4>1. session[i] = 0 /\ \A u \in Inserting(i) : u = t
        BY <2>1, <3>1, <3>3 DEF ReachInv, OneStart
      <4>2. thread[t].run = q[2]
        BY <3>1, <3>2, <3>3, <4>1 DEF IsComing
      <4> QED
        BY <2>1, <3>1, <3>3, <4>2
    <3>4. CASE q[1] # i
      <4>1. session'[q[1]] = session[q[1]]
        BY <2>1, <3>1, <3>4
      <4>2. IsComing(q) => IsComing(q)'
        BY <2>1, <2>2, <3>1, <3>4 DEF IsComing, Inserting
      <4> QED
        BY <3>2, <4>1, <4>2
    <3> QED
      BY <3>3, <3>4
  <2> QED
    BY <2>4, <2>5 DEF ReachInv, ComingOrThere
<1>3. ASSUME NEW t \in Threads, HostKills(t) PROVE ReachInv'
  <2>1. TakesOut(thread[t].id) /\ UNCHANGED phase
    BY <1>3 DEF HostKills
  <2>2. \A u \in Threads : thread'[u] # thread[u] => thread[u].pc # "insert" /\ thread'[u].pc # "insert"
    BY <1>3 DEF HostKills
  <2>3. /\ \A k \in Ids : Inserting(k)' = Inserting(k)
        /\ \A k \in Ids : \A u \in Inserting(k) : thread'[u].run = thread[u].run
    BY <2>2 DEF Inserting, At
  <2> QED
    BY <2>1, <2>3, TakenOut, ReachIsKept
\* Steps of no thread.
<1>4. ASSUME thread' = thread
      PROVE  /\ \A k \in Ids : Inserting(k)' = Inserting(k)
             /\ \A k \in Ids : \A u \in Inserting(k) : thread'[u].run = thread[u].run
  BY <1>4 DEF Inserting, At
<1>5. ASSUME NEW p \in Procs, WatcherPolls(p) PROVE ReachInv'
  <2>1. CASE TakesOut(p[1])
    BY <1>4, <1>5, <2>1, TakenOut, ReachIsKept DEF WatcherPolls
  <2>2. CASE ~TakesOut(p[1])
    BY <1>5, <2>2, OtherThreads DEF WatcherPolls
  <2> QED
    BY <2>1, <2>2
<1>6. ASSUME NEW p \in Procs, ProcessEnds(p) \/ TreeIsKilled(p) \/ ChildIsKilled(p) PROVE ReachInv'
  <2>1. \A q \in Procs : Kept(q)' => Kept(q)
    <3>1. CASE ProcessEnds(p)
      BY <3>1 DEF ProcessEnds, Ended, Kept, Living, BeingKilled
    <3>2. CASE TreeIsKilled(p)
      BY <3>2 DEF TreeIsKilled, Ended, Kept, Living, BeingKilled
    <3>3. CASE ChildIsKilled(p)
      BY <3>3 DEF ChildIsKilled, Ended, Kept, Living, BeingKilled
    <3> QED
      BY <1>6, <3>1, <3>2, <3>3
  <2>2. thread' = thread /\ session' = session
    BY <1>6 DEF ProcessEnds, TreeIsKilled, ChildIsKilled
  <2> QED
    BY <1>4, <2>1, <2>2, ReachIsKept
<1>7. ASSUME NEW p \in Procs, ReaderEmits(p) PROVE ReachInv'
  <2>1. /\ thread' = thread /\ ending' = ending
        /\ phase' = [phase EXCEPT ![p] = "announced"]
        /\ session' = [session EXCEPT ![p[1]] = IF @ = p[2] THEN 0 ELSE @]
    BY <1>7 DEF ReaderEmits
  <2>2. \A q \in Procs : Kept(q)' => Kept(q) /\ q # p
    BY <2>1 DEF Kept, Living, BeingKilled
  <2>3. \A k \in Ids : session'[k] \in {0, session[k]}
    BY <2>1
  <2>4. ASSUME NEW q \in Procs, Kept(q)', session[q[1]] = q[2] PROVE session'[q[1]] = q[2]
    <3>1. q = <<q[1], q[2]>> /\ p = <<p[1], p[2]>> /\ q[1] \in Ids /\ q # p
      BY <2>2, <2>4 DEF Procs
    <3> QED
      BY <2>1, <2>4, <3>1
  <2> QED
    BY <1>4, <2>1, <2>2, <2>3, <2>4, ReachIsKept
<1>9. ASSUME NEW t \in Threads, NEW c \in Commands, OpenLooks(t, c) PROVE ReachInv'
  BY <1>9, OtherThreads DEF OpenLooks, ptys, At, Idle
<1>10. ASSUME NEW t \in Threads, NEW i \in Ids,
              StopReads(t, i) \/ RestartMarks(t, i) \/ RemoveReads(t, i)
       PROVE ReachInv'
  BY <1>10, OtherThreads DEF StopReads, RestartMarks, RemoveReads, Starts, ptys, At
<1>11. ASSUME NEW t \in Threads,
              OpenRegisters(t) \/ HostListens(t) \/ SpawnFails(t) \/ StopMarks(t)
       PROVE ReachInv'
  BY <1>11, OtherThreads DEF OpenRegisters, HostListens, SpawnFails, StopMarks, Goto, Returns,
                             Idle, At, ptys
<1>12. ASSUME NEW t \in Threads, HostSignals(t) PROVE ReachInv'
  BY <1>12, OtherThreads DEF HostSignals, Goto, At, ptys
<1>13. ASSUME NEW t \in Threads, HostReleases(t) \/ HostDrains(t) PROVE ReachInv'
  BY <1>13, OtherThreads DEF HostReleases, HostDrains, AfterStop, Goto, Returns, Idle, At, ptys
<1>14. ASSUME NEW t \in Threads, RestartBumps(t) \/ RemoveDrops(t) PROVE ReachInv'
  BY <1>14, OtherThreads DEF RestartBumps, RemoveDrops, Returns, Idle, At, ptys
<1>15. ASSUME NEW i \in Ids, NEW r \in Runs, ShellExited(i, r) PROVE ReachInv'
  BY <1>15, OtherThreads DEF ShellExited, ptys
<1>16. CASE UNCHANGED vars
  BY <1>16, OtherThreads DEF vars, ptys
<1> QED
  BY <1>1, <1>2, <1>3, <1>5, <1>6, <1>7, <1>9, <1>10, <1>11, <1>12, <1>13, <1>14, <1>15, <1>16
     DEF Next, Goes

LEMMA ReachIsOne == ReachInv => LiveIsInReach
<1> SUFFICES ASSUME ReachInv PROVE LiveIsInReach
  OBVIOUS
<1>1. ASSUME NEW i \in Ids, NEW r \in Runs, NEW s \in Runs, Kept(<<i, r>>), Kept(<<i, s>>)
      PROVE  r = s
  <2>1. session[i] = r \/ \E t \in Inserting(i) : thread[t].run = r
    BY <1>1 DEF ReachInv, ComingOrThere, IsComing, Procs
  <2>2. session[i] = s \/ \E t \in Inserting(i) : thread[t].run = s
    BY <1>1 DEF ReachInv, ComingOrThere, IsComing, Procs
  <2>3. r # 0 /\ s # 0
    BY DEF Runs
  <2> QED
    BY <2>1, <2>2, <2>3 DEF ReachInv, OneStart
<1> QED
  BY <1>1 DEF LiveIsInReach, ReachInv, ComingOrThere

LEMMA InitReach == Init => ReachInv
BY DEF Init, ReachInv, ComingOrThere, OneStart, Kept, Living, Inserting, At, Idle

\* Whatever is called and fails, of the live processes of a shell only one is not
\* being killed, and it has the session of the shell or is about to get it
\* (reserve_spawn, spawn_pty, kill_pty, the watchers and the readers).
THEOREM LiveProcessesAreInReach == Spec => []LiveIsInReach
BY InitReach, StepReach, ReachIsOne, ShapeIsKept, PTL DEF Spec

-----------------------------------------------------------------------------
(* A stopped shell is down.  As long as the calls for a shell come one at a   *)
(* time, it is stopped before host.stop is called, host.stop leaves nothing   *)
(* alive, and nothing is started for a shell that is stopped.                 *)

\* Nothing runs for shell i but what is being killed.
Down(i) == \A r \in Runs : ~Kept(<<i, r>>)

\* Calls are for shells that were opened, and shells that were not have no record.
IdsAreOpened ==
    /\ \A t \in Threads : thread[t].id <= counter
    /\ \A t \in Threads : At(t, "register") => thread[t].id = 0
    /\ \A i \in Ids : i > counter => status[i] = "none" /\ Down(i)

OneCall(i) == \A t, u \in Busy(i) : t = u

StartsWhatRuns(i) ==
    \A t \in Busy(i) :
        thread[t].pc \in {"listen", "spawn", "insert"} => status[i] \notin {"stopped", "none"}

StopsWhatRuns(i) ==
    \A t \in Busy(i) :
        thread[t].pc \in {"kill", "release", "drain", "bump", "drop"} => Down(i)

StoppedOrStopping(i) ==
    \/ status[i] \notin {"stopped", "none"}
    \/ Down(i)
    \/ \E t \in Busy(i) : thread[t].pc \in {"signal", "grace", "forget"}

CalmParts(i) == OneCall(i) /\ StartsWhatRuns(i) /\ StopsWhatRuns(i) /\ StoppedOrStopping(i)

CalmInv == \A i \in Ids : calm[i] => CalmParts(i)

\* A process comes to life only where HostSpawns starts it.
LEMMA OnlySpawnsStart ==
    ASSUME Shape, NEW i \in Ids, Down(i),
           \/ \E t \in Threads : HostKills(t)
           \/ \E p \in Procs : \/ ProcessEnds(p) \/ TreeIsKilled(p) \/ ChildIsKilled(p)
                              \/ WatcherPolls(p) \/ ReaderEmits(p)
           \/ UNCHANGED <<phase, ending>>
    PROVE  Down(i)'
<1>. USE DEF Kept, Living, BeingKilled
<1>0. ASSUME \A p \in Procs : Kept(p)' => Kept(p) PROVE Down(i)'
  BY <1>0 DEF Down, Procs
<1>1. ASSUME NEW k, TakesOut(k), UNCHANGED phase PROVE Down(i)'
  BY <1>0, <1>1, TakenOut
<1>2. CASE UNCHANGED <<phase, ending>>
  BY <1>0, <1>2
<1>3. ASSUME NEW t \in Threads, HostKills(t) PROVE Down(i)'
  BY <1>1, <1>3 DEF HostKills
<1>4. ASSUME NEW p \in Procs, WatcherPolls(p) PROVE Down(i)'
  BY <1>1, <1>2, <1>4 DEF WatcherPolls
<1>5. ASSUME NEW p \in Procs, ProcessEnds(p) PROVE Down(i)'
  BY <1>0, <1>5 DEF ProcessEnds, Ended
<1>6. ASSUME NEW p \in Procs, TreeIsKilled(p) PROVE Down(i)'
  BY <1>0, <1>6 DEF TreeIsKilled, Ended, Shape
<1>7. ASSUME NEW p \in Procs, ChildIsKilled(p) PROVE Down(i)'
  BY <1>0, <1>7 DEF ChildIsKilled, Ended, Shape
<1>8. ASSUME NEW p \in Procs, ReaderEmits(p) PROVE Down(i)'
  BY <1>0, <1>8 DEF ReaderEmits, Shape
<1>. QED
  BY <1>2, <1>3, <1>4, <1>5, <1>6, <1>7, <1>8

\* A start for one shell is none for another.
LEMMA SpawnsItsOwn ==
    ASSUME Shape, NEW t \in Threads, HostSpawns(t), NEW i \in Ids, i # thread[t].id, Down(i)
    PROVE  Down(i)'
<1>1. /\ \A q \in Procs : q[1] = i => phase'[q] = phase[q]
      /\ ending' = ending
  BY DEF HostSpawns, ptys, Shape
<1>2. \A r \in Runs : <<i, r>> \in Procs /\ <<i, r>>[1] = i
  BY DEF Procs
<1>3. ASSUME NEW r \in Runs PROVE Kept(<<i, r>>)' => Kept(<<i, r>>)
  BY <1>1, <1>2 DEF Kept, Living, BeingKilled
<1> QED
  BY <1>3 DEF Down

\* Without a session or a start there is no process.
LEMMA NoSessionIsDown ==
    ASSUME ReachInv, NEW i \in Ids, session[i] = 0, Inserting(i) = {}
    PROVE  Down(i)
BY DEF ReachInv, ComingOrThere, IsComing, Down, Procs, Runs

LEMMA TakenOutIsDown ==
    ASSUME Shape, ReachInv, NEW i \in Ids, TakesOut(i), UNCHANGED phase, Inserting(i) = {}
    PROVE  Down(i)'
<1>1. ASSUME NEW r \in Runs, Kept(<<i, r>>)' PROVE FALSE
  <2>1. <<i, r>> \in Procs /\ r # 0
    BY DEF Procs, Runs
  <2>2. Kept(<<i, r>>)
    BY <1>1, <2>1, TakenOut
  <2>3. session[i] = r
    BY <2>1, <2>2 DEF ReachInv, ComingOrThere, IsComing
  <2>4. session'[i] = r
    BY <1>1, <2>1, <2>3, TakenOut
  <2> QED
    BY <2>1, <2>4 DEF TakesOut, Shape
<1> QED
  BY <1>1 DEF Down

-----------------------------------------------------------------------------
LEMMA StepIds == Shape /\ IdsAreOpened /\ [Next]_vars => IdsAreOpened'
<1> SUFFICES ASSUME Shape, IdsAreOpened, [Next]_vars PROVE IdsAreOpened'
  OBVIOUS
<1>. DEFINE Stays(t) ==
                /\ thread'[t].id \in {0, thread[t].id}
                /\ thread'[t].pc # "register" \/ thread'[t].id = 0
<1>1. ASSUME counter' = counter,
             \A t \in Threads : Stays(t),
             \A i \in Ids : status[i] = "none" => status'[i] = "none",
             \A i \in Ids : Down(i) => Down(i)'
      PROVE  IdsAreOpened'
  BY <1>1 DEF IdsAreOpened, At, Shape, Activities
<1>. USE DEF Shape, Activities
<1>2. ASSUME NEW t \in Threads, NEW c \in Commands, OpenLooks(t, c) PROVE IdsAreOpened'
  <2>1. \A u \in Threads : Stays(u)
    BY <1>2 DEF OpenLooks, Idle, IdsAreOpened, At
  <2>2. \A i \in Ids : Down(i) => Down(i)'
    BY <1>2, OnlySpawnsStart DEF OpenLooks, ptys
  <2>. QED
    BY <1>1, <1>2, <2>1, <2>2 DEF OpenLooks, records
<1>3. ASSUME NEW t \in Threads, NEW i \in Ids,
             StopReads(t, i) \/ RestartMarks(t, i) \/ RemoveReads(t, i)
      PROVE  IdsAreOpened'
  <2>1. i <= counter /\ counter' = counter
    BY <1>3 DEF IdsAreOpened, StopReads, RestartMarks, RemoveReads, records, Ids
  <2>2. \A u \in Threads : Stays(u) \/ (thread'[u].id = i /\ thread'[u].pc # "register")
    BY <1>3 DEF IdsAreOpened, StopReads, RestartMarks, RemoveReads, Starts, At
  <2>3. \A k \in Ids : Down(k) => Down(k)'
    BY <1>3, OnlySpawnsStart DEF StopReads, RestartMarks, RemoveReads, ptys
  <2>4. \A k \in Ids : status[k] = "none" => status'[k] = "none"
    BY <1>3 DEF StopReads, RestartMarks, RemoveReads, records
  <2>. QED
    BY <2>1, <2>2, <2>3, <2>4 DEF IdsAreOpened, At
<1>4. ASSUME NEW t \in Threads, OpenRegisters(t) PROVE IdsAreOpened'
  <2>1. counter' = counter + 1
    BY <1>4 DEF OpenRegisters
  <2>2. \A u \in Threads : thread'[u] = thread[u]
                           \/ (thread'[u].id = counter' /\ thread'[u].pc = "listen")
    BY <1>4 DEF OpenRegisters
  <2>3. \A k \in Ids : Down(k) => Down(k)'
    BY <1>4, OnlySpawnsStart DEF OpenRegisters, ptys
  <2>4. \A k \in Ids : k > counter' => status'[k] = status[k]
    BY <1>4, <2>1 DEF OpenRegisters, Ids
  <2>5. /\ \A u \in Threads : thread'[u].id <= counter'
        /\ \A u \in Threads : thread'[u].pc = "register" => thread'[u].id = 0
    BY <2>1, <2>2 DEF IdsAreOpened, At
  <2>6. ASSUME NEW k \in Ids, k > counter' PROVE status'[k] = "none" /\ Down(k)'
    <3>1. k > counter
      BY <2>1, <2>6 DEF Ids
    <3>. QED
      BY <2>3, <2>4, <2>6, <3>1 DEF IdsAreOpened
  <2>. QED
    BY <2>5, <2>6 DEF IdsAreOpened, At
<1>5. ASSUME NEW t \in Threads, HostSpawns(t) PROVE IdsAreOpened'
  <2>1. /\ counter' = counter /\ status' = status
        /\ \A u \in Threads : Stays(u)
    BY <1>5 DEF HostSpawns, Returns, Goto, Idle, records, IdsAreOpened, At
  <2>2. ASSUME NEW k \in Ids, k > counter, Down(k) PROVE Down(k)'
    <3>1. k # thread[t].id
      BY <2>2 DEF IdsAreOpened, Ids
    <3>. QED
      BY <1>5, <2>2, <3>1, SpawnsItsOwn
  <2>. QED
    BY <2>1, <2>2 DEF IdsAreOpened, At
<1>6. ASSUME NEW t \in Threads,
             \/ HostListens(t) \/ HostInserts(t) \/ SpawnFails(t) \/ StopMarks(t)
             \/ HostSignals(t) \/ HostReleases(t) \/ HostDrains(t)
             \/ RestartBumps(t) \/ RemoveDrops(t)
      PROVE  IdsAreOpened'
  <2>1. UNCHANGED <<phase, ending>> /\ counter' = counter
    BY <1>6 DEF HostListens, HostInserts, SpawnFails, StopMarks, HostSignals, HostReleases,
                HostDrains, RestartBumps, RemoveDrops, records, ptys
  <2>2. \A k \in Ids : status[k] = "none" => status'[k] = "none"
    BY <1>6 DEF HostListens, HostInserts, SpawnFails, StopMarks, HostSignals, HostReleases,
                HostDrains, RestartBumps, RemoveDrops, records, Unstarted
  <2>3. \A u \in Threads : Stays(u)
    <3>1. CASE HostListens(t) \/ HostInserts(t) \/ SpawnFails(t) \/ StopMarks(t) \/ HostSignals(t)
      BY <3>1 DEF HostListens, HostInserts, SpawnFails, StopMarks, HostSignals, Goto, Returns,
                  Idle, IdsAreOpened, At
    <3>2. CASE HostReleases(t) \/ HostDrains(t) \/ RestartBumps(t) \/ RemoveDrops(t)
      BY <3>2 DEF HostReleases, HostDrains, RestartBumps, RemoveDrops, AfterStop, Goto, Returns,
                  Idle, IdsAreOpened, At
    <3>. QED
      BY <1>6, <3>1, <3>2
  <2>. QED
    BY <1>1, <2>1, <2>2, <2>3, OnlySpawnsStart
<1>7. ASSUME NEW t \in Threads, HostKills(t) PROVE IdsAreOpened'
  <2>1. counter' = counter /\ status' = status
    BY <1>7 DEF HostKills, records
  <2>2. \A u \in Threads : Stays(u)
    BY <1>7 DEF HostKills, IdsAreOpened, At
  <2>. QED
    BY <1>1, <1>7, <2>1, <2>2, OnlySpawnsStart
<1>8. ASSUME NEW p \in Procs, \/ ProcessEnds(p) \/ TreeIsKilled(p) \/ ChildIsKilled(p)
                             \/ WatcherPolls(p) \/ ReaderEmits(p)
      PROVE  IdsAreOpened'
  <2>1. counter' = counter /\ status' = status /\ thread' = thread
    BY <1>8 DEF ProcessEnds, TreeIsKilled, ChildIsKilled, WatcherPolls, ReaderEmits, records
  <2>2. \A u \in Threads : Stays(u)
    BY <2>1 DEF IdsAreOpened, At
  <2>. QED
    BY <1>1, <1>8, <2>1, <2>2, OnlySpawnsStart
<1>9. ASSUME NEW i \in Ids, NEW r \in Runs, ShellExited(i, r) PROVE IdsAreOpened'
  <2>1. counter' = counter /\ thread' = thread /\ UNCHANGED <<phase, ending>>
    BY <1>9 DEF ShellExited, ptys
  <2>2. \A k \in Ids : status[k] = "none" => status'[k] = "none"
    BY <1>9 DEF ShellExited, IsCurrent
  <2>3. \A u \in Threads : Stays(u)
    BY <2>1 DEF IdsAreOpened, At
  <2>. QED
    BY <1>1, <2>1, <2>2, <2>3, OnlySpawnsStart
<1>10. CASE UNCHANGED vars
  BY <1>10 DEF vars, records, ptys, IdsAreOpened, At, Down, Kept, Living, BeingKilled
<1> QED
  BY <1>2, <1>3, <1>4, <1>5, <1>6, <1>7, <1>8, <1>9, <1>10 DEF Next, Goes

-----------------------------------------------------------------------------
\* What others do for other shells changes nothing for shell i.
LEMMA Others ==
    ASSUME NEW i \in Ids, CalmParts(i), Busy(i)' = Busy(i),
           \A u \in Busy(i) : thread'[u] = thread[u],
           status'[i] = status[i] \/ status'[i] \notin {"stopped", "none"},
           Down(i) => Down(i)'
    PROVE  CalmParts(i)'
BY DEF CalmParts, OneCall, StartsWhatRuns, StopsWhatRuns, StoppedOrStopping

\* The one thread that serves a call for shell i goes on.
LEMMA Own ==
    ASSUME NEW i \in Ids, NEW t \in Threads, Busy(i) \subseteq {t},
           \A u \in Threads : u # t => thread'[u] = thread[u],
           thread'[t].pc \in {"listen", "spawn", "insert"} => status'[i] \notin {"stopped", "none"},
           thread'[t].pc \in {"kill", "release", "drain", "bump", "drop"} => Down(i)',
           \/ status'[i] \notin {"stopped", "none"}
           \/ Down(i)'
           \/ thread'[t].id = i /\ thread'[t].pc \in {"signal", "grace", "forget"}
    PROVE  CalmParts(i)'
<1>1. Busy(i)' \subseteq {t}
  BY DEF Busy
<1>2. thread'[t].id = i /\ thread'[t].pc \in {"signal", "grace", "forget"} => t \in Busy(i)'
  BY DEF Busy
<1>. QED
  BY <1>1, <1>2 DEF CalmParts, OneCall, StartsWhatRuns, StopsWhatRuns, StoppedOrStopping

LEMMA StepCalm ==
    Shape /\ ReachInv /\ IdsAreOpened /\ CalmInv /\ [Next]_vars => CalmInv'
<1> SUFFICES ASSUME Shape, ReachInv, IdsAreOpened, CalmInv, [Next]_vars,
                    NEW i \in Ids, calm'[i]
             PROVE  CalmParts(i)'
  BY DEF CalmInv
<1>. USE DEF Shape, Activities
\* A step of thread t for another shell, or for none.
<1>1. ASSUME NEW t \in Threads, calm[i], t \notin Busy(i), t \notin Busy(i)',
             \A u \in Threads : u # t => thread'[u] = thread[u],
             status'[i] = status[i] \/ status'[i] \notin {"stopped", "none"},
             Down(i) => Down(i)'
      PROVE  CalmParts(i)'
  <2>1. Busy(i)' = Busy(i) /\ \A u \in Busy(i) : thread'[u] = thread[u]
    BY <1>1 DEF Busy
  <2>. QED
    BY <1>1, <2>1, Others DEF CalmInv
\* A step of no thread.
<1>2. ASSUME calm[i], thread' = thread,
             status'[i] = status[i] \/ status'[i] \notin {"stopped", "none"},
             Down(i) => Down(i)'
      PROVE  CalmParts(i)'
  <2>1. Busy(i)' = Busy(i)
    BY <1>2 DEF Busy
  <2>. QED
    BY <1>2, <2>1, Others DEF CalmInv
\* A step of the thread that serves shell i, which is the only one.
<1>3. ASSUME NEW t \in Threads, calm[i], t \in Busy(i)
      PROVE  CalmParts(i) /\ Busy(i) \subseteq {t}
  BY <1>3 DEF CalmInv, CalmParts, OneCall
<1>4. ASSUME NEW t \in Threads, NEW c \in Commands, OpenLooks(t, c) PROVE CalmParts(i)'
  <2>1. /\ t \notin Busy(i) /\ t \notin Busy(i)' /\ calm[i] /\ status' = status
        /\ \A u \in Threads : u # t => thread'[u] = thread[u]
    BY <1>4 DEF OpenLooks, At, Idle, Busy, records, Ids
  <2>2. Down(i) => Down(i)'
    BY <1>4, OnlySpawnsStart DEF OpenLooks, ptys
  <2>. QED
    BY <1>1, <2>1, <2>2
<1>5. ASSUME NEW t \in Threads, NEW k \in Ids,
             StopReads(t, k) \/ RestartMarks(t, k) \/ RemoveReads(t, k)
      PROVE  CalmParts(i)'
  <2>. DEFINE call == thread'[t].call
              l == thread'[t].pc
  <2>1. /\ Starts(t, call, k, l) /\ l \in {"mark", "signal"} /\ At(t, "idle")
        /\ status' = status \/ status' = [status EXCEPT ![k] = "stopped"]
        /\ l = "mark" => status[k] = "running" /\ status' = status
    BY <1>5 DEF StopReads, RestartMarks, RemoveReads, Starts, records
  <2>2. \A u \in Threads : u # t => thread'[u] = thread[u]
    BY <1>5 DEF StopReads, RestartMarks, RemoveReads, Starts
  <2>3. thread'[t].id = k
    BY <1>5 DEF StopReads, RestartMarks, RemoveReads, Starts
  <2>4. calm[i] /\ (i = k => Busy(i) = {})
    BY <2>1 DEF Starts
  <2>5. Down(i) => Down(i)'
    BY <1>5, OnlySpawnsStart DEF StopReads, RestartMarks, RemoveReads, ptys
  <2>. HIDE DEF call, l
  <2>6. CASE i = k
    BY <2>1, <2>2, <2>3, <2>4, <2>6, Own DEF l
  <2>7. CASE i # k
    <3>1. t \notin Busy(i) /\ t \notin Busy(i)'
      BY <2>1, <2>3, <2>7 DEF Busy, At
    <3>. QED
      BY <1>1, <2>1, <2>2, <2>4, <2>5, <2>7, <3>1
  <2>. QED
    BY <2>6, <2>7
<1>6. ASSUME NEW t \in Threads, OpenRegisters(t) PROVE CalmParts(i)'
  <2>1. /\ calm[i] /\ thread[t].id = 0 /\ thread'[t].id = counter + 1
        /\ thread'[t].pc = "listen"
        /\ \A u \in Threads : u # t => thread'[u] = thread[u]
    BY <1>6 DEF OpenRegisters, IdsAreOpened
  <2>2. Down(i) => Down(i)'
    BY <1>6, OnlySpawnsStart DEF OpenRegisters, ptys
  <2>3. CASE i = counter + 1
    <3>1. Busy(i) = {}
      BY <2>3 DEF Busy, IdsAreOpened, Ids
    <3>2. status'[i] = "running"
      BY <1>6, <2>3 DEF OpenRegisters
    <3>. QED
      BY <2>1, <3>1, <3>2, Own
  <2>4. CASE i # counter + 1
    <3>1. status'[i] = status[i]
      BY <1>6, <2>4 DEF OpenRegisters
    <3>2. t \notin Busy(i) /\ t \notin Busy(i)'
      BY <2>1, <2>4 DEF Busy, Ids
    <3>. QED
      BY <1>1, <2>1, <2>2, <3>1, <3>2
  <2>. QED
    BY <2>3, <2>4
\* The steps of a call under way, for another shell.
<1>7. ASSUME NEW t \in Threads, Goes(t), ~OpenRegisters(t), thread[t].id # i
      PROVE  CalmParts(i)'
  <2>1. calm[i]
    BY <1>7 DEF Goes, HostListens, HostSpawns, HostInserts, SpawnFails, StopMarks, HostSignals,
                HostKills, HostReleases, HostDrains, RestartBumps, RemoveDrops, events
  <2>2. status'[i] = status[i]
    BY <1>7 DEF Goes, HostListens, HostSpawns, HostInserts, SpawnFails, StopMarks, HostSignals,
                HostKills, HostReleases, HostDrains, RestartBumps, RemoveDrops, records
  <2>3. Down(i) => Down(i)'
    <3>1. CASE HostSpawns(t)
      BY <1>7, <3>1, SpawnsItsOwn
    <3>2. CASE HostKills(t)
      BY <3>2, OnlySpawnsStart
    <3>3. CASE ~HostSpawns(t) /\ ~HostKills(t)
      <4>1. UNCHANGED <<phase, ending>>
        BY <1>7, <3>3 DEF Goes, HostListens, HostInserts, SpawnFails, StopMarks, HostSignals,
                          HostReleases, HostDrains, RestartBumps, RemoveDrops, ptys
      <4>. QED
        BY <4>1, OnlySpawnsStart
    <3>. QED
      BY <3>1, <3>2, <3>3
  <2>4. /\ \A u \in Threads : u # t => thread'[u] = thread[u]
        /\ thread'[t].pc = "idle" \/ thread'[t].id = thread[t].id
    <3>1. CASE HostListens(t) \/ HostSpawns(t) \/ HostInserts(t) \/ SpawnFails(t) \/ StopMarks(t)
      BY <3>1 DEF HostListens, HostSpawns, HostInserts, SpawnFails, StopMarks, Goto, Returns, Idle
    <3>2. CASE HostSignals(t) \/ HostKills(t) \/ HostReleases(t) \/ HostDrains(t)
      BY <3>2 DEF HostSignals, HostKills, HostReleases, HostDrains, AfterStop, Goto, Returns, Idle
    <3>3. CASE RestartBumps(t) \/ RemoveDrops(t)
      BY <3>3 DEF RestartBumps, RemoveDrops, Returns, Idle
    <3>. QED
      BY <1>7, <3>1, <3>2, <3>3 DEF Goes
  <2>5. t \notin Busy(i) /\ t \notin Busy(i)'
    BY <1>7, <2>4 DEF Busy
  <2>. QED
    BY <1>1, <2>1, <2>2, <2>3, <2>4, <2>5
\* The steps of a call under way for this shell.
<1>8. ASSUME NEW t \in Threads, Goes(t), ~OpenRegisters(t), thread[t].id = i
      PROVE  CalmParts(i)'
  <2>1. calm[i] /\ t \in Busy(i)
    BY <1>8 DEF Goes, HostListens, HostSpawns, HostInserts, SpawnFails, StopMarks, HostSignals,
                HostKills, HostReleases, HostDrains, RestartBumps, RemoveDrops, events, At, Busy
  <2>2. CalmParts(i) /\ Busy(i) \subseteq {t}
    BY <1>3, <2>1
  <2>3. /\ thread[t].pc \in {"listen", "spawn", "insert"} => status[i] \notin {"stopped", "none"}
        /\ thread[t].pc \in {"kill", "release", "drain", "bump", "drop"} => Down(i)
        /\ \/ status[i] \notin {"stopped", "none"}
           \/ Down(i)
           \/ thread[t].pc \in {"signal", "grace", "forget"}
    BY <2>1, <2>2 DEF CalmParts, StartsWhatRuns, StopsWhatRuns, StoppedOrStopping
  <2>4. ASSUME HostListens(t) PROVE CalmParts(i)'
    <3>1. /\ thread'[t].pc = "spawn" /\ status' = status /\ thread[t].pc = "listen"
          /\ \A u \in Threads : u # t => thread'[u] = thread[u]
      BY <2>4 DEF HostListens, Goto, At, records
    <3>. QED
      BY <2>2, <2>3, <3>1, Own
  <2>5. ASSUME HostSpawns(t) \/ HostInserts(t) PROVE CalmParts(i)'
    <3>1. /\ thread'[t].pc \in {"idle", "insert"} /\ status' = status
          /\ thread[t].pc \in {"spawn", "insert"}
          /\ \A u \in Threads : u # t => thread'[u] = thread[u]
      BY <2>5 DEF HostSpawns, HostInserts, Returns, Goto, Idle, At, records
    <3>. QED
      BY <2>2, <2>3, <3>1, Own
  <2>6. ASSUME SpawnFails(t) PROVE CalmParts(i)'
    <3>1. /\ thread'[t].pc = "idle"
          /\ \A u \in Threads : u # t => thread'[u] = thread[u]
      BY <2>6 DEF SpawnFails, Returns, Idle
    <3>2. Down(i)'
      BY <1>8, <2>6, NoSessionIsDown, OnlySpawnsStart DEF SpawnFails, MaySpawn, ptys
    <3>. QED
      BY <2>2, <3>1, <3>2, Own
  <2>7. ASSUME StopMarks(t) PROVE CalmParts(i)'
    <3>1. /\ thread'[t].pc = "signal" /\ thread'[t].id = i
          /\ \A u \in Threads : u # t => thread'[u] = thread[u]
      BY <1>8, <2>7 DEF StopMarks, Goto
    <3>. QED
      BY <2>2, <3>1, Own
  <2>8. ASSUME HostSignals(t) PROVE CalmParts(i)'
    <3>1. /\ thread'[t].pc \in {"grace", "forget"} /\ thread'[t].id = i
          /\ \A u \in Threads : u # t => thread'[u] = thread[u]
      BY <1>8, <2>8 DEF HostSignals, Goto
    <3>. QED
      BY <2>2, <3>1, Own
  <2>9. ASSUME HostKills(t) PROVE CalmParts(i)'
    <3>1. /\ thread'[t].pc \in {"kill", "release"} /\ TakesOut(i) /\ UNCHANGED phase
          /\ thread[t].pc \in {"grace", "forget"}
          /\ \A u \in Threads : u # t => thread'[u] = thread[u]
      BY <1>8, <2>9 DEF HostKills
    <3>2. Inserting(i) = {}
      <4>1. Inserting(i) \subseteq Busy(i) /\ t \notin Inserting(i)
        BY <3>1 DEF Inserting, Busy, At
      <4> QED
        BY <2>2, <4>1
    <3>3. Down(i)'
      BY <3>1, <3>2, TakenOutIsDown
    <3>. QED
      BY <2>2, <3>1, <3>3, Own
  <2>10. ASSUME HostReleases(t) PROVE CalmParts(i)'
    <3>1. /\ \A u \in Threads : u # t => thread'[u] = thread[u]
          /\ thread'[t].pc \notin {"listen", "spawn", "insert"}
          /\ thread[t].pc \in {"kill", "release"}
      BY <2>10 DEF HostReleases, AfterStop, Goto, Returns, Idle
    <3>2. Down(i)'
      BY <2>3, <2>10, <3>1, OnlySpawnsStart DEF HostReleases, ptys
    <3>. QED
      BY <2>2, <3>1, <3>2, Own
  <2>11. ASSUME HostDrains(t) PROVE CalmParts(i)'
    <3>1. /\ \A u \in Threads : u # t => thread'[u] = thread[u]
          /\ thread'[t].pc \notin {"listen", "spawn", "insert"}
          /\ thread[t].pc = "drain"
      BY <2>11 DEF HostDrains, AfterStop, Goto, Returns, Idle, At
    <3>2. Down(i)'
      BY <2>3, <2>11, <3>1, OnlySpawnsStart DEF HostDrains, ptys
    <3>. QED
      BY <2>2, <3>1, <3>2, Own
  <2>12. ASSUME RestartBumps(t) PROVE CalmParts(i)'
    <3>1. /\ \A u \in Threads : u # t => thread'[u] = thread[u]
          /\ \/ thread'[t].pc = "idle"
             \/ thread'[t].pc = "listen" /\ status'[i] = "running"
          /\ thread[t].pc = "bump"
      BY <1>8, <2>12 DEF RestartBumps, Returns, Idle, At
    <3>2. Down(i)'
      BY <2>3, <2>12, <3>1, OnlySpawnsStart DEF RestartBumps, ptys
    <3>. QED
      BY <2>2, <3>1, <3>2, Own
  <2>13. ASSUME RemoveDrops(t) PROVE CalmParts(i)'
    <3>1. /\ \A u \in Threads : u # t => thread'[u] = thread[u]
          /\ thread'[t].pc = "idle" /\ thread[t].pc = "drop"
      BY <2>13 DEF RemoveDrops, Returns, Idle, At
    <3>2. Down(i)'
      BY <2>3, <2>13, <3>1, OnlySpawnsStart DEF RemoveDrops, ptys
    <3>. QED
      BY <2>2, <3>1, <3>2, Own
  <2>. QED
    BY <1>8, <2>4, <2>5, <2>6, <2>7, <2>8, <2>9, <2>10, <2>11, <2>12, <2>13 DEF Goes
<1>9. ASSUME NEW p \in Procs, \/ ProcessEnds(p) \/ TreeIsKilled(p) \/ ChildIsKilled(p)
                             \/ WatcherPolls(p) \/ ReaderEmits(p)
      PROVE  CalmParts(i)'
  <2>1. calm[i] /\ thread' = thread /\ status' = status
    BY <1>9 DEF ProcessEnds, TreeIsKilled, ChildIsKilled, WatcherPolls, ReaderEmits, records, events
  <2>. QED
    BY <1>2, <1>9, <2>1, OnlySpawnsStart
<1>10. ASSUME NEW k \in Ids, NEW r \in Runs, ShellExited(k, r) PROVE CalmParts(i)'
  <2>1. /\ calm[i] /\ thread' = thread /\ UNCHANGED <<phase, ending>>
        /\ status'[i] = status[i] \/ status'[i] \notin {"stopped", "none"}
    BY <1>10 DEF ShellExited, ptys
  <2>. QED
    BY <1>2, <2>1, OnlySpawnsStart
<1>11. ASSUME UNCHANGED vars PROVE CalmParts(i)'
  <2>1. calm[i] /\ thread' = thread /\ status' = status /\ UNCHANGED <<phase, ending>>
    BY <1>11 DEF vars, records, ptys
  <2>. QED
    BY <1>2, <2>1, OnlySpawnsStart
<1> QED
  BY <1>4, <1>5, <1>6, <1>7, <1>8, <1>9, <1>10, <1>11 DEF Next, Goes

\* A shell shown as stopped, or no longer shown, has no process but one that is
\* being killed, when its calls came one at a time (stop_shell, restart_shell, remove_shell, PtyShellHost::stop).
THEOREM StoppedShellsAreDown == Spec => []StoppedIsDown
<1>1. Init => IdsAreOpened /\ CalmInv
  BY DEF Init, IdsAreOpened, CalmInv, CalmParts, OneCall, StartsWhatRuns,
         StopsWhatRuns, StoppedOrStopping, Down, Kept, Living, Procs, Ids, Idle, At, Busy
<1>2. Shape /\ CalmInv => StoppedIsDown
  BY DEF CalmInv, CalmParts, StoppedOrStopping, StoppedIsDown, Down
<1>. QED
  BY <1>1, <1>2, InitReach, StepReach, StepIds, StepCalm, ShapeIsKept, PTL DEF Spec

-----------------------------------------------------------------------------
(* Types, with the bounds.  A call that is going to open a shell or to count  *)
(* a run of one has made sure beforehand that there is room for it, in another *)
(* lock section; what keeps the numbers in bounds are the calls under way.    *)

Calling == {t \in Threads : thread[t].pc # "idle"}
Registering == {t \in Threads : At(t, "register")}

\* The restarts of shell i that have not counted themselves yet.
Restarting(i) ==
    {t \in Threads : /\ thread[t].id = i /\ thread[t].call = "restart"
                     /\ thread[t].pc \in {"signal", "grace", "forget", "kill", "release",
                                         "drain", "bump"}}

RoomIsLeft ==
    /\ IsFiniteSet(Calling)
    /\ counter + Cardinality(Registering) <= MaxShells
    /\ \A i \in Ids : run[i] + Cardinality(Restarting(i)) <= MaxRuns

\* What a thread was called for and with.
ThreadFits(t) ==
    /\ thread[t].run <= MaxRuns
    /\ thread[t].pc \in {"listen", "spawn", "insert"} => thread[t].run # 0
    /\ thread[t].pc \notin {"idle", "register"} => thread[t].id # 0
    /\ At(t, "mark") => thread[t].call = "stop"
    /\ At(t, "bump") => thread[t].call = "restart"

DataFits ==
    /\ command \in [Ids -> Commands \cup {NoCommand}]
    /\ \A i \in Ids : session[i] <= MaxRuns /\ root[i] <= MaxRuns
    /\ watching \subseteq Procs
    /\ listeners \in [Ids -> SUBSET Runs]
    /\ exited \subseteq Ids
    /\ reports \subseteq Procs

TypeInv ==
    /\ Shape /\ IdsAreOpened
    /\ RoomIsLeft /\ DataFits
    /\ \A t \in Threads : ThreadFits(t)

LEMMA TypeInvGivesTypes == TypeInv => TypeOK
<1> SUFFICES ASSUME TypeInv PROVE TypeOK
  OBVIOUS
<1> USE DEF TypeInv, Shape, DataFits
<1>1. counter \in 0 .. MaxShells
  <2>1. Registering \subseteq Calling /\ IsFiniteSet(Calling)
    BY DEF Registering, Calling, At, RoomIsLeft
  <2>2. Cardinality(Registering) \in Nat
    BY <2>1, FS_Subset, FS_CardinalityType
  <2> QED
    BY <2>2, BoundsAreNumbers DEF RoomIsLeft
<1>2. run \in [Ids -> 0 .. MaxRuns]
  <2>1. ASSUME NEW i \in Ids PROVE run[i] \in 0 .. MaxRuns
    <3>1. Restarting(i) \subseteq Calling /\ IsFiniteSet(Calling)
      BY DEF Restarting, Calling, RoomIsLeft
    <3>2. Cardinality(Restarting(i)) \in Nat
      BY <3>1, FS_Subset, FS_CardinalityType
    <3> QED
      BY <3>2, BoundsAreNumbers DEF RoomIsLeft
  <2> QED
    BY <2>1
<1>3. thread \in [Threads -> [pc : Labels, call : Calls, id : Ids \cup {0},
                               run : 0 .. MaxRuns, cmd : Commands \cup {NoCommand}]]
  <2>1. ASSUME NEW t \in Threads
        PROVE  thread[t] \in [pc : Labels, call : Calls, id : Ids \cup {0},
                               run : 0 .. MaxRuns, cmd : Commands \cup {NoCommand}]
    <3>1. thread[t].id \in Nat /\ thread[t].run \in Nat /\ thread[t].id <= counter
      BY DEF IdsAreOpened, Activities
    <3>2. thread[t].id \in Ids \cup {0} /\ thread[t].run \in 0 .. MaxRuns
      BY <1>1, <3>1, BoundsAreNumbers DEF ThreadFits, Ids
    <3>3. thread[t] \in [pc : Labels, call : Calls, id : Nat, run : Nat,
                         cmd : Commands \cup {NoCommand}]
      BY DEF Activities
    <3> QED
      BY <3>2, <3>3
  <2> QED
    BY <2>1 DEF Activities
<1>4. session \in [Ids -> 0 .. MaxRuns]
  BY BoundsAreNumbers
<1>5. root \in [Ids -> 0 .. MaxRuns]
  BY BoundsAreNumbers
<1> QED
  BY <1>1, <1>2, <1>3, <1>4, <1>5 DEF TypeOK, Statuses, Phases, Stages

LEMMA InitTypeInv == Init => TypeInv
<1> SUFFICES ASSUME Init PROVE TypeInv
  OBVIOUS
<1>1. Shape
  BY InitShape
<1>2. IdsAreOpened
  BY DEF Init, IdsAreOpened, At, Idle, Down, Kept, Living, Procs, Ids
<1>3. Calling = {} /\ Registering = {} /\ \A i \in Ids : Restarting(i) = {}
  BY DEF Init, Calling, Registering, Restarting, At, Idle
<1>4. RoomIsLeft
  BY <1>3, FS_EmptySet, BoundsAreNumbers DEF Init, RoomIsLeft
<1>5. DataFits
  BY BoundsAreNumbers DEF Init, DataFits
<1>6. \A t \in Threads : ThreadFits(t)
  BY BoundsAreNumbers DEF Init, ThreadFits, At, Idle
<1> QED
  BY <1>1, <1>2, <1>4, <1>5, <1>6 DEF TypeInv

\* Calls that end, or go on without counting anything, leave the room there is.
LEMMA FewerLeaveRoom ==
    ASSUME TypeInv, UNCHANGED <<counter, run>>,
           Calling' \subseteq Calling, Registering' \subseteq Registering,
           \A i \in Ids : Restarting(i)' \subseteq Restarting(i)
    PROVE  RoomIsLeft'
<1>1. IsFiniteSet(Calling) /\ IsFiniteSet(Calling')
  BY FS_Subset DEF TypeInv, RoomIsLeft
<1>2. IsFiniteSet(Registering) /\ \A i \in Ids : IsFiniteSet(Restarting(i))
  <2>1. Registering \subseteq Calling /\ \A i \in Ids : Restarting(i) \subseteq Calling
    BY DEF Calling, Registering, Restarting, At
  <2> QED
    BY <1>1, <2>1, FS_Subset
<1>3. /\ Cardinality(Registering') <= Cardinality(Registering)
      /\ Cardinality(Registering) \in Nat /\ Cardinality(Registering') \in Nat
  BY <1>2, FS_Subset, FS_CardinalityType
<1>4. ASSUME NEW i \in Ids
      PROVE  /\ Cardinality(Restarting(i)') <= Cardinality(Restarting(i))
             /\ Cardinality(Restarting(i)) \in Nat /\ Cardinality(Restarting(i)') \in Nat
  BY <1>2, FS_Subset, FS_CardinalityType
<1>5. counter' + Cardinality(Registering') <= MaxShells
  BY <1>3, BoundsAreNumbers DEF TypeInv, RoomIsLeft, Shape
<1>6. \A i \in Ids : run'[i] + Cardinality(Restarting(i)') <= MaxRuns
  BY <1>4, BoundsAreNumbers DEF TypeInv, RoomIsLeft, Shape
<1> QED
  BY <1>1, <1>5, <1>6 DEF RoomIsLeft

Stopping == {"signal", "grace", "forget", "kill", "release", "drain"}

GoesOn(t) ==
    \/ /\ thread[t].pc \in {"listen", "spawn"}
       /\ \E l \in {"spawn", "insert"} : thread'[t] = [thread[t] EXCEPT !.pc = l]
    \/ /\ thread[t].pc \in Stopping \cup {"mark"}
       /\ \E l \in Stopping \cup {"bump", "drop"}, r \in 0 .. MaxRuns :
              thread'[t] = [thread[t] EXCEPT !.pc = l, !.run = r]
       /\ thread'[t].pc = "bump" => thread[t].call = "restart"

\* How a call that was under way may go on.
Moves(t) ==
    \/ thread'[t] = thread[t]
    \/ thread'[t] = Idle
    \/ GoesOn(t)

LEMMA MovesFit ==
    ASSUME TypeInv, NEW t \in Threads, Moves(t)
    PROVE  /\ ThreadFits(t)'
           /\ thread'[t].pc # "idle" => thread[t].pc # "idle"
           /\ thread'[t].pc = "register" => thread[t].pc = "register"
           /\ \A i \in Ids : t \in Restarting(i)' => t \in Restarting(i)
<1>1. thread[t] \in [pc : Labels, call : Calls, id : Nat, run : Nat,
                     cmd : Commands \cup {NoCommand}]
  BY DEF TypeInv, Shape, Activities
<1>2. ThreadFits(t)
  BY DEF TypeInv
<1>3. CASE thread'[t] = thread[t]
  BY <1>2, <1>3 DEF ThreadFits, At, Restarting
<1>4. CASE thread'[t] = Idle
  BY <1>4, BoundsAreNumbers DEF ThreadFits, At, Restarting, Idle
<1>5. CASE GoesOn(t)
  <2>1. thread'[t].id = thread[t].id /\ thread'[t].call = thread[t].call
    BY <1>1, <1>5 DEF GoesOn
  <2>2. CASE /\ thread[t].pc \in {"listen", "spawn"}
             /\ \E l \in {"spawn", "insert"} : thread'[t] = [thread[t] EXCEPT !.pc = l]
    <3>1. thread'[t].run = thread[t].run /\ thread'[t].pc \in {"spawn", "insert"}
      BY <1>1, <2>2
    <3> QED
      BY <1>2, <2>1, <2>2, <3>1 DEF ThreadFits, At, Restarting
  <2>3. CASE /\ thread[t].pc \in Stopping \cup {"mark"}
             /\ \E l \in Stopping \cup {"bump", "drop"}, r \in 0 .. MaxRuns :
                    thread'[t] = [thread[t] EXCEPT !.pc = l, !.run = r]
             /\ thread'[t].pc = "bump" => thread[t].call = "restart"
    <3>1. thread'[t].run <= MaxRuns /\ thread'[t].pc \in Stopping \cup {"bump", "drop"}
      BY <1>1, <2>3, BoundsAreNumbers
    <3>2. thread[t].id # 0
      BY <1>2, <2>3 DEF ThreadFits, Stopping
    <3>3. ThreadFits(t)'
      BY <2>1, <2>3, <3>1, <3>2 DEF ThreadFits, At, Stopping
    <3>4. \A i \in Ids : t \in Restarting(i)' => t \in Restarting(i)
      <4>1. thread[t].pc = "mark" => thread[t].call = "stop"
        BY <1>2 DEF ThreadFits, At
      <4> QED
        BY <2>1, <2>3, <4>1 DEF Restarting, Stopping
    <3> QED
      BY <2>3, <3>1, <3>3, <3>4 DEF Stopping
  <2> QED
    BY <1>5, <2>2, <2>3 DEF GoesOn
<1> QED
  BY <1>3, <1>4, <1>5 DEF Moves

LEMMA MovesLeaveRoom ==
    ASSUME TypeInv, UNCHANGED <<counter, run>>, \A t \in Threads : Moves(t)
    PROVE  RoomIsLeft' /\ \A t \in Threads : ThreadFits(t)'
<1>1. Calling' \subseteq Calling /\ Registering' \subseteq Registering
  BY MovesFit DEF Calling, Registering, At
<1>2. ASSUME NEW i \in Ids PROVE Restarting(i)' \subseteq Restarting(i)
  <2>1. Restarting(i)' \subseteq Threads
    BY DEF Restarting
  <2> QED
    BY <2>1, MovesFit
<1> QED
  BY <1>1, <1>2, FewerLeaveRoom, MovesFit

\* A call on its way through host.stop goes on.
LEMMA StopsOn ==
    ASSUME TypeInv, NEW t \in Threads, thread[t].pc \in Stopping \cup {"mark"},
           NEW l \in Stopping \cup {"bump", "drop"}, l = "bump" => thread[t].call = "restart",
           thread' = [thread EXCEPT ![t].pc = l]
    PROVE  \A u \in Threads : Moves(u)
<1>1. thread \in Activities
  BY DEF TypeInv, Shape
<1>2. thread'[t] = [thread[t] EXCEPT !.pc = l, !.run = thread[t].run]
  BY <1>1 DEF Activities
<1>3. thread[t].run \in 0 .. MaxRuns
  BY <1>1, BoundsAreNumbers DEF TypeInv, ThreadFits, Activities
<1>4. thread'[t].pc = "bump" => thread[t].call = "restart"
  BY <1>1 DEF Activities
<1>5. \E m \in Stopping \cup {"bump", "drop"}, s \in 0 .. MaxRuns :
          thread'[t] = [thread[t] EXCEPT !.pc = m, !.run = s]
  BY <1>2, <1>3
<1>6. GoesOn(t)
  BY <1>4, <1>5 DEF GoesOn
<1>7. \A u \in Threads \ {t} : thread'[u] = thread[u]
  BY <1>1 DEF Activities
<1> QED
  BY <1>6, <1>7 DEF Moves

LEMMA StepRoom == TypeInv /\ [Next]_vars => RoomIsLeft' /\ \A t \in Threads : ThreadFits(t)'
<1> SUFFICES ASSUME TypeInv, [Next]_vars
             PROVE  RoomIsLeft' /\ \A t \in Threads : ThreadFits(t)'
  OBVIOUS
<1> DEFINE Goal == RoomIsLeft' /\ \A t \in Threads : ThreadFits(t)'
<1>0. thread \in Activities /\ counter \in Nat /\ run \in [Ids -> Nat]
  BY DEF TypeInv, Shape
<1>00. IsFiniteSet(Calling) /\ \A t \in Threads : ThreadFits(t)
  BY DEF TypeInv, RoomIsLeft
<1>1. ASSUME UNCHANGED <<thread, counter, run>> PROVE Goal
  BY <1>1, MovesLeaveRoom DEF Moves
<1>2. ASSUME NEW t \in Threads, NEW c \in Commands, OpenLooks(t, c) PROVE Goal
  <2>1. /\ thread' = [thread EXCEPT ![t] = [Idle EXCEPT !.pc = "register", !.cmd = c]]
        /\ At(t, "idle") /\ UNCHANGED <<counter, run>>
        /\ counter + Cardinality({u \in Threads : At(u, "register")}) < MaxShells
    BY <1>2 DEF OpenLooks, records
  <2>2. /\ Calling' = Calling \cup {t} /\ Registering' = Registering \cup {t}
        /\ \A i \in Ids : Restarting(i)' = Restarting(i)
    BY <1>0, <2>1 DEF Activities, Calling, Registering, Restarting, At, Idle
  <2>3. t \notin Registering /\ Registering \subseteq Calling
    BY <2>1 DEF Registering, Calling, At
  <2>4. IsFiniteSet(Registering) /\ IsFiniteSet(Calling')
    BY <1>00, <2>2, <2>3, FS_Subset, FS_AddElement
  <2>5. Cardinality(Registering') = Cardinality(Registering) + 1 /\ Cardinality(Registering) \in Nat
    BY <2>2, <2>3, <2>4, FS_AddElement, FS_CardinalityType
  <2>6. counter' + Cardinality(Registering') <= MaxShells
    BY <1>0, <2>1, <2>5, BoundsAreNumbers DEF Registering
  <2>7. \A u \in Threads : ThreadFits(u)'
    BY <1>0, <1>00, <2>1, BoundsAreNumbers DEF Activities, ThreadFits, At, Idle
  <2> QED
    BY <2>1, <2>2, <2>4, <2>6, <2>7 DEF RoomIsLeft, TypeInv
<1>3. ASSUME NEW t \in Threads, NEW i \in Ids, StopReads(t, i) \/ RemoveReads(t, i) PROVE Goal
  <2>1. PICK call \in {"stop", "remove"}, l \in {"mark", "signal"} :
            /\ thread' = [thread EXCEPT ![t] =
                   [pc |-> l, call |-> call, id |-> i, run |-> 0, cmd |-> NoCommand]]
            /\ At(t, "idle") /\ UNCHANGED <<counter, run>>
            /\ l = "mark" => call = "stop"
    BY <1>3 DEF StopReads, RemoveReads, Starts, records
  <2>2. /\ Calling' = Calling \cup {t} /\ Registering' = Registering
        /\ \A k \in Ids : Restarting(k)' = Restarting(k)
    BY <1>0, <2>1 DEF Activities, Calling, Registering, Restarting, At
  <2>3. IsFiniteSet(Calling')
    BY <1>00, <2>2, FS_AddElement
  <2>4. \A u \in Threads : ThreadFits(u)'
    BY <1>0, <1>00, <2>1, BoundsAreNumbers DEF Activities, ThreadFits, At, Ids
  <2> QED
    BY <2>1, <2>2, <2>3, <2>4 DEF RoomIsLeft, TypeInv
<1>4. ASSUME NEW t \in Threads, NEW i \in Ids, RestartMarks(t, i) PROVE Goal
  <2>1. /\ thread' = [thread EXCEPT ![t] =
               [pc |-> "signal", call |-> "restart", id |-> i, run |-> 0, cmd |-> NoCommand]]
        /\ At(t, "idle") /\ UNCHANGED <<counter, run>>
        /\ run[i] + Cardinality({u \in Busy(i) : thread[u].call = "restart"}) < MaxRuns
    BY <1>4 DEF RestartMarks, Starts
  <2>2. /\ Calling' = Calling \cup {t} /\ Registering' = Registering
        /\ Restarting(i)' = Restarting(i) \cup {t}
        /\ \A k \in Ids : k # i => Restarting(k)' = Restarting(k)
    BY <1>0, <2>1 DEF Activities, Calling, Registering, Restarting, At
  <2>3. IsFiniteSet(Calling')
    BY <1>00, <2>2, FS_AddElement
  <2> DEFINE Counted == {u \in Busy(i) : thread[u].call = "restart"}
  <2>4. /\ t \notin Restarting(i) /\ Restarting(i) \subseteq Counted /\ Counted \subseteq Calling
    BY <2>1 DEF Restarting, Calling, Busy, At
  <2>5. /\ IsFiniteSet(Restarting(i)) /\ Cardinality(Restarting(i)) <= Cardinality(Counted)
        /\ Cardinality(Restarting(i)) \in Nat /\ Cardinality(Counted) \in Nat
    <3>1. IsFiniteSet(Counted)
      BY <1>00, <2>4, FS_Subset
    <3>2. IsFiniteSet(Restarting(i)) /\ Cardinality(Restarting(i)) <= Cardinality(Counted)
      BY <2>4, <3>1, FS_Subset
    <3> QED
      BY <3>1, <3>2, FS_CardinalityType
  <2>6. Cardinality(Restarting(i)') = Cardinality(Restarting(i)) + 1
    BY <2>2, <2>4, <2>5, FS_AddElement
  <2>7. run'[i] + Cardinality(Restarting(i)') <= MaxRuns
    BY <1>0, <2>1, <2>5, <2>6, BoundsAreNumbers
  <2>8. \A u \in Threads : ThreadFits(u)'
    BY <1>0, <1>00, <2>1, BoundsAreNumbers DEF Activities, ThreadFits, At, Ids
  <2> QED
    BY <2>1, <2>2, <2>3, <2>7, <2>8 DEF RoomIsLeft, TypeInv
<1>5. ASSUME NEW t \in Threads, OpenRegisters(t) PROVE Goal
  <2>1. /\ thread' = [thread EXCEPT ![t] = [pc |-> "listen", call |-> "open", id |-> counter + 1,
                                            run |-> 1, cmd |-> NoCommand]]
        /\ At(t, "register") /\ counter' = counter + 1 /\ run' = [run EXCEPT ![counter + 1] = 1]
    BY <1>5 DEF OpenRegisters
  <2>2. /\ Calling' = Calling /\ Registering' = Registering \ {t}
        /\ \A k \in Ids : Restarting(k)' = Restarting(k)
    BY <1>0, <2>1 DEF Activities, Calling, Registering, Restarting, At
  <2>3. t \in Registering /\ Registering \subseteq Calling
    BY <2>1 DEF Registering, Calling, At
  <2>4. IsFiniteSet(Registering)
    BY <1>00, <2>3, FS_Subset
  <2>5. Cardinality(Registering') = Cardinality(Registering) - 1 /\ Cardinality(Registering) \in Nat
    BY <2>2, <2>3, <2>4, FS_RemoveElement, FS_CardinalityType
  <2>6. counter' + Cardinality(Registering') <= MaxShells
    BY <1>0, <2>1, <2>5, BoundsAreNumbers DEF TypeInv, RoomIsLeft
  <2>7. ASSUME NEW i \in Ids PROVE run'[i] + Cardinality(Restarting(i)') <= MaxRuns
    <3>1. CASE i = counter + 1
      <4>1. Restarting(i) = {}
        BY <1>0, <3>1 DEF TypeInv, IdsAreOpened, Restarting, Activities
      <4>2. Cardinality(Restarting(i)') = 0
        BY <2>2, <4>1, FS_EmptySet
      <4> QED
        BY <1>0, <2>1, <3>1, <4>2, BoundsAreNumbers
    <3>2. CASE i # counter + 1
      BY <1>0, <2>1, <2>2, <3>2 DEF TypeInv, RoomIsLeft
    <3> QED
      BY <3>1, <3>2
  <2>8. \A u \in Threads : ThreadFits(u)'
    BY <1>0, <1>00, <2>1, BoundsAreNumbers DEF Activities, ThreadFits, At
  <2> QED
    BY <1>00, <2>2, <2>6, <2>7, <2>8 DEF RoomIsLeft
<1>6. ASSUME NEW t \in Threads, NEW i, i = thread[t].id, RestartBumps(t) PROVE Goal
  <2>1. CASE status[i] = "none"
    BY <1>0, <1>6, <2>1, MovesLeaveRoom DEF RestartBumps, records, Returns, Moves, Activities
  <2>2. CASE status[i] # "none"
    <3>1. /\ thread' = [thread EXCEPT ![t].pc = "listen", ![t].run = run[i] + 1]
          /\ At(t, "bump") /\ counter' = counter /\ run' = [run EXCEPT ![i] = @ + 1]
      BY <1>6, <2>2, Zenon DEF RestartBumps
    <3>2. thread[t].call = "restart" /\ i \in Nat /\ i # 0 /\ i <= counter
      BY <1>0, <1>00, <1>6, <3>1 DEF ThreadFits, At, Activities, TypeInv, IdsAreOpened
    <3>3. i \in Ids
      <4>1. counter \in 0 .. MaxShells
        BY TypeInvGivesTypes DEF TypeOK
      <4> QED
        BY <3>2, <4>1, BoundsAreNumbers DEF Ids
    <3>4. /\ Calling' = Calling /\ Registering' = Registering
          /\ Restarting(i)' = Restarting(i) \ {t} /\ t \in Restarting(i)
          /\ \A k \in Ids : k # i => Restarting(k)' = Restarting(k)
      BY <1>0, <1>6, <3>1, <3>2 DEF Activities, Calling, Registering, Restarting, At
    <3>5. IsFiniteSet(Restarting(i))
      <4>1. Restarting(i) \subseteq Calling
        BY DEF Restarting, Calling
      <4> QED
        BY <1>00, <4>1, FS_Subset
    <3>6. /\ Cardinality(Restarting(i)') = Cardinality(Restarting(i)) - 1
          /\ Cardinality(Restarting(i)) \in Nat /\ Cardinality(Restarting(i)') \in Nat
      <4>1. Cardinality(Restarting(i)') = Cardinality(Restarting(i)) - 1 /\ IsFiniteSet(Restarting(i)')
        BY <3>4, <3>5, FS_RemoveElement
      <4> QED
        BY <3>5, <4>1, FS_CardinalityType
    <3>7. run'[i] + Cardinality(Restarting(i)') <= MaxRuns /\ run[i] + 1 <= MaxRuns
      BY <1>0, <3>1, <3>3, <3>6, BoundsAreNumbers DEF TypeInv, RoomIsLeft
    <3>8. \A k \in Ids : k # i => run'[k] = run[k]
      BY <1>0, <3>1
    <3>9. RoomIsLeft'
      <4>1. counter' + Cardinality(Registering') <= MaxShells
        BY <3>1, <3>4 DEF TypeInv, RoomIsLeft
      <4>2. ASSUME NEW k \in Ids PROVE run'[k] + Cardinality(Restarting(k)') <= MaxRuns
        BY <3>4, <3>7, <3>8 DEF TypeInv, RoomIsLeft
      <4> QED
        BY <1>00, <3>4, <4>1, <4>2 DEF RoomIsLeft
    <3>10. ASSUME NEW u \in Threads PROVE ThreadFits(u)'
      <4>1. CASE u # t
        BY <1>0, <1>00, <3>1, <4>1 DEF Activities, ThreadFits, At
      <4>2. CASE u = t
        <5>1. /\ thread'[t].pc = "listen" /\ thread'[t].run = run[i] + 1
              /\ thread'[t].id = i
          BY <1>0, <1>6, <3>1 DEF Activities
        <5>2. run[i] \in Nat
          BY <1>0, <3>3
        <5> QED
          BY <3>2, <3>7, <4>2, <5>1, <5>2, BoundsAreNumbers DEF ThreadFits, At
      <4> QED
        BY <4>1, <4>2
    <3> QED
      BY <3>9, <3>10
  <2> QED
    BY <2>1, <2>2
<1>7. ASSUME NEW t \in Threads,
             \/ HostListens(t) \/ HostSpawns(t) \/ HostInserts(t) \/ SpawnFails(t)
             \/ StopMarks(t) \/ RemoveDrops(t)
      PROVE  Goal
  <2>1. UNCHANGED <<counter, run>>
    BY <1>7 DEF HostListens, HostSpawns, HostInserts, SpawnFails, StopMarks, RemoveDrops, records
  <2>2. \A u \in Threads : Moves(u)
    <3>1. CASE HostListens(t)
      BY <1>0, <3>1 DEF HostListens, Goto, Moves, GoesOn, Activities, At
    <3>2. CASE StopMarks(t)
      <4>1. thread[t].pc = "mark" /\ thread' = [thread EXCEPT ![t].pc = "signal"]
        BY <3>2 DEF StopMarks, Goto, At
      <4>2. "signal" \in Stopping \cup {"bump", "drop"} /\ thread[t].pc \in Stopping \cup {"mark"}
        BY <4>1 DEF Stopping
      <4> QED
        BY <4>1, <4>2, StopsOn
    <3>3. CASE HostInserts(t) \/ SpawnFails(t) \/ RemoveDrops(t)
      BY <1>0, <3>3 DEF HostInserts, SpawnFails, RemoveDrops, Returns, Moves, Activities
    <3>4. CASE HostSpawns(t)
      BY <1>0, <3>4 DEF HostSpawns, Goto, Returns, Moves, GoesOn, Activities, At
    <3> QED
      BY <1>7, <3>1, <3>2, <3>3, <3>4
  <2> QED
    BY <2>1, <2>2, MovesLeaveRoom
<1>8. ASSUME NEW t \in Threads, thread[t].pc \in {"kill", "release", "drain"}, AfterStop(t),
             UNCHANGED <<counter, run>>
      PROVE  Goal
  <2>1. CASE Returns(t)
    <3>1. \A u \in Threads : Moves(u)
      BY <1>0, <2>1 DEF Returns, Moves, Activities
    <3> QED
      BY <1>8, <3>1, MovesLeaveRoom
  <2>2. CASE thread[t].call = "restart" /\ Goto(t, "bump")
    BY <1>8, <2>2, MovesLeaveRoom, StopsOn DEF Goto, Stopping
  <2>3. CASE Goto(t, "drop")
    BY <1>8, <2>3, MovesLeaveRoom, StopsOn DEF Goto, Stopping
  <2> QED
    BY <1>8, <2>1, <2>2, <2>3 DEF AfterStop
<1>9. ASSUME NEW t \in Threads, HostSignals(t) PROVE Goal
  <2>1. /\ thread[t].pc = "signal" /\ UNCHANGED <<counter, run>>
        /\ \E l \in Stopping : thread' = [thread EXCEPT ![t].pc = l]
    BY <1>9 DEF HostSignals, Goto, At, Stopping, records
  <2> QED
    BY <2>1, MovesLeaveRoom, StopsOn DEF Stopping
<1>9a. ASSUME NEW t \in Threads, HostKills(t) PROVE Goal
  <2>1. /\ thread[t].pc \in {"grace", "forget"} /\ UNCHANGED <<counter, run>>
        /\ thread' = [thread EXCEPT ![t].run = session[thread[t].id],
                ![t].pc = IF At(t, "forget") \/ thread[t].id \in exited THEN "release" ELSE "kill"]
    BY <1>9a DEF HostKills, records
  <2>2. session[thread[t].id] \in 0 .. MaxRuns
    <3>1. thread[t].id \in Nat /\ thread[t].id # 0 /\ thread[t].id <= counter
      BY <1>0, <1>00, <2>1 DEF ThreadFits, Activities, TypeInv, IdsAreOpened
    <3>2. counter \in 0 .. MaxShells
      BY TypeInvGivesTypes DEF TypeOK
    <3>3. thread[t].id \in Ids
      BY <3>1, <3>2, BoundsAreNumbers DEF Ids
    <3> QED
      BY <3>3, TypeInvGivesTypes DEF TypeOK
  <2>3. PICK l \in {"kill", "release"} :
            thread' = [thread EXCEPT ![t].run = session[thread[t].id], ![t].pc = l]
    BY <2>1
  <2>4. thread'[t] = [thread[t] EXCEPT !.pc = l, !.run = session[thread[t].id]]
    BY <1>0, <2>3 DEF Activities
  <2>5. thread'[t].pc # "bump"
    BY <1>0, <2>3 DEF Activities
  <2>6. /\ thread[t].pc \in Stopping \cup {"mark"}
        /\ l \in Stopping \cup {"bump", "drop"}
        /\ session[thread[t].id] \in 0 .. MaxRuns
    BY <2>1, <2>2, <2>3 DEF Stopping
  <2>7. GoesOn(t)
    BY <2>4, <2>5, <2>6 DEF GoesOn
  <2>8. \A u \in Threads : Moves(u)
    <3>1. \A u \in Threads \ {t} : thread'[u] = thread[u]
      BY <1>0, <2>3 DEF Activities
    <3> QED
      BY <2>7, <3>1 DEF Moves
  <2> QED
    BY <2>1, <2>8, MovesLeaveRoom
<1>9b. ASSUME NEW t \in Threads, HostReleases(t) PROVE Goal
  <2>1. thread[t].pc \in {"kill", "release"} /\ UNCHANGED <<counter, run>>
    BY <1>9b DEF HostReleases, records
  <2>2. CASE AfterStop(t)
    BY <1>8, <2>1, <2>2
  <2>3. CASE Goto(t, "drain")
    BY <2>1, <2>3, MovesLeaveRoom, StopsOn DEF Goto, Stopping
  <2> QED
    BY <1>9b, <2>2, <2>3 DEF HostReleases
<1>9c. ASSUME NEW t \in Threads, HostDrains(t) PROVE Goal
  BY <1>8, <1>9c DEF HostDrains, records, At
<1>10. ASSUME NEW p \in Procs, \/ ProcessEnds(p) \/ TreeIsKilled(p) \/ ChildIsKilled(p)
                              \/ WatcherPolls(p) \/ ReaderEmits(p)
       PROVE  Goal
  BY <1>1, <1>10 DEF ProcessEnds, TreeIsKilled, ChildIsKilled, WatcherPolls, ReaderEmits, records
<1>11. ASSUME NEW i \in Ids, NEW r \in Runs, ShellExited(i, r) PROVE Goal
  BY <1>1, <1>11 DEF ShellExited
<1>12. CASE UNCHANGED vars
  BY <1>1, <1>12 DEF vars, records
<1> QED
  BY <1>2, <1>3, <1>4, <1>5, <1>6, <1>7, <1>9, <1>9a, <1>9b, <1>9c, <1>10, <1>11, <1>12
     DEF Next, Goes

LEMMA StepData == TypeInv /\ [Next]_vars => DataFits'
<1> SUFFICES ASSUME TypeInv, [Next]_vars PROVE DataFits'
  OBVIOUS
<1>0. /\ DataFits /\ Shape /\ thread \in Activities /\ session \in [Ids -> Nat] /\ root \in [Ids -> Nat]
      /\ \A t \in Threads : ThreadFits(t)
  BY DEF TypeInv, Shape
<1>1. ASSUME UNCHANGED <<command, session, root, watching, events>> PROVE DataFits'
  BY <1>0, <1>1 DEF DataFits, events
<1>2. ASSUME NEW t \in Threads, thread[t].pc \in {"listen", "spawn", "insert"}
      PROVE  thread[t].id \in Ids /\ thread[t].run \in Runs
  <2>1. /\ thread[t].id \in Nat /\ thread[t].id # 0 /\ thread[t].id <= counter
        /\ thread[t].run \in Nat /\ thread[t].run # 0 /\ thread[t].run <= MaxRuns
    BY <1>0, <1>2 DEF ThreadFits, Activities, TypeInv, IdsAreOpened
  <2>2. counter \in 0 .. MaxShells
    BY TypeInvGivesTypes DEF TypeOK
  <2> QED
    BY <2>1, <2>2, BoundsAreNumbers DEF Ids, Runs
<1>3. ASSUME NEW i, TakesOut(i) PROVE \A k \in Ids : session'[k] <= MaxRuns
  BY <1>0, <1>3, BoundsAreNumbers DEF TakesOut, DataFits
<1>4. ASSUME NEW t \in Threads, OpenRegisters(t) PROVE DataFits'
  <2>1. command' = [command EXCEPT ![counter + 1] = thread[t].cmd]
        /\ thread[t].cmd \in Commands \cup {NoCommand}
    BY <1>0, <1>4 DEF OpenRegisters, Activities
  <2>2. command' \in [Ids -> Commands \cup {NoCommand}]
    BY <1>0, <2>1 DEF DataFits
  <2> QED
    BY <1>0, <1>4, <2>2 DEF OpenRegisters, DataFits, ptys, events
<1>5. ASSUME NEW t \in Threads, HostListens(t) PROVE DataFits'
  <2>1. thread[t].id \in Ids /\ thread[t].run \in Runs
    BY <1>2, <1>5 DEF HostListens, At
  <2> QED
    BY <1>0, <1>5, <2>1 DEF HostListens, DataFits, records, ptys
<1>6. ASSUME NEW t \in Threads, HostSpawns(t) PROVE DataFits'
  <2>1. thread[t].id \in Ids /\ thread[t].run \in Runs
    BY <1>2, <1>6 DEF HostSpawns, At
  <2>2. CASE MaySpawn(thread[t].id)
    <3>1. root' = [root EXCEPT ![thread[t].id] = thread[t].run]
          /\ UNCHANGED <<command, session, watching, events>>
      BY <1>6, <2>2 DEF HostSpawns, records
    <3>2. \A k \in Ids : root'[k] <= MaxRuns
      BY <1>0, <2>1, <3>1 DEF DataFits, Runs
    <3> QED
      BY <1>0, <2>1, <3>1, <3>2 DEF DataFits, events
  <2>3. CASE ~MaySpawn(thread[t].id)
    BY <1>1, <1>6, <2>3 DEF HostSpawns, records, ptys
  <2> QED
    BY <2>2, <2>3
<1>6a. ASSUME NEW t \in Threads, HostInserts(t) PROVE DataFits'
  <2>1. thread[t].id \in Ids /\ thread[t].run \in Runs
    BY <1>2, <1>6a DEF HostInserts, At
  <2>2. /\ session' = [session EXCEPT ![thread[t].id] = thread[t].run]
        /\ watching' = watching \cup {<<thread[t].id, thread[t].run>>}
        /\ UNCHANGED <<command, root, events>>
    BY <1>6a DEF HostInserts, records
  <2>3. \A k \in Ids : session'[k] <= MaxRuns
    BY <1>0, <2>1, <2>2 DEF DataFits, Runs
  <2> QED
    BY <1>0, <2>1, <2>2, <2>3 DEF DataFits, events, Procs
<1>7. ASSUME NEW t \in Threads, HostKills(t) PROVE DataFits'
  <2>1. UNCHANGED <<command, root, watching, events>> /\ TakesOut(thread[t].id)
    BY <1>7 DEF HostKills, records
  <2> QED
    BY <1>0, <1>3, <2>1 DEF DataFits, events
<1>7a. ASSUME NEW p \in Procs, TreeIsKilled(p) PROVE DataFits'
  <2>1. UNCHANGED <<command, session, watching, events>> /\ root' = [root EXCEPT ![p[1]] = 0]
    BY <1>7a DEF TreeIsKilled, records
  <2>2. \A k \in Ids : root'[k] <= MaxRuns
    BY <1>0, <2>1, BoundsAreNumbers DEF DataFits
  <2> QED
    BY <1>0, <2>1, <2>2 DEF DataFits, events
<1>8. ASSUME NEW p \in Procs, WatcherPolls(p) PROVE DataFits'
  <2>1. UNCHANGED <<command, root, events>> /\ watching' \subseteq watching
    BY <1>8 DEF WatcherPolls, records
  <2>2. session' = session \/ \E i : TakesOut(i)
    BY <1>8 DEF WatcherPolls
  <2>3. \A k \in Ids : session'[k] <= MaxRuns
    BY <1>0, <1>3, <2>2 DEF DataFits
  <2> QED
    BY <1>0, <2>1, <2>3 DEF DataFits, events
<1>9. ASSUME NEW p \in Procs, ReaderEmits(p) PROVE DataFits'
  <2>1. p = <<p[1], p[2]>> /\ p[1] \in Ids
    BY DEF Procs
  <2>2. /\ UNCHANGED <<command, root, watching>>
        /\ session' = [session EXCEPT ![p[1]] = IF @ = p[2] THEN 0 ELSE @]
        /\ exited' \subseteq exited \cup {p[1]}
        /\ reports' = reports \cup {<<p[1], r>> : r \in listeners[p[1]]}
        /\ listeners' = [listeners EXCEPT ![p[1]] = {}]
    BY <1>9 DEF ReaderEmits, records
  <2>3. \A k \in Ids : session'[k] <= MaxRuns
    BY <1>0, <2>2, BoundsAreNumbers DEF DataFits
  <2>4. reports' \subseteq Procs
    BY <1>0, <2>1, <2>2 DEF DataFits, Procs
  <2> QED
    BY <1>0, <2>1, <2>2, <2>3, <2>4 DEF DataFits
<1>10. ASSUME NEW i \in Ids, NEW r \in Runs, ShellExited(i, r) PROVE DataFits'
  BY <1>0, <1>10 DEF ShellExited, ptys, DataFits
<1>11. ASSUME NEW t \in Threads,
              \/ \E c \in Commands : OpenLooks(t, c)
              \/ \E i \in Ids : StopReads(t, i) \/ RestartMarks(t, i) \/ RemoveReads(t, i)
              \/ SpawnFails(t) \/ StopMarks(t) \/ HostSignals(t) \/ HostReleases(t)
              \/ HostDrains(t) \/ RestartBumps(t) \/ RemoveDrops(t)
       PROVE  DataFits'
  BY <1>1, <1>11 DEF OpenLooks, StopReads, RestartMarks, RemoveReads, SpawnFails, StopMarks,
                     HostSignals, HostReleases, HostDrains, RestartBumps, RemoveDrops, records, ptys
<1>12. ASSUME NEW p \in Procs, ProcessEnds(p) \/ ChildIsKilled(p) PROVE DataFits'
  BY <1>1, <1>12 DEF ProcessEnds, ChildIsKilled, records
<1>13. CASE UNCHANGED vars
  BY <1>1, <1>13 DEF vars, records, ptys
<1> QED
  BY <1>4, <1>5, <1>6, <1>6a, <1>7, <1>7a, <1>8, <1>9, <1>10, <1>11, <1>12, <1>13 DEF Next, Goes

\* Every reachable state is well typed and within its bounds: no thread opens a
\* shell, or starts a run of one, for which there was no room when it looked.
THEOREM ShellsTypeCorrect == Spec => []TypeOK
<1>1. TypeInv /\ [Next]_vars => TypeInv'
  BY StepShape, StepIds, StepRoom, StepData DEF TypeInv
<1> QED
  BY <1>1, InitTypeInv, TypeInvGivesTypes, PTL DEF Spec
=============================================================================
