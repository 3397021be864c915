----------------------------- MODULE SpawnQueue -----------------------------
(* The queue that keeps the app from starting too many PTYs at once          *)
(* (src/lib/spawnQueue.ts), with its two users: a terminal pane that starts  *)
(* its PTY (useXtermSession.ts) and may be closed at any time, and the       *)
(* restart of every live pane, one after another (resetLastSession.ts).      *)
(*                                                                           *)
(* One action is what runs between two awaits.  A promise resolved by one    *)
(* action is continued by a later one, so a pane can be closed in between.   *)
EXTENDS Integers, Sequences, FiniteSets, SequencesExt

CONSTANTS
    Panes,          \* runs of the effect of a pane; each owns an AbortController
    Resets,         \* runs of resetLastSession, which pass no signal
    FirstLimit,     \* maxConcurrentSpawns before the preferences are read
    Sizes           \* what the preference for it may be set to

Callers == Panes \cup Resets

ASSUME SizesAreNumbers == FirstLimit \in Nat \ {0} /\ Sizes \subseteq Int
ASSUME CallersAreFew == IsFiniteSet(Callers)
ASSUME KindsAreDistinct == Panes \cap Resets = {}

VARIABLES
    limit,      \* maxConcurrentSpawns
    active,     \* the slots counted as taken
    waiters,    \* the waiters, first come first
    pc,         \* where each caller is between two awaits
    gone        \* panes that were unmounted: disposed, and the signal aborted

vars == <<limit, active, waiters, pc, gone>>

Labels == {"off", "starting", "waiting", "granted", "refused", "spawning"}

TypeOK ==
    /\ limit \in Nat \ {0}
    /\ active \in Nat
    /\ waiters \in Seq(Callers)
    /\ pc \in [Callers -> Labels]
    /\ gone \in [Callers -> BOOLEAN]

Init ==
    /\ limit = FirstLimit
    /\ active = 0
    /\ waiters = <<>>
    /\ pc = [c \in Callers |-> "off"]
    /\ gone = [c \in Callers |-> FALSE]

-----------------------------------------------------------------------------
MoreOf(m, n) == IF m > n THEN m ELSE n
FewerOf(m, n) == IF m < n THEN m ELSE n

\* What the preference asks for: at least one.  Mutant: taken as it is.
AsItIs(n) == n
OneOrMore(n) == MoreOf(1, n)
Limits == {OneOrMore(n) : n \in Sizes}

\* How many the loop of drain lets in, with a slots taken of n.  Mutants: it
\* lets in one at most, it stops one slot early, or it lets everybody in.
OneAtMost(a, n) == FewerOf(1, FewerOf(Len(waiters), MoreOf(0, n - a)))
OneSlotEarly(a, n) == FewerOf(Len(waiters), MoreOf(0, n - a - 1))
Everybody(a, n) == Len(waiters)
Room(a, n) == FewerOf(Len(waiters), MoreOf(0, n - a))

\* drain with a slots taken of n; p is where everybody was left.
DrainAt(a, n, p) ==
    LET k == Room(a, n) IN
    /\ active' = a + k
    /\ waiters' = SubSeq(waiters, k + 1, Len(waiters))
    /\ pc' = [c \in Callers |->
                  IF \E i \in 1 .. k : waiters[i] = c THEN "granted" ELSE p[c]]

\* A waiter taken out of the array.  Mutant: it keeps its place.
Stays(i) == waiters
TakenOut(i) == RemoveAt(waiters, i)

\* releaseSpawnSlot, called by c, which is then done.
Release(c) == DrainAt(MoreOf(0, active - 1), limit, [pc EXCEPT ![c] = "off"])

-----------------------------------------------------------------------------
Begin(c) ==
    /\ pc[c] = "off"
    /\ pc' = [pc EXCEPT ![c] = "starting"]
    /\ gone' = [gone EXCEPT ![c] = FALSE]
    /\ UNCHANGED <<limit, active, waiters>>

\* A caller that stops before it asks: a pane closed meanwhile, an early error.
Leave(c) ==
    /\ pc[c] = "starting"
    /\ pc' = [pc EXCEPT ![c] = "off"]
    /\ UNCHANGED <<limit, active, waiters, gone>>

\* acquireSpawnSlot
AskAborted(c) ==
    /\ pc[c] = "starting" /\ gone[c]
    /\ pc' = [pc EXCEPT ![c] = "refused"]
    /\ UNCHANGED <<limit, active, waiters, gone>>

AskGranted(c) ==
    /\ pc[c] = "starting" /\ ~gone[c]
    /\ active < limit
    /\ active' = active + 1
    /\ pc' = [pc EXCEPT ![c] = "granted"]
    /\ UNCHANGED <<limit, waiters, gone>>

AskWaits(c) ==
    /\ pc[c] = "starting" /\ ~gone[c]
    /\ active >= limit
    /\ waiters' = Append(waiters, c)
    /\ pc' = [pc EXCEPT ![c] = "waiting"]
    /\ UNCHANGED <<limit, active, gone>>

\* The cleanup of the effect: disposed first, then the abort, whose listener
\* finds the waiter only as long as it was neither resumed nor refused.
Unmount(c) ==
    /\ c \in Panes
    /\ pc[c] # "off" /\ ~gone[c]
    /\ gone' = [gone EXCEPT ![c] = TRUE]
    /\ \/ /\ pc[c] # "waiting"
          /\ UNCHANGED <<waiters, pc>>
       \/ \E i \in 1 .. Len(waiters) :
              /\ waiters[i] = c
              /\ waiters' = TakenOut(i)
              /\ pc' = [pc EXCEPT ![c] = "refused"]
    /\ UNCHANGED <<limit, active>>

\* The await of acquireSpawnSlot goes on.
Refused(c) ==
    /\ pc[c] = "refused"
    /\ pc' = [pc EXCEPT ![c] = "off"]
    /\ UNCHANGED <<limit, active, waiters, gone>>

\* Mutant: a pane closed meanwhile returns without releasing.
ResumeForgets(c) ==
    /\ pc[c] = "granted"
    /\ pc' = [pc EXCEPT ![c] = IF gone[c] THEN "off" ELSE "spawning"]
    /\ UNCHANGED <<limit, active, waiters, gone>>
Resume(c) ==
    /\ pc[c] = "granted"
    /\ \/ gone[c] /\ Release(c)
       \/ /\ ~gone[c]
          /\ pc' = [pc EXCEPT ![c] = "spawning"]
          /\ UNCHANGED <<active, waiters>>
    /\ UNCHANGED <<limit, gone>>

\* spawnPty or restartPty answers, or fails: the slot is released either way.
Settle(c) ==
    /\ pc[c] = "spawning"
    /\ Release(c)
    /\ UNCHANGED <<limit, gone>>

SetLimit(n) ==
    /\ OneOrMore(n) # limit
    /\ limit' = OneOrMore(n)
    /\ DrainAt(active, OneOrMore(n), pc)
    /\ UNCHANGED gone

Asks(c) == AskAborted(c) \/ AskGranted(c) \/ AskWaits(c)
Continues(c) == Refused(c) \/ Resume(c)

Next ==
    \/ \E c \in Callers :
           Begin(c) \/ Leave(c) \/ Asks(c) \/ Unmount(c) \/ Continues(c) \/ Settle(c)
    \/ \E n \in Sizes : SetLimit(n)

Spec == Init /\ [][Next]_vars

\* Continuations run, and a PTY's start is answered: the wait for memory in the
\* back end ends after SPAWN_MEMORY_WAIT_MAX_MS.
FairSpec ==
    /\ Spec
    /\ \A c \in Callers : WF_vars(Continues(c)) /\ WF_vars(Settle(c))

-----------------------------------------------------------------------------
Holders == {c \in Callers : pc[c] \in {"granted", "spawning"}}

\* The counter is the number of callers that were given a slot and have not
\* released it: no way out of useXtermSession's start, closed in time or not,
\* forgets a release or makes two, and the floor of releaseSpawnSlot never shows.
SlotsAreHeld == active = Cardinality(Holders)

\* Nobody waits while a slot is free: acquire, release and a raised limit all
\* drain, and a lowered limit only makes the queue wait longer.
NoIdleSlot == waiters # <<>> => active >= limit

\* The array holds each caller that waits once, and no pane that was closed: the
\* abort takes a waiter out, and only a waiter that was not resumed.
LineIsExact ==
    /\ {waiters[i] : i \in 1 .. Len(waiters)} = {c \in Callers : pc[c] = "waiting"}
    /\ \A i, k \in 1 .. Len(waiters) : waiters[i] = waiters[k] => i = k
    /\ \A i \in 1 .. Len(waiters) : ~gone[waiters[i]]

\* The counter, the array and the promises of spawnQueue.ts are a pool of slots
\* with a waiting line.
Pool == INSTANCE SlotPool
            WITH Clients <- Callers, holders <- Holders, line <- waiters
PoolIsKept == Pool!PoolSpec

\* Every caller of acquireSpawnSlot gets its answer, however often panes are
\* closed and the limit is changed.
WaitersAreServed ==
    \A c \in Callers : pc[c] = "waiting" ~> pc[c] # "waiting"
=============================================================================
