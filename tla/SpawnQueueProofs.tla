-------------------------- MODULE SpawnQueueProofs --------------------------
EXTENDS SpawnQueue, SequenceTheorems, FiniteSetTheorems, TLAPS

HoldersOf(p) == {c \in Callers : p[c] \in {"granted", "spawning"}}
WaitingOf(p) == {c \in Callers : p[c] = "waiting"}
Elements(q) == {q[i] : i \in 1 .. Len(q)}
Firsts(q, k) == {q[i] : i \in 1 .. k}
Distinct(q) == \A i, k \in 1 .. Len(q) : q[i] = q[k] => i = k

-----------------------------------------------------------------------------
(* The two ways a waiter leaves the array keep it a list without repetition. *)

LEMMA RemovedAt ==
    ASSUME NEW S, NEW q \in Seq(S), Distinct(q), NEW i \in 1 .. Len(q)
    PROVE  /\ RemoveAt(q, i) \in Seq(S)
           /\ Elements(RemoveAt(q, i)) = Elements(q) \ {q[i]}
           /\ Distinct(RemoveAt(q, i))
           /\ RemoveAt(q, i) # <<>> => q # <<>>
<1>. DEFINE n == Len(q)
            u == SubSeq(q, 1, i - 1)
            v == SubSeq(q, i + 1, n)
            r == u \o v
<1>1. n \in Nat /\ \A j \in 1 .. n : q[j] \in S
  BY LenProperties
<1>2. /\ u \in Seq(S) /\ Len(u) = i - 1
      /\ \A j \in 1 .. i - 1 : u[j] = q[j]
  <2>1. \A j \in 1 .. i - 1 : q[j] \in S
    BY <1>1
  <2>. QED
    BY <1>1, <2>1, SubSeqProperties
<1>3. /\ v \in Seq(S) /\ Len(v) = n - i
      /\ \A j \in 1 .. n - i : v[j] = q[j + i]
  <2>1. \A j \in i + 1 .. n : q[j] \in S
    BY <1>1
  <2>. QED
    BY <1>1, <2>1, SubSeqProperties
<1>4. /\ r \in Seq(S) /\ Len(r) = n - 1
      /\ \A j \in 1 .. n - 1 : r[j] = IF j < i THEN q[j] ELSE q[j + 1]
  <2>1. /\ r \in Seq(S) /\ Len(r) = Len(u) + Len(v)
        /\ \A j \in 1 .. Len(u) + Len(v) :
              r[j] = IF j <= Len(u) THEN u[j] ELSE v[j - Len(u)]
    BY <1>2, <1>3, ConcatProperties
  <2>. HIDE DEF u, v, r
  <2>2. Len(r) = n - 1 /\ i \in Nat /\ i >= 1
    BY <1>1, <1>2, <1>3, <2>1
  <2>3. \A j \in 1 .. n - 1 : r[j] = IF j <= i - 1 THEN u[j] ELSE v[j - (i - 1)]
    BY <1>1, <1>2, <1>3, <2>1, <2>2
  <2>4. ASSUME NEW j \in 1 .. n - 1, j < i PROVE r[j] = q[j]
    BY <2>2, <2>3, <2>4, <1>1, <1>2
  <2>5. ASSUME NEW j \in 1 .. n - 1, ~(j < i) PROVE r[j] = q[j + 1]
    <3>1. /\ j - (i - 1) \in 1 .. n - i
          /\ j - (i - 1) + i = j + 1
          /\ ~(j <= i - 1)
      BY <2>2, <2>5, <1>1
    <3>2. v[j - (i - 1)] = q[j + 1]
      BY <3>1, <1>3
    <3>. QED
      BY <2>3, <3>1, <3>2
  <2>. QED
    BY <2>1, <2>2, <2>4, <2>5
<1>. HIDE DEF u, v, r
<1>5. Elements(r) = Elements(q) \ {q[i]}
  <2>1. ASSUME NEW j \in 1 .. n - 1 PROVE r[j] \in Elements(q) \ {q[i]}
    BY <1>1, <1>4 DEF Elements, Distinct
  <2>2. ASSUME NEW j \in 1 .. n, j # i PROVE q[j] \in Elements(r)
    <3>1. CASE j < i
      BY <1>1, <1>4, <3>1 DEF Elements
    <3>2. CASE j > i
      <4>1. j - 1 \in 1 .. n - 1 /\ ~(j - 1 < i) /\ j - 1 + 1 = j
        BY <3>2, <1>1
      <4>. QED
        BY <1>4, <4>1 DEF Elements
    <3>. QED
      BY <2>2, <3>1, <3>2, <1>1
  <2>. QED
    BY <2>1, <2>2, <1>4 DEF Elements
<1>6. Distinct(r)
  BY <1>1, <1>4 DEF Distinct
<1>7. RemoveAt(q, i) = r
  BY DEF RemoveAt, r, u, v
<1>. QED
  BY <1>4, <1>5, <1>6, <1>7, EmptySeq

LEMMA FrontRemoved ==
    ASSUME NEW S, NEW q \in Seq(S), Distinct(q), NEW k \in 0 .. Len(q)
    PROVE  /\ SubSeq(q, k + 1, Len(q)) \in Seq(S)
           /\ Len(SubSeq(q, k + 1, Len(q))) = Len(q) - k
           /\ Elements(SubSeq(q, k + 1, Len(q))) = Elements(q) \ Firsts(q, k)
           /\ Distinct(SubSeq(q, k + 1, Len(q)))
           /\ IsFiniteSet(Firsts(q, k)) /\ Cardinality(Firsts(q, k)) = k
<1>. DEFINE n == Len(q)
            r == SubSeq(q, k + 1, n)
            served == Firsts(q, k)
<1>1. n \in Nat /\ k \in Nat /\ \A j \in 1 .. n : q[j] \in S
  BY LenProperties
<1>2. /\ r \in Seq(S) /\ Len(r) = n - k
      /\ \A j \in 1 .. n - k : r[j] = q[j + k]
  <2>1. \A j \in k + 1 .. n : q[j] \in S
    BY <1>1
  <2>2. /\ r \in Seq(S) /\ Len(r) = IF k + 1 <= n THEN n - (k + 1) + 1 ELSE 0
        /\ \A j \in 1 .. n - (k + 1) + 1 : r[j] = q[k + 1 + j - 1]
    BY <1>1, <2>1, SubSeqProperties
  <2>3. \A j \in 1 .. n - k : k + 1 + j - 1 = j + k /\ j \in 1 .. n - (k + 1) + 1
    BY <1>1
  <2>. HIDE DEF r
  <2>. QED
    BY <1>1, <2>2, <2>3
<1>. HIDE DEF r
<1>3. Elements(r) = Elements(q) \ served
  <2>. USE DEF Firsts
  <2>1. ASSUME NEW j \in 1 .. n - k PROVE r[j] \in Elements(q) \ served
    <3>1. j + k \in 1 .. n /\ ~(j + k \in 1 .. k)
      BY <1>1
    <3>. QED
      BY <1>1, <1>2, <3>1 DEF Elements, Distinct, Firsts
  <2>2. ASSUME NEW j \in 1 .. n, q[j] \notin served PROVE q[j] \in Elements(r)
    <3>1. j - k \in 1 .. n - k /\ j - k + k = j
      BY <2>2, <1>1
    <3>. QED
      BY <1>2, <3>1 DEF Elements
  <2>. QED
    BY <2>1, <2>2, <1>2 DEF Elements
<1>4. Distinct(r)
  BY <1>1, <1>2 DEF Distinct
<1>5. IsFiniteSet(served) /\ Cardinality(served) = k
  <2>. DEFINE f == [i \in 1 .. k |-> q[i]]
  <2>1. f \in Bijection(1 .. k, served)
    BY <1>1 DEF Bijection, Injection, Surjection, IsInjective, Distinct, Firsts
  <2>2. ExistsBijection(1 .. k, served)
    BY <2>1 DEF ExistsBijection
  <2>3. IsFiniteSet(1 .. k) /\ Cardinality(1 .. k) = k
    BY <1>1, FS_Interval
  <2>. QED
    BY <2>2, <2>3, FS_Bijection
<1>. QED
  BY <1>2, <1>3, <1>4, <1>5 DEF r
-----------------------------------------------------------------------------
(* The invariant of the queue, and the four ways a step changes it. *)

QueueInv == TypeOK /\ SlotsAreHeld /\ NoIdleSlot /\ LineIsExact

\* SlotPool counts and removes with the same operators as this module.
LEMMA PoolCardinality == ASSUME NEW S PROVE Pool!Cardinality(S) = Cardinality(S)
BY DEF Pool!Cardinality, Cardinality

LEMMA PoolRemoveAt == ASSUME NEW q, NEW i PROVE Pool!RemoveAt(q, i) = RemoveAt(q, i)
BY DEF Pool!RemoveAt, RemoveAt

USE SizesAreNumbers, CallersAreFew, KindsAreDistinct

LEMMA LineFacts ==
    LineIsExact <=> /\ Elements(waiters) = WaitingOf(pc)
                    /\ Distinct(waiters)
                    /\ \A c \in Elements(waiters) : ~gone[c]
BY DEF LineIsExact, Elements, WaitingOf, Distinct

LEMMA FewHolders == ASSUME NEW p PROVE IsFiniteSet(HoldersOf(p))
BY FS_Subset DEF HoldersOf

LEMMA HowManyEnter ==
    ASSUME waiters \in Seq(Callers), NEW a \in Nat, NEW n \in Nat \ {0}
    PROVE  /\ Room(a, n) \in 0 .. Len(waiters)
           /\ Room(a, n) > 0 => a + Room(a, n) <= n
           /\ Room(a, n) < Len(waiters) => a + Room(a, n) >= n
BY LenProperties DEF Room, FewerOf, MoreOf

\* drain gives the front of the array a slot each, counts them, and stops only
\* at the end of the array or at the limit.
LEMMA Draining ==
    ASSUME waiters \in Seq(Callers), Distinct(waiters),
           NEW a \in Nat, NEW n \in Nat \ {0}, NEW p \in [Callers -> Labels],
           Elements(waiters) = WaitingOf(p),
           a = Cardinality(HoldersOf(p)),
           DrainAt(a, n, p)
    PROVE  /\ active' \in Nat /\ waiters' \in Seq(Callers) /\ pc' \in [Callers -> Labels]
           /\ active' = Cardinality(HoldersOf(pc'))
           /\ waiters' # <<>> => active' >= n
           /\ Elements(waiters') = WaitingOf(pc') /\ Distinct(waiters')
           /\ Elements(waiters') \subseteq Elements(waiters)
           /\ \E k \in 0 .. Len(waiters) :
                 /\ HoldersOf(pc') = HoldersOf(p) \cup Firsts(waiters, k)
                 /\ waiters' = SubSeq(waiters, k + 1, Len(waiters))
                 /\ k > 0 => Cardinality(HoldersOf(pc')) <= n
                 /\ k < Len(waiters) => Cardinality(HoldersOf(pc')) >= n
<1>. DEFINE k == Room(a, n)
            served == Firsts(waiters, k)
<1>1. /\ active' = a + k
      /\ waiters' = SubSeq(waiters, k + 1, Len(waiters))
      /\ pc' = [c \in Callers |-> IF c \in served THEN "granted" ELSE p[c]]
  BY DEF DrainAt, Firsts
<1>2. /\ k \in 0 .. Len(waiters) /\ Len(waiters) \in Nat
      /\ k > 0 => a + k <= n
      /\ k < Len(waiters) => a + k >= n
  BY HowManyEnter, LenProperties
<1>. HIDE DEF k
<1>3. /\ waiters' \in Seq(Callers) /\ Len(waiters') = Len(waiters) - k
      /\ Elements(waiters') = Elements(waiters) \ served
      /\ Distinct(waiters')
      /\ IsFiniteSet(served) /\ Cardinality(served) = k
  <2>1. /\ SubSeq(waiters, k + 1, Len(waiters)) \in Seq(Callers)
        /\ Len(SubSeq(waiters, k + 1, Len(waiters))) = Len(waiters) - k
        /\ Elements(SubSeq(waiters, k + 1, Len(waiters))) = Elements(waiters) \ served
        /\ Distinct(SubSeq(waiters, k + 1, Len(waiters)))
        /\ IsFiniteSet(served) /\ Cardinality(served) = k
    BY <1>2, FrontRemoved
  <2>. QED
    BY <1>1, <2>1
<1>4. served \subseteq Elements(waiters)
  BY <1>2 DEF Elements, Firsts
<1>. HIDE DEF served
<1>5. served \subseteq WaitingOf(p) /\ served \cap HoldersOf(p) = {}
  BY <1>4 DEF WaitingOf, HoldersOf
<1>6. HoldersOf(pc') = HoldersOf(p) \cup served
  BY <1>1, <1>5 DEF HoldersOf, WaitingOf
<1>7. WaitingOf(pc') = WaitingOf(p) \ served
  BY <1>1 DEF WaitingOf
<1>8. Cardinality(HoldersOf(pc')) = a + k
  <2>1. Cardinality(HoldersOf(p) \cup served) = a + k - Cardinality(HoldersOf(p) \cap served)
    BY <1>3, FewHolders, FS_Union
  <2>2. Cardinality(HoldersOf(p) \cap served) = 0
    BY <1>5, FS_EmptySet
  <2>. QED
    BY <1>2, <1>6, <2>1, <2>2
<1>9. waiters' # <<>> => k < Len(waiters)
  BY <1>2, <1>3, EmptySeq
<1>10. pc' \in [Callers -> Labels]
  BY <1>1 DEF Labels
<1>11. active' \in Nat /\ active' = Cardinality(HoldersOf(pc'))
  BY <1>1, <1>2, <1>8
<1>12. waiters' # <<>> => active' >= n
  BY <1>1, <1>2, <1>9
<1>13. Elements(waiters') = WaitingOf(pc') /\ Elements(waiters') \subseteq Elements(waiters)
  BY <1>3, <1>7
<1>14. /\ k \in 0 .. Len(waiters)
       /\ HoldersOf(pc') = HoldersOf(p) \cup Firsts(waiters, k)
       /\ waiters' = SubSeq(waiters, k + 1, Len(waiters))
       /\ k > 0 => Cardinality(HoldersOf(pc')) <= n
       /\ k < Len(waiters) => Cardinality(HoldersOf(pc')) >= n
  BY <1>1, <1>2, <1>6, <1>8 DEF served
<1>. QED
  BY <1>3, <1>10, <1>11, <1>12, <1>13, <1>14

\* A caller that holds a slot releases it: its slot goes to the front of the line.
LEMMA Releasing ==
    ASSUME QueueInv, NEW c \in Holders, Release(c), UNCHANGED <<limit, gone>>
    PROVE  /\ QueueInv'
           /\ Pool!GiveBack(c)
<1>. DEFINE p == [pc EXCEPT ![c] = "off"]
            a == MoreOf(0, active - 1)
<1>1. /\ TypeOK /\ active = Cardinality(HoldersOf(pc)) /\ c \in HoldersOf(pc)
      /\ Elements(waiters) = WaitingOf(pc) /\ Distinct(waiters)
      /\ \A d \in Elements(waiters) : ~gone[d]
  BY LineFacts DEF QueueInv, SlotsAreHeld, Holders, HoldersOf
<1>2. p \in [Callers -> Labels]
  BY <1>1 DEF TypeOK, Labels
<1>3. HoldersOf(p) = HoldersOf(pc) \ {c} /\ WaitingOf(p) = WaitingOf(pc)
  BY <1>1 DEF TypeOK, HoldersOf, WaitingOf
<1>4. /\ Cardinality(HoldersOf(p)) = active - 1
      /\ active \in Nat /\ active - 1 \in Nat /\ a = active - 1
  <2>1. Cardinality(HoldersOf(pc) \ {c}) = Cardinality(HoldersOf(pc)) - 1
    BY <1>1, FewHolders, FS_RemoveElement
  <2>2. Cardinality(HoldersOf(pc) \ {c}) \in Nat
    BY FewHolders, FS_RemoveElement, FS_CardinalityType
  <2>3. active \in Nat /\ active - 1 \in Nat
    BY <1>1, <2>1, <2>2 DEF TypeOK
  <2>4. a = active - 1
    BY <2>3 DEF MoreOf
  <2>. QED
    BY <1>1, <1>3, <2>1, <2>3, <2>4
<1>5. DrainAt(a, limit, p)
  BY DEF Release
<1>. HIDE DEF p, a
<1>6. /\ active' \in Nat /\ waiters' \in Seq(Callers) /\ pc' \in [Callers -> Labels]
      /\ active' = Cardinality(HoldersOf(pc'))
      /\ waiters' # <<>> => active' >= limit
      /\ Elements(waiters') = WaitingOf(pc') /\ Distinct(waiters')
      /\ Elements(waiters') \subseteq Elements(waiters)
      /\ \E k \in 0 .. Len(waiters) :
            /\ HoldersOf(pc') = HoldersOf(p) \cup Firsts(waiters, k)
            /\ waiters' = SubSeq(waiters, k + 1, Len(waiters))
            /\ k > 0 => Cardinality(HoldersOf(pc')) <= limit
            /\ k < Len(waiters) => Cardinality(HoldersOf(pc')) >= limit
  BY <1>1, <1>2, <1>3, <1>4, <1>5, Draining DEF TypeOK
<1>7. TypeOK'
  BY <1>1, <1>6 DEF TypeOK
<1>8. SlotsAreHeld' /\ NoIdleSlot'
  BY <1>6 DEF SlotsAreHeld, NoIdleSlot, Holders, HoldersOf
<1>9. LineIsExact'
  BY <1>1, <1>6 DEF LineIsExact, Elements, WaitingOf, Distinct
<1>10. Pool!GiveBack(c)
  <2>1. Holders = HoldersOf(pc) /\ Holders' = HoldersOf(pc')
    BY DEF Holders, HoldersOf
  <2>2. Pool!Serves(Holders \ {c}, limit)
    BY <1>3, <1>6, <2>1, PoolCardinality DEF Pool!Serves, Firsts
  <2>. QED
    BY <2>2 DEF Pool!GiveBack
<1>. QED
  BY <1>7, <1>8, <1>9, <1>10 DEF QueueInv

\* A step that moves c alone, to a place where it neither waits nor holds a slot
\* unless it did before.
LEMMA Moving ==
    ASSUME QueueInv, NEW c \in Callers, NEW l \in Labels \ {"waiting"},
           pc' = [pc EXCEPT ![c] = l], pc[c] # "waiting",
           c \in Holders <=> l \in {"granted", "spawning"},
           UNCHANGED <<limit, active, waiters>>,
           gone' \in [Callers -> BOOLEAN],
           \A d \in Callers \ {c} : gone'[d] = gone[d]
    PROVE  QueueInv' /\ UNCHANGED Pool!poolVars
<1>1. /\ TypeOK /\ active = Cardinality(Holders) /\ NoIdleSlot
      /\ Elements(waiters) = WaitingOf(pc) /\ Distinct(waiters)
      /\ \A d \in Elements(waiters) : ~gone[d]
  BY LineFacts DEF QueueInv, SlotsAreHeld
<1>2. Holders' = Holders /\ WaitingOf(pc') = WaitingOf(pc)
  BY <1>1 DEF TypeOK, Holders, WaitingOf
<1>3. TypeOK'
  BY <1>1 DEF TypeOK
<1>4. SlotsAreHeld' /\ NoIdleSlot'
  BY <1>1, <1>2 DEF SlotsAreHeld, NoIdleSlot
<1>5. \A d \in Elements(waiters) : d \in Callers \ {c}
  BY <1>1 DEF WaitingOf
<1>6. LineIsExact'
  BY <1>1, <1>2, <1>5 DEF LineIsExact, Elements, WaitingOf, Distinct
<1>7. UNCHANGED Pool!poolVars
  BY <1>2 DEF Pool!poolVars
<1>. QED
  BY <1>3, <1>4, <1>6, <1>7 DEF QueueInv

\* A caller takes a free slot, or joins the line behind a full pool.
LEMMA Asking ==
    ASSUME QueueInv, NEW c \in Callers, AskGranted(c) \/ AskWaits(c)
    PROVE  QueueInv' /\ (Pool!Take(c) \/ Pool!Enter(c))
<1>1. /\ TypeOK /\ active = Cardinality(Holders) /\ NoIdleSlot
      /\ Elements(waiters) = WaitingOf(pc) /\ Distinct(waiters)
      /\ \A d \in Elements(waiters) : ~gone[d]
  BY LineFacts DEF QueueInv, SlotsAreHeld
<1>2. c \notin Holders \cup Elements(waiters) /\ pc[c] = "starting" /\ ~gone[c]
  BY <1>1 DEF Holders, WaitingOf, AskGranted, AskWaits
<1>3. CASE AskGranted(c)
  <2>1. Holders' = Holders \cup {c} /\ WaitingOf(pc') = WaitingOf(pc)
    BY <1>1, <1>2, <1>3 DEF AskGranted, TypeOK, Holders, WaitingOf
  <2>2. Cardinality(Holders \cup {c}) = Cardinality(Holders) + 1
    <3>1. IsFiniteSet(Holders)
      BY FS_Subset DEF Holders
    <3>. QED
      BY <1>2, <3>1, FS_AddElement
  <2>3. TypeOK'
    BY <1>1, <1>3 DEF AskGranted, TypeOK, Labels
  <2>4. SlotsAreHeld'
    BY <1>1, <1>3, <2>1, <2>2 DEF AskGranted, SlotsAreHeld
  <2>5. waiters = <<>> /\ waiters' = <<>> /\ gone' = gone
    BY <1>1, <1>3 DEF AskGranted, NoIdleSlot, TypeOK
  <2>6. NoIdleSlot'
    BY <2>5 DEF NoIdleSlot
  <2>7. LineIsExact'
    BY <1>1, <1>3, <2>1 DEF AskGranted, LineIsExact, Elements, WaitingOf, Distinct
  <2>8. Pool!Take(c)
    BY <1>1, <1>2, <1>3, <2>1, PoolCardinality
       DEF AskGranted, Pool!Take, Pool!InLine, Elements
  <2>. QED
    BY <2>3, <2>4, <2>6, <2>7, <2>8 DEF QueueInv
<1>4. CASE AskWaits(c)
  <2>. DEFINE n == Len(waiters)
  <2>1. /\ waiters' = Append(waiters, c)
        /\ active >= limit
        /\ UNCHANGED <<limit, active, gone>>
        /\ pc' = [pc EXCEPT ![c] = "waiting"]
    BY <1>4 DEF AskWaits
  <2>2. /\ waiters' \in Seq(Callers) /\ Len(waiters') = n + 1 /\ n \in Nat
        /\ \A i \in 1 .. n : waiters'[i] = waiters[i]
        /\ waiters'[n + 1] = c
    BY <1>1, <2>1, AppendProperties, LenProperties DEF TypeOK
  <2>3. Holders' = Holders /\ WaitingOf(pc') = WaitingOf(pc) \cup {c}
    BY <1>1, <1>2, <2>1 DEF TypeOK, Holders, WaitingOf
  <2>4. TypeOK'
    BY <1>1, <2>1, <2>2 DEF TypeOK, Labels
  <2>5. SlotsAreHeld' /\ NoIdleSlot'
    BY <1>1, <2>1, <2>3 DEF SlotsAreHeld, NoIdleSlot
  <2>6. Elements(waiters') = Elements(waiters) \cup {c}
    BY <2>2 DEF Elements
  <2>7. Distinct(waiters')
    BY <1>1, <1>2, <2>2 DEF Distinct, Elements
  <2>8. \A d \in Elements(waiters') : ~gone'[d]
    BY <1>1, <1>2, <2>1, <2>6
  <2>9. LineIsExact'
    BY <1>1, <2>3, <2>6, <2>7, <2>8 DEF LineIsExact, Elements, WaitingOf, Distinct
  <2>10. Pool!Enter(c)
    BY <1>1, <1>2, <2>1, <2>3, PoolCardinality DEF Pool!Enter, Pool!InLine, Elements
  <2>. QED
    BY <2>4, <2>5, <2>9, <2>10 DEF QueueInv
<1>. QED
  BY <1>3, <1>4

\* A pane that is closed while it waits leaves the line.
LEMMA Aborting ==
    ASSUME QueueInv, NEW c \in Panes, Unmount(c), pc[c] = "waiting"
    PROVE  QueueInv' /\ Pool!GiveUp(c)
<1>1. /\ TypeOK /\ active = Cardinality(Holders) /\ NoIdleSlot
      /\ Elements(waiters) = WaitingOf(pc) /\ Distinct(waiters)
      /\ \A d \in Elements(waiters) : ~gone[d]
  BY LineFacts DEF QueueInv, SlotsAreHeld
<1>2. PICK i \in 1 .. Len(waiters) :
          /\ waiters[i] = c
          /\ waiters' = RemoveAt(waiters, i)
          /\ pc' = [pc EXCEPT ![c] = "refused"]
          /\ gone' = [gone EXCEPT ![c] = TRUE]
          /\ UNCHANGED <<limit, active>>
  BY DEF Unmount, TakenOut
<1>3. /\ waiters' \in Seq(Callers) /\ Distinct(waiters')
      /\ Elements(waiters') = Elements(waiters) \ {c}
      /\ waiters' # <<>> => waiters # <<>>
  BY <1>1, <1>2, RemovedAt DEF TypeOK
<1>4. c \in Callers
  BY DEF Callers
<1>5. Holders' = Holders /\ WaitingOf(pc') = WaitingOf(pc) \ {c}
  BY <1>1, <1>2, <1>4 DEF TypeOK, Holders, WaitingOf
<1>6. TypeOK'
  BY <1>1, <1>2, <1>3 DEF TypeOK, Labels
<1>7. SlotsAreHeld' /\ NoIdleSlot'
  BY <1>1, <1>2, <1>3, <1>5 DEF SlotsAreHeld, NoIdleSlot
<1>8. \A d \in Elements(waiters') : ~gone'[d]
  <2>1. \A d \in Elements(waiters') : d \in Callers \ {c}
    BY <1>1, <1>3 DEF WaitingOf
  <2>. QED
    BY <1>1, <1>2, <1>3, <2>1 DEF TypeOK
<1>9. LineIsExact'
  BY <1>1, <1>3, <1>5, <1>8 DEF LineIsExact, Elements, WaitingOf, Distinct
<1>10. Pool!GiveUp(c)
  BY <1>2, <1>5, PoolRemoveAt DEF Pool!GiveUp
<1>. QED
  BY <1>6, <1>7, <1>9, <1>10 DEF QueueInv

\* A new limit lets in as many as it has room for.
LEMMA Resizing ==
    ASSUME QueueInv, NEW m \in Sizes, SetLimit(m)
    PROVE  QueueInv' /\ Pool!Resize(OneOrMore(m))
<1>. DEFINE n == OneOrMore(m)
<1>1. /\ TypeOK /\ active = Cardinality(HoldersOf(pc))
      /\ Elements(waiters) = WaitingOf(pc) /\ Distinct(waiters)
      /\ \A d \in Elements(waiters) : ~gone[d]
  BY LineFacts DEF QueueInv, SlotsAreHeld, Holders, HoldersOf
<1>2. n \in Nat \ {0}
  BY DEF OneOrMore, MoreOf
<1>3. limit' = n /\ DrainAt(active, n, pc) /\ gone' = gone
  BY DEF SetLimit
<1>. HIDE DEF n
<1>4. /\ active' \in Nat /\ waiters' \in Seq(Callers) /\ pc' \in [Callers -> Labels]
      /\ active' = Cardinality(HoldersOf(pc'))
      /\ waiters' # <<>> => active' >= n
      /\ Elements(waiters') = WaitingOf(pc') /\ Distinct(waiters')
      /\ Elements(waiters') \subseteq Elements(waiters)
      /\ \E k \in 0 .. Len(waiters) :
            /\ HoldersOf(pc') = HoldersOf(pc) \cup Firsts(waiters, k)
            /\ waiters' = SubSeq(waiters, k + 1, Len(waiters))
            /\ k > 0 => Cardinality(HoldersOf(pc')) <= n
            /\ k < Len(waiters) => Cardinality(HoldersOf(pc')) >= n
  BY <1>1, <1>2, <1>3, Draining DEF TypeOK
<1>5. TypeOK'
  BY <1>1, <1>2, <1>3, <1>4 DEF TypeOK
<1>6. SlotsAreHeld' /\ NoIdleSlot'
  BY <1>3, <1>4 DEF SlotsAreHeld, NoIdleSlot, Holders, HoldersOf
<1>7. LineIsExact'
  BY <1>1, <1>3, <1>4 DEF LineIsExact, Elements, WaitingOf, Distinct
<1>8. Pool!Resize(n)
  <2>1. Holders = HoldersOf(pc) /\ Holders' = HoldersOf(pc')
    BY DEF Holders, HoldersOf
  <2>2. Pool!Serves(Holders, n)
    BY <1>4, <2>1, PoolCardinality DEF Pool!Serves, Firsts
  <2>. QED
    BY <1>3, <2>2 DEF Pool!Resize
<1>. QED
  BY <1>5, <1>6, <1>7, <1>8 DEF QueueInv, n

-----------------------------------------------------------------------------
LEMMA QueueInvInit == Init => QueueInv /\ Pool!Init
<1>. SUFFICES ASSUME Init PROVE QueueInv /\ Pool!Init
  OBVIOUS
<1>1. Holders = {} /\ WaitingOf(pc) = {} /\ Elements(waiters) = {}
  BY DEF Init, Holders, WaitingOf, Elements
<1>2. TypeOK
  BY DEF Init, TypeOK, Labels
<1>3. SlotsAreHeld
  BY <1>1, FS_EmptySet DEF Init, SlotsAreHeld
<1>4. NoIdleSlot /\ Distinct(waiters)
  BY DEF Init, NoIdleSlot, Distinct
<1>5. LineIsExact
  BY <1>1, <1>4, LineFacts
<1>6. Pool!Init
  BY <1>1 DEF Init, Pool!Init
<1>. QED
  BY <1>2, <1>3, <1>4, <1>5, <1>6 DEF QueueInv

LEMMA QueueStep ==
    ASSUME QueueInv, [Next]_vars
    PROVE  QueueInv' /\ [Pool!Next]_(Pool!poolVars)
<1>1. TypeOK
  BY DEF QueueInv
<1>2. ASSUME NEW c \in Callers, Begin(c) \/ Leave(c) \/ AskAborted(c) \/ Refused(c)
      PROVE  QueueInv' /\ UNCHANGED Pool!poolVars
  <2>1. PICK l \in Labels \ {"waiting"} :
            /\ pc' = [pc EXCEPT ![c] = l]
            /\ pc[c] # "waiting"
            /\ c \notin Holders /\ l \notin {"granted", "spawning"}
    BY <1>2 DEF Begin, Leave, AskAborted, Refused, Labels, Holders
  <2>2. /\ UNCHANGED <<limit, active, waiters>>
        /\ gone' \in [Callers -> BOOLEAN]
        /\ \A d \in Callers \ {c} : gone'[d] = gone[d]
    BY <1>1, <1>2 DEF Begin, Leave, AskAborted, Refused, TypeOK
  <2>. QED
    BY <2>1, <2>2, Moving
<1>3. ASSUME NEW c \in Callers, AskGranted(c) \/ AskWaits(c)
      PROVE  QueueInv' /\ Pool!Next
  BY <1>3, Asking DEF Pool!Next
<1>4. ASSUME NEW c \in Callers, Unmount(c)
      PROVE  QueueInv' /\ [Pool!Next]_(Pool!poolVars)
  <2>1. CASE pc[c] = "waiting"
    <3>1. QueueInv' /\ Pool!GiveUp(c)
      BY <1>4, <2>1, Aborting DEF Unmount
    <3>. QED
      BY <3>1 DEF Pool!Next
  <2>2. CASE pc[c] # "waiting"
    <3>1. \A i \in 1 .. Len(waiters) : waiters[i] # c
      BY <2>2, LineFacts DEF QueueInv, Elements, WaitingOf
    <3>2. /\ UNCHANGED <<limit, active, waiters, pc>>
          /\ gone' = [gone EXCEPT ![c] = TRUE]
      BY <1>4, <2>2, <3>1 DEF Unmount
    <3>3. pc' = [pc EXCEPT ![c] = pc[c]] /\ pc[c] \in Labels \ {"waiting"}
      BY <1>1, <2>2, <3>2 DEF TypeOK
    <3>4. c \in Holders <=> pc[c] \in {"granted", "spawning"}
      BY DEF Holders
    <3>5. gone' \in [Callers -> BOOLEAN] /\ \A d \in Callers \ {c} : gone'[d] = gone[d]
      BY <1>1, <3>2 DEF TypeOK
    <3>. QED
      BY <2>2, <3>2, <3>3, <3>4, <3>5, Moving
  <2>. QED
    BY <2>1, <2>2
<1>5. ASSUME NEW c \in Callers, Resume(c)
      PROVE  QueueInv' /\ [Pool!Next]_(Pool!poolVars)
  <2>1. c \in Holders
    BY <1>5 DEF Resume, Holders
  <2>2. CASE gone[c]
    <3>1. QueueInv' /\ Pool!GiveBack(c)
      BY <1>5, <2>1, <2>2, Releasing DEF Resume
    <3>. QED
      BY <3>1 DEF Pool!Next
  <2>3. CASE ~gone[c]
    <3>1. /\ pc' = [pc EXCEPT ![c] = "spawning"] /\ pc[c] # "waiting"
          /\ UNCHANGED <<limit, active, waiters, gone>>
      BY <1>5, <2>3 DEF Resume
    <3>2. "spawning" \in Labels \ {"waiting"} /\ gone' \in [Callers -> BOOLEAN]
      BY <1>1, <3>1 DEF Labels, TypeOK
    <3>. QED
      BY <2>1, <3>1, <3>2, Moving
  <2>. QED
    BY <2>2, <2>3
<1>6. ASSUME NEW c \in Callers, Settle(c)
      PROVE  QueueInv' /\ Pool!Next
  <2>1. c \in Holders
    BY <1>6 DEF Settle, Holders
  <2>2. QueueInv' /\ Pool!GiveBack(c)
    BY <1>6, <2>1, Releasing DEF Settle
  <2>. QED
    BY <2>2 DEF Pool!Next
<1>7. ASSUME NEW m \in Sizes, SetLimit(m)
      PROVE  QueueInv' /\ Pool!Next
  BY <1>7, Resizing DEF Pool!Next, Limits
<1>8. CASE UNCHANGED vars
  <2>1. QueueInv'
    BY <1>8 DEF vars, QueueInv, TypeOK, SlotsAreHeld, NoIdleSlot, LineIsExact, Holders
  <2>2. UNCHANGED Pool!poolVars
    BY <1>8 DEF vars, Pool!poolVars, Holders
  <2>. QED
    BY <2>1, <2>2
<1>. QED
  BY <1>2, <1>3, <1>4, <1>5, <1>6, <1>7, <1>8 DEF Next, Asks, Continues

-----------------------------------------------------------------------------
(* Every reachable state of the spawn queue is well typed; in particular the *)
(* counter of slots is never negative and the limit never zero.              *)
THEOREM QueueTypeCorrect == Spec => []TypeOK
<1>1. QueueInv => TypeOK
  BY DEF QueueInv
<1>. QED
  BY <1>1, QueueInvInit, QueueStep, PTL DEF Spec

(* The counter `active` of spawnQueue.ts is the number of callers holding a  *)
(* slot: neither a pane closed at any moment nor a failed start loses one.   *)
THEOREM NoSlotIsLost == Spec => []SlotsAreHeld
<1>1. QueueInv => SlotsAreHeld
  BY DEF QueueInv
<1>. QED
  BY <1>1, QueueInvInit, QueueStep, PTL DEF Spec

(* No caller of acquireSpawnSlot waits beside a free slot. *)
THEOREM NobodyWaitsForNothing == Spec => []NoIdleSlot
<1>1. QueueInv => NoIdleSlot
  BY DEF QueueInv
<1>. QED
  BY <1>1, QueueInvInit, QueueStep, PTL DEF Spec

(* The array of waiters is exactly the callers that wait, each once, and no  *)
(* pane whose signal was aborted.                                            *)
THEOREM TheLineIsExact == Spec => []LineIsExact
<1>1. QueueInv => LineIsExact
  BY DEF QueueInv
<1>. QED
  BY <1>1, QueueInvInit, QueueStep, PTL DEF Spec

(* spawnQueue.ts and its users implement a pool of slots with a waiting line *)
(* served from the front: each of their steps is one of the pool's, or none. *)
THEOREM ImplementsPool == Spec => PoolIsKept
BY QueueInvInit, QueueStep, PTL DEF Spec, PoolIsKept, Pool!PoolSpec
=============================================================================
