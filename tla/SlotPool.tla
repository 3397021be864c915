------------------------------ MODULE SlotPool ------------------------------
(* What a pool of slots with a waiting line promises: nobody waits beside a  *)
(* free slot, and slots are given from the front of the line, up to a limit  *)
(* that may change.  It has no counter: who holds a slot is all there is.    *)
EXTENDS Integers, Sequences, FiniteSets, SequencesExt

CONSTANTS Clients, FirstLimit, Limits
VARIABLES limit, holders, line

poolVars == <<limit, holders, line>>

InLine == {line[i] : i \in 1 .. Len(line)}

\* The first k of the line get a slot each, with `base` holding theirs already.
Serves(base, n) ==
    \E k \in 0 .. Len(line) :
        /\ holders' = base \cup {line[i] : i \in 1 .. k}
        /\ line' = SubSeq(line, k + 1, Len(line))
        /\ k > 0 => Cardinality(holders') <= n
        /\ k < Len(line) => Cardinality(holders') >= n

Init == limit = FirstLimit /\ holders = {} /\ line = <<>>

Take(c) ==
    /\ c \notin holders \cup InLine
    /\ Cardinality(holders) < limit
    /\ holders' = holders \cup {c}
    /\ UNCHANGED <<limit, line>>

Enter(c) ==
    /\ c \notin holders \cup InLine
    /\ Cardinality(holders) >= limit
    /\ line' = Append(line, c)
    /\ UNCHANGED <<limit, holders>>

GiveUp(c) ==
    /\ \E i \in 1 .. Len(line) : line[i] = c /\ line' = RemoveAt(line, i)
    /\ UNCHANGED <<limit, holders>>

GiveBack(c) ==
    /\ c \in holders
    /\ Serves(holders \ {c}, limit)
    /\ UNCHANGED limit

Resize(n) ==
    /\ limit' = n
    /\ Serves(holders, n)

Next ==
    \/ \E c \in Clients : Take(c) \/ Enter(c) \/ GiveUp(c) \/ GiveBack(c)
    \/ \E n \in Limits : Resize(n)

PoolSpec == Init /\ [][Next]_poolVars
=============================================================================
