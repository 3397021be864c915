--------------------------- MODULE SyncEngineProofs ---------------------------
(* What SyncEngine keeps for any number of machines, entries, edits and       *)
(* faults: its types, and that the base of a machine is the document the      *)
(* account had at that version.                                               *)
EXTENDS SyncEngine, TLAPS

\* A version and a document that go together, unless there is no document.
FromLog(version, base) ==
    base # NoBase => version \in 1..Len(log) /\ base = log[version]

\* What a machine has on disk, is about to write, or merges against is in the log.
Accounted(m) ==
    /\ FromLog(disk[m].version, disk[m].base)
    /\ FromLog(op[m].state.version, op[m].state.base)
    /\ op[m].at \in {"merge", "put"} /\ op[m].version > 0 =>
         op[m].version \in 1..Len(log) /\ op[m].remote = log[op[m].version]
AllAccounted == lost \/ \A m \in Machines : Accounted(m)

Ops == [at : Steps, state : State, version : Nat, base : Document \cup {NoBase},
        remote : Document, merged : Document, tries : 0..(MAX_ATTEMPTS - 1)]

------------------------------------------------------------------------------
(* The documents. *)

LEMMA EmptyIsDocument == Empty \in Document
BY DEF Empty, Document, Entry

LEMMA NoBaseIsNoDocument == TypeOK => NoBase \notin Document
<1> SUFFICES ASSUME TypeOK, NoBase \in Document PROVE FALSE
    OBVIOUS
<1>1. MaxEdits[scope] \in Nat
    BY SyncAssumption DEF TypeOK
<1>2. Entry \subseteq Nat \cup {Absent}
    BY <1>1 DEF Entry, Value
<1>3. Document \subseteq [vals : [Keys -> Nat \cup {Absent}], on : [Keys -> SUBSET Machines]]
    BY <1>2 DEF Document
<1> QED
    BY <1>3, SyncAssumption

LEMMA RemoteIsDocument == TypeOK => Remote \in Document
BY EmptyIsDocument DEF TypeOK, Remote

LEMMA BaseValIsEntry ==
    ASSUME NEW b \in Document \cup {NoBase}, NEW k \in Keys
    PROVE  BaseVal(b, k) \in Entry /\ BaseOn(b, k) \subseteq Machines
BY DEF BaseVal, BaseOn, Document, Entry

\* The value merged for an entry is one that one side has, or none.
LEMMA MergedEntry ==
    ASSUME NEW b, NEW l \in Entry, NEW r \in Entry, NEW has \in BOOLEAN
    PROVE  /\ Field(b, l, r, has) \in Entry
           /\ Preference(b, l, r, has) \in Entry
           /\ Keyed(b, l, r) \in Entry
<1>1. Absent \in Entry
    BY DEF Entry
<1>2. Field(b, l, r, has) \in Entry /\ Field(b, l, r, b # Absent) \in Entry
    BY DEF Field
<1>3. Preference(b, l, r, has) \in Entry
    BY <1>2 DEF Preference
<1>4. CASE l # Absent /\ r # Absent
    <2>1. Keyed(b, l, r) = Field(b, l, r, b # Absent)
        BY <1>4 DEF Keyed
    <2> QED
        BY <1>2, <1>3, <2>1
<1>5. CASE l # Absent /\ r = Absent
    <2>1. Keyed(b, l, r) = IF l = b THEN Absent ELSE l
        BY <1>5 DEF Keyed
    <2> QED
        BY <1>1, <1>2, <1>3, <2>1
<1>6. CASE l = Absent
    <2>1. Keyed(b, l, r) = IF r = b THEN Absent ELSE r
        BY <1>6 DEF Keyed
    <2> QED
        BY <1>1, <1>2, <1>3, <2>1
<1> QED
    BY <1>4, <1>5, <1>6

LEMMA MergedSettings ==
    ASSUME NEW b \in Document \cup {NoBase}, NEW l \in Document, NEW r \in Document
    PROVE  MergeSettings(b, l, r) \in Document
<1>1. \A k \in Keys : l.vals[k] \in Entry /\ r.vals[k] \in Entry
    BY DEF Document
<1>2. \A k \in Keys : Preference(BaseVal(b, k), l.vals[k], r.vals[k], b # NoBase) \in Entry
    BY <1>1, MergedEntry
<1>3. Empty.on \in [Keys -> SUBSET Machines]
    BY DEF Empty
<1> QED
    BY <1>2, <1>3 DEF MergeSettings, Document

LEMMA MergedTooling ==
    ASSUME NEW b \in Document \cup {NoBase}, NEW l \in Document, NEW r \in Document
    PROVE  MergeTooling(b, l, r) \in Document
<1>1. \A k \in Keys : l.vals[k] \in Entry /\ r.vals[k] \in Entry
    BY DEF Document
<1>2. \A k \in Keys : Keyed(BaseVal(b, k), l.vals[k], r.vals[k]) \in Entry
    BY <1>1, MergedEntry
<1>3. Empty.on \in [Keys -> SUBSET Machines]
    BY DEF Empty
<1> QED
    BY <1>2, <1>3 DEF MergeTooling, Document

LEMMA MergedProjects ==
    ASSUME NEW b \in Document \cup {NoBase}, NEW l \in Document, NEW r \in Document
    PROVE  MergeProjects(b, l, r) \in Document
<1>1. \A k \in Keys : /\ l.vals[k] \in Entry /\ r.vals[k] \in Entry
                      /\ l.on[k] \subseteq Machines /\ r.on[k] \subseteq Machines
    BY DEF Document
<1>2. \A k \in Keys :
        Field(BaseVal(b, k), l.vals[k], r.vals[k], BaseVal(b, k) # Absent) \in Entry
    BY <1>1, MergedEntry
<1>3. \A k \in Keys : Bindings(BaseOn(b, k), l.on[k], r.on[k]) \subseteq Machines
    BY <1>1 DEF Bindings
<1>4. Absent \in Entry
    BY DEF Entry
<1> QED
    BY <1>1, <1>2, <1>3, <1>4 DEF MergeProjects, Document

LEMMA SettledIsDocument ==
    ASSUME NEW d \in Document, NEW l \in Document, NEW m \in Machines
    PROVE  Settled(d, l, m) \in Document
<1>1. \A k \in Keys : /\ d.vals[k] \in Entry /\ l.vals[k] \in Entry
                      /\ d.on[k] \subseteq Machines /\ l.on[k] \subseteq Machines
    BY DEF Document
<1>2. Absent \in Entry
    BY DEF Entry
<1> QED
    BY <1>1, <1>2 DEF Settled, Document

LEMMA CollectedIsDocument ==
    ASSUME TypeOK, NEW m \in Machines
    PROVE  Collected(m) \in Document
<1>1. op[m] \in Ops /\ local[m] \in [Keys -> Entry] /\ kept[m] \subseteq Keys
    BY DEF TypeOK, Ops
<1>2. /\ op[m].remote \in Document /\ op[m].base \in Document \cup {NoBase}
      /\ op[m].state.forget \subseteq Machines
    BY <1>1 DEF Ops, State
<1>3. Drop(m) \subseteq Machines
    BY <1>2 DEF Drop
<1>4. Empty.on \in [Keys -> SUBSET Machines] /\ Absent \in Entry
    BY DEF Empty, Entry
<1>5. CASE scope # "projects"
    BY <1>1, <1>4, <1>5 DEF Collected, Document
<1>6. CASE scope = "projects"
    <2> DEFINE prior(k) == IF BaseVal(op[m].base, k) # Absent THEN op[m].base ELSE op[m].remote
    <2>1. ASSUME NEW k \in Keys PROVE prior(k) \in Document
        <3>1. CASE op[m].base = NoBase
            BY <1>2, <3>1 DEF BaseVal
        <3>2. CASE op[m].base # NoBase
            BY <1>2, <3>2
        <3> QED
            BY <3>1, <3>2
    <2>2. \A k \in Keys : /\ prior(k).vals[k] \in Entry /\ prior(k).on[k] \subseteq Machines
                          /\ op[m].remote.vals[k] \in Entry /\ local[m][k] \in Entry
        BY <1>1, <1>2, <2>1 DEF Document
    <2> HIDE DEF prior
    <2> DEFINE others(k) == prior(k).on[k] \ Drop(m)
    <2>3. \A k \in Keys : others(k) \subseteq Machines
        BY <2>2
    <2> HIDE DEF others
    <2> DEFINE held(k) == local[m][k] # Absent
               vals == [k \in Keys |->
                 IF held(k) /\ (k \notin kept[m] \/ prior(k).vals[k] = Absent)
                 THEN local[m][k]
                 ELSE IF held(k) \/ op[m].remote.vals[k] # Absent THEN prior(k).vals[k]
                 ELSE Absent]
               on == [k \in Keys |->
                 IF held(k) THEN others(k) \cup {m}
                 ELSE IF op[m].remote.vals[k] # Absent THEN others(k) ELSE {}]
    <2>4. vals \in [Keys -> Entry]
        BY <1>4, <2>2
    <2>5. on \in [Keys -> SUBSET Machines]
        BY <2>3
    <2>6. Collected(m) = [vals |-> vals, on |-> on]
        BY <1>6 DEF Collected, prior, others
    <2> QED
        BY <2>4, <2>5, <2>6 DEF Document
<1> QED
    BY <1>5, <1>6

LEMMA MergedIsDocument ==
    ASSUME TypeOK, NEW m \in Machines, SyncAssumption
    PROVE  /\ Merged(m, Collected(m)) \in Document
           /\ Applied(m, Collected(m), Merged(m, Collected(m))) \in [Keys -> Entry]
<1> DEFINE view == Collected(m)
<1>1. view \in Document
    BY CollectedIsDocument
<1>2. op[m].remote \in Document /\ op[m].base \in Document \cup {NoBase}
    BY DEF TypeOK
<1>3. local[m] \in [Keys -> Entry] /\ scope \in {"settings", "tooling", "projects"}
    BY SyncAssumption DEF TypeOK
<1> HIDE DEF view
<1> DEFINE merged == Merged(m, view)
<1>4. CASE scope = "settings"
    <2>1. merged = MergeSettings(op[m].base, view, op[m].remote)
        BY <1>4 DEF Merged
    <2>2. merged \in Document
        BY <1>1, <1>2, <2>1, MergedSettings
    <2> HIDE DEF merged
    <2>3. Applied(m, view, merged) =
            [k \in Keys |-> IF merged.vals[k] # Absent THEN merged.vals[k] ELSE local[m][k]]
        BY <1>4 DEF Applied
    <2>4. Applied(m, view, merged) \in [Keys -> Entry]
        BY <1>3, <2>2, <2>3 DEF Document
    <2> QED
        BY <2>2, <2>4 DEF merged, view
<1>5. CASE scope = "tooling"
    <2>1. merged = MergeTooling(op[m].base, view, op[m].remote)
        BY <1>5 DEF Merged
    <2>2. merged \in Document
        BY <1>1, <1>2, <2>1, MergedTooling
    <2> HIDE DEF merged
    <2>3. Applied(m, view, merged) = merged.vals
        BY <1>5 DEF Applied
    <2>4. Applied(m, view, merged) \in [Keys -> Entry]
        BY <2>2, <2>3 DEF Document
    <2> QED
        BY <2>2, <2>4 DEF merged, view
<1>6. CASE scope = "projects"
    <2>1. merged = Settled(MergeProjects(op[m].base, view, op[m].remote), view, m)
        BY <1>6 DEF Merged
    <2>5. MergeProjects(op[m].base, view, op[m].remote) \in Document
        BY <1>1, <1>2, MergedProjects
    <2> HIDE DEF view
    <2>2. merged \in Document
        BY <1>1, <2>1, <2>5, SettledIsDocument
    <2> HIDE DEF merged
    <2>3. Applied(m, view, merged) = [k \in Keys |->
            IF local[m][k] # Absent /\ m \in view.on[k] /\ k \notin kept[m]
            THEN merged.vals[k] ELSE local[m][k]]
        BY <1>6 DEF Applied
    <2>4. Applied(m, view, merged) \in [Keys -> Entry]
        BY <1>3, <2>2, <2>3 DEF Document
    <2> QED
        BY <2>2, <2>4 DEF merged, view
<1> QED
    BY <1>3, <1>4, <1>5, <1>6

------------------------------------------------------------------------------
(* The steps. *)

\* What the actions of the user share.
LEMMA UserTypes ==
    ASSUME TypeOK, NEW m \in Machines, edits < MaxEdits[scope], edits' = edits + 1,
           lagging' \in {lagging, lagging \cup {m}},
           UNCHANGED <<scope, log, stored, faults, lost>>,
           local' \in [Machines -> [Keys -> Entry]], kept' \in [Machines -> SUBSET Keys],
           disk' \in [Machines -> State], op' \in [Machines -> Ops],
           removed' \subseteq Keys, private' \subseteq Override
    PROVE  TypeOK'
<1>1. MaxEdits[scope] \in Nat
    BY SyncAssumption DEF TypeOK
<1>2. edits' \in 0..MaxEdits[scope]
    BY <1>1 DEF TypeOK
<1>3. UNCHANGED <<Entry, Value, Document, Store, State, Override>>
    BY DEF Entry, Value, Document, Store, State, Override
<1>4. log' \in Seq(Document') /\ stored' \in [Machines -> Store'] /\ disk' \in [Machines -> State']
    BY <1>3 DEF TypeOK
<1>5. lagging' \subseteq Machines
    BY DEF TypeOK
<1>6. /\ scope' \in Scopes /\ faults' \in 0..MaxFaults /\ lost' \in BOOLEAN
      /\ edits' \in 0..MaxEdits[scope']
    BY <1>2 DEF TypeOK
<1> QED
    BY <1>3, <1>4, <1>5, <1>6 DEF TypeOK, Ops

LEMMA NewValue ==
    ASSUME TypeOK, edits < MaxEdits[scope]
    PROVE  edits + 1 \in Value /\ edits + 1 \in Entry
<1>1. MaxEdits[scope] \in Nat /\ edits \in Nat
    BY SyncAssumption DEF TypeOK
<1> QED
    BY <1>1 DEF Value, Entry

LEMMA BaseOnDisk ==
    ASSUME TypeOK, NEW m \in Machines, NEW k \in Keys
    PROVE  BaseVal(disk[m].base, k) \in Entry
<1>1. disk[m].base \in Document \cup {NoBase}
    BY DEF TypeOK, State
<1> QED
    BY <1>1, BaseValIsEntry

LEMMA UserKeepsTypes ==
    ASSUME TypeOK, NEW m \in Machines, UserOf(m)
    PROVE  TypeOK'
<1>0. local \in [Machines -> [Keys -> Entry]] /\ kept \in [Machines -> SUBSET Keys]
      /\ disk \in [Machines -> State] /\ op \in [Machines -> Ops]
      /\ removed \subseteq Keys /\ private \subseteq Override /\ Absent \in Entry
    BY DEF TypeOK, Ops, Entry
<1>1. ASSUME NEW k \in Keys, Edit(m, k) PROVE TypeOK'
    <2>1. edits + 1 \in Value /\ edits + 1 \in Entry
        BY <1>1, NewValue DEF Edit, Acts
    <2>2. local' \in [Machines -> [Keys -> Entry]]
        BY <1>0, <1>1, <2>1 DEF Edit, Sets
    <2>3. private' \subseteq Override
        <3>1. Version \in Nat
            BY DEF TypeOK, Version
        <3>2. [key |-> k, val |-> edits + 1, since |-> Version] \in Override
            BY <2>1, <3>1 DEF Override
        <3> QED
            BY <1>0, <1>1, <3>2 DEF Edit
    <2> QED
        BY <1>0, <1>1, <2>2, <2>3, UserTypes DEF Edit, Acts
<1>2. ASSUME NEW k \in Keys, Remove(m, k) PROVE TypeOK'
    <2>1. /\ local' \in [Machines -> [Keys -> Entry]] /\ kept' \in [Machines -> SUBSET Keys]
          /\ removed' \subseteq Keys
        BY <1>0, <1>2 DEF Remove, Sets
    <2> QED
        BY <1>0, <1>2, <2>1, UserTypes DEF Remove, Acts
<1>3. ASSUME NEW k \in Keys, Keep(m, k) PROVE TypeOK'
    <2>1. kept' \in [Machines -> SUBSET Keys] /\ private' \subseteq Override
        BY <1>0, <1>3 DEF Keep, Shares
    <2> QED
        BY <1>0, <1>3, <2>1, UserTypes DEF Keep, Acts
<1>4. ASSUME NEW k \in Keys, Adopt(m, k) PROVE TypeOK'
    <2>1. /\ local' \in [Machines -> [Keys -> Entry]] /\ kept' \in [Machines -> SUBSET Keys]
          /\ private' \subseteq Override
        <3>1. BaseVal(disk[m].base, k) \in Entry
            BY BaseOnDisk
        <3>2. kept' \in [Machines -> SUBSET Keys]
            BY <1>0, <1>4 DEF Adopt
        <3>3. \/ local' = [local EXCEPT ![m][k] = BaseVal(disk[m].base, k)] /\ private' = private
              \/ private' \subseteq private /\ local' = local
            BY <1>4 DEF Adopt, Sets, Shares
        <3> QED
            BY <1>0, <3>1, <3>2, <3>3
    <2> QED
        BY <1>0, <1>4, <2>1, UserTypes DEF Adopt, Acts
<1>5. ASSUME NEW k \in Keys, AddHere(m, k) PROVE TypeOK'
    <2>1. local' \in [Machines -> [Keys -> Entry]]
        BY <1>0, <1>5, BaseOnDisk DEF AddHere, Sets
    <2> QED
        BY <1>0, <1>5, <2>1, UserTypes DEF AddHere, Acts
<1>6. ASSUME NEW other \in Machines, Forget(m, other) PROVE TypeOK'
    <2>1. disk' \in [Machines -> State]
        BY <1>0, <1>6 DEF Forget, State
    <2> QED
        BY <1>0, <1>6, <2>1, UserTypes DEF Forget, Acts
<1>7. ASSUME NEW other \in Machines, WriteIsUndone(m, other) PROVE TypeOK'
    <2>1. Idle \in Ops
        BY EmptyIsDocument DEF Idle, NoState, Ops, Steps, State, MAX_ATTEMPTS
    <2>2. disk' \in [Machines -> State] /\ op' \in [Machines -> Ops]
        BY <1>0, <1>7, <2>1 DEF WriteIsUndone, State
    <2> QED
        BY <1>0, <1>7, <2>2, UserTypes DEF WriteIsUndone
<1> QED
    BY <1>1, <1>2, <1>3, <1>4, <1>5, <1>6, <1>7 DEF UserOf

\* What the actions of the engine share.
LEMMA SyncTypes ==
    ASSUME TypeOK, NEW m \in Machines, NEW next \in Ops, Syncs(m, next),
           log' \in Seq(Document), local' \in [Machines -> [Keys -> Entry]],
           disk' \in [Machines -> State], lagging' \subseteq Machines
    PROVE  TypeOK'
<1>1. op' \in [Machines -> Ops]
    BY DEF Syncs, TypeOK, Ops
<1>2. UNCHANGED <<scope, stored, faults, lost, kept, edits, removed, private>>
    BY DEF Syncs
<1>3. UNCHANGED <<Entry, Value, Document, Store, State, Override>>
    BY <1>2 DEF Entry, Value, Document, Store, State, Override
<1>4. log' \in Seq(Document') /\ stored' \in [Machines -> Store'] /\ disk' \in [Machines -> State']
    BY <1>2, <1>3 DEF TypeOK
<1>5. /\ scope' \in Scopes /\ faults' \in 0..MaxFaults /\ lost' \in BOOLEAN
      /\ edits' \in 0..MaxEdits[scope'] /\ kept' \in [Machines -> SUBSET Keys]
      /\ removed' \subseteq Keys /\ private' \subseteq Override
    BY <1>2 DEF TypeOK
<1> QED
    BY <1>1, <1>3, <1>4, <1>5 DEF TypeOK, Ops

LEMMA IdleIsOp == Idle \in Ops
BY EmptyIsDocument DEF Idle, NoState, Ops, Steps, State, MAX_ATTEMPTS

LEMMA CommittedIsState ==
    ASSUME TypeOK, NEW m \in Machines, NEW v \in Nat, NEW d \in Document
    PROVE  /\ Committed(m, v, d) \in State
           /\ [Idle EXCEPT !.at = "write", !.state = Committed(m, v, d)] \in Ops
<1>1. Committed(m, v, d) \in State
    BY DEF TypeOK, Committed, State
<1> QED
    BY <1>1, IdleIsOp DEF Ops, Steps

LEMMA SyncKeepsTypes ==
    ASSUME TypeOK, NEW m \in Machines, SyncOf(m)
    PROVE  TypeOK'
<1>0. /\ log \in Seq(Document) /\ local \in [Machines -> [Keys -> Entry]]
      /\ disk \in [Machines -> State] /\ op \in [Machines -> Ops] /\ lagging \subseteq Machines
    BY DEF TypeOK, Ops
<1>1. /\ Remote \in Document /\ Version \in Nat /\ Len(log) \in Nat
    BY <1>0, RemoteIsDocument DEF Version
<1>2. ASSUME Start(m) PROVE TypeOK'
    <2> DEFINE s == disk[m]
               next == [at |-> "merge", state |-> s, version |-> Version, merged |-> Empty,
                        tries |-> 0, base |-> IF Version = 0 THEN NoBase ELSE s.base,
                        remote |-> IF s.base # NoBase /\ s.version = Version THEN s.base ELSE Remote]
    <2>1. s \in State /\ s.base \in Document \cup {NoBase}
        BY <1>0 DEF State
    <2>2. next.base \in Document \cup {NoBase} /\ next.remote \in Document
        BY <1>1, <2>1
    <2>3. next \in Ops
        BY <1>1, <2>1, <2>2, EmptyIsDocument DEF Ops, Steps, MAX_ATTEMPTS
    <2>4. Syncs(m, next) /\ UNCHANGED <<log, local, disk, lagging>>
        BY <1>2 DEF Start
    <2> QED
        BY <1>0, <2>3, <2>4, SyncTypes
<1>3. ASSUME Merge(m) PROVE TypeOK'
    <2> DEFINE view == Collected(m)
               merged == Merged(m, view)
               next == IF NothingNew(m, merged)
                       THEN [Idle EXCEPT !.at = "write",
                                         !.state = Committed(m, op[m].version, merged)]
                       ELSE [op[m] EXCEPT !.at = "put", !.merged = merged]
    <2>1. merged \in Document /\ Applied(m, view, merged) \in [Keys -> Entry]
        BY MergedIsDocument, SyncAssumption
    <2>2. /\ local' = [local EXCEPT ![m] = Applied(m, view, merged)]
          /\ Syncs(m, next) /\ UNCHANGED <<log, disk, lagging>>
        BY <1>3 DEF Merge
    <2> HIDE DEF merged
    <2>3. op[m].version \in Nat
        BY <1>0 DEF Ops
    <2>4. next \in Ops
        <3>1. [Idle EXCEPT !.at = "write", !.state = Committed(m, op[m].version, merged)] \in Ops
            BY <2>1, <2>3, CommittedIsState
        <3>2. [op[m] EXCEPT !.at = "put", !.merged = merged] \in Ops
            BY <1>0, <2>1 DEF Ops, Steps
        <3> QED
            BY <3>1, <3>2
    <2>5. local' \in [Machines -> [Keys -> Entry]]
        BY <1>0, <2>1, <2>2
    <2> HIDE DEF next
    <2> QED
        BY <1>0, <2>2, <2>4, <2>5, SyncTypes
<1>4. ASSUME Put(m) PROVE TypeOK'
    <2>1. op[m] \in Ops /\ op[m].merged \in Document /\ op[m].remote \in Document
        BY <1>0 DEF Ops
    <2>2. lagging' \subseteq Machines /\ UNCHANGED <<local, disk>>
        BY <1>0, <1>4 DEF Put
    <2>3. CASE Accepts(m)
        <3> DEFINE next == [Idle EXCEPT !.at = "write",
                                        !.state = Committed(m, Version + 1, op[m].merged)]
        <3>1. log' = Append(log, op[m].merged) /\ Syncs(m, next)
            BY <1>4, <2>3 DEF Put
        <3>0. Version + 1 \in Nat
            BY <1>1
        <3>2. next \in Ops
            BY <2>1, <3>0, CommittedIsState
        <3>3. log' \in Seq(Document)
            BY <1>0, <2>1, <3>1
        <3> HIDE DEF next
        <3> QED
            BY <1>0, <2>2, <3>1, <3>2, <3>3, SyncTypes
    <2>4. CASE ~Accepts(m) /\ op[m].tries + 1 < MAX_ATTEMPTS
        <3> DEFINE next == [op[m] EXCEPT !.at = "merge", !.tries = @ + 1, !.merged = Empty,
                        !.version = Version, !.remote = Remote,
                        !.base = IF Version = 0 THEN NoBase ELSE op[m].remote]
        <3>1. UNCHANGED log /\ Syncs(m, next)
            BY <1>4, <2>4 DEF Put
        <3>2. op[m].tries + 1 \in 0..(MAX_ATTEMPTS - 1)
            BY <2>1, <2>4 DEF Ops, MAX_ATTEMPTS
        <3>3. next \in Ops
            BY <1>1, <2>1, <3>2, EmptyIsDocument DEF Ops, Steps
        <3> HIDE DEF next
        <3> QED
            BY <1>0, <2>2, <3>1, <3>3, SyncTypes
    <2>5. CASE ~Accepts(m) /\ ~(op[m].tries + 1 < MAX_ATTEMPTS)
        <3>1. UNCHANGED log /\ Syncs(m, Idle)
            BY <1>4, <2>5 DEF Put
        <3> QED
            BY <1>0, <2>2, <3>1, IdleIsOp, SyncTypes
    <2> QED
        BY <2>3, <2>4, <2>5
<1>5. ASSUME Write(m) PROVE TypeOK'
    <2>1. disk' \in [Machines -> State]
        BY <1>0, <1>5 DEF Write, Ops
    <2> QED
        BY <1>0, <1>5, <2>1, IdleIsOp, SyncTypes DEF Write
<1> QED
    BY <1>2, <1>3, <1>4, <1>5 DEF SyncOf

\* What the faults share.
LEMMA FaultTypes ==
    ASSUME TypeOK, faults < MaxFaults, faults' = faults + 1,
           UNCHANGED <<scope, stored, disk, edits, private>>, lost' \in BOOLEAN,
           log' \in Seq(Document), local' \in [Machines -> [Keys -> Entry]],
           kept' \in [Machines -> SUBSET Keys], op' \in [Machines -> Ops],
           lagging' \subseteq Machines, removed' \subseteq Keys
    PROVE  TypeOK'
<1>1. UNCHANGED <<Entry, Value, Document, Store, State, Override>>
    BY DEF Entry, Value, Document, Store, State, Override
<1>2. log' \in Seq(Document') /\ stored' \in [Machines -> Store'] /\ disk' \in [Machines -> State']
    BY <1>1 DEF TypeOK
<1>3. faults' \in 0..MaxFaults
    BY SyncAssumption DEF TypeOK
<1>4. /\ scope' \in Scopes /\ edits' \in 0..MaxEdits[scope'] /\ private' \subseteq Override
    BY <1>1 DEF TypeOK
<1> QED
    BY <1>1, <1>2, <1>3, <1>4 DEF TypeOK, Ops

LEMMA FaultsKeepTypes ==
    ASSUME TypeOK, NEW m \in Faulty, Save(m) \/ Fail(m) \/ Crash(m) \/ Lose
    PROVE  TypeOK'
<1>0. /\ log \in Seq(Document) /\ local \in [Machines -> [Keys -> Entry]]
      /\ kept \in [Machines -> SUBSET Keys] /\ stored \in [Machines -> Store]
      /\ op \in [Machines -> Ops] /\ lagging \subseteq Machines /\ removed \subseteq Keys
      /\ m \in Machines
    BY SyncAssumption DEF TypeOK, Ops
<1>1. ASSUME Save(m) PROVE TypeOK'
    <2>1. UNCHANGED <<Entry, Value, Document, Store, State, Override>>
        BY <1>1 DEF Save, Entry, Value, Document, Store, State, Override
    <2>2. [vals |-> local[m], kept |-> kept[m]] \in Store
        BY <1>0 DEF Store
    <2>3. stored' \in [Machines -> Store']
        BY <1>0, <1>1, <2>1, <2>2 DEF Save
    <2> QED
        BY <1>1, <2>1, <2>3 DEF Save, TypeOK, user
<1>2. ASSUME PutMayArrive(m) PROVE log' \in Seq(Document)
    <2>1. op[m].merged \in Document
        BY <1>0 DEF Ops
    <2> QED
        BY <1>0, <1>2, <2>1 DEF PutMayArrive
<1>3. ASSUME Fail(m) PROVE TypeOK'
    <2>1. log' \in Seq(Document) /\ op' \in [Machines -> Ops] /\ lagging' \subseteq Machines
        BY <1>0, <1>2, <1>3, IdleIsOp DEF Fail
    <2> QED
        BY <1>0, <1>3, <2>1, FaultTypes DEF Fail, MayFail, user, TypeOK
<1>4. ASSUME Crash(m) PROVE TypeOK'
    <2>1. log' \in Seq(Document) /\ op' \in [Machines -> Ops] /\ lagging' \subseteq Machines
        BY <1>0, <1>2, <1>4, IdleIsOp DEF Crash
    <2>2. /\ local' \in [Machines -> [Keys -> Entry]] /\ kept' \in [Machines -> SUBSET Keys]
          /\ removed' \subseteq Keys
        BY <1>0, <1>4 DEF Crash, Store
    <2> QED
        BY <1>0, <1>4, <2>1, <2>2, FaultTypes DEF Crash, MayFail, TypeOK
<1>5. ASSUME Lose PROVE TypeOK'
    <2>1. log' \in Seq(Document)
        BY <1>5 DEF Lose
    <2> QED
        BY <1>0, <1>5, <2>1, FaultTypes DEF Lose, MayFail, user
<1> QED
    BY <1>1, <1>3, <1>4, <1>5

LEMMA InitTypes == Init => TypeOK
<1> SUFFICES ASSUME Init PROVE TypeOK
    OBVIOUS
<1>1. scope \in Scopes /\ MaxEdits[scope] \in Nat
    BY SyncAssumption DEF Init
<1>2. local \in [Machines -> [Keys -> Entry]] /\ kept \in [Machines -> SUBSET Keys]
    <2>1. CASE scope = "settings"
        BY <2>1 DEF Init, Entry
    <2>2. CASE scope = "tooling"
        BY <2>2 DEF Init, Entry
    <2>3. CASE scope = "projects"
        BY <2>3 DEF Init, Entry
    <2> QED
        BY <1>1, <2>1, <2>2, <2>3, SyncAssumption
<1>3. stored \in [Machines -> Store]
    BY <1>2 DEF Init, Store
<1>4. disk \in [Machines -> State] /\ op \in [Machines -> Ops] /\ log \in Seq(Document)
    BY IdleIsOp DEF Init, NoState, State
<1>5. /\ edits \in 0..MaxEdits[scope] /\ faults \in 0..MaxFaults /\ lost \in BOOLEAN
      /\ lagging \subseteq Machines /\ removed \subseteq Keys /\ private \subseteq Override
    <2>1. edits = 0 /\ faults = 0 /\ lost = FALSE /\ lagging = {} /\ removed = {} /\ private = {}
        BY Zenon DEF Init
    <2>2. lost \in BOOLEAN
        BY <2>1, Zenon
    <2>3. MaxFaults \in Nat
        BY SyncAssumption
    <2> QED
        BY <1>1, <2>1, <2>2, <2>3
<1> QED
    BY <1>1, <1>2, <1>3, <1>4, <1>5 DEF TypeOK, Ops

LEMMA NextKeepsTypes == TypeOK /\ [Next]_vars => TypeOK'
<1> SUFFICES ASSUME TypeOK, [Next]_vars PROVE TypeOK'
    OBVIOUS
<1>1. CASE Lose
    <2>1. UNCHANGED <<Entry, Value, Document, Store, State, Override>>
        BY <1>1 DEF Lose, user, Entry, Value, Document, Store, State, Override
    <2>2. log' \in Seq(Document') /\ faults' \in 0..MaxFaults
        BY <1>1, SyncAssumption DEF Lose, MayFail, TypeOK
    <2> QED
        BY <1>1, <2>1, <2>2 DEF Lose, TypeOK, user
<1>2. CASE \E m \in Machines : UserOf(m) \/ SyncOf(m)
    BY <1>2, UserKeepsTypes, SyncKeepsTypes
<1>3. CASE \E m \in Faulty : Save(m) \/ Fail(m) \/ Crash(m)
    BY <1>3, FaultsKeepTypes
<1>4. CASE UNCHANGED vars
    <2>1. UNCHANGED <<Entry, Value, Document, Store, State, Override>>
        BY <1>4 DEF vars, Entry, Value, Document, Store, State, Override
    <2> QED
        BY <1>4, <2>1 DEF vars, user, TypeOK
<1> QED
    BY <1>1, <1>2, <1>3, <1>4 DEF Next

\* Every reachable state is well typed: in particular every document a machine
\* keeps, merges or puts, and every base in its sync-state.json, is a document.
THEOREM SyncTypeCorrect == Spec => []TypeOK
BY InitTypes, NextKeepsTypes, PTL DEF Spec

------------------------------------------------------------------------------
(* The base is what was there. *)

\* The log only grows, unless it is lost.
LEMMA Extended ==
    ASSUME TypeOK, NEW d \in Document, log' \in {log, Append(log, d)}
    PROVE  /\ Len(log) \in Nat /\ Len(log') \in Nat /\ Len(log) <= Len(log')
           /\ \A v \in 1..Len(log) : v \in 1..Len(log') /\ log'[v] = log[v]
<1>1. log \in Seq(Document)
    BY DEF TypeOK
<1>2. CASE log' = log
    BY <1>1, <1>2
<1>3. CASE log' = Append(log, d)
    BY <1>1, <1>3
<1> QED
    BY <1>2, <1>3

\* What was accounted for stays so, when the log is extended.
LEMMA StaysAccounted ==
    ASSUME TypeOK, NEW d \in Document, log' \in {log, Append(log, d)},
           NEW m \in Machines, Accounted(m), UNCHANGED <<disk[m], op[m]>>
    PROVE  Accounted(m)'
BY Extended DEF Accounted, FromLog

LEMMA IdleIsAccounted ==
    ASSUME NEW m \in Machines, op'[m] = Idle,
           FromLog(disk[m].version, disk[m].base)'
    PROVE  Accounted(m)'
BY DEF Accounted, FromLog, Idle, NoState

LEMMA SyncAccounts ==
    ASSUME TypeOK, NEW m \in Machines, SyncOf(m), \A n \in Machines : Accounted(n)
    PROVE  \A n \in Machines : Accounted(n)'
<1>0. /\ log \in Seq(Document) /\ disk \in [Machines -> State] /\ op \in [Machines -> Ops]
      /\ op[m] \in Ops /\ disk[m] \in State /\ Accounted(m)
    BY DEF TypeOK, Ops
<1>1. /\ op[m].merged \in Document /\ log' \in {log, Append(log, op[m].merged)}
    BY <1>0 DEF SyncOf, Start, Merge, Put, Write, Ops
<1>2. ASSUME NEW n \in Machines, n # m PROVE Accounted(n)'
    <2>1. UNCHANGED <<disk[n], op[n]>>
        BY <1>0, <1>2 DEF SyncOf, Start, Merge, Put, Write, Syncs
    <2> QED
        BY <1>1, <2>1, StaysAccounted
<1>3. ASSUME Start(m) PROVE Accounted(m)'
    <2> DEFINE s == disk[m]
               remote == IF s.base # NoBase /\ s.version = Version THEN s.base ELSE Remote
    <2>1. /\ op'[m] = [at |-> "merge", state |-> s, version |-> Version, merged |-> Empty,
                       tries |-> 0, base |-> IF Version = 0 THEN NoBase ELSE s.base,
                       remote |-> remote]
          /\ UNCHANGED <<log, disk>>
        BY <1>0, <1>3 DEF Start, Syncs
    <2>2. FromLog(s.version, s.base)
        BY <1>0 DEF Accounted
    <2>3. Version = Len(log) /\ Len(log) \in Nat
        BY <1>0 DEF Version
    <2>4. ASSUME Version > 0 PROVE Version \in 1..Len(log) /\ remote = log[Version]
        <3>1. Version \in 1..Len(log) /\ log # <<>>
            BY <1>0, <2>3, <2>4
        <3>2. Remote = log[Version]
            BY <2>3, <3>1 DEF Remote
        <3> QED
            BY <2>2, <3>1, <3>2 DEF FromLog
    <2> HIDE DEF remote
    <2>5. /\ FromLog(disk[m].version, disk[m].base)'
          /\ FromLog(op[m].state.version, op[m].state.base)'
        BY <2>1, <2>2 DEF FromLog
    <2>6. op'[m].version = Version /\ op'[m].remote = remote
        BY <2>1
    <2> QED
        BY <2>1, <2>4, <2>5, <2>6 DEF Accounted
<1>4. ASSUME Merge(m) PROVE Accounted(m)'
    <2> DEFINE merged == Merged(m, Collected(m))
    <2>1. UNCHANGED <<log, disk>> /\ op[m].at = "merge"
        BY <1>4 DEF Merge
    <2>2. CASE NothingNew(m, merged)
        <3>1. op'[m] = [Idle EXCEPT !.at = "write", !.state = Committed(m, op[m].version, merged)]
            BY <1>0, <1>4, <2>2 DEF Merge, Syncs
        <3>2. op[m].version \in 1..Len(log) /\ merged = log[op[m].version]
            BY <1>0, <2>1, <2>2 DEF Accounted, NothingNew
        <3> HIDE DEF merged
        <3>3. /\ op'[m].at = "write" /\ op'[m].state.version = op[m].version
              /\ op'[m].state.base = merged
            BY <3>1 DEF Committed, Idle
        <3> QED
            BY <1>0, <2>1, <3>2, <3>3 DEF Accounted, FromLog
    <2>3. CASE ~NothingNew(m, merged)
        <3>1. op'[m] = [op[m] EXCEPT !.at = "put", !.merged = merged]
            BY <1>0, <1>4, <2>3 DEF Merge, Syncs
        <3> HIDE DEF merged
        <3>2. /\ op'[m].version = op[m].version /\ op'[m].remote = op[m].remote
              /\ op'[m].state = op[m].state
            BY <1>0, <3>1 DEF Ops
        <3> QED
            BY <1>0, <2>1, <3>2 DEF Accounted, FromLog
    <2> QED
        BY <2>2, <2>3
<1>5. ASSUME Put(m) PROVE Accounted(m)'
    <2>1. disk' = disk /\ FromLog(disk[m].version, disk[m].base)'
        BY <1>0, <1>1, <1>5, Extended DEF Put, Accounted, FromLog
    <2>2. CASE Accepts(m)
        <3>1. /\ log' = Append(log, op[m].merged)
              /\ op'[m] = [Idle EXCEPT !.at = "write",
                                       !.state = Committed(m, Version + 1, op[m].merged)]
            BY <1>0, <1>5, <2>2 DEF Put, Syncs
        <3>2. /\ op'[m].at = "write" /\ op'[m].state.version = Len(log) + 1
              /\ op'[m].state.base = op[m].merged
            BY <3>1 DEF Committed, Idle, Version
        <3>3. Len(log) + 1 \in 1..Len(log') /\ log'[Len(log) + 1] = op[m].merged
            BY <1>0, <1>1, <3>1
        <3> QED
            BY <2>1, <3>2, <3>3 DEF Accounted, FromLog
    <2>3. CASE ~Accepts(m) /\ op[m].tries + 1 < MAX_ATTEMPTS
        <3>1. /\ log' = log
              /\ op'[m] = [op[m] EXCEPT !.at = "merge", !.tries = @ + 1, !.merged = Empty,
                        !.version = Version, !.remote = Remote,
                        !.base = IF Version = 0 THEN NoBase ELSE op[m].remote]
            BY <1>0, <1>5, <2>3 DEF Put, Syncs
        <3>2. op'[m].state = op[m].state /\ op'[m].version = Version /\ op'[m].remote = Remote
            BY <1>0, <3>1 DEF Ops
        <3>3. Version > 0 => Version \in 1..Len(log) /\ Remote = log[Version]
            BY <1>0 DEF Version, Remote
        <3> QED
            BY <1>0, <2>1, <3>1, <3>2, <3>3 DEF Accounted, FromLog
    <2>4. CASE ~Accepts(m) /\ ~(op[m].tries + 1 < MAX_ATTEMPTS)
        <3>1. op'[m] = Idle
            BY <1>0, <1>5, <2>4 DEF Put, Syncs
        <3> QED
            BY <2>1, <3>1, IdleIsAccounted
    <2> QED
        BY <2>2, <2>3, <2>4
<1>6. ASSUME Write(m) PROVE Accounted(m)'
    <2>1. op'[m] = Idle /\ disk'[m] = op[m].state /\ log' = log
        BY <1>0, <1>6 DEF Write, Syncs
    <2>2. FromLog(disk[m].version, disk[m].base)'
        BY <1>0, <2>1 DEF Accounted, FromLog
    <2> QED
        BY <2>1, <2>2, IdleIsAccounted
<1> QED
    BY <1>2, <1>3, <1>4, <1>5, <1>6 DEF SyncOf

LEMMA UserAccounts ==
    ASSUME TypeOK, NEW m \in Machines, UserOf(m), \A n \in Machines : Accounted(n)
    PROVE  \A n \in Machines : Accounted(n)'
<1>0. disk \in [Machines -> State] /\ op \in [Machines -> Ops] /\ log' = log
    BY DEF TypeOK, Ops, UserOf, Edit, Remove, Keep, Adopt, AddHere, Forget, WriteIsUndone, Acts
<1>1. \A n \in Machines : /\ disk'[n].version = disk[n].version
                          /\ disk'[n].base = disk[n].base
    <2>1. disk' = disk \/ \E S : disk' = [disk EXCEPT ![m].forget = S]
        BY DEF UserOf, Edit, Remove, Keep, Adopt, AddHere, Forget, WriteIsUndone
    <2> QED
        BY <1>0, <2>1 DEF State
<1>2. \A n \in Machines : op'[n] = op[n] \/ op'[n] = Idle
    <2>1. op' = op \/ op' = [op EXCEPT ![m] = Idle]
        BY DEF UserOf, Edit, Remove, Keep, Adopt, AddHere, Forget, WriteIsUndone, Acts
    <2> QED
        BY <1>0, <2>1
<1>3. ASSUME NEW n \in Machines PROVE Accounted(n)'
    <2>1. FromLog(disk[n].version, disk[n].base)'
        BY <1>0, <1>1 DEF Accounted, FromLog
    <2>2. CASE op'[n] = op[n]
        BY <1>0, <2>1, <2>2 DEF Accounted, FromLog
    <2>3. CASE op'[n] = Idle
        BY <2>1, <2>3, IdleIsAccounted
    <2> QED
        BY <1>2, <2>2, <2>3
<1> QED
    BY <1>3

LEMMA FaultsAccount ==
    ASSUME TypeOK, NEW m \in Faulty, Save(m) \/ Fail(m) \/ Crash(m),
           \A n \in Machines : Accounted(n)
    PROVE  \A n \in Machines : Accounted(n)'
<1>0. op \in [Machines -> Ops] /\ op[m] \in Ops /\ m \in Machines /\ disk' = disk
    BY SyncAssumption DEF TypeOK, Ops, Save, Fail, Crash
<1>1. /\ op[m].merged \in Document /\ log' \in {log, Append(log, op[m].merged)}
    BY <1>0 DEF Save, Fail, Crash, PutMayArrive, Ops
<1>2. \A n \in Machines : op'[n] = op[n] \/ op'[n] = Idle
    BY <1>0 DEF Save, Fail, Crash
<1>3. ASSUME NEW n \in Machines PROVE Accounted(n)'
    <2>1. FromLog(disk[n].version, disk[n].base)'
        BY <1>0, <1>1, Extended DEF Accounted, FromLog
    <2>2. CASE op'[n] = op[n]
        BY <1>0, <1>1, <2>2, StaysAccounted
    <2>3. CASE op'[n] = Idle
        BY <2>1, <2>3, IdleIsAccounted
    <2> QED
        BY <1>2, <2>2, <2>3
<1> QED
    BY <1>3

LEMMA InitAccounts == Init => AllAccounted
BY DEF Init, AllAccounted, Accounted, FromLog, NoState, Idle

LEMMA NextAccounts == TypeOK /\ AllAccounted /\ [Next]_vars => AllAccounted'
<1> SUFFICES ASSUME TypeOK, AllAccounted, [Next]_vars PROVE AllAccounted'
    OBVIOUS
<1>1. CASE lost
    <2>1. lost'
        BY <1>1 DEF Next, UserOf, SyncOf, Edit, Remove, Keep, Adopt, AddHere, Forget, Acts,
           WriteIsUndone, Start, Merge, Put, Write, Syncs, Save, Fail, Crash, Lose, vars, user
    <2> QED
        BY <2>1 DEF AllAccounted
<1>2. CASE Lose
    BY <1>2 DEF Lose, AllAccounted
<1>3. CASE ~lost /\ \E m \in Machines : UserOf(m) \/ SyncOf(m)
    BY <1>3, UserAccounts, SyncAccounts DEF AllAccounted
<1>4. CASE ~lost /\ \E m \in Faulty : Save(m) \/ Fail(m) \/ Crash(m)
    BY <1>4, FaultsAccount DEF AllAccounted
<1>5. CASE UNCHANGED vars
    BY <1>5 DEF vars, user, AllAccounted, Accounted, FromLog
<1> QED
    BY <1>1, <1>2, <1>3, <1>4, <1>5 DEF Next

\* While the server has lost nothing, the base every machine keeps is the
\* document the account had at that version: the shortcut of syncScope that takes
\* the base for the remote, and every three-way merge, start from a true one.
THEOREM BasesAreTrue == Spec => []BaseIsWhatWasThere
<1>1. AllAccounted => BaseIsWhatWasThere
    BY DEF AllAccounted, Accounted, FromLog, BaseIsWhatWasThere
<1> QED
    BY <1>1, SyncTypeCorrect, InitAccounts, NextAccounts, PTL DEF Spec

------------------------------------------------------------------------------
(* What a step of one machine can change. *)

\* The steps of a machine.
StepOf(m) == UserOf(m) \/ SyncOf(m) \/ (m \in Faulty /\ (Save(m) \/ Fail(m) \/ Crash(m)))

\* What the server has after a step of this machine.
LogAfter(m) == log' = log \/ (Accepts(m) /\ log' = Append(log, op[m].merged))

LEMMA NextIsAStep == Next => Lose \/ \E m \in Machines : StepOf(m)
BY SyncAssumption DEF Next, StepOf

\* A machine leaves the others alone, and adds at most its own put to the log.
LEMMA StepsAreLocal ==
    ASSUME TypeOK, NEW m \in Machines, StepOf(m)
    PROVE  /\ LogAfter(m)
           /\ UNCHANGED <<scope, lost>>
           /\ edits \in Nat /\ edits' \in {edits, edits + 1}
           /\ lagging \subseteq lagging' /\ removed \subseteq removed'
           /\ \A n \in Machines : n # m =>
                UNCHANGED <<local[n], kept[n], stored[n], disk[n], op[n]>>
<1>0. /\ edits \in Nat
      /\ local \in [Machines -> [Keys -> Entry]] /\ kept \in [Machines -> SUBSET Keys]
      /\ stored \in [Machines -> Store] /\ disk \in [Machines -> State] /\ op \in [Machines -> Ops]
    BY DEF TypeOK, Ops
<1>1. CASE UserOf(m)
    <2>1. log' = log /\ UNCHANGED <<scope, lost, stored>> /\ edits' = edits + 1
          /\ lagging \subseteq lagging' /\ removed \subseteq removed'
        BY <1>1 DEF UserOf, Edit, Remove, Keep, Adopt, AddHere, Forget, WriteIsUndone, Acts
    <2>2. /\ local' = local \/ \E k \in Keys, v \in Entry \cup {edits + 1} :
                                 local' = [local EXCEPT ![m][k] = v]
          /\ kept' = kept \/ \E s : kept' = [kept EXCEPT ![m] = s]
          /\ disk' = disk \/ \E s : disk' = [disk EXCEPT ![m].forget = s]
          /\ op' = op \/ op' = [op EXCEPT ![m] = Idle]
        <3>1. ASSUME NEW k \in Keys, Edit(m, k) \/ Remove(m, k) \/ Keep(m, k) \/ AddHere(m, k)
                                     \/ Adopt(m, k)
              PROVE  \/ local' = local
                     \/ \E v \in Entry \cup {edits + 1} : local' = [local EXCEPT ![m][k] = v]
            <4>1. Absent \in Entry /\ BaseVal(disk[m].base, k) \in Entry
                BY BaseOnDisk DEF Entry
            <4> QED
                BY <3>1, <4>1 DEF Edit, Remove, Keep, AddHere, Adopt, Sets
        <3>2. (\E other \in Machines : Forget(m, other) \/ WriteIsUndone(m, other))
                => local' = local
            BY DEF Forget, WriteIsUndone
        <3>3. local' = local \/ \E k \in Keys, v \in Entry \cup {edits + 1} :
                                  local' = [local EXCEPT ![m][k] = v]
            BY <1>1, <3>1, <3>2 DEF UserOf
        <3>4. kept' = kept \/ \E s : kept' = [kept EXCEPT ![m] = s]
            BY <1>1 DEF UserOf, Edit, Remove, Keep, Adopt, AddHere, Forget, WriteIsUndone
        <3>5. disk' = disk \/ \E s : disk' = [disk EXCEPT ![m].forget = s]
            BY <1>1 DEF UserOf, Edit, Remove, Keep, Adopt, AddHere, Forget, WriteIsUndone
        <3>6. op' = op \/ op' = [op EXCEPT ![m] = Idle]
            BY <1>1 DEF UserOf, Edit, Remove, Keep, Adopt, AddHere, Forget, WriteIsUndone, Acts
        <3> QED
            BY <3>3, <3>4, <3>5, <3>6
    <2> QED
        BY <1>0, <2>1, <2>2 DEF LogAfter
<1>2. CASE SyncOf(m)
    <2>1. /\ LogAfter(m) /\ lagging \subseteq lagging'
          /\ UNCHANGED <<scope, lost, stored, kept, edits, removed>>
        BY <1>2 DEF SyncOf, Start, Merge, Put, Write, Syncs, LogAfter
    <2>2. /\ local' = local \/ \E f : local' = [local EXCEPT ![m] = f]
          /\ disk' = disk \/ \E s : disk' = [disk EXCEPT ![m] = s]
          /\ \E o : op' = [op EXCEPT ![m] = o]
        BY <1>2 DEF SyncOf, Start, Merge, Put, Write, Syncs
    <2> QED
        BY <1>0, <2>1, <2>2
<1>3. CASE m \in Faulty /\ (Save(m) \/ Fail(m) \/ Crash(m))
    <2>1. /\ LogAfter(m) /\ lagging \subseteq lagging' /\ removed \subseteq removed'
          /\ UNCHANGED <<scope, lost, edits, disk>>
        BY <1>3 DEF Save, Fail, Crash, PutMayArrive, LogAfter, user
    <2>2. /\ local' = local \/ \E f : local' = [local EXCEPT ![m] = f]
          /\ kept' = kept \/ \E s : kept' = [kept EXCEPT ![m] = s]
          /\ stored' = stored \/ \E s : stored' = [stored EXCEPT ![m] = s]
          /\ op' = op \/ op' = [op EXCEPT ![m] = Idle]
        BY <1>3 DEF Save, Fail, Crash, user
    <2> QED
        BY <1>0, <2>1, <2>2
<1> QED
    BY <1>1, <1>2, <1>3 DEF StepOf

------------------------------------------------------------------------------
(* What a sync makes of one entry. *)

\* The document of this machine's view, and what its store and the document get.
ViewOf(m) == Collected(m)
MergeOf(m) == Merged(m, Collected(m))
AfterMerge(m) == Applied(m, Collected(m), Merged(m, Collected(m)))

LEMMA MergeTypes ==
    ASSUME TypeOK, NEW m \in Machines
    PROVE  /\ ViewOf(m) \in Document /\ MergeOf(m) \in Document
           /\ AfterMerge(m) \in [Keys -> Entry]
           /\ op[m].remote \in Document /\ op[m].base \in Document \cup {NoBase}
           /\ local[m] \in [Keys -> Entry]
<1>1. op[m] \in Ops /\ local[m] \in [Keys -> Entry]
    BY DEF TypeOK, Ops
<1> QED
    BY <1>1, CollectedIsDocument, MergedIsDocument, SyncAssumption
       DEF ViewOf, MergeOf, AfterMerge, Ops

LEMMA SettingsMerge ==
    ASSUME TypeOK, NEW m \in Machines, NEW k \in Keys, scope = "settings"
    PROVE  /\ ViewOf(m).vals[k] = local[m][k]
           /\ MergeOf(m).vals[k] = Preference(BaseVal(op[m].base, k), local[m][k],
                                              op[m].remote.vals[k], op[m].base # NoBase)
           /\ AfterMerge(m)[k] = IF MergeOf(m).vals[k] # Absent THEN MergeOf(m).vals[k]
                                 ELSE local[m][k]
BY DEF ViewOf, MergeOf, AfterMerge, Collected, Merged, Applied, MergeSettings

LEMMA ToolingMerge ==
    ASSUME TypeOK, NEW m \in Machines, NEW k \in Keys, scope = "tooling"
    PROVE  /\ ViewOf(m).vals[k] = local[m][k]
           /\ MergeOf(m).vals[k] = Keyed(BaseVal(op[m].base, k), local[m][k],
                                         op[m].remote.vals[k])
           /\ AfterMerge(m)[k] = MergeOf(m).vals[k]
BY DEF ViewOf, MergeOf, AfterMerge, Collected, Merged, Applied, MergeTooling

\* What this machine says of a project: its own value, unless it keeps it to
\* itself and somebody has another; it lists itself with what it has.
LEMMA ProjectsView ==
    ASSUME TypeOK, NEW m \in Machines, NEW k \in Keys, scope = "projects"
    PROVE  LET prior == IF BaseVal(op[m].base, k) # Absent THEN BaseVal(op[m].base, k)
                        ELSE op[m].remote.vals[k]
           IN  /\ local[m][k] # Absent =>
                    /\ m \in ViewOf(m).on[k] /\ ViewOf(m).vals[k] # Absent
                    /\ ViewOf(m).vals[k] = IF k \notin kept[m] \/ prior = Absent
                                           THEN local[m][k] ELSE prior
               /\ local[m][k] = Absent =>
                    /\ m \notin ViewOf(m).on[k]
                    /\ ViewOf(m).vals[k] = IF op[m].remote.vals[k] # Absent THEN prior
                                           ELSE Absent
<1> DEFINE prior(x) == IF BaseVal(op[m].base, x) # Absent THEN op[m].base ELSE op[m].remote
           others(x) == prior(x).on[x] \ Drop(m)
           held(x) == local[m][x] # Absent
<1>1. Collected(m) = [vals |-> [x \in Keys |->
                 IF held(x) /\ (x \notin kept[m] \/ prior(x).vals[x] = Absent)
                 THEN local[m][x]
                 ELSE IF held(x) \/ op[m].remote.vals[x] # Absent THEN prior(x).vals[x]
                 ELSE Absent],
             on |-> [x \in Keys |->
                 IF held(x) THEN others(x) \cup {m}
                 ELSE IF op[m].remote.vals[x] # Absent THEN others(x) ELSE {}]]
    BY DEF Collected
<1>2. /\ Collected(m).vals[k] =
                 IF held(k) /\ (k \notin kept[m] \/ prior(k).vals[k] = Absent)
                 THEN local[m][k]
                 ELSE IF held(k) \/ op[m].remote.vals[k] # Absent THEN prior(k).vals[k]
                 ELSE Absent
      /\ Collected(m).on[k] =
                 IF held(k) THEN others(k) \cup {m}
                 ELSE IF op[m].remote.vals[k] # Absent THEN others(k) ELSE {}
    BY <1>1
<1>3. prior(k).vals[k] = IF BaseVal(op[m].base, k) # Absent THEN BaseVal(op[m].base, k)
                         ELSE op[m].remote.vals[k]
    BY DEF BaseVal
<1>4. m \notin others(k)
    BY DEF Drop
<1> QED
    BY <1>2, <1>3, <1>4 DEF ViewOf

\* What becomes of a project: the value of one side; never nothing for a project
\* this machine has; and its own only where it differs from the base.
LEMMA ProjectsMerge ==
    ASSUME TypeOK, NEW m \in Machines, NEW k \in Keys, scope = "projects"
    PROVE  LET l == ViewOf(m).vals[k]
               r == op[m].remote.vals[k]
               v == MergeOf(m).vals[k]
           IN  /\ v \in {Absent, l, r}
               /\ m \in ViewOf(m).on[k] /\ l # Absent => v # Absent
               /\ v # Absent /\ v # r /\ r # Absent =>
                    v = l /\ l # BaseVal(op[m].base, k) /\ BaseVal(op[m].base, k) # Absent
               /\ AfterMerge(m)[k] = IF local[m][k] # Absent /\ k \notin kept[m]
                                     THEN v ELSE local[m][k]
<1> DEFINE view == ViewOf(m)
           remote == op[m].remote
           base == op[m].base
           doc == MergeProjects(base, view, remote)
           both == view.vals[k] # Absent /\ remote.vals[k] # Absent
           side == IF view.vals[k] # Absent THEN view ELSE remote
           dropped == ~both /\ SameEntry(base, side, k)
           on == (doc.on[k] \ {m}) \cup (view.on[k] \cap {m})
           stays == doc.vals[k] # Absent /\ on # {}
           v == MergeOf(m).vals[k]
<1>1. MergeOf(m) = Settled(doc, view, m)
    BY DEF MergeOf, Merged, ViewOf
<1>2. doc.vals[k] = IF both THEN Field(BaseVal(base, k), view.vals[k], remote.vals[k],
                                       BaseVal(base, k) # Absent)
                    ELSE IF dropped THEN Absent ELSE side.vals[k]
    BY DEF MergeProjects
<1> HIDE DEF doc
<1>3. v = IF stays THEN doc.vals[k]
          ELSE IF m \in view.on[k] THEN view.vals[k] ELSE Absent
    BY <1>1 DEF Settled
<1> HIDE DEF v
<1>4. AfterMerge(m)[k] = IF local[m][k] # Absent /\ m \in view.on[k] /\ k \notin kept[m]
                         THEN v ELSE local[m][k]
    BY DEF AfterMerge, Applied, ViewOf, MergeOf, v
<1>5. doc.vals[k] \in {Absent, view.vals[k], remote.vals[k]}
    BY <1>2 DEF Field
<1>6. v \in {Absent, view.vals[k], remote.vals[k]}
    BY <1>3, <1>5
<1>7. m \in view.on[k] /\ view.vals[k] # Absent => v # Absent
    BY <1>3
<1>8. ASSUME v # Absent, v # remote.vals[k], remote.vals[k] # Absent
      PROVE  /\ v = view.vals[k] /\ view.vals[k] # BaseVal(base, k)
             /\ BaseVal(base, k) # Absent
    <2>1. v = view.vals[k] /\ both
        BY <1>6, <1>8
    <2>2. doc.vals[k] # Absent
        BY <1>2, <2>1 DEF Field
    <2>3. doc.vals[k] = v
        <3>1. CASE stays
            BY <1>3, <3>1
        <3>2. CASE ~stays
            <4>1. m \notin view.on[k]
                BY <2>2, <3>2
            <4> QED
                BY <1>3, <1>8, <3>2, <4>1
        <3> QED
            BY <3>1, <3>2
    <2> QED
        BY <1>2, <1>8, <2>1, <2>3 DEF Field
<1>9. local[m][k] # Absent => m \in view.on[k]
    BY ProjectsView
<1> QED
    BY <1>4, <1>6, <1>7, <1>8, <1>9 DEF v

\* Nothing comes of a merge that none of its documents or the store said.
LEMMA MergeInvents ==
    ASSUME TypeOK, NEW m \in Machines, NEW k \in Keys
    PROVE  LET from == {Absent, local[m][k], op[m].remote.vals[k], BaseVal(op[m].base, k)}
           IN  MergeOf(m).vals[k] \in from /\ AfterMerge(m)[k] \in from
<1> DEFINE from == {Absent, local[m][k], op[m].remote.vals[k], BaseVal(op[m].base, k)}
<1>1. scope \in {"settings", "tooling", "projects"}
    BY SyncAssumption DEF TypeOK
<1>2. CASE scope = "settings"
    <2>1. MergeOf(m).vals[k] \in {local[m][k], op[m].remote.vals[k]}
        BY <1>2, SettingsMerge DEF Preference, Field
    <2> QED
        BY <1>2, <2>1, SettingsMerge
<1>3. CASE scope = "tooling"
    <2>1. MergeOf(m).vals[k] = Keyed(BaseVal(op[m].base, k), local[m][k], op[m].remote.vals[k])
        BY <1>3, ToolingMerge
    <2>2. Keyed(BaseVal(op[m].base, k), local[m][k], op[m].remote.vals[k])
            \in {Absent, local[m][k], op[m].remote.vals[k]}
        <3> DEFINE b == BaseVal(op[m].base, k)
                   l == local[m][k]
                   r == op[m].remote.vals[k]
        <3> HIDE DEF b, l, r
        <3>1. Field(b, l, r, b # Absent) \in {l, r}
            BY DEF Field
        <3>2. Keyed(b, l, r) \in {Absent, l, r}
            <4>1. CASE l # Absent /\ r # Absent
                BY <3>1, <4>1 DEF Keyed
            <4>2. CASE l # Absent /\ r = Absent
                <5>1. Keyed(b, l, r) = IF l = b THEN Absent ELSE l
                    BY <4>2 DEF Keyed
                <5> QED
                    BY <5>1
            <4>3. CASE l = Absent
                <5>1. Keyed(b, l, r) = IF r = b THEN Absent ELSE r
                    BY <4>3 DEF Keyed
                <5> QED
                    BY <5>1
            <4> QED
                BY <4>1, <4>2, <4>3
        <3> QED
            BY <3>2 DEF b, l, r
    <2> QED
        BY <1>3, <2>1, <2>2, ToolingMerge
<1>4. CASE scope = "projects"
    <2>1. ViewOf(m).vals[k] \in from
        BY <1>4, ProjectsView
    <2>2. MergeOf(m).vals[k] \in {Absent, ViewOf(m).vals[k], op[m].remote.vals[k]}
        BY <1>4, ProjectsMerge
    <2>3. AfterMerge(m)[k] \in {MergeOf(m).vals[k], local[m][k]}
        BY <1>4, ProjectsMerge
    <2> QED
        BY <2>1, <2>2, <2>3
<1> QED
    BY <1>1, <1>2, <1>3, <1>4

------------------------------------------------------------------------------
(* What each step of a sync does to it. *)

LEMMA StartOutcome ==
    ASSUME TypeOK, NEW m \in Machines, Start(m)
    PROVE  /\ op[m].at = "idle" /\ op'[m].at = "merge" /\ op'[m].tries = 0
           /\ op'[m].state = disk[m] /\ op'[m].merged = Empty /\ op'[m].version = Version
           /\ op'[m].base = IF Version = 0 THEN NoBase ELSE disk[m].base
           /\ op'[m].remote = IF disk[m].base # NoBase /\ disk[m].version = Version
                              THEN disk[m].base ELSE Remote
           /\ UNCHANGED <<log, local, disk, stored, kept, lagging, removed, private, edits>>
BY DEF TypeOK, Start, Syncs

LEMMA MergeOutcome ==
    ASSUME TypeOK, NEW m \in Machines, Merge(m)
    PROVE  /\ op[m].at = "merge" /\ local'[m] = AfterMerge(m)
           /\ UNCHANGED <<log, disk, stored, kept, lagging, removed, private, edits>>
           /\ \/ /\ op[m].version > 0 /\ MergeOf(m) = op[m].remote
                 /\ op'[m].at = "write" /\ op'[m].merged = Empty
                 /\ op'[m].state.base = MergeOf(m)
              \/ /\ op'[m].at = "put" /\ op'[m].merged = MergeOf(m)
                 /\ op'[m].version = op[m].version /\ op'[m].state = op[m].state
                 /\ op'[m].base = op[m].base /\ op'[m].remote = op[m].remote
<1> DEFINE merged == Merged(m, Collected(m))
<1>0. op \in [Machines -> Ops] /\ local \in [Machines -> [Keys -> Entry]]
    BY DEF TypeOK, Ops
<1>1. /\ op'[m] = IF NothingNew(m, merged)
            THEN [Idle EXCEPT !.at = "write", !.state = Committed(m, op[m].version, merged)]
            ELSE [op[m] EXCEPT !.at = "put", !.merged = merged]
      /\ local'[m] = AfterMerge(m) /\ op[m].at = "merge"
      /\ UNCHANGED <<log, disk, stored, kept, lagging, removed, private, edits>>
    BY <1>0 DEF Merge, Syncs, AfterMerge
<1>2. merged = MergeOf(m)
    BY DEF MergeOf
<1> HIDE DEF merged
<1>3. CASE NothingNew(m, merged)
    <2>1. op'[m] = [Idle EXCEPT !.at = "write", !.state = Committed(m, op[m].version, merged)]
        BY <1>1, <1>3
    <2>2. /\ op'[m].at = "write" /\ op'[m].merged = Empty /\ op'[m].state.base = merged
        BY <2>1 DEF Idle, Committed
    <2> QED
        BY <1>1, <1>2, <1>3, <2>2 DEF NothingNew
<1>4. CASE ~NothingNew(m, merged)
    <2>1. op'[m] = [op[m] EXCEPT !.at = "put", !.merged = merged]
        BY <1>1, <1>4
    <2>2. /\ op'[m].at = "put" /\ op'[m].merged = merged /\ op'[m].version = op[m].version
          /\ op'[m].state = op[m].state /\ op'[m].base = op[m].base
          /\ op'[m].remote = op[m].remote
        BY <1>0, <2>1 DEF Ops
    <2> QED
        BY <1>1, <1>2, <2>2
<1> QED
    BY <1>3, <1>4

LEMMA PutOutcome ==
    ASSUME TypeOK, NEW m \in Machines, Put(m)
    PROVE  /\ op[m].at = "put"
           /\ UNCHANGED <<local, disk, stored, kept, removed, private, edits>>
           /\ \/ /\ Accepts(m) /\ log' = Append(log, op[m].merged) /\ lagging' = lagging
                 /\ op'[m].at = "write" /\ op'[m].merged = Empty
                 /\ op'[m].state.base = op[m].merged
              \/ /\ ~Accepts(m) /\ log' = log /\ lagging' = lagging
                 /\ op'[m].at = "merge" /\ op'[m].tries = op[m].tries + 1
                 /\ op'[m].merged = Empty /\ op'[m].state = op[m].state
                 /\ op'[m].version = Version /\ op'[m].remote = Remote
                 /\ op'[m].base = IF Version = 0 THEN NoBase ELSE op[m].remote
              \/ ~Accepts(m) /\ log' = log /\ op'[m] = Idle /\ m \in lagging'
<1>0. op \in [Machines -> Ops] /\ op[m] \in Ops
    BY DEF TypeOK, Ops
<1>1. /\ op[m].at = "put"
      /\ UNCHANGED <<local, disk, stored, kept, removed, private, edits>>
    BY DEF Put, Syncs
<1>2. CASE Accepts(m)
    <2> DEFINE s == Committed(m, Version + 1, op[m].merged)
    <2>1. /\ op'[m] = [Idle EXCEPT !.at = "write", !.state = s]
          /\ log' = Append(log, op[m].merged) /\ lagging' = lagging
        BY <1>0, <1>2 DEF Put, Syncs
    <2>2. s.base = op[m].merged
        BY DEF Committed
    <2> HIDE DEF s
    <2>3. op'[m].at = "write" /\ op'[m].merged = Empty /\ op'[m].state = s
        BY <2>1 DEF Idle
    <2> QED
        BY <1>1, <1>2, <2>1, <2>2, <2>3
<1>3. CASE ~Accepts(m) /\ op[m].tries + 1 < MAX_ATTEMPTS
    <2>1. /\ op'[m] = [op[m] EXCEPT !.at = "merge", !.tries = @ + 1, !.merged = Empty,
                        !.version = Version, !.remote = Remote,
                        !.base = IF Version = 0 THEN NoBase ELSE op[m].remote]
          /\ log' = log /\ lagging' = lagging
        BY <1>0, <1>3 DEF Put, Syncs
    <2>2. /\ op'[m].at = "merge" /\ op'[m].tries = op[m].tries + 1
          /\ op'[m].merged = Empty /\ op'[m].state = op[m].state
          /\ op'[m].version = Version /\ op'[m].remote = Remote
          /\ op'[m].base = IF Version = 0 THEN NoBase ELSE op[m].remote
        BY <1>0, <2>1 DEF Ops
    <2> QED
        BY <1>1, <1>3, <2>1, <2>2
<1>4. CASE ~Accepts(m) /\ ~(op[m].tries + 1 < MAX_ATTEMPTS)
    <2>1. op'[m] = Idle /\ log' = log /\ lagging' = lagging \cup {m}
        BY <1>0, <1>4 DEF Put, Syncs
    <2> QED
        BY <1>1, <1>4, <2>1
<1> QED
    BY <1>2, <1>3, <1>4

LEMMA WriteOutcome ==
    ASSUME TypeOK, NEW m \in Machines, Write(m)
    PROVE  /\ op[m].at = "write" /\ op'[m] = Idle /\ disk'[m] = op[m].state
           /\ UNCHANGED <<log, local, stored, kept, lagging, removed, private, edits>>
BY DEF TypeOK, Write, Syncs

\* Any other step of a machine leaves its sync alone or ends it.
LEMMA OtherOutcome ==
    ASSUME TypeOK, NEW m \in Machines, StepOf(m), ~SyncOf(m)
    PROVE  op'[m] = op[m] \/ op'[m] = Idle
<1>1. UserOf(m) => op' = op \/ op' = [op EXCEPT ![m] = Idle]
    BY DEF UserOf, Edit, Remove, Keep, Adopt, AddHere, Forget, WriteIsUndone, Acts
<1>2. Save(m) \/ Fail(m) \/ Crash(m) => op' = op \/ op' = [op EXCEPT ![m] = Idle]
    BY DEF Save, Fail, Crash
<1> QED
    BY <1>1, <1>2 DEF StepOf, TypeOK

------------------------------------------------------------------------------
(* Where the values of an entry come from.  What these say of the account     *)
(* holds while the server has lost nothing.                                   *)

\* A document of this log has this value; a document is one of this log, or none.
Says(lg, k, v) == \E i \in 1..Len(lg) : lg[i].vals[k] = v
Seen(lg, d) == d = NoBase \/ d = Empty \/ \E i \in 1..Len(lg) : d = lg[i]

\* What a sync works with is what the account had.
Syncing(m) == op[m].at \in {"merge", "put"}
AllSeen ==
    lost \/ \A m \in Machines :
        Syncing(m) => Seen(log, op[m].base) /\ Seen(log, op[m].remote)

\* The values a machine has: in its store, saved, or in what it puts.
Holds(m, k, v) == local[m][k] = v \/ stored[m].vals[k] = v \/ op[m].merged.vals[k] = v

\* No value is there before its edit.
UpTo(e, v) == v = Absent \/ v \in 0..e
AllPast ==
    lost \/ /\ \A p \in private : p.val \in 1..edits
            /\ \A k \in Keys : \A v : Says(log, k, v) => UpTo(edits, v)
            /\ \A m \in Machines, k \in Keys : \A v : Holds(m, k, v) => UpTo(edits, v)

\* What two machines have, the account had: it is how one learns it of another.
AllShared ==
    lost \/ \A m, n \in Machines : m # n =>
        \A k \in Keys, v \in 1..edits : Holds(m, k, v) /\ Holds(n, k, v) => Says(log, k, v)

LEMMA SeenSays ==
    ASSUME NEW lg, NEW d, Seen(lg, d), NEW k \in Keys
    PROVE  BaseVal(d, k) = Absent \/ Says(lg, k, BaseVal(d, k))
<1>1. CASE d = NoBase
    BY <1>1 DEF BaseVal
<1>2. CASE d # NoBase /\ d = Empty
    BY <1>2 DEF BaseVal, Empty
<1>3. CASE d # NoBase /\ d # Empty
    BY <1>3 DEF Seen, BaseVal, Says
<1> QED
    BY <1>1, <1>2, <1>3

LEMMA EmptyIsNoBase == TypeOK => Empty # NoBase
BY NoBaseIsNoDocument, EmptyIsDocument

\* The account forgets nothing, and learns at most the put of the machine.
LEMMA LogGrows ==
    ASSUME TypeOK, NEW m \in Machines, LogAfter(m)
    PROVE  /\ Len(log) \in Nat /\ Len(log') \in Nat /\ Len(log) <= Len(log')
           /\ \A i \in 1..Len(log) : i \in 1..Len(log') /\ log'[i] = log[i]
           /\ \A i \in 1..Len(log') :
                i \in 1..Len(log) \/ (Accepts(m) /\ i = Len(log) + 1 /\ log'[i] = op[m].merged)
           /\ \A d : Seen(log, d) => Seen(log', d)
           /\ \A k \in Keys : \A v : Says(log, k, v) => Says(log', k, v)
           /\ \A k \in Keys : \A v : Says(log', k, v) =>
                Says(log, k, v) \/ (Accepts(m) /\ v = op[m].merged.vals[k])
<1>1. log \in Seq(Document) /\ op[m].merged \in Document
    BY DEF TypeOK
<1>2. /\ Len(log) \in Nat /\ Len(log') \in Nat /\ Len(log) <= Len(log')
      /\ \A i \in 1..Len(log) : i \in 1..Len(log') /\ log'[i] = log[i]
    BY <1>1, Extended DEF LogAfter
<1>3. \A i \in 1..Len(log') :
        i \in 1..Len(log) \/ (Accepts(m) /\ i = Len(log) + 1 /\ log'[i] = op[m].merged)
    <2>1. CASE log' = log
        BY <2>1
    <2>2. CASE Accepts(m) /\ log' = Append(log, op[m].merged)
        BY <1>1, <1>2, <2>2
    <2> QED
        BY <2>1, <2>2 DEF LogAfter
<1> QED
    BY <1>2, <1>3 DEF Seen, Says

LEMMA InitSeen == Init => AllSeen
BY DEF Init, AllSeen, Syncing, Idle

LEMMA NextSeen == TypeOK /\ AllAccounted /\ AllSeen /\ [Next]_vars => AllSeen'
<1> SUFFICES ASSUME TypeOK, AllAccounted, AllSeen, [Next]_vars, ~lost' PROVE AllSeen'
    BY DEF AllSeen
<1>1. CASE UNCHANGED vars
    BY <1>1 DEF vars, user, AllSeen, Syncing
<1>2. CASE Lose
    BY <1>2 DEF Lose
<1>3. ASSUME NEW m \in Machines, StepOf(m) PROVE AllSeen'
    <2>1. /\ LogAfter(m) /\ ~lost
          /\ \A n \in Machines : n # m => UNCHANGED op[n]
        BY <1>3, StepsAreLocal
    <2>2. /\ op \in [Machines -> Ops] /\ disk \in [Machines -> State]
          /\ \A d : Seen(log, d) => Seen(log', d)
        BY <2>1, LogGrows DEF TypeOK, Ops
    <2>3. ASSUME NEW n \in Machines, op'[n] = op[n], Syncing(n)'
          PROVE  Seen(log', op'[n].base) /\ Seen(log', op'[n].remote)
        <3>1. Syncing(n)
            BY <2>3 DEF Syncing
        <3>2. Seen(log, op[n].base) /\ Seen(log, op[n].remote)
            BY <2>1, <3>1 DEF AllSeen
        <3> QED
            BY <2>2, <2>3, <3>2
    <2>4. ASSUME Syncing(m)' PROVE Seen(log', op'[m].base) /\ Seen(log', op'[m].remote)
        <3>1. CASE Start(m)
            <4>1. Seen(log, disk[m].base)
                BY <2>1 DEF AllAccounted, Accounted, FromLog, Seen
            <4>2. Seen(log, Remote)
                BY DEF Remote, Seen, TypeOK
            <4> QED
                BY <3>1, <4>1, <4>2, StartOutcome DEF Seen
        <3>2. CASE Merge(m)
            BY <2>1, <2>2, <2>4, <3>2, MergeOutcome DEF AllSeen, Syncing
        <3>3. CASE Put(m)
            <4>1. Seen(log, op[m].remote)
                BY <2>1, <3>3 DEF Put, AllSeen, Syncing
            <4>2. Seen(log, Remote)
                BY DEF Remote, Seen, TypeOK
            <4> QED
                BY <2>4, <3>3, <4>1, <4>2, PutOutcome DEF Seen, Syncing, Idle
        <3>4. CASE Write(m)
            BY <2>4, <3>4, WriteOutcome DEF Syncing, Idle
        <3>5. CASE ~SyncOf(m)
            BY <1>3, <2>3, <2>4, <3>5, OtherOutcome DEF Syncing, Idle
        <3> QED
            BY <3>1, <3>2, <3>3, <3>4, <3>5 DEF SyncOf
    <2> QED
        BY <2>1, <2>3, <2>4 DEF AllSeen
<1> QED
    BY <1>1, <1>2, <1>3, NextIsAStep

\* Where the values of a machine are from after its step: it had them, the
\* account said them, or its user has just entered them.
Entered(v) == edits' = edits + 1 /\ v = edits'
Comes(m, k, v) == Holds(m, k, v) \/ v = Absent \/ Says(log, k, v) \/ Entered(v)

LEMMA BaseSays ==
    ASSUME AllAccounted, ~lost, NEW m \in Machines, NEW k \in Keys
    PROVE  BaseVal(disk[m].base, k) = Absent \/ Says(log, k, BaseVal(disk[m].base, k))
<1>1. Seen(log, disk[m].base)
    BY DEF AllAccounted, Accounted, FromLog, Seen
<1> QED
    BY <1>1, SeenSays

LEMMA SyncSays ==
    ASSUME TypeOK, AllSeen, ~lost, NEW m \in Machines, NEW k \in Keys, Syncing(m)
    PROVE  /\ BaseVal(op[m].base, k) = Absent \/ Says(log, k, BaseVal(op[m].base, k))
           /\ op[m].remote.vals[k] = Absent \/ Says(log, k, op[m].remote.vals[k])
<1>1. Seen(log, op[m].base) /\ Seen(log, op[m].remote)
    BY DEF AllSeen
<1>2. op[m].remote # NoBase
    BY NoBaseIsNoDocument DEF TypeOK
<1>3. BaseVal(op[m].remote, k) = op[m].remote.vals[k]
    BY <1>2 DEF BaseVal
<1> QED
    BY <1>1, <1>3, SeenSays

LEMMA NothingInvented ==
    ASSUME TypeOK, AllAccounted, AllSeen, ~lost, NEW m \in Machines, StepOf(m), NEW k \in Keys
    PROVE  /\ Comes(m, k, local'[m][k])
           /\ Comes(m, k, stored'[m].vals[k])
           /\ Comes(m, k, op'[m].merged.vals[k])
<1>0. /\ local \in [Machines -> [Keys -> Entry]] /\ stored \in [Machines -> Store]
      /\ op \in [Machines -> Ops]
    BY DEF TypeOK, Ops
<1>1. /\ Comes(m, k, local[m][k]) /\ Comes(m, k, stored[m].vals[k])
      /\ Comes(m, k, op[m].merged.vals[k])
    BY DEF Comes, Holds
<1>2. Comes(m, k, Empty.vals[k]) /\ Comes(m, k, Idle.merged.vals[k]) /\ Comes(m, k, Absent)
    BY DEF Comes, Empty, Idle
<1>3. Comes(m, k, BaseVal(disk[m].base, k))
    BY BaseSays DEF Comes
<1>4. CASE UserOf(m)
    <2>1. stored' = stored
        BY <1>4 DEF UserOf, Edit, Remove, Keep, Adopt, AddHere, Forget, WriteIsUndone, Acts
    <2>2. op'[m] = op[m] \/ op'[m] = Idle
        <3>1. op' = op \/ op' = [op EXCEPT ![m] = Idle]
            BY <1>4 DEF UserOf, Edit, Remove, Keep, Adopt, AddHere, Forget, WriteIsUndone, Acts
        <3> QED
            BY <1>0, <3>1
    <2>3. \/ local' = local
          \/ \E x \in Keys : \/ Entered(edits + 1) /\ Sets(m, x, edits + 1)
                             \/ Sets(m, x, Absent)
                             \/ Sets(m, x, BaseVal(disk[m].base, x))
        <3>1. ASSUME NEW x \in Keys, Edit(m, x) PROVE Entered(edits + 1) /\ Sets(m, x, edits + 1)
            BY <3>1 DEF Edit, Acts, Entered
        <3>2. ASSUME NEW x \in Keys, Remove(m, x) \/ Keep(m, x) \/ Adopt(m, x) \/ AddHere(m, x)
              PROVE  \/ local' = local \/ Sets(m, x, Absent)
                     \/ Sets(m, x, BaseVal(disk[m].base, x))
            BY <3>2 DEF Remove, Keep, Adopt, AddHere
        <3>3. (\E other \in Machines : Forget(m, other) \/ WriteIsUndone(m, other))
                => local' = local
            BY DEF Forget, WriteIsUndone
        <3> QED
            BY <1>4, <3>1, <3>2, <3>3 DEF UserOf
    <2>4. Comes(m, k, local'[m][k])
        <3>1. CASE local' = local
            BY <1>1, <3>1
        <3>2. ASSUME NEW x \in Keys, NEW v, Sets(m, x, v), Comes(m, x, v)
              PROVE  Comes(m, k, local'[m][k])
            <4>1. local'[m][k] = local[m][k] \/ (k = x /\ local'[m][k] = v)
                BY <1>0, <3>2 DEF Sets
            <4> QED
                BY <1>1, <3>2, <4>1
        <3>3. ASSUME NEW x \in Keys
              PROVE  /\ Comes(m, x, Absent) /\ Comes(m, x, BaseVal(disk[m].base, x))
                     /\ Entered(edits + 1) => Comes(m, x, edits + 1)
            BY BaseSays DEF Comes
        <3> QED
            BY <2>3, <3>1, <3>2, <3>3
    <2> QED
        BY <1>1, <1>2, <2>1, <2>2, <2>4
<1>5. CASE Start(m)
    BY <1>1, <1>2, <1>5, StartOutcome
<1>6. CASE Merge(m)
    <2>1. Syncing(m)
        BY <1>6 DEF Merge, Syncing
    <2>2. Comes(m, k, op[m].remote.vals[k]) /\ Comes(m, k, BaseVal(op[m].base, k))
        BY <2>1, SyncSays DEF Comes
    <2>3. Comes(m, k, MergeOf(m).vals[k]) /\ Comes(m, k, AfterMerge(m)[k])
        <3> DEFINE from == {Absent, local[m][k], op[m].remote.vals[k], BaseVal(op[m].base, k)}
        <3>1. MergeOf(m).vals[k] \in from /\ AfterMerge(m)[k] \in from
            BY MergeInvents
        <3> QED
            BY <1>1, <1>2, <2>2, <3>1
    <2> QED
        BY <1>1, <1>2, <1>6, <2>3, MergeOutcome
<1>7. CASE Put(m)
    BY <1>1, <1>2, <1>7, PutOutcome
<1>8. CASE Write(m)
    BY <1>1, <1>2, <1>8, WriteOutcome
<1>9. CASE Save(m)
    <2>1. stored'[m].vals = local[m] /\ local' = local /\ op' = op
        BY <1>0, <1>9 DEF Save, user
    <2> QED
        BY <1>1, <2>1
<1>10. CASE Fail(m)
    <2>1. op'[m] = Idle /\ local' = local /\ stored' = stored
        BY <1>0, <1>10 DEF Fail, user
    <2> QED
        BY <1>1, <1>2, <2>1
<1>11. CASE Crash(m)
    <2>1. op'[m] = Idle /\ local'[m] = stored[m].vals /\ stored' = stored
        BY <1>0, <1>11 DEF Crash
    <2> QED
        BY <1>1, <1>2, <2>1
<1> QED
    BY <1>4, <1>5, <1>6, <1>7, <1>8, <1>9, <1>10, <1>11 DEF StepOf, SyncOf

LEMMA HoldsOrComes ==
    ASSUME TypeOK, AllAccounted, AllSeen, ~lost, NEW m \in Machines, StepOf(m),
           NEW n \in Machines, NEW k \in Keys, NEW v,
           local'[n][k] = v \/ stored'[n].vals[k] = v \/ op'[n].merged.vals[k] = v
    PROVE  IF n = m THEN Comes(m, k, v) ELSE Holds(n, k, v)
<1>1. CASE n = m
    BY <1>1, NothingInvented
<1>2. CASE n # m
    BY <1>2, StepsAreLocal DEF Holds
<1> QED
    BY <1>1, <1>2

LEMMA InitPast == Init => AllPast /\ AllShared
<1> SUFFICES ASSUME Init PROVE AllPast /\ AllShared
    OBVIOUS
<1>1. scope \in Scopes /\ log = <<>> /\ edits = 0 /\ private = {}
    BY DEF Init
<1>2. \A k \in Keys : \A v : ~Says(log, k, v)
    BY <1>1 DEF Says
<1>3. ASSUME NEW m \in Machines, NEW k \in Keys, NEW v, Holds(m, k, v) PROVE v \in {0, Absent}
    <2>1. local[m][k] \in {0, Absent}
        BY SyncAssumption DEF Init
    <2>2. stored[m].vals[k] = local[m][k] /\ op[m].merged.vals[k] = Absent
        BY DEF Init, Idle, Empty
    <2> QED
        BY <1>3, <2>1, <2>2 DEF Holds
<1>4. AllPast
    BY <1>1, <1>2, <1>3 DEF AllPast, UpTo
<1>5. AllShared
    BY <1>1 DEF AllShared
<1> QED
    BY <1>4, <1>5

LEMMA NextPast ==
    TypeOK /\ AllAccounted /\ AllSeen /\ AllPast /\ [Next]_vars => AllPast'
<1> SUFFICES ASSUME TypeOK, AllAccounted, AllSeen, AllPast, [Next]_vars, ~lost'
             PROVE  AllPast'
    BY DEF AllPast
<1>1. CASE UNCHANGED vars
    BY <1>1 DEF vars, user, AllPast, Holds
<1>2. CASE Lose
    BY <1>2 DEF Lose
<1>3. ASSUME NEW m \in Machines, StepOf(m) PROVE AllPast'
    <2>1. ~lost /\ LogAfter(m) /\ edits \in Nat /\ edits' \in {edits, edits + 1}
        BY <1>3, StepsAreLocal
    <2>2. ASSUME NEW v, UpTo(edits, v) \/ Entered(v) PROVE UpTo(edits', v)
        BY <2>1, <2>2 DEF UpTo, Entered
    <2>3. ASSUME NEW k \in Keys, NEW v, Says(log', k, v) PROVE UpTo(edits', v)
        <3>1. Says(log, k, v) \/ Holds(m, k, v)
            BY <2>1, <2>3, LogGrows DEF Holds
        <3> QED
            BY <2>1, <2>2, <3>1 DEF AllPast
    <2>4. ASSUME NEW n \in Machines, NEW k \in Keys, NEW v,
                 local'[n][k] = v \/ stored'[n].vals[k] = v \/ op'[n].merged.vals[k] = v
          PROVE  UpTo(edits', v)
        <3>1. IF n = m THEN Comes(m, k, v) ELSE Holds(n, k, v)
            BY <1>3, <2>1, <2>4, HoldsOrComes
        <3>2. Holds(n, k, v) \/ v = Absent \/ Says(log, k, v) \/ Entered(v)
            BY <3>1 DEF Comes
        <3>3. UpTo(edits, Absent)
            BY DEF UpTo
        <3> QED
            BY <2>1, <2>2, <3>2, <3>3 DEF AllPast
    <2>5. ASSUME NEW p \in private' PROVE p.val \in 1..edits'
        <3>1. \/ p \in private
              \/ p.val = edits + 1 /\ edits' = edits + 1
            BY <1>3, <2>5 DEF StepOf, UserOf, SyncOf, Edit, Remove, Keep, Adopt, AddHere, Forget,
               WriteIsUndone, Acts, Shares, Start, Merge, Put, Write, Syncs, Save, Fail, Crash, user
        <3> QED
            BY <2>1, <3>1 DEF AllPast
    <2> QED
        BY <2>3, <2>4, <2>5 DEF AllPast, Holds
<1> QED
    BY <1>1, <1>2, <1>3, NextIsAStep

LEMMA NextShared ==
    TypeOK /\ AllAccounted /\ AllSeen /\ AllPast /\ AllShared /\ [Next]_vars => AllShared'
<1> SUFFICES ASSUME TypeOK, AllAccounted, AllSeen, AllPast, AllShared, [Next]_vars, ~lost'
             PROVE  AllShared'
    BY DEF AllShared
<1>1. CASE UNCHANGED vars
    BY <1>1 DEF vars, user, AllShared, Holds
<1>2. CASE Lose
    BY <1>2 DEF Lose
<1>3. ASSUME NEW m \in Machines, StepOf(m) PROVE AllShared'
    <2>1. ~lost /\ LogAfter(m) /\ edits \in Nat /\ edits' \in {edits, edits + 1}
        BY <1>3, StepsAreLocal
    <2> DEFINE Now(n, k, v) == \/ local'[n][k] = v \/ stored'[n].vals[k] = v
                               \/ op'[n].merged.vals[k] = v
    <2>2. ASSUME NEW n \in Machines, NEW o \in Machines, n # o, NEW k \in Keys,
                 NEW v \in 1..edits', Now(n, k, v), Now(o, k, v)
          PROVE  Says(log', k, v)
        <3>1. /\ IF n = m THEN Comes(m, k, v) ELSE Holds(n, k, v)
              /\ IF o = m THEN Comes(m, k, v) ELSE Holds(o, k, v)
            BY <1>3, <2>1, <2>2, HoldsOrComes
        <3>2. v # Absent /\ v \in Nat
            BY <2>1, SyncAssumption
        <3>3. Holds(n, k, v) \/ Holds(o, k, v)
            BY <2>2, <3>1
        <3>4. v \in 1..edits
            BY <2>1, <3>2, <3>3 DEF AllPast, UpTo
        <3>5. ~Entered(v)
            BY <2>1, <3>4 DEF Entered
        <3>6. Says(log, k, v) \/ (Holds(n, k, v) /\ Holds(o, k, v))
            BY <2>2, <3>1, <3>2, <3>5 DEF Comes
        <3>7. Says(log, k, v)
            BY <2>1, <2>2, <3>4, <3>6 DEF AllShared
        <3> QED
            BY <2>1, <3>7, LogGrows
    <2> QED
        BY <2>2 DEF AllShared, Holds
<1> QED
    BY <1>1, <1>2, <1>3, NextIsAStep

------------------------------------------------------------------------------
(* Overrides stay home. *)

\* Only projects are kept to one machine.
OnlyProjects ==
    scope # "projects" =>
        private = {} /\ \A m \in Machines : kept[m] = {} /\ stored[m].kept = {}

\* The account has had the entry ever since the value was entered; then nobody
\* has the value but a machine that keeps it to itself, and no put that the
\* server would take says it.
StillHad(lg, p) == \A j \in p.since..Len(lg) : lg[j].vals[p.key] # Absent
KeptIn(m, p) ==
    /\ local[m][p.key] = p.val => p.key \in kept[m]
    /\ stored[m].vals[p.key] = p.val => p.key \in stored[m].kept
    /\ op[m].at = "put" /\ op[m].version = Version => op[m].merged.vals[p.key] # p.val
AllHome ==
    lost \/ \A p \in private :
        /\ p.since \in 1..Len(log)
        /\ StillHad(log, p) =>
             ~Says(log, p.key, p.val) /\ \A m \in Machines : KeptIn(m, p)

LEMMA InitOnlyProjects == Init => OnlyProjects
<1> SUFFICES ASSUME Init, scope # "projects"
             PROVE  private = {} /\ \A m \in Machines : kept[m] = {} /\ stored[m].kept = {}
    BY DEF OnlyProjects
<1>1. ASSUME NEW m \in Machines PROVE kept[m] = {} /\ stored[m].kept = kept[m]
    <2>1. kept[m] \subseteq Keys /\ stored[m] = [vals |-> local[m], kept |-> kept[m]]
        BY DEF Init
    <2>2. \A k \in kept[m] : scope = "projects"
        BY <1>1 DEF Init
    <2> QED
        BY <2>1, <2>2
<1> QED
    BY <1>1 DEF Init

LEMMA NextOnlyProjects == TypeOK /\ OnlyProjects /\ [Next]_vars => OnlyProjects'
<1> SUFFICES ASSUME TypeOK, OnlyProjects, [Next]_vars, scope' # "projects"
             PROVE  private' = {} /\ \A n \in Machines : kept'[n] = {} /\ stored'[n].kept = {}
    BY DEF OnlyProjects
<1>1. CASE UNCHANGED vars \/ Lose
    BY <1>1 DEF vars, user, OnlyProjects, Lose
<1>2. ASSUME NEW m \in Machines, StepOf(m)
      PROVE  private' = {} /\ \A n \in Machines : kept'[n] = {} /\ stored'[n].kept = {}
    <2>1. /\ scope # "projects" /\ private = {} /\ kept \in [Machines -> SUBSET Keys]
          /\ stored \in [Machines -> Store]
          /\ \A n \in Machines : kept[n] = {} /\ stored[n].kept = {}
        BY <1>2, StepsAreLocal DEF OnlyProjects, TypeOK
    <2>2. private' = {} /\ (kept' = kept \/ kept' = [kept EXCEPT ![m] = @ \ {}]
                            \/ kept' = [kept EXCEPT ![m] = {}])
        <3>1. CASE UserOf(m)
            BY <2>1, <3>1 DEF UserOf, Edit, Remove, Keep, Adopt, AddHere, Forget, WriteIsUndone,
               Acts, Shares
        <3>2. CASE SyncOf(m)
            BY <2>1, <3>2 DEF SyncOf, Start, Merge, Put, Write, Syncs
        <3>3. CASE Save(m) \/ Fail(m) \/ Crash(m)
            BY <2>1, <3>3 DEF Save, Fail, Crash, user
        <3> QED
            BY <1>2, <3>1, <3>2, <3>3 DEF StepOf
    <2>3. stored' = stored \/ stored' = [stored EXCEPT ![m] = [vals |-> local[m], kept |-> kept[m]]]
        BY <1>2 DEF StepOf, UserOf, SyncOf, Edit, Remove, Keep, Adopt, AddHere, Forget,
           WriteIsUndone, Acts, Start, Merge, Put, Write, Syncs, Save, Fail, Crash, user
    <2> QED
        BY <2>1, <2>2, <2>3
<1> QED
    BY <1>1, <1>2, NextIsAStep

\* A machine that had the value to itself still has it to itself after a step.
LEMMA StaysKept ==
    ASSUME TypeOK, AllAccounted, AllSeen, AllPast, OnlyProjects, ~lost,
           NEW m \in Machines, StepOf(m), NEW p \in private, p \in private',
           p.since \in 1..Len(log), StillHad(log, p), ~Says(log, p.key, p.val), KeptIn(m, p)
    PROVE  /\ local'[m][p.key] = p.val => p.key \in kept'[m]
           /\ stored'[m].vals[p.key] = p.val => p.key \in stored'[m].kept
           /\ op'[m].at = "put" /\ op'[m].version = Len(log') => op'[m].merged.vals[p.key] # p.val
<1> DEFINE k == p.key
<1>0. /\ local \in [Machines -> [Keys -> Entry]] /\ kept \in [Machines -> SUBSET Keys]
      /\ stored \in [Machines -> Store] /\ op \in [Machines -> Ops] /\ k \in Keys
      /\ edits \in Nat /\ Len(log) \in Nat
    BY DEF TypeOK, Ops, Override
<1>1. p.val \in 1..edits /\ p.val # Absent /\ p.val # edits + 1
    <2>1. p.val \in 1..edits
        BY DEF AllPast
    <2> QED
        BY <1>0, <2>1, SyncAssumption
<1>2. BaseVal(disk[m].base, k) # p.val
    BY <1>0, <1>1, BaseSays
<1>3. Idle.at # "put"
    BY DEF Idle
<1>4. CASE UserOf(m)
    <2>1. stored' = stored /\ log' = log
        BY <1>4 DEF UserOf, Edit, Remove, Keep, Adopt, AddHere, Forget, WriteIsUndone, Acts
    <2>2. op'[m] = op[m] \/ op'[m] = Idle
        <3>1. op' = op \/ op' = [op EXCEPT ![m] = Idle]
            BY <1>4 DEF UserOf, Edit, Remove, Keep, Adopt, AddHere, Forget, WriteIsUndone, Acts
        <3> QED
            BY <1>0, <3>1
    <2>3. local'[m][k] = p.val => k \in kept'[m]
        <3>1. ASSUME NEW x \in Keys, Edit(m, x) PROVE local'[m][k] = p.val => k \in kept'[m]
            BY <1>0, <1>1, <3>1 DEF Edit, Sets, KeptIn
        <3>2. ASSUME NEW x \in Keys, Remove(m, x) PROVE local'[m][k] = p.val => k \in kept'[m]
            BY <1>0, <1>1, <3>2 DEF Remove, Sets, KeptIn
        <3>3. ASSUME NEW x \in Keys, Keep(m, x) PROVE local'[m][k] = p.val => k \in kept'[m]
            <4>1. p.val # local[m][x] /\ local' = local
                BY <3>3 DEF Keep, Shares
            <4> QED
                BY <1>0, <3>3, <4>1 DEF Keep, KeptIn
        <3>4. ASSUME NEW x \in Keys, Adopt(m, x) PROVE local'[m][k] = p.val => k \in kept'[m]
            <4>1. CASE BaseVal(disk[m].base, x) # Absent
                BY <1>0, <1>2, <3>4, <4>1 DEF Adopt, Sets, KeptIn
            <4>2. CASE BaseVal(disk[m].base, x) = Absent
                <5>1. p.val # local[m][x] /\ local' = local
                    BY <3>4, <4>2 DEF Adopt, Shares
                <5> QED
                    BY <1>0, <3>4, <5>1 DEF Adopt, KeptIn
            <4> QED
                BY <4>1, <4>2
        <3>5. ASSUME NEW x \in Keys, AddHere(m, x) PROVE local'[m][k] = p.val => k \in kept'[m]
            BY <1>0, <1>2, <3>5 DEF AddHere, Sets, KeptIn
        <3>6. ASSUME NEW other \in Machines, Forget(m, other) \/ WriteIsUndone(m, other)
              PROVE  local'[m][k] = p.val => k \in kept'[m]
            BY <3>6 DEF Forget, WriteIsUndone, KeptIn
        <3> QED
            BY <1>4, <3>1, <3>2, <3>3, <3>4, <3>5, <3>6 DEF UserOf
    <2> QED
        BY <1>3, <2>1, <2>2, <2>3 DEF KeptIn, Version
<1>5. CASE Start(m)
    BY <1>5, StartOutcome DEF KeptIn
<1>6. CASE Merge(m)
    <2>1. Syncing(m) /\ scope = "projects"
        BY <1>6 DEF Merge, Syncing, OnlyProjects
    <2>2. op[m].remote.vals[k] # p.val /\ BaseVal(op[m].base, k) # p.val
        BY <1>0, <1>1, <2>1, SyncSays
    <2>3. local'[m][k] = p.val => k \in kept'[m]
        <3>1. AfterMerge(m)[k] \in {Absent, local[m][k], op[m].remote.vals[k], BaseVal(op[m].base, k)}
            BY <1>0, MergeInvents
        <3> QED
            BY <1>1, <1>6, <2>2, <3>1, MergeOutcome DEF KeptIn
    <2>4. ASSUME op[m].version = Len(log) PROVE MergeOf(m).vals[k] # p.val
        <3>1. op[m].remote.vals[k] # Absent
            <4>1. op[m].remote = log[Len(log)]
                BY <1>0, <1>6, <2>4 DEF Merge, AllAccounted, Accounted
            <4>2. p.since \in 1..Len(log) /\ Len(log) \in p.since..Len(log)
                BY <1>0
            <4> QED
                BY <4>1, <4>2 DEF StillHad
        <3> DEFINE prior == IF BaseVal(op[m].base, k) # Absent THEN BaseVal(op[m].base, k)
                            ELSE op[m].remote.vals[k]
        <3>2. prior # Absent /\ prior # p.val
            BY <2>2, <3>1
        <3>3. /\ local[m][k] # Absent => ViewOf(m).vals[k] = IF k \notin kept[m] \/ prior = Absent
                                                             THEN local[m][k] ELSE prior
              /\ local[m][k] = Absent => ViewOf(m).vals[k] = IF op[m].remote.vals[k] # Absent
                                                             THEN prior ELSE Absent
            BY <1>0, <2>1, ProjectsView
        <3> HIDE DEF prior
        <3>4. ViewOf(m).vals[k] # p.val
            BY <1>1, <3>2, <3>3 DEF KeptIn
        <3>5. MergeOf(m).vals[k] \in {Absent, ViewOf(m).vals[k], op[m].remote.vals[k]}
            BY <1>0, <2>1, ProjectsMerge
        <3> QED
            BY <1>1, <2>2, <3>4, <3>5
    <2> QED
        BY <1>6, <2>3, <2>4, MergeOutcome DEF KeptIn
<1>7. CASE Put(m)
    BY <1>3, <1>7, PutOutcome DEF KeptIn
<1>8. CASE Write(m)
    BY <1>3, <1>8, WriteOutcome DEF KeptIn
<1>9. CASE Save(m)
    <2>1. stored'[m] = [vals |-> local[m], kept |-> kept[m]]
          /\ UNCHANGED <<local, kept, op, log>>
        BY <1>0, <1>9 DEF Save, user
    <2>2. stored'[m].vals = local[m] /\ stored'[m].kept = kept[m]
        BY <2>1
    <2> QED
        BY <2>1, <2>2 DEF KeptIn, Version
<1>10. CASE Fail(m)
    <2>1. op'[m] = Idle /\ UNCHANGED <<local, kept, stored>>
        BY <1>0, <1>10 DEF Fail, user
    <2> QED
        BY <1>3, <2>1 DEF KeptIn
<1>11. CASE Crash(m)
    <2>1. /\ op'[m] = Idle /\ stored' = stored
          /\ local'[m] = stored[m].vals /\ kept'[m] = stored[m].kept
        BY <1>0, <1>11 DEF Crash
    <2> QED
        BY <1>3, <2>1 DEF KeptIn
<1> QED
    BY <1>4, <1>5, <1>6, <1>7, <1>8, <1>9, <1>10, <1>11 DEF StepOf, SyncOf

\* The overrides after a step are those before, or the one just entered.
LEMMA NewOverride ==
    ASSUME TypeOK, NEW m \in Machines, StepOf(m), NEW p \in private', p \notin private
    PROVE  \E k \in Keys :
             /\ Edit(m, k) /\ k \in kept[m] /\ BaseVal(disk[m].base, k) # Absent
             /\ p = [key |-> k, val |-> edits + 1, since |-> Version]
<1>1. ~SyncOf(m) /\ ~(Save(m) \/ Fail(m) \/ Crash(m))
    BY DEF SyncOf, Start, Merge, Put, Write, Syncs, Save, Fail, Crash, user
<1>2. \E k \in Keys : Edit(m, k)
    BY <1>1 DEF StepOf, UserOf, Remove, Keep, Adopt, AddHere, Forget, WriteIsUndone, Shares
<1> QED
    BY <1>2 DEF Edit

LEMMA NextHome ==
    /\ TypeOK /\ AllAccounted /\ AllSeen /\ AllPast /\ OnlyProjects
    /\ AllHome /\ OverridesStayHome /\ [Next]_vars
    => AllHome' /\ OverridesStayHome'
<1> SUFFICES ASSUME TypeOK, AllAccounted, AllSeen, AllPast, OnlyProjects, AllHome,
                    OverridesStayHome, [Next]_vars, ~lost'
             PROVE  AllHome' /\ OverridesStayHome'
    BY DEF AllHome, OverridesStayHome
<1>1. CASE UNCHANGED vars
    BY <1>1 DEF vars, user, AllHome, KeptIn, Version, OverridesStayHome
<1>2. CASE Lose
    BY <1>2 DEF Lose
<1>3. ASSUME NEW m \in Machines, StepOf(m) PROVE AllHome' /\ OverridesStayHome'
    <2>0. ~lost /\ LogAfter(m) /\ edits \in Nat /\ log \in Seq(Document)
        BY <1>3, StepsAreLocal DEF TypeOK
    <2>1. /\ Len(log) \in Nat /\ Len(log') \in Nat /\ Len(log) <= Len(log')
          /\ \A i \in 1..Len(log) : i \in 1..Len(log') /\ log'[i] = log[i]
          /\ \A i \in 1..Len(log') :
               i \in 1..Len(log) \/ (Accepts(m) /\ i = Len(log) + 1 /\ log'[i] = op[m].merged)
        BY <2>0, LogGrows
    <2> DEFINE Good(p) ==
                 /\ p.since \in 1..Len(log')
                 /\ StillHad(log', p) =>
                      /\ ~Says(log', p.key, p.val)
                      /\ \A n \in Machines :
                           /\ local'[n][p.key] = p.val => p.key \in kept'[n]
                           /\ stored'[n].vals[p.key] = p.val => p.key \in stored'[n].kept
                           /\ op'[n].at = "put" /\ op'[n].version = Len(log') =>
                                op'[n].merged.vals[p.key] # p.val
               Stays(p) == \A i \in 1..Len(log') : log'[i].vals[p.key] = p.val =>
                             \E j \in p.since..(i - 1) : log'[j].vals[p.key] = Absent
    <2>2. ASSUME NEW p \in private, p \in private' PROVE Good(p) /\ Stays(p)
        <3>0. p.key \in Keys /\ p.since \in 1..Len(log)
            BY <2>0, <2>2 DEF TypeOK, Override, AllHome
        <3>1. StillHad(log', p) => StillHad(log, p)
            <4>1. \A j \in p.since..Len(log) : j \in p.since..Len(log') /\ log'[j] = log[j]
                BY <2>1, <3>0
            <4> QED
                BY <4>1 DEF StillHad
        <3>2. ASSUME StillHad(log', p) PROVE ~Says(log', p.key, p.val)
            <4>1. ~Says(log, p.key, p.val) /\ KeptIn(m, p)
                BY <2>0, <2>2, <3>1, <3>2 DEF AllHome
            <4>2. Accepts(m) => op[m].merged.vals[p.key] # p.val
                BY <4>1 DEF KeptIn, Accepts
            <4> QED
                BY <2>0, <3>0, <4>1, <4>2, LogGrows
        <3>3. ASSUME StillHad(log', p), NEW n \in Machines
              PROVE  /\ local'[n][p.key] = p.val => p.key \in kept'[n]
                     /\ stored'[n].vals[p.key] = p.val => p.key \in stored'[n].kept
                     /\ op'[n].at = "put" /\ op'[n].version = Len(log') =>
                          op'[n].merged.vals[p.key] # p.val
            <4>1. StillHad(log, p) /\ ~Says(log, p.key, p.val) /\ KeptIn(n, p)
                BY <2>0, <2>2, <3>1, <3>3 DEF AllHome
            <4>2. CASE n = m
                BY <1>3, <2>0, <2>2, <3>0, <4>1, <4>2, StaysKept
            <4>3. CASE n # m
                <5>1. UNCHANGED <<local[n], kept[n], stored[n], op[n]>>
                    BY <1>3, <4>3, StepsAreLocal
                <5>2. op[n].at = "put" /\ op[n].version > 0 => op[n].version \in 1..Len(log)
                    BY <2>0 DEF AllAccounted, Accounted
                <5>3. op[n].version \in Nat
                    BY DEF TypeOK
                <5>4. op[n].at = "put" /\ op[n].version = Len(log') => op[n].version = Version
                    BY <2>1, <3>0, <5>2, <5>3 DEF Version
                <5> QED
                    BY <4>1, <5>1, <5>4 DEF KeptIn
            <4> QED
                BY <4>2, <4>3
        <3>4. Stays(p)
            <4> SUFFICES ASSUME NEW i \in 1..Len(log'), log'[i].vals[p.key] = p.val
                         PROVE  \E j \in p.since..(i - 1) : log'[j].vals[p.key] = Absent
                OBVIOUS
            <4>1. CASE i \in 1..Len(log)
                <5>1. PICK j \in p.since..(i - 1) : log[j].vals[p.key] = Absent
                    BY <2>0, <2>1, <2>2, <4>1 DEF OverridesStayHome
                <5>2. j \in 1..Len(log)
                    BY <2>1, <3>0, <4>1
                <5> QED
                    BY <2>1, <5>1, <5>2
            <4>2. CASE i \notin 1..Len(log)
                <5>1. Accepts(m) /\ i = Len(log) + 1 /\ op[m].merged.vals[p.key] = p.val
                    BY <2>1, <4>2
                <5>2. ~StillHad(log, p)
                    BY <2>0, <2>2, <5>1 DEF AllHome, KeptIn, Accepts
                <5>3. PICK j \in p.since..Len(log) : log[j].vals[p.key] = Absent
                    BY <5>2 DEF StillHad
                <5>4. j \in 1..Len(log) /\ j \in p.since..(i - 1)
                    BY <2>1, <3>0, <5>1
                <5> QED
                    BY <2>1, <5>3, <5>4
            <4> QED
                BY <4>1, <4>2
        <3> QED
            BY <2>1, <3>0, <3>2, <3>3, <3>4
    <2>3. ASSUME NEW p \in private', p \notin private PROVE Good(p) /\ Stays(p)
        <3>1. PICK k \in Keys : /\ Edit(m, k) /\ k \in kept[m] /\ BaseVal(disk[m].base, k) # Absent
                                /\ p = [key |-> k, val |-> edits + 1, since |-> Version]
            BY <1>3, <2>3, NewOverride
        <3>2. p.key = k /\ p.val = edits + 1 /\ p.since = Len(log)
            BY <3>1 DEF Version
        <3>3. /\ log' = log /\ UNCHANGED <<kept, stored, op>>
              /\ local' = [local EXCEPT ![m][k] = edits + 1]
            BY <3>1 DEF Edit, Acts, Sets
        <3>4. Len(log) >= 1
            <4>1. disk[m].base # NoBase
                BY <3>1 DEF BaseVal
            <4> QED
                BY <2>0, <2>1, <4>1 DEF AllAccounted, Accounted, FromLog
        <3>5. ~UpTo(edits, edits + 1)
            BY <2>0, SyncAssumption DEF UpTo
        <3>6. /\ ~Says(log, k, edits + 1)
              /\ \A n \in Machines : ~Holds(n, k, edits + 1)
            BY <2>0, <3>1, <3>5 DEF AllPast
        <3>7. \A i \in 1..Len(log) : log[i].vals[k] # edits + 1
            BY <3>6 DEF Says
        <3>8. ASSUME NEW n \in Machines
              PROVE  /\ local'[n][k] = edits + 1 => k \in kept'[n]
                     /\ stored'[n].vals[k] # edits + 1 /\ op'[n].merged.vals[k] # edits + 1
            <4>1. n # m => local'[n] = local[n]
                BY <3>3 DEF TypeOK
            <4> QED
                BY <3>1, <3>3, <3>6, <4>1 DEF Holds
        <3> QED
            BY <2>1, <3>2, <3>3, <3>4, <3>6, <3>7, <3>8
    <2>4. AllHome'
        BY <2>2, <2>3 DEF AllHome, KeptIn, Version
    <2>5. OverridesStayHome'
        BY <2>2, <2>3 DEF OverridesStayHome
    <2> QED
        BY <2>4, <2>5
<1> QED
    BY <1>1, <1>2, <1>3, NextIsAStep

\* As long as the account has had the project ever since, what a user enters for
\* a project this machine keeps to itself is in no document of the account, for
\* any machines, edits, lost requests and crashes, whatever the users add, remove,
\* adopt and forget.
THEOREM OverridesAreNeverPut == Spec => []OverridesStayHome
<1>1. Init => AllHome /\ OverridesStayHome
    BY DEF Init, AllHome, OverridesStayHome
<1> QED
    BY <1>1, SyncTypeCorrect, InitAccounts, NextAccounts, InitSeen, NextSeen, InitPast, NextPast,
       InitOnlyProjects, NextOnlyProjects, NextHome, PTL DEF Spec

------------------------------------------------------------------------------
(* Nothing is deleted that no user removed. *)

\* A machine that found no document has nothing to merge against.
NoDocumentNoBase == \A m \in Machines : Syncing(m) /\ op[m].version = 0 => op[m].base = NoBase

\* Preferences are always set.
SettingsAreSet ==
    scope = "settings" =>
        removed = {} /\ \A m \in Machines, k \in Keys :
                           local[m][k] # Absent /\ stored[m].vals[k] # Absent

\* While no user removed an entry, it stays in the account once it is there; a
\* machine whose base has it has it; what it merges against has it if the base does.
Has(d, k) == BaseVal(d, k) # Absent
LogStands(k) == \A i, j \in 1..Len(log) : i <= j /\ Has(log[i], k) => Has(log[j], k)
Stands(m, k) ==
    LET held == local[m][k] # Absent IN
    /\ Has(disk[m].base, k) => held
    /\ op[m].at = "write" /\ Has(op[m].state.base, k) => held
    /\ Syncing(m) /\ Has(op[m].base, k) => held /\ Has(op[m].remote, k)
    /\ op[m].at = "put" /\ Has(op[m].remote, k) => Has(op[m].merged, k)
    /\ op[m].at = "put" /\ Has(op[m].merged, k) => held
AllStand ==
    lost \/ scope = "projects" \/
        \A k \in Keys : k \in removed \/ (LogStands(k) /\ \A m \in Machines : Stands(m, k))

LEMMA DocHas ==
    ASSUME TypeOK, NEW d \in Document, NEW k \in Keys
    PROVE  Has(d, k) <=> d.vals[k] # Absent
BY NoBaseIsNoDocument DEF Has, BaseVal

LEMMA InitStands == Init => NoDocumentNoBase /\ SettingsAreSet /\ AllStand
<1> SUFFICES ASSUME Init PROVE NoDocumentNoBase /\ SettingsAreSet /\ AllStand
    OBVIOUS
<1>1. NoDocumentNoBase
    BY DEF Init, NoDocumentNoBase, Syncing, Idle
<1>2. SettingsAreSet
    <2> SUFFICES ASSUME scope = "settings"
                 PROVE  removed = {} /\ \A m \in Machines, k \in Keys :
                           local[m][k] # Absent /\ stored[m].vals[k] # Absent
        BY DEF SettingsAreSet
    <2>1. local \in [Machines -> [Keys -> {0}]] /\ removed = {}
        BY DEF Init
    <2>2. \A m \in Machines : stored[m].vals = local[m]
        BY DEF Init
    <2> QED
        BY <2>1, <2>2, SyncAssumption
<1>3. AllStand
    BY DEF Init, AllStand, LogStands, Stands, Syncing, Idle, NoState, Has, BaseVal
<1> QED
    BY <1>1, <1>2, <1>3

LEMMA NextNoDocument == TypeOK /\ NoDocumentNoBase /\ [Next]_vars => NoDocumentNoBase'
<1> SUFFICES ASSUME TypeOK, NoDocumentNoBase, [Next]_vars PROVE NoDocumentNoBase'
    OBVIOUS
<1>1. CASE UNCHANGED vars \/ Lose
    BY <1>1 DEF vars, Lose, NoDocumentNoBase, Syncing
<1>2. ASSUME NEW m \in Machines, StepOf(m) PROVE NoDocumentNoBase'
    <2>1. \A n \in Machines : n # m => op'[n] = op[n]
        BY <1>2, StepsAreLocal
    <2>2. Syncing(m)' /\ op'[m].version = 0 => op'[m].base = NoBase
        <3>1. CASE Start(m)
            BY <3>1, StartOutcome
        <3>2. CASE Merge(m)
            BY <3>2, MergeOutcome DEF NoDocumentNoBase, Syncing
        <3>3. CASE Put(m)
            BY <3>3, PutOutcome DEF Syncing, Idle
        <3>4. CASE Write(m)
            BY <3>4, WriteOutcome DEF Syncing, Idle
        <3>5. CASE ~SyncOf(m)
            BY <1>2, <3>5, OtherOutcome DEF NoDocumentNoBase, Syncing, Idle
        <3> QED
            BY <3>1, <3>2, <3>3, <3>4, <3>5 DEF SyncOf
    <2> QED
        BY <2>1, <2>2 DEF NoDocumentNoBase, Syncing
<1> QED
    BY <1>1, <1>2, NextIsAStep

\* What a merge does to an entry of the store.
LEMMA MergeStands ==
    ASSUME TypeOK, SettingsAreSet, NEW m \in Machines, NEW k \in Keys, scope # "projects",
           Has(op[m].base, k) => local[m][k] # Absent /\ Has(op[m].remote, k)
    PROVE  /\ local[m][k] # Absent => AfterMerge(m)[k] # Absent
           /\ Has(op[m].remote, k) => Has(MergeOf(m), k)
           /\ Has(MergeOf(m), k) => AfterMerge(m)[k] # Absent
<1> DEFINE b == BaseVal(op[m].base, k)
           l == local[m][k]
           r == op[m].remote.vals[k]
           v == MergeOf(m).vals[k]
<1>1. /\ Has(op[m].base, k) <=> b # Absent
      /\ Has(op[m].remote, k) <=> r # Absent
      /\ Has(MergeOf(m), k) <=> v # Absent
    BY MergeTypes, DocHas DEF Has
<1>2. CASE scope = "settings"
    <2>1. v = Preference(b, l, r, op[m].base # NoBase) /\ l # Absent
          /\ AfterMerge(m)[k] = IF v # Absent THEN v ELSE l
        BY <1>2, SettingsMerge DEF SettingsAreSet
    <2> HIDE DEF b, l, r, v
    <2>2. v # Absent
        BY <2>1 DEF Preference, Field
    <2> QED
        BY <1>1, <2>1, <2>2 DEF l
<1>3. CASE scope = "tooling"
    <2>1. v = Keyed(b, l, r) /\ AfterMerge(m)[k] = v
        BY <1>3, ToolingMerge
    <2>2. b # Absent => l # Absent /\ r # Absent
        BY <1>1
    <2> HIDE DEF b, l, r, v
    <2>3. CASE l # Absent /\ r # Absent
        <3>1. v = Field(b, l, r, b # Absent)
            BY <2>1, <2>3 DEF Keyed
        <3> QED
            BY <1>1, <2>1, <2>3, <3>1 DEF Field
    <2>4. CASE l # Absent /\ r = Absent
        <3>1. v = IF l = b THEN Absent ELSE l
            BY <2>1, <2>4 DEF Keyed
        <3> QED
            BY <1>1, <2>1, <2>2, <2>4, <3>1
    <2>5. CASE l = Absent
        <3>1. v = IF r = b THEN Absent ELSE r
            BY <2>1, <2>5 DEF Keyed
        <3>2. r # Absent => v # Absent
            BY <2>2, <2>5, <3>1
        <3> QED
            BY <1>1, <2>1, <2>5, <3>2 DEF l
    <2> QED
        BY <2>3, <2>4, <2>5
<1> QED
    BY <1>2, <1>3, SyncAssumption DEF TypeOK

LEMMA NextSettings == TypeOK /\ SettingsAreSet /\ [Next]_vars => SettingsAreSet'
<1> SUFFICES ASSUME TypeOK, SettingsAreSet, [Next]_vars, scope' = "settings"
             PROVE  removed' = {} /\ \A n \in Machines, k \in Keys :
                           local'[n][k] # Absent /\ stored'[n].vals[k] # Absent
    BY DEF SettingsAreSet
<1>1. CASE UNCHANGED vars \/ Lose
    BY <1>1 DEF vars, user, Lose, SettingsAreSet
<1>2. ASSUME NEW m \in Machines, StepOf(m)
      PROVE  removed' = {} /\ \A n \in Machines, k \in Keys :
                           local'[n][k] # Absent /\ stored'[n].vals[k] # Absent
    <2>1. /\ scope = "settings" /\ removed = {}
          /\ \A n \in Machines, k \in Keys : local[n][k] # Absent /\ stored[n].vals[k] # Absent
          /\ \A n \in Machines : n # m => UNCHANGED <<local[n], stored[n]>>
        BY <1>2, StepsAreLocal DEF SettingsAreSet
    <2>2. /\ local \in [Machines -> [Keys -> Entry]] /\ stored \in [Machines -> Store]
          /\ edits + 1 # Absent
        BY SyncAssumption DEF TypeOK
    <2>3. removed' = {} /\ \A k \in Keys : local'[m][k] # Absent /\ stored'[m].vals[k] # Absent
        <3>1. CASE \E k \in Keys : Edit(m, k)
            BY <2>1, <2>2, <3>1 DEF Edit, Acts, Sets
        <3>2. CASE UserOf(m) /\ ~\E k \in Keys : Edit(m, k)
            BY <2>1, <3>2 DEF UserOf, Remove, Keep, Adopt, AddHere, Forget, WriteIsUndone, Acts
        <3>3. CASE Merge(m)
            <4>1. \A k \in Keys : AfterMerge(m)[k] # Absent
                BY <2>1, SettingsMerge
            <4> QED
                BY <2>1, <3>3, <4>1, MergeOutcome
        <3>4. CASE Start(m) \/ Put(m) \/ Write(m)
            BY <2>1, <3>4 DEF Start, Put, Write, Syncs
        <3>5. CASE Save(m)
            <4>1. stored'[m].vals = local[m] /\ UNCHANGED <<local, removed>>
                BY <2>2, <3>5 DEF Save, user
            <4> QED
                BY <2>1, <4>1
        <3>6. CASE Fail(m)
            BY <2>1, <3>6 DEF Fail, user
        <3>7. CASE Crash(m)
            BY <2>1, <2>2, <3>7 DEF Crash
        <3> QED
            BY <1>2, <3>1, <3>2, <3>3, <3>4, <3>5, <3>6, <3>7 DEF StepOf, SyncOf
    <2> QED
        BY <2>1, <2>3
<1> QED
    BY <1>1, <1>2, NextIsAStep

\* What a machine has it still has, unless a user removed it or a crash lost it.
LEMMA StillHeld ==
    ASSUME TypeOK, SettingsAreSet, NEW m \in Machines, StepOf(m), NEW k \in Keys,
           scope # "projects", Stands(m, k), k \notin removed', local[m][k] # Absent
    PROVE  local'[m][k] # Absent
<1>0. /\ local \in [Machines -> [Keys -> Entry]] /\ edits + 1 # Absent
    BY SyncAssumption DEF TypeOK
<1>1. CASE UserOf(m)
    <2>1. ASSUME NEW x \in Keys, Edit(m, x) PROVE local'[m][k] # Absent
        BY <1>0, <2>1 DEF Edit, Sets
    <2>2. ASSUME NEW x \in Keys, Remove(m, x) PROVE local'[m][k] # Absent
        BY <1>0, <2>2 DEF Remove, Sets
    <2>3. ~\E x \in Keys : Keep(m, x) \/ Adopt(m, x) \/ AddHere(m, x)
        BY DEF Keep, Adopt, AddHere
    <2>4. ASSUME NEW other \in Machines, Forget(m, other) \/ WriteIsUndone(m, other)
          PROVE  local'[m][k] # Absent
        BY <2>4 DEF Forget, WriteIsUndone
    <2> QED
        BY <1>1, <2>1, <2>2, <2>3, <2>4 DEF UserOf
<1>2. CASE Merge(m)
    <2>1. Has(op[m].base, k) => local[m][k] # Absent /\ Has(op[m].remote, k)
        BY <1>2 DEF Merge, Stands, Syncing
    <2> QED
        BY <1>2, <2>1, MergeStands, MergeOutcome
<1>3. CASE Start(m) \/ Put(m) \/ Write(m)
    BY <1>3 DEF Start, Put, Write
<1>4. CASE Save(m) \/ Fail(m)
    BY <1>4 DEF Save, Fail, user
<1>5. CASE Crash(m)
    BY <1>0, <1>5 DEF Crash
<1> QED
    BY <1>1, <1>2, <1>3, <1>4, <1>5 DEF StepOf, SyncOf

LEMMA StepStands ==
    ASSUME TypeOK, AllAccounted, AllSeen, SettingsAreSet, ~lost, scope # "projects",
           NEW m \in Machines, StepOf(m), NEW k \in Keys, k \notin removed', LogStands(k),
           Stands(m, k)
    PROVE  Stands(m, k)'
<1>0. /\ op \in [Machines -> Ops] /\ disk \in [Machines -> State] /\ log \in Seq(Document)
      /\ op[m].merged \in Document /\ op[m].remote \in Document
    BY DEF TypeOK, Ops
<1>1. local[m][k] # Absent => local'[m][k] # Absent
    BY StillHeld
<1>2. ~Has(NoBase, k) /\ ~Has(Empty, k)
    BY DEF Has, BaseVal, Empty
<1>3. ASSUME NEW d, Seen(log, d), Has(d, k) PROVE Has(Remote, k) /\ Version # 0
    <2>1. PICK i \in 1..Len(log) : d = log[i]
        BY <1>2, <1>3 DEF Seen
    <2>2. Len(log) \in Nat /\ Len(log) \in 1..Len(log) /\ i <= Len(log) /\ log # <<>>
        BY <1>0, <2>1
    <2>3. Remote = log[Len(log)]
        BY <2>2 DEF Remote
    <2> QED
        BY <1>3, <2>1, <2>2, <2>3 DEF LogStands, Version
<1>4. CASE Start(m)
    <2>1. Seen(log, disk[m].base)
        BY DEF AllAccounted, Accounted, FromLog, Seen
    <2>2. Has(disk[m].base, k) => local[m][k] # Absent /\ Has(Remote, k)
        BY <1>3, <2>1 DEF Stands
    <2> QED
        BY <1>2, <1>4, <2>2, StartOutcome DEF Stands, Syncing
<1>5. CASE Merge(m)
    <2>1. Has(op[m].base, k) => local[m][k] # Absent /\ Has(op[m].remote, k)
        BY <1>5 DEF Merge, Stands, Syncing
    <2>2. /\ Has(op[m].remote, k) => Has(MergeOf(m), k)
          /\ Has(MergeOf(m), k) => AfterMerge(m)[k] # Absent
        BY <2>1, MergeStands
    <2> QED
        BY <1>1, <1>5, <2>1, <2>2, MergeOutcome DEF Stands, Syncing
<1>6. CASE Put(m)
    <2>1. op[m].at = "put" /\ Seen(log, op[m].remote)
        BY <1>6 DEF Put, AllSeen, Syncing
    <2>2. Has(op[m].remote, k) => local[m][k] # Absent /\ Has(Remote, k)
        BY <1>3, <2>1 DEF Stands
    <2> QED
        BY <1>2, <1>6, <2>1, <2>2, PutOutcome DEF Stands, Syncing, Idle
<1>7. CASE Write(m)
    BY <1>7, WriteOutcome DEF Stands, Syncing, Idle
<1>8. CASE ~SyncOf(m)
    <2>1. disk'[m].base = disk[m].base
        <3>1. disk' = disk \/ \E S : disk' = [disk EXCEPT ![m].forget = S]
            BY <1>8 DEF StepOf, UserOf, Edit, Remove, Keep, Adopt, AddHere, Forget, WriteIsUndone,
               Save, Fail, Crash
        <3> QED
            BY <1>0, <3>1 DEF State
    <2> QED
        BY <1>1, <1>8, <2>1, OtherOutcome DEF Stands, Syncing, Idle
<1> QED
    BY <1>4, <1>5, <1>6, <1>7, <1>8 DEF SyncOf

LEMMA NextStands ==
    TypeOK /\ AllAccounted /\ AllSeen /\ SettingsAreSet /\ AllStand /\ [Next]_vars => AllStand'
<1> SUFFICES ASSUME TypeOK, AllAccounted, AllSeen, SettingsAreSet, AllStand, [Next]_vars, ~lost',
                    scope' # "projects"
             PROVE  AllStand'
    BY DEF AllStand
<1>1. CASE UNCHANGED vars
    BY <1>1 DEF vars, user, AllStand, LogStands, Stands, Syncing
<1>2. CASE Lose
    BY <1>2 DEF Lose
<1>3. ASSUME NEW m \in Machines, StepOf(m) PROVE AllStand'
    <2>1. /\ ~lost /\ scope # "projects" /\ LogAfter(m) /\ removed \subseteq removed'
          /\ \A n \in Machines : n # m => UNCHANGED <<local[n], disk[n], op[n]>>
        BY <1>3, StepsAreLocal
    <2>2. ASSUME NEW k \in Keys, k \notin removed'
          PROVE  LogStands(k)' /\ \A n \in Machines : Stands(n, k)'
        <3>1. LogStands(k) /\ \A n \in Machines : Stands(n, k)
            BY <2>1, <2>2 DEF AllStand
        <3>2. Stands(m, k)'
            BY <1>3, <2>1, <2>2, <3>1, StepStands
        <3>3. ASSUME NEW n \in Machines, n # m PROVE Stands(n, k)'
            BY <2>1, <3>1, <3>3 DEF Stands, Syncing
        <3>4. LogStands(k)'
            <4>0. /\ Len(log) \in Nat /\ Len(log') \in Nat
                  /\ \A i \in 1..Len(log) : i \in 1..Len(log') /\ log'[i] = log[i]
                  /\ \A i \in 1..Len(log') :
                       i \in 1..Len(log) \/ (Accepts(m) /\ i = Len(log) + 1
                                             /\ log'[i] = op[m].merged)
                BY <2>1, LogGrows
            <4> SUFFICES ASSUME NEW i \in 1..Len(log'), NEW j \in 1..Len(log'), i <= j,
                                Has(log'[i], k)
                         PROVE  Has(log'[j], k)
                BY DEF LogStands
            <4>1. CASE j \in 1..Len(log)
                <5>1. i \in 1..Len(log)
                    BY <4>0, <4>1
                <5> QED
                    BY <3>1, <4>0, <4>1, <5>1 DEF LogStands
            <4>2. CASE j \notin 1..Len(log)
                <5>1. Accepts(m) /\ j = Len(log) + 1 /\ log'[j] = op[m].merged
                    BY <4>0, <4>2
                <5>2. CASE i \notin 1..Len(log)
                    <6>1. log'[i] = op[m].merged
                        BY <4>0, <5>2
                    <6> QED
                        BY <5>1, <6>1
                <5>3. CASE i \in 1..Len(log)
                    <6>1. Len(log) \in 1..Len(log) /\ i <= Len(log)
                        BY <4>0, <5>3
                    <6>2. Has(log[Len(log)], k)
                        BY <3>1, <4>0, <5>3, <6>1 DEF LogStands
                    <6>3. op[m].remote = log[Len(log)] /\ op[m].at = "put"
                        BY <2>1, <5>1, <6>1 DEF Accepts, Version, AllAccounted, Accounted
                    <6> QED
                        BY <3>1, <5>1, <6>2, <6>3 DEF Stands
                <5> QED
                    BY <5>2, <5>3
            <4> QED
                BY <4>1, <4>2
        <3> QED
            BY <3>2, <3>3, <3>4
    <2> QED
        BY <2>2 DEF AllStand
<1> QED
    BY <1>1, <1>2, <1>3, NextIsAStep

\* One step of a sync deletes nothing, but a tool a user removed.
Deletes ==
    \E m \in Machines, k \in Keys :
        /\ Merge(m) /\ local[m][k] # Absent /\ local'[m][k] = Absent
        /\ ~(op[m].version > 0 /\ (lost \/ k \in removed))

LEMMA MergeDeletesNothing ==
    ASSUME TypeOK, NoDocumentNoBase, SettingsAreSet, AllStand
    PROVE  ~Deletes
<1> SUFFICES ASSUME NEW m \in Machines, NEW k \in Keys, Merge(m), local[m][k] # Absent,
                    local'[m][k] = Absent
             PROVE  op[m].version > 0 /\ (lost \/ k \in removed)
    BY DEF Deletes
<1>1. local'[m][k] = AfterMerge(m)[k] /\ op[m].at = "merge" /\ op[m].version \in Nat
    BY MergeOutcome DEF TypeOK
<1>2. scope # "settings"
    BY <1>1, SettingsMerge
<1>3. scope # "projects"
    <2>1. ASSUME scope = "projects" PROVE FALSE
        BY <1>1, <2>1, ProjectsView, ProjectsMerge
    <2> QED
        BY <2>1
<1>4. scope = "tooling"
    BY <1>2, <1>3, SyncAssumption DEF TypeOK
<1>5. MergeOf(m).vals[k] = Absent
    BY <1>1, <1>4, ToolingMerge
<1>6. Has(op[m].base, k) /\ op[m].remote.vals[k] = Absent
    <2> DEFINE b == BaseVal(op[m].base, k)
               l == local[m][k]
               r == op[m].remote.vals[k]
    <2>1. Keyed(b, l, r) = Absent
        BY <1>4, <1>5, ToolingMerge
    <2>2. l # Absent
        OBVIOUS
    <2> HIDE DEF b, l, r
    <2>3. r = Absent
        BY <2>1, <2>2 DEF Keyed, Field
    <2>4. Keyed(b, l, r) = IF l = b THEN Absent ELSE l
        BY <2>2, <2>3 DEF Keyed
    <2>5. b # Absent
        BY <2>1, <2>2, <2>4
    <2> QED
        BY <2>3, <2>5 DEF b, r, Has
<1>7. op[m].version > 0
    <2>1. op[m].base # NoBase
        BY <1>6 DEF Has, BaseVal
    <2> QED
        BY <1>1, <2>1 DEF NoDocumentNoBase, Syncing
<1>8. lost \/ k \in removed
    <2>1. ~Has(op[m].remote, k)
        BY <1>6, MergeTypes, DocHas
    <2> QED
        BY <1>1, <1>3, <1>6, <2>1 DEF AllStand, Stands, Syncing
<1> QED
    BY <1>7, <1>8

\* A sync takes nothing out of a store that no user of any machine removed (and
\* no crash lost), for any machines, entries, edits, faults and losses of the
\* document; and nothing at all when the server has no document.
THEOREM SyncDeletesNothing == Spec => NothingIsDeleted
<1>1. ~Deletes => [\A m \in Machines, k \in Keys :
         Merge(m) /\ local[m][k] # Absent /\ local'[m][k] = Absent =>
           op[m].version > 0 /\ (lost \/ k \in removed)]_vars
    BY DEF Deletes
<1> QED
    BY <1>1, MergeDeletesNothing, SyncTypeCorrect, InitAccounts, NextAccounts, InitSeen, NextSeen,
       InitStands, NextNoDocument, NextSettings, NextStands, PTL DEF Spec, NothingIsDeleted

------------------------------------------------------------------------------
(* Nothing comes back. *)

\* A value some user has entered and no document of the account says yet.
Fresh(k, v) == v \in 1..edits /\ ~Says(log, k, v)

\* What a store has for an entry goes with a base: it is what the base says, or
\* nothing, or fresh, or kept to this machine; before a merge, a project may
\* also be new to the base.  What is put is what the remote says or fresh.
GoesWith(m, k, d) ==
    \/ local[m][k] \in {Absent, BaseVal(d[m], k)}
    \/ Fresh(k, local[m][k])
    \/ k \in kept[m] /\ BaseVal(d[m], k) # Absent
MayMerge(m, k) ==
    \/ local[m][k] \in {Absent, BaseVal(op[m].base, k)}
    \/ Fresh(k, local[m][k])
    \/ scope = "projects" /\ (k \in kept[m] \/ BaseVal(op[m].base, k) = Absent)
IsNews(m, k) ==
    LET v == op[m].merged.vals[k]
        r == op[m].remote.vals[k]
    IN v \in {Absent, r} \/ (scope = "projects" /\ r = Absent) \/ Fresh(k, v)

OnDisk == [m \in Machines |-> disk[m].base]
Putting == [m \in Machines |-> op[m].merged]
Writing == [m \in Machines |-> op[m].state.base]

\* Not yet applied anything: the base on disk is the one the store goes with.
Settling(m) == op[m].at = "idle" \/ (op[m].at = "merge" /\ op[m].tries = 0)
Current(m, k) ==
    /\ Settling(m) /\ disk[m].base # NoBase => GoesWith(m, k, OnDisk)
    /\ op[m].at = "merge" /\ op[m].state.base # NoBase =>
         op[m].base # NoBase /\ MayMerge(m, k)
    /\ op[m].at = "put" => GoesWith(m, k, Putting)
    /\ op[m].at = "put" /\ op[m].state.base # NoBase => IsNews(m, k)
    /\ op[m].at = "write" => GoesWith(m, k, Writing)
AllCurrent == lost \/ \A m \in Machines : m \in lagging \/ \A k \in Keys : Current(m, k)

LEMMA InitCurrent == Init => AllCurrent
BY DEF Init, AllCurrent, Current, Idle, NoState, Settling

\* A fresh value of a machine stays fresh whatever another machine puts.
LEMMA StaysFresh ==
    ASSUME TypeOK, AllShared, ~lost, NEW m \in Machines, StepOf(m), NEW n \in Machines, n # m,
           NEW k \in Keys, NEW v, Holds(n, k, v), Fresh(k, v)
    PROVE  v \in 1..edits' /\ ~Says(log', k, v)
<1>1. LogAfter(m) /\ edits \in Nat /\ edits' \in {edits, edits + 1}
    BY StepsAreLocal
<1>2. ~(Accepts(m) /\ v = op[m].merged.vals[k])
    <2>1. ~Holds(m, k, v)
        BY DEF AllShared, Fresh
    <2> QED
        BY <2>1 DEF Holds
<1>3. ~Says(log', k, v)
    BY <1>1, <1>2, LogGrows DEF Fresh
<1> QED
    BY <1>1, <1>3 DEF Fresh

\* The other machines stay as current as they were.
LEMMA OthersCurrent ==
    ASSUME TypeOK, AllShared, ~lost, NEW m \in Machines, StepOf(m), NEW n \in Machines, n # m,
           NEW k \in Keys, Current(n, k)
    PROVE  Current(n, k)'
<1>1. /\ UNCHANGED <<scope, local[n], kept[n], disk[n], op[n]>>
    BY StepsAreLocal
<1>2. Fresh(k, local[n][k]) => Fresh(k, local[n][k])'
    <2>1. Holds(n, k, local[n][k])
        BY DEF Holds
    <2> QED
        BY <1>1, <2>1, StaysFresh DEF Fresh
<1>3. Fresh(k, op[n].merged.vals[k]) => Fresh(k, op[n].merged.vals[k])'
    <2>1. Holds(n, k, op[n].merged.vals[k])
        BY DEF Holds
    <2> QED
        BY <1>1, <2>1, StaysFresh DEF Fresh
<1>4. UNCHANGED <<OnDisk[n], Putting[n], Writing[n]>>
    BY <1>1 DEF OnDisk, Putting, Writing
<1>5. /\ GoesWith(n, k, OnDisk) => GoesWith(n, k, OnDisk)'
      /\ GoesWith(n, k, Putting) => GoesWith(n, k, Putting)'
      /\ GoesWith(n, k, Writing) => GoesWith(n, k, Writing)'
      /\ MayMerge(n, k) => MayMerge(n, k)'
    BY <1>1, <1>2, <1>4 DEF GoesWith, MayMerge
<1>6. IsNews(n, k) => IsNews(n, k)'
    BY <1>1, <1>3 DEF IsNews
<1> QED
    BY <1>1, <1>5, <1>6 DEF Current, Settling

\* What a merge leaves goes with what it puts.
LEMMA MergeGoes ==
    ASSUME TypeOK, SettingsAreSet, NEW m \in Machines, NEW k \in Keys
    PROVE  \/ AfterMerge(m)[k] \in {Absent, MergeOf(m).vals[k]}
           \/ k \in kept[m] /\ MergeOf(m).vals[k] # Absent
<1>1. CASE scope = "settings"
    <2>1. local[m][k] # Absent
        BY <1>1 DEF SettingsAreSet
    <2>2. MergeOf(m).vals[k] # Absent
        BY <1>1, <2>1, SettingsMerge DEF Preference, Field
    <2> QED
        BY <1>1, <2>2, SettingsMerge
<1>2. CASE scope = "tooling"
    BY <1>2, ToolingMerge
<1>3. CASE scope = "projects"
    BY <1>3, ProjectsView, ProjectsMerge
<1> QED
    BY <1>1, <1>2, <1>3, SyncAssumption DEF TypeOK

\* What a merge puts is what the account says, or fresh.
LEMMA MergeIsNews ==
    ASSUME TypeOK, SettingsAreSet, AllStand, ~lost, NEW m \in Machines, NEW k \in Keys,
           op[m].at = "merge", op[m].base # NoBase, MayMerge(m, k)
    PROVE  LET v == MergeOf(m).vals[k]
               r == op[m].remote.vals[k]
           IN v \in {Absent, r} \/ (scope = "projects" /\ r = Absent) \/ Fresh(k, v)
<1> DEFINE b == BaseVal(op[m].base, k)
           l == local[m][k]
           r == op[m].remote.vals[k]
           v == MergeOf(m).vals[k]
<1> SUFFICES ASSUME v # Absent, v # r, ~(scope = "projects" /\ r = Absent)
             PROVE  Fresh(k, v)
    OBVIOUS
<1>1. CASE scope = "settings"
    <2>1. v = Preference(b, l, r, op[m].base # NoBase) /\ l # Absent
        BY <1>1, SettingsMerge DEF SettingsAreSet
    <2>2. r = Absent => b = Absent
        <3>1. Has(op[m].base, k) => Has(op[m].remote, k)
            BY <1>1 DEF AllStand, SettingsAreSet, Stands, Syncing
        <3> QED
            BY <3>1, MergeTypes, DocHas DEF Has
    <2>3. v = l /\ l # b
        <3> HIDE DEF b, l, r, v
        <3> QED
            BY <2>1, <2>2 DEF Preference, Field
    <2> QED
        BY <1>1, <2>1, <2>3 DEF MayMerge
<1>2. CASE scope = "tooling"
    <2>1. v = Keyed(b, l, r)
        BY <1>2, ToolingMerge
    <2>2. v = l /\ l # b
        <3> HIDE DEF b, l, r, v
        <3>1. CASE l # Absent /\ r # Absent
            <4>1. v = Field(b, l, r, b # Absent)
                BY <2>1, <3>1 DEF Keyed
            <4> QED
                BY <4>1 DEF Field
        <3>2. CASE l # Absent /\ r = Absent
            <4>1. v = IF l = b THEN Absent ELSE l
                BY <2>1, <3>2 DEF Keyed
            <4> QED
                BY <4>1
        <3>3. CASE l = Absent
            <4>1. v = IF r = b THEN Absent ELSE r
                BY <2>1, <3>3 DEF Keyed
            <4> QED
                BY <4>1
        <3> QED
            BY <3>1, <3>2, <3>3
    <2> QED
        BY <1>2, <2>2 DEF MayMerge
<1>3. CASE scope = "projects"
    <2>1. v = ViewOf(m).vals[k] /\ v # b /\ b # Absent
        BY <1>3, ProjectsMerge
    <2>2. v = l /\ k \notin kept[m]
        BY <1>3, <2>1, ProjectsView
    <2> QED
        BY <2>1, <2>2 DEF MayMerge
<1> QED
    BY <1>1, <1>2, <1>3, SyncAssumption DEF TypeOK

\* What a user does keeps the store with the base it goes with, or is `stale`.
LEMMA UserCurrent ==
    ASSUME TypeOK, AllPast, OnlyProjects, ~lost, NEW m \in Machines, UserOf(m), m \notin lagging',
           NEW k \in Keys, Current(m, k)
    PROVE  Current(m, k)'
<1>0. /\ local \in [Machines -> [Keys -> Entry]] /\ kept \in [Machines -> SUBSET Keys]
      /\ disk \in [Machines -> State] /\ edits \in Nat
    BY DEF TypeOK
<1>1. ~\E other \in Machines : WriteIsUndone(m, other)
    BY DEF WriteIsUndone
<1>2. /\ UNCHANGED <<scope, log, op>> /\ edits' = edits + 1
    BY <1>1 DEF UserOf, Edit, Remove, Keep, Adopt, AddHere, Forget, Acts
<1>3. disk'[m].base = disk[m].base
    <2>1. disk' = disk \/ \E other \in Machines :
                            disk' = [disk EXCEPT ![m].forget = @ \cup {other}]
        BY <1>1 DEF UserOf, Edit, Remove, Keep, Adopt, AddHere, Forget
    <2> QED
        BY <1>0, <2>1 DEF State
<1>4. \A v : Fresh(k, v) => v \in 1..edits' /\ ~Says(log', k, v)
    BY <1>0, <1>2 DEF Fresh
<1>5. IsNews(m, k) => IsNews(m, k)'
    BY <1>2, <1>4 DEF IsNews, Fresh
<1>6. UNCHANGED <<OnDisk[m], Putting[m], Writing[m]>>
    BY <1>2, <1>3 DEF OnDisk, Putting, Writing
<1>7. Putting[m] # NoBase \/ op[m].at # "put"
    BY NoBaseIsNoDocument DEF TypeOK, Putting
<1>8. CASE local'[m][k] = local[m][k] /\ (k \in kept'[m] <=> k \in kept[m])
    <2>1. /\ GoesWith(m, k, OnDisk) => GoesWith(m, k, OnDisk)'
          /\ GoesWith(m, k, Putting) => GoesWith(m, k, Putting)'
          /\ GoesWith(m, k, Writing) => GoesWith(m, k, Writing)'
          /\ MayMerge(m, k) => MayMerge(m, k)'
        BY <1>2, <1>4, <1>6, <1>8 DEF GoesWith, MayMerge, Fresh
    <2> QED
        BY <1>2, <1>3, <1>5, <2>1 DEF Current, Settling
<1>9. CASE local'[m][k] = Absent \/ Fresh(k, local[m][k])'
    <2>1. /\ GoesWith(m, k, OnDisk)' /\ GoesWith(m, k, Putting)' /\ GoesWith(m, k, Writing)'
          /\ MayMerge(m, k)'
        BY <1>9 DEF GoesWith, MayMerge
    <2> QED
        BY <1>2, <1>5, <2>1 DEF Current
<1>10. CASE Keep(m, k)
    <2>1. /\ k \notin kept[m] /\ k \in kept'[m] /\ local' = local /\ local[m][k] # Absent
          /\ scope = "projects"
        BY <1>0, <1>10 DEF Keep, Acts
    <2>2. /\ GoesWith(m, k, OnDisk) => GoesWith(m, k, OnDisk)'
          /\ GoesWith(m, k, Putting) => GoesWith(m, k, Putting)'
          /\ GoesWith(m, k, Writing) => GoesWith(m, k, Writing)'
        BY <1>2, <1>4, <1>6, <2>1 DEF GoesWith, Fresh
    <2>3. MayMerge(m, k)'
        BY <1>2, <2>1 DEF MayMerge
    <2> QED
        BY <1>2, <1>3, <1>5, <2>2, <2>3 DEF Current, Settling
<1>11. CASE Adopt(m, k) \/ AddHere(m, k)
    <2>1. op[m].at = "idle" /\ op'[m].at = "idle"
        BY <1>2, <1>11 DEF Adopt, AddHere, Acts
    <2>2. GoesWith(m, k, OnDisk) \/ disk[m].base = NoBase
        BY <2>1 DEF Current, Settling
    <2>3. OnDisk[m] = disk[m].base /\ OnDisk'[m] = disk[m].base
        BY <1>3 DEF OnDisk
    <2>4. CASE BaseVal(disk[m].base, k) # Absent
        <3>1. local'[m][k] = BaseVal(disk[m].base, k)
            BY <1>0, <1>11, <2>4 DEF Adopt, AddHere, Sets
        <3>2. GoesWith(m, k, OnDisk)'
            BY <2>3, <3>1 DEF GoesWith
        <3> QED
            BY <2>1, <3>2 DEF Current
    <2>5. CASE BaseVal(disk[m].base, k) = Absent
        <3>1. local' = local
            BY <1>11, <2>5 DEF Adopt, AddHere
        <3>2. GoesWith(m, k, OnDisk) => GoesWith(m, k, OnDisk)'
            BY <1>2, <1>4, <2>3, <2>5, <3>1 DEF GoesWith, Fresh
        <3> QED
            BY <1>3, <2>1, <2>2, <3>2 DEF Current
    <2> QED
        BY <2>4, <2>5
<1>12. ASSUME NEW x \in Keys, x # k,
              Edit(m, x) \/ Remove(m, x) \/ Keep(m, x) \/ Adopt(m, x) \/ AddHere(m, x)
       PROVE  local'[m][k] = local[m][k] /\ (k \in kept'[m] <=> k \in kept[m])
    <2>1. local' = local \/ \E v : local' = [local EXCEPT ![m][x] = v]
        BY <1>12 DEF Edit, Remove, Keep, Adopt, AddHere, Sets
    <2>2. \/ kept' = kept \/ kept' = [kept EXCEPT ![m] = @ \ {x}]
          \/ kept' = [kept EXCEPT ![m] = IF x \in @ THEN @ \ {x} ELSE @ \cup {x}]
        BY <1>12 DEF Edit, Remove, Keep, Adopt, AddHere
    <2>3. local'[m][k] = local[m][k]
        BY <1>0, <1>12, <2>1
    <2>4. k \in kept'[m] <=> k \in kept[m]
        BY <1>0, <1>12, <2>2
    <2> QED
        BY <2>3, <2>4
<1>13. ASSUME NEW other \in Machines, Forget(m, other)
       PROVE  local'[m][k] = local[m][k] /\ (k \in kept'[m] <=> k \in kept[m])
    BY <1>13 DEF Forget
<1>14. ASSUME Edit(m, k) PROVE Fresh(k, local[m][k])'
    <2>1. local'[m][k] = edits + 1
        BY <1>0, <1>14 DEF Edit, Sets
    <2>2. ~UpTo(edits, edits + 1) /\ edits + 1 \in 1..(edits + 1)
        BY <1>0, SyncAssumption DEF UpTo
    <2>3. ~Says(log, k, edits + 1)
        BY <2>2 DEF AllPast
    <2> QED
        BY <1>2, <2>1, <2>2, <2>3 DEF Fresh
<1>15. ASSUME Remove(m, k) PROVE local'[m][k] = Absent
    BY <1>0, <1>15 DEF Remove, Sets
<1> QED
    BY <1>1, <1>8, <1>9, <1>10, <1>11, <1>12, <1>13, <1>14, <1>15 DEF UserOf

\* A step of the engine keeps the store with the base it goes with.
LEMMA SyncCurrent ==
    ASSUME TypeOK, AllAccounted, AllSeen, OnlyProjects, SettingsAreSet, AllStand, ~lost,
           NEW m \in Machines, SyncOf(m), m \notin lagging', NEW k \in Keys, Current(m, k)
    PROVE  Current(m, k)'
<1>0. /\ op \in [Machines -> Ops] /\ disk \in [Machines -> State] /\ edits' = edits
      /\ scope' = scope /\ Len(log) \in Nat /\ kept' = kept
    BY DEF TypeOK, Ops, SyncOf, Start, Merge, Put, Write, Syncs
<1>1. k \in kept[m] => scope = "projects"
    BY DEF OnlyProjects
<1>2. CASE Start(m)
    <2>1. /\ op[m].at = "idle" /\ op'[m].at = "merge" /\ op'[m].tries = 0
          /\ op'[m].state = disk[m]
          /\ op'[m].base = IF Version = 0 THEN NoBase ELSE disk[m].base
          /\ UNCHANGED <<log, local, disk, kept, edits>>
        BY <1>2, StartOutcome
    <2>2. ASSUME disk[m].base # NoBase PROVE GoesWith(m, k, OnDisk)' /\ MayMerge(m, k)'
        <3>1. GoesWith(m, k, OnDisk)
            BY <2>1, <2>2 DEF Current, Settling
        <3>2. Version # 0
            BY <1>0, <2>2 DEF AllAccounted, Accounted, FromLog, Version
        <3>3. OnDisk[m] = disk[m].base /\ OnDisk'[m] = disk[m].base /\ op'[m].base = disk[m].base
            BY <2>1, <3>2 DEF OnDisk
        <3> QED
            BY <1>0, <1>1, <2>1, <3>1, <3>3 DEF GoesWith, MayMerge, Fresh
    <2>3. disk[m].base # NoBase => Version # 0
        BY <1>0 DEF AllAccounted, Accounted, FromLog, Version
    <2> QED
        BY <2>1, <2>2, <2>3 DEF Current
<1>3. CASE Merge(m)
    <2> DEFINE v == MergeOf(m).vals[k]
    <2>0. /\ op[m].at = "merge" /\ local'[m] = AfterMerge(m)
          /\ UNCHANGED <<log, disk, kept, edits>>
        BY <1>3, MergeOutcome
    <2>1. \/ local'[m][k] \in {Absent, v}
          \/ k \in kept'[m] /\ v # Absent
        BY <2>0, MergeGoes
    <2>2. MergeOf(m) \in Document /\ BaseVal(MergeOf(m), k) = v
        BY MergeTypes, NoBaseIsNoDocument DEF BaseVal
    <2>3. CASE op'[m].at = "write" /\ op'[m].state.base = MergeOf(m)
        <3>1. Writing'[m] = MergeOf(m)
            BY <2>3 DEF Writing
        <3>2. GoesWith(m, k, Writing)'
            BY <2>1, <2>2, <3>1 DEF GoesWith
        <3> QED
            BY <2>3, <3>2 DEF Current, Settling
    <2>4. CASE /\ op'[m].at = "put" /\ op'[m].merged = MergeOf(m)
               /\ op'[m].state = op[m].state /\ op'[m].remote = op[m].remote
        <3>1. Putting'[m] = MergeOf(m)
            BY <2>4 DEF Putting
        <3>2. GoesWith(m, k, Putting)'
            BY <2>1, <2>2, <3>1 DEF GoesWith
        <3>3. ASSUME op[m].state.base # NoBase PROVE IsNews(m, k)'
            <4>1. op[m].base # NoBase /\ MayMerge(m, k)
                BY <2>0, <3>3 DEF Current
            <4>2. v \in {Absent, op[m].remote.vals[k]}
                  \/ (scope = "projects" /\ op[m].remote.vals[k] = Absent) \/ Fresh(k, v)
                BY <2>0, <4>1, MergeIsNews
            <4> QED
                BY <1>0, <2>0, <2>4, <4>2 DEF IsNews, Fresh
        <3> QED
            BY <2>4, <3>2, <3>3 DEF Current, Settling
    <2> QED
        BY <1>3, <2>3, <2>4, MergeOutcome
<1>4. CASE Put(m)
    <2>0. op[m].at = "put" /\ UNCHANGED <<local, disk, kept, edits>>
        BY <1>4, PutOutcome
    <2>1. /\ op[m].merged \in Document /\ op[m].remote \in Document /\ op[m].tries \in Nat
          /\ BaseVal(op[m].merged, k) = op[m].merged.vals[k]
          /\ BaseVal(op[m].remote, k) = op[m].remote.vals[k]
        BY <1>0, NoBaseIsNoDocument DEF Ops, BaseVal, MAX_ATTEMPTS
    <2>2. GoesWith(m, k, Putting)
        BY <2>0 DEF Current
    <2>3. \/ local[m][k] \in {Absent, op[m].merged.vals[k]}
          \/ Fresh(k, local[m][k])
          \/ k \in kept[m] /\ op[m].merged.vals[k] # Absent
        BY <2>1, <2>2 DEF GoesWith, Putting
    <2>4. CASE /\ Accepts(m) /\ log' = Append(log, op[m].merged) /\ op'[m].at = "write"
               /\ op'[m].state.base = op[m].merged
        <3>1. LogAfter(m)
            BY <2>4 DEF LogAfter
        <3>2. \/ local[m][k] \in {Absent, op[m].merged.vals[k]}
              \/ local[m][k] \in 1..edits' /\ ~Says(log', k, local[m][k])
              \/ k \in kept[m] /\ op[m].merged.vals[k] # Absent
            BY <1>0, <2>3, <3>1, LogGrows DEF Fresh
        <3>3. Writing'[m] = op[m].merged
            BY <2>4 DEF Writing
        <3>4. GoesWith(m, k, Writing)'
            BY <1>0, <2>0, <2>1, <3>2, <3>3 DEF GoesWith, Fresh
        <3> QED
            BY <2>4, <3>4 DEF Current, Settling
    <2>5. CASE /\ log' = log /\ op'[m].at = "merge" /\ op'[m].tries = op[m].tries + 1
               /\ op'[m].state = op[m].state
               /\ op'[m].base = IF Version = 0 THEN NoBase ELSE op[m].remote
        <3>1. ~Settling(m)'
            BY <2>1, <2>5 DEF Settling
        <3>2. ASSUME op[m].state.base # NoBase PROVE op'[m].base # NoBase /\ MayMerge(m, k)'
            <4>1. Version # 0
                BY <1>0, <3>2 DEF AllAccounted, Accounted, FromLog, Version
            <4>2. op'[m].base = op[m].remote /\ op[m].remote # NoBase
                BY <2>1, <2>5, <4>1, NoBaseIsNoDocument
            <4>3. IsNews(m, k)
                BY <2>0, <3>2 DEF Current
            <4>4. \/ local[m][k] \in {Absent, op[m].remote.vals[k]}
                  \/ Fresh(k, local[m][k])
                  \/ scope = "projects" /\ (k \in kept[m] \/ op[m].remote.vals[k] = Absent)
                BY <1>1, <2>3, <4>3 DEF IsNews
            <4> QED
                BY <1>0, <2>0, <2>1, <2>5, <4>2, <4>4 DEF MayMerge, Fresh
        <3> QED
            BY <2>5, <3>1, <3>2 DEF Current
    <2>6. CASE m \in lagging'
        BY <2>6
    <2> QED
        BY <1>4, <2>4, <2>5, <2>6, PutOutcome
<1>5. CASE Write(m)
    <2>1. /\ op[m].at = "write" /\ op'[m] = Idle /\ disk'[m] = op[m].state
          /\ UNCHANGED <<log, local, kept, edits>>
        BY <1>5, WriteOutcome
    <2>2. GoesWith(m, k, Writing) /\ Writing[m] = op[m].state.base
        BY <2>1 DEF Current, Writing
    <2>3. OnDisk'[m] = op[m].state.base
        BY <2>1 DEF OnDisk
    <2>4. GoesWith(m, k, OnDisk)'
        BY <2>1, <2>2, <2>3 DEF GoesWith, Fresh
    <2> QED
        BY <2>1, <2>4 DEF Current, Settling, Idle
<1> QED
    BY <1>2, <1>3, <1>4, <1>5 DEF SyncOf

\* A fault leaves the store with its base, or the machine is lagging.
LEMMA FaultCurrent ==
    ASSUME TypeOK, ~lost, NEW m \in Machines, Save(m) \/ Fail(m) \/ Crash(m), m \notin lagging',
           NEW k \in Keys, Current(m, k)
    PROVE  Current(m, k)'
<1>0. /\ local \in [Machines -> [Keys -> Entry]] /\ kept \in [Machines -> SUBSET Keys]
      /\ op \in [Machines -> Ops] /\ op[m].tries \in Nat /\ op[m].at \in Steps
    BY DEF TypeOK, Ops, MAX_ATTEMPTS
<1>1. CASE Save(m)
    <2>1. UNCHANGED <<scope, log, local, kept, disk, op, edits>>
        BY <1>1 DEF Save, user
    <2>2. /\ GoesWith(m, k, OnDisk)' <=> GoesWith(m, k, OnDisk)
          /\ GoesWith(m, k, Putting)' <=> GoesWith(m, k, Putting)
          /\ GoesWith(m, k, Writing)' <=> GoesWith(m, k, Writing)
          /\ MayMerge(m, k)' <=> MayMerge(m, k)
          /\ IsNews(m, k)' <=> IsNews(m, k)
        BY <2>1 DEF GoesWith, OnDisk, Putting, Writing, MayMerge, IsNews, Fresh
    <2> QED
        BY <2>1, <2>2 DEF Current, Settling
<1>2. CASE Fail(m) \/ Crash(m)
    <2>1. ~Interrupted(m) /\ op'[m] = Idle /\ disk' = disk /\ edits' = edits
        BY <1>0, <1>2 DEF Fail, Crash, user
    <2>2. Settling(m) /\ op[m].at # "put"
        BY <1>0, <2>1 DEF Interrupted, Settling, Steps
    <2>3. log' = log
        BY <1>2, <2>2 DEF Fail, Crash, PutMayArrive, Accepts
    <2>4. local'[m] = local[m] /\ kept'[m] = kept[m]
        <3>1. CASE Fail(m)
            BY <3>1 DEF Fail, user
        <3>2. CASE Crash(m)
            <4>1. stored[m] = [vals |-> local[m], kept |-> kept[m]]
                BY <3>2 DEF Crash, Unsaved
            <4>2. local'[m] = stored[m].vals /\ kept'[m] = stored[m].kept
                BY <1>0, <3>2 DEF Crash
            <4> QED
                BY <4>1, <4>2
        <3> QED
            BY <1>2, <3>1, <3>2
    <2>5. OnDisk'[m] = OnDisk[m]
        BY <2>1 DEF OnDisk
    <2>6. GoesWith(m, k, OnDisk) => GoesWith(m, k, OnDisk)'
        BY <2>1, <2>3, <2>4, <2>5 DEF GoesWith, Fresh
    <2> QED
        BY <2>1, <2>2, <2>6 DEF Current, Settling, Idle
<1> QED
    BY <1>1, <1>2

\* What the invariants above say together.
Sound ==
    /\ TypeOK /\ AllAccounted /\ AllSeen /\ AllPast /\ AllShared
    /\ OnlyProjects /\ SettingsAreSet /\ AllStand

LEMMA NextCurrent == Sound /\ AllCurrent /\ [Next]_vars => AllCurrent'
<1> SUFFICES ASSUME Sound, AllCurrent, [Next]_vars, ~lost' PROVE AllCurrent'
    BY DEF AllCurrent
<1>0. /\ TypeOK /\ AllAccounted /\ AllSeen /\ AllPast /\ AllShared
      /\ OnlyProjects /\ SettingsAreSet /\ AllStand
    BY DEF Sound
<1>1. CASE UNCHANGED vars
    <2>1. UNCHANGED <<scope, log, local, kept, disk, op, edits, lost, lagging>>
        BY <1>1 DEF vars, user
    <2>2. ASSUME NEW m \in Machines, NEW k \in Keys, Current(m, k) PROVE Current(m, k)'
        <3>1. /\ GoesWith(m, k, OnDisk)' <=> GoesWith(m, k, OnDisk)
              /\ GoesWith(m, k, Putting)' <=> GoesWith(m, k, Putting)
              /\ GoesWith(m, k, Writing)' <=> GoesWith(m, k, Writing)
              /\ MayMerge(m, k)' <=> MayMerge(m, k)
              /\ IsNews(m, k)' <=> IsNews(m, k)
            BY <2>1 DEF GoesWith, OnDisk, Putting, Writing, MayMerge, IsNews, Fresh
        <3> QED
            BY <2>1, <2>2, <3>1 DEF Current, Settling
    <2> QED
        BY <2>1, <2>2 DEF AllCurrent
<1>2. CASE Lose
    BY <1>2 DEF Lose
<1>3. ASSUME NEW m \in Machines, StepOf(m) PROVE AllCurrent'
    <2>1. ~lost /\ lagging \subseteq lagging'
        BY <1>0, <1>3, StepsAreLocal
    <2>2. ASSUME NEW n \in Machines, n \notin lagging', NEW k \in Keys PROVE Current(n, k)'
        <3>1. Current(n, k)
            BY <2>1, <2>2 DEF AllCurrent
        <3>2. CASE n # m
            BY <1>0, <1>3, <2>1, <3>1, <3>2, OthersCurrent
        <3>3. CASE n = m /\ UserOf(m)
            BY <1>0, <2>1, <2>2, <3>1, <3>3, UserCurrent
        <3>4. CASE n = m /\ SyncOf(m)
            BY <1>0, <2>1, <2>2, <3>1, <3>4, SyncCurrent
        <3>5. CASE n = m /\ (Save(m) \/ Fail(m) \/ Crash(m))
            BY <1>0, <2>1, <2>2, <3>1, <3>5, FaultCurrent
        <3> QED
            BY <1>3, <3>2, <3>3, <3>4, <3>5 DEF StepOf
    <2> QED
        BY <2>2 DEF AllCurrent
<1> QED
    BY <1>1, <1>2, <1>3, NextIsAStep

\* What a machine that is not lagging puts brings nothing back.
PutsBack ==
    \E m \in Machines, k \in Keys :
        /\ Put(m) /\ Accepts(m) /\ m \notin lagging /\ ~lost /\ op[m].state.base # NoBase
        /\ LET v == op[m].merged.vals[k] IN
             /\ v \notin {Absent, Remote.vals[k]}
             /\ ~(scope = "projects" /\ Remote.vals[k] = Absent)
             /\ \E i \in 1..Len(log) : log[i].vals[k] = v

LEMMA NothingIsPutBack ==
    ASSUME TypeOK, AllAccounted, AllCurrent
    PROVE  ~PutsBack
<1> SUFFICES ASSUME NEW m \in Machines, NEW k \in Keys, Accepts(m), m \notin lagging, ~lost,
                    op[m].state.base # NoBase, op[m].merged.vals[k] \notin {Absent, Remote.vals[k]},
                    ~(scope = "projects" /\ Remote.vals[k] = Absent),
                    Says(log, k, op[m].merged.vals[k])
             PROVE  FALSE
    BY DEF PutsBack, Says
<1>1. op[m].at = "put" /\ op[m].version = Len(log) /\ Len(log) \in Nat
    BY DEF Accepts, Version, TypeOK
<1>2. Len(log) > 0
    BY <1>1 DEF AllAccounted, Accounted, FromLog
<1>3. op[m].remote = Remote
    BY <1>1, <1>2 DEF AllAccounted, Accounted, Remote
<1>4. IsNews(m, k)
    BY <1>1 DEF AllCurrent, Current
<1> QED
    BY <1>3, <1>4 DEF IsNews, Fresh

\* A value the account moved on from does not come back by a sync, unless the
\* machine's base is behind its own store: for any machines, entries, edits and
\* faults, through every merge, refused put and retry.
THEOREM SyncBringsNothingBack == Spec => NothingComesBack
<1>1. ~PutsBack => [\A m \in Machines :
         Put(m) /\ Accepts(m) /\ m \notin lagging /\ ~lost /\ op[m].state.base # NoBase =>
           \A k \in Keys : LET v == op[m].merged.vals[k] IN
               \/ v \in {Absent, Remote.vals[k]}
               \/ scope = "projects" /\ Remote.vals[k] = Absent
               \/ \A i \in 1..Len(log) : log[i].vals[k] # v]_vars
    BY DEF PutsBack
<1>2. Spec => []Sound
    BY SyncTypeCorrect, InitAccounts, NextAccounts, InitSeen, NextSeen, InitPast, NextPast,
       NextShared, InitOnlyProjects, NextOnlyProjects, InitStands, NextSettings, NextStands,
       PTL DEF Spec, Sound
<1>3. Sound => TypeOK /\ AllAccounted
    BY DEF Sound
<1>4. Spec => []AllCurrent
    BY <1>2, InitCurrent, NextCurrent, PTL DEF Spec
<1> QED
    BY <1>1, <1>2, <1>3, <1>4, NothingIsPutBack, PTL DEF Spec, NothingComesBack
=============================================================================
