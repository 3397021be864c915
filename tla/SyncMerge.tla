------------------------------ MODULE SyncMerge ------------------------------
(* The three-way merges of `lib/sync/merge.ts` and `lib/projectSync.ts`, for  *)
(* documents whose entries are opaque values.  A document maps each key to    *)
(* its value, or to Absent, and (projects only) to the machines that have it. *)
(* A field, a preference, a tool and a project are each one entry here: an    *)
(* entry of several fields merges field by field, so one field stands for all.*)
EXTENDS Naturals

CONSTANTS
    Machines,     \* the computers signed in to one account
    Keys,         \* what a document has entries for
    Absent,       \* the value of an entry that is not there
    NoBase        \* a client that has no document to merge against

Empty == [vals |-> [k \in Keys |-> Absent], on |-> [k \in Keys |-> {}]]

BaseVal(base, k) == IF base = NoBase THEN Absent ELSE base.vals[k]
BaseOn(base, k) == IF base = NoBase THEN {} ELSE base.on[k]

\* Mutant: local wins whatever the base.
FieldLocalWins(b, l, r, hasBase) == IF hasBase THEN l ELSE r

\* mergeFields: what one side changed wins, and local wins what both changed.
Field(b, l, r, hasBase) == IF l # r /\ (~hasBase \/ l = b) THEN r ELSE l

\* mergeFields with absentIsNoOpinion, for preferences.
Preference(b, l, r, hasBase) ==
    IF r = Absent THEN l ELSE IF l = Absent THEN r ELSE Field(b, l, r, hasBase)

\* Mutant: what is not in the remote document was removed there.
KeyedAsRemoved(b, l, r) == IF r = Absent THEN Absent ELSE Field(b, l, r, b # Absent)

\* mergeKeyed: an entry one side removed stays only if the other changed it.
Keyed(b, l, r) ==
    CASE l # Absent /\ r # Absent -> Field(b, l, r, b # Absent)
      [] l # Absent /\ r = Absent -> IF l = b THEN Absent ELSE l
      [] l = Absent               -> IF r = b THEN Absent ELSE r

\* mergeKeyed of the `machines` of a project, whose bindings only their own
\* machine writes: who is on one side only was added there or removed on the other.
Bindings(b, l, r) == (l \cap r) \cup (((l \cup r) \ (l \cap r)) \ b)

MergeSettings(base, local, remote) ==
    [vals |-> [k \in Keys |-> Preference(BaseVal(base, k), local.vals[k], remote.vals[k],
                                         base # NoBase)],
     on |-> Empty.on]

MergeTooling(base, local, remote) ==
    [vals |-> [k \in Keys |-> Keyed(BaseVal(base, k), local.vals[k], remote.vals[k])],
     on |-> Empty.on]

\* mergeProjects: a project on one side only is an entry that side may have
\* changed in its values or in its machines.
SameEntry(base, doc, k) == doc.vals[k] = BaseVal(base, k) /\ doc.on[k] = BaseOn(base, k)

MergeProjects(base, local, remote) ==
    LET both(k) == local.vals[k] # Absent /\ remote.vals[k] # Absent
        side(k) == IF local.vals[k] # Absent THEN local ELSE remote
        dropped(k) == ~both(k) /\ SameEntry(base, side(k), k)
    IN [vals |-> [k \in Keys |->
            IF both(k) THEN Field(BaseVal(base, k), local.vals[k], remote.vals[k],
                                  BaseVal(base, k) # Absent)
            ELSE IF dropped(k) THEN Absent ELSE side(k).vals[k]],
        on |-> [k \in Keys |->
            IF both(k) THEN Bindings(BaseOn(base, k), local.on[k], remote.on[k])
            ELSE IF dropped(k) THEN {} ELSE side(k).on[k]]]

\* settleProjects: this machine's entry comes from its own data, a project no
\* machine has is dropped, and one this machine has is kept.
Settled(merged, local, m) ==
    LET on(k) == (merged.on[k] \ {m}) \cup (local.on[k] \cap {m})
        kept(k) == merged.vals[k] # Absent /\ on(k) # {}
        readded(k) == m \in local.on[k]
    IN [vals |-> [k \in Keys |-> IF kept(k) THEN merged.vals[k]
                                 ELSE IF readded(k) THEN local.vals[k] ELSE Absent],
        on |-> [k \in Keys |-> IF kept(k) THEN on(k)
                               ELSE IF readded(k) THEN local.on[k] ELSE {}]]
=============================================================================
