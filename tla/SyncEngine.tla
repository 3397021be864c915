------------------------------ MODULE SyncEngine ------------------------------
(* Cloud sync, `lib/sync/engine.ts` with its scopes: the machines of an       *)
(* account keep one versioned document per scope on a server that only stores *)
(* it.  Each machine merges three documents, applies the result to its own    *)
(* store and puts it with the version it is based on.  An action is one turn  *)
(* of the event loop or one request served; scopes do not share documents, so *)
(* a behaviour follows one of them.                                           *)
EXTENDS SyncMerge, Sequences, FiniteSets

CONSTANTS
    Scopes,       \* the scopes to follow: "settings", "tooling", "projects"
    Faulty,       \* the machines whose requests fail and whose app dies
    Events,       \* what else an instance allows, see MayHappen
    MaxEdits,     \* bound: what users do, by scope
    MaxFaults     \* bound: requests that fail, crashes and losses of the document

ASSUME SyncAssumption ==
    /\ Scopes \subseteq {"settings", "tooling", "projects"}
    /\ Faulty \subseteq Machines
    /\ MaxEdits \in [Scopes -> Nat] /\ MaxFaults \in Nat
    /\ Absent \notin Nat
    /\ NoBase \notin [vals : [Keys -> Nat \cup {Absent}], on : [Keys -> SUBSET Machines]]

VARIABLES
    scope,        \* the scope this behaviour follows
    log,          \* the documents the server accepted: version v is log[v]
    local,        \* the entries in the store of each machine
    kept,         \* projects.localOverrides: the entries a machine keeps to itself
    stored,       \* what of both its projects.json holds
    disk,         \* sync-state.json: version and base of the scope, forgetMachines
    op,           \* the sync under way on each machine
    edits,        \* what users did so far; a value is the number of its edit
    faults,       \* the faults so far
    lost,         \* history: the server lost the document once
    lagging,      \* history: machines whose base and store are not of the same time
    removed,      \* history: the entries some user removed, or a crash lost
    private       \* history: the values entered for an entry while it was kept, and when

user == <<local, kept, edits, removed, private>>
vars == <<scope, log, stored, disk, op, faults, lost, lagging, user>>

MAX_ATTEMPTS == 3
Value == 1..MaxEdits[scope]
Entry == Value \cup {0, Absent}
Document == [vals : [Keys -> Entry], on : [Keys -> SUBSET Machines]]
Store == [vals : [Keys -> Entry], kept : SUBSET Keys]
Override == [key : Keys, val : Value, since : Nat]
State == [version : Nat, base : Document \cup {NoBase}, forget : SUBSET Machines]
NoState == [version |-> 0, base |-> NoBase, forget |-> {}]

\* The account's document, and what a GET of it returns.
Version == Len(log)
Remote == IF log = <<>> THEN Empty ELSE log[Len(log)]

Steps == {"idle", "merge", "put", "write"}
Idle == [at |-> "idle", state |-> NoState, version |-> 0, base |-> NoBase,
         remote |-> Empty, merged |-> Empty, tries |-> 0]

MayHappen(e) == e \in Events
MayFail(e) == e \in Events /\ faults < MaxFaults

TypeOK ==
    /\ scope \in Scopes
    /\ log \in Seq(Document)
    /\ local \in [Machines -> [Keys -> Entry]] /\ kept \in [Machines -> SUBSET Keys]
    /\ stored \in [Machines -> Store]
    /\ disk \in [Machines -> State]
    /\ op \in [Machines -> [at : Steps, state : State, version : Nat,
                            base : Document \cup {NoBase}, remote : Document,
                            merged : Document, tries : 0..(MAX_ATTEMPTS - 1)]]
    /\ edits \in 0..MaxEdits[scope] /\ faults \in 0..MaxFaults /\ lost \in BOOLEAN
    /\ lagging \subseteq Machines /\ removed \subseteq Keys /\ private \subseteq Override

\* Preferences have a default; the machines may know a project before they sync,
\* and keep it to themselves; tools are added later.
Init ==
    /\ scope \in Scopes
    /\ log = <<>>
    /\ local \in [Machines -> [Keys -> CASE scope = "settings" -> {0}
                                         [] scope = "tooling"  -> {Absent}
                                         [] scope = "projects" -> {0, Absent}]]
    /\ kept \in [Machines -> SUBSET Keys]
    /\ \A m \in Machines : \A k \in kept[m] : scope = "projects" /\ local[m][k] # Absent
    /\ stored = [m \in Machines |-> [vals |-> local[m], kept |-> kept[m]]]
    /\ disk = [m \in Machines |-> NoState]
    /\ op = [m \in Machines |-> Idle]
    /\ edits = 0 /\ faults = 0 /\ lost = FALSE
    /\ lagging = {} /\ removed = {} /\ private = {}
------------------------------------------------------------------------------
(* The user of a machine. *)

\* An action of the user; `stale` when what it writes was read from a state on
\* disk that is not, or will not be, the state the store goes with.
Acts(m, stale) ==
    /\ edits < MaxEdits[scope]
    /\ edits' = edits + 1
    /\ lagging' = IF stale THEN lagging \cup {m} ELSE lagging
    /\ UNCHANGED <<scope, log, stored, op, faults, lost>>

Sets(m, k, v) == local' = [local EXCEPT ![m][k] = v]

\* A preference is set, a tool or project added or changed.
Edit(m, k) ==
    /\ Acts(m, FALSE)
    /\ Sets(m, k, edits + 1)
    /\ private' = IF k \in kept[m] /\ BaseVal(disk[m].base, k) # Absent
                  THEN private \cup {[key |-> k, val |-> edits + 1, since |-> Version]}
                  ELSE private
    /\ UNCHANGED <<kept, disk, removed>>

\* A tool is taken out of the manifest, or a project removed from this machine.
Remove(m, k) ==
    /\ MayHappen("remove")
    /\ scope # "settings" /\ local[m][k] # Absent
    /\ Acts(m, FALSE)
    /\ Sets(m, k, Absent)
    /\ kept' = [kept EXCEPT ![m] = @ \ {k}]
    /\ removed' = removed \cup {k}
    /\ UNCHANGED <<disk, private>>

\* The user shares what this machine has.
Shares(m, k) == private' = {p \in private : p.val # local[m][k]}

\* keepOnThisMachine, switched off again by "share this version", which puts
\* what this machine had all the time.
Keep(m, k) ==
    /\ MayHappen("keep")
    /\ scope = "projects" /\ local[m][k] # Absent
    /\ Acts(m, k \in kept[m])
    /\ kept' = [kept EXCEPT ![m] = IF k \in @ THEN @ \ {k} ELSE @ \cup {k}]
    /\ Shares(m, k)
    /\ UNCHANGED <<local, disk, removed>>

\* adoptSharedVersion: the value of the base on disk, then keepOnThisMachine off.
Adopt(m, k) ==
    /\ MayHappen("adopt")
    /\ scope = "projects" /\ k \in kept[m]
    /\ Acts(m, op[m].at # "idle")
    /\ kept' = [kept EXCEPT ![m] = @ \ {k}]
    /\ IF BaseVal(disk[m].base, k) # Absent
       THEN Sets(m, k, BaseVal(disk[m].base, k)) /\ UNCHANGED private
       ELSE Shares(m, k) /\ UNCHANGED local
    /\ UNCHANGED <<disk, removed>>

\* addProjectToThisMachine: a project of the account, as the base on disk has it.
AddHere(m, k) ==
    /\ MayHappen("add")
    /\ scope = "projects" /\ local[m][k] = Absent /\ BaseVal(disk[m].base, k) # Absent
    /\ Acts(m, op[m].at # "idle")
    /\ Sets(m, k, BaseVal(disk[m].base, k))
    /\ UNCHANGED <<kept, disk, removed, private>>

\* forgetMachine reads the whole state and writes it back with one more id.
Forget(m, other) ==
    /\ MayHappen("forget")
    /\ scope = "projects" /\ other \notin disk[m].forget \cup {m}
    /\ Acts(m, FALSE)
    /\ disk' = [disk EXCEPT ![m].forget = @ \cup {other}]
    /\ UNCHANGED <<local, kept, removed, private>>

\* The debounced save of the store; nothing reads it but a crash.
Unsaved(m) == stored[m] # [vals |-> local[m], kept |-> kept[m]]
Save(m) ==
    /\ Unsaved(m)
    /\ stored' = [stored EXCEPT ![m] = [vals |-> local[m], kept |-> kept[m]]]
    /\ UNCHANGED <<scope, log, disk, op, faults, lost, lagging, user>>
------------------------------------------------------------------------------
(* The engine. *)

\* Mutant: this machine stays listed for a project it no longer has.
ForgottenOnly(m) == op[m].state.forget

\* The machines not taken over from the document into this machine's view of it.
Drop(m) == op[m].state.forget \cup {m}

\* Mutant: the overrides of a project are not looked at.
CollectedWithOverrides(m) ==
    [vals |-> [k \in Keys |-> IF local[m][k] = Absent THEN op[m].remote.vals[k] ELSE local[m][k]],
     on |-> [k \in Keys |-> IF local[m][k] = Absent THEN op[m].remote.on[k] \ {m}
                            ELSE op[m].remote.on[k] \cup {m}]]

\* collect: what this machine would have the document say.
Collected(m) ==
    LET base == op[m].base
        prior(k) == IF BaseVal(base, k) # Absent THEN base ELSE op[m].remote
        others(k) == prior(k).on[k] \ Drop(m)
        held(k) == local[m][k] # Absent
    IN IF scope # "projects" THEN [vals |-> local[m], on |-> Empty.on]
       ELSE [vals |-> [k \in Keys |->
                 IF held(k) /\ (k \notin kept[m] \/ prior(k).vals[k] = Absent)
                 THEN local[m][k]
                 ELSE IF held(k) \/ op[m].remote.vals[k] # Absent THEN prior(k).vals[k]
                 ELSE Absent],
             on |-> [k \in Keys |->
                 IF held(k) THEN others(k) \cup {m}
                 ELSE IF op[m].remote.vals[k] # Absent THEN others(k) ELSE {}]]

Merged(m, view) ==
    CASE scope = "settings" -> MergeSettings(op[m].base, view, op[m].remote)
      [] scope = "tooling"  -> MergeTooling(op[m].base, view, op[m].remote)
      [] scope = "projects" -> Settled(MergeProjects(op[m].base, view, op[m].remote), view, m)

\* apply: the entries of the store after it.
Applied(m, view, merged) ==
    CASE scope = "settings" -> [k \in Keys |->
            IF merged.vals[k] # Absent THEN merged.vals[k] ELSE local[m][k]]
      [] scope = "tooling" -> merged.vals
      [] scope = "projects" -> [k \in Keys |->
            IF local[m][k] # Absent /\ m \in view.on[k] /\ k \notin kept[m]
            THEN merged.vals[k] ELSE local[m][k]]

\* Mutant: the version the put was based on is kept instead of the new one.
CommittedAsBefore(m, version, doc) ==
    [version |-> op[m].version, base |-> doc, forget |-> {}]

\* What is in the state once a document is committed.
Committed(m, version, doc) ==
    [version |-> version, base |-> doc,
     forget |-> IF scope = "projects" THEN {} ELSE op[m].state.forget]

\* The account already says what the merge says.
NothingNew(m, merged) == op[m].version > 0 /\ merged = op[m].remote

Syncs(m, next) ==
    /\ op' = [op EXCEPT ![m] = next]
    /\ UNCHANGED <<scope, stored, faults, lost, kept, edits, removed, private>>

\* syncNow, unless one is running: the state on disk, the manifest, and the
\* document, unless its version is that of the base: then the base is the remote.
\* A document put or lost between the two requests is one put or lost before.
Start(m) ==
    LET s == disk[m]
        unchanged == s.base # NoBase /\ s.version = Version IN
    /\ op[m].at = "idle"
    /\ Syncs(m, [at |-> "merge", state |-> s, version |-> Version, merged |-> Empty, tries |-> 0,
                 base |-> IF Version = 0 THEN NoBase ELSE s.base,
                 remote |-> IF unchanged THEN s.base ELSE Remote])
    /\ UNCHANGED <<log, local, disk, lagging>>

\* collect, merge and apply: no turn of the event loop comes between the read
\* of the store and the write to it.  Then the put, unless nothing is new.
Merge(m) ==
    LET view == Collected(m)
        merged == Merged(m, view)
    IN /\ op[m].at = "merge"
       /\ local' = [local EXCEPT ![m] = Applied(m, view, merged)]
       /\ Syncs(m,
            IF NothingNew(m, merged)
            THEN [Idle EXCEPT !.at = "write", !.state = Committed(m, op[m].version, merged)]
            ELSE [op[m] EXCEPT !.at = "put", !.merged = merged])
       /\ UNCHANGED <<log, disk, lagging>>

\* The server takes a put that is based on its version: the document is the new
\* base.  It answers any other with the document it has, which is merged with
\* what this machine merged against as the base, up to the last attempt.
Accepts(m) == op[m].at = "put" /\ op[m].version = Version
Put(m) ==
    LET again == op[m].tries + 1 < MAX_ATTEMPTS IN
    /\ op[m].at = "put"
    /\ IF Accepts(m)
       THEN /\ log' = Append(log, op[m].merged)
            /\ Syncs(m, [Idle EXCEPT !.at = "write",
                                     !.state = Committed(m, Version + 1, op[m].merged)])
       ELSE /\ UNCHANGED log
            /\ Syncs(m, IF ~again THEN Idle
                 ELSE [op[m] EXCEPT !.at = "merge", !.tries = @ + 1, !.merged = Empty,
                        !.version = Version, !.remote = Remote,
                        !.base = IF Version = 0 THEN NoBase ELSE op[m].remote])
    /\ lagging' = IF Accepts(m) \/ again THEN lagging ELSE lagging \cup {m}
    /\ UNCHANGED <<local, disk>>

\* writeState; the sync is over.
Write(m) ==
    /\ op[m].at = "write"
    /\ disk' = [disk EXCEPT ![m] = op[m].state]
    /\ Syncs(m, Idle)
    /\ UNCHANGED <<log, local, lagging>>
\* The same, when forgetMachine read the state before and writes it back after:
\* the base on disk is the old one again, whatever the scope.  What the list says
\* matters to projects only.
WriteIsUndone(m, other) ==
    /\ MayHappen("forget")
    /\ other # m /\ (scope = "projects" => other \notin disk[m].forget)
    /\ op[m].at = "write" /\ edits < MaxEdits[scope]
    /\ edits' = edits + 1
    /\ disk' = [disk EXCEPT ![m].forget = IF scope = "projects" THEN @ \cup {other} ELSE @]
    /\ op' = [op EXCEPT ![m] = Idle]
    /\ lagging' = lagging \cup {m}
    /\ UNCHANGED <<scope, log, stored, faults, lost, local, kept, removed, private>>
------------------------------------------------------------------------------
(* Faults. *)

\* The store was given a merge that the state on disk knows nothing of.
Interrupted(m) == op[m].at \in {"put", "write"} \/ op[m].tries > 0

\* The server may have taken the put whose answer never arrives.
PutMayArrive(m) == log' \in {log} \cup (IF Accepts(m) THEN {Append(log, op[m].merged)} ELSE {})

\* A request fails, times out or is refused (rate_limited).  What was applied
\* stays in the store.
Fail(m) ==
    /\ MayFail("fail") /\ op[m].at # "idle"
    /\ faults' = faults + 1
    /\ op' = [op EXCEPT ![m] = Idle]
    /\ PutMayArrive(m)
    /\ lagging' = IF Interrupted(m) THEN lagging \cup {m} ELSE lagging
    /\ UNCHANGED <<scope, stored, disk, lost, user>>

\* The app dies: what the store did not save yet is gone.
Crash(m) ==
    /\ MayFail("crash")
    /\ faults' = faults + 1
    /\ op' = [op EXCEPT ![m] = Idle]
    /\ PutMayArrive(m)
    /\ local' = [local EXCEPT ![m] = stored[m].vals]
    /\ kept' = [kept EXCEPT ![m] = stored[m].kept]
    /\ lagging' = IF Interrupted(m) \/ Unsaved(m)
                  THEN lagging \cup {m} ELSE lagging
    /\ removed' = removed \cup {k \in Keys : local[m][k] # Absent /\ stored[m].vals[k] = Absent}
    /\ UNCHANGED <<scope, stored, disk, lost, edits, private>>

\* The server no longer has the document; its versions start again.
Lose ==
    /\ MayFail("lose") /\ log # <<>>
    /\ faults' = faults + 1
    /\ lost' = TRUE
    /\ log' = <<>>
    /\ UNCHANGED <<scope, stored, disk, op, lagging, user>>

UserOf(m) ==
    \/ \E k \in Keys : Edit(m, k) \/ Remove(m, k) \/ Keep(m, k) \/ Adopt(m, k) \/ AddHere(m, k)
    \/ \E other \in Machines : Forget(m, other) \/ WriteIsUndone(m, other)
SyncOf(m) ==
    Start(m) \/ Merge(m) \/ Put(m) \/ Write(m)

Next ==
    \/ Lose
    \/ \E m \in Machines : UserOf(m) \/ SyncOf(m)
    \/ \E m \in Faulty : Save(m) \/ Fail(m) \/ Crash(m)

Spec == Init /\ [][Next]_vars

\* The poll of an account that syncs by itself starts a sync again and again;
\* and requests are answered or fail.
FairSpec == Spec /\ \A m \in Machines : WF_vars(SyncOf(m))
------------------------------------------------------------------------------
(* Properties. *)

\* The base a machine keeps is the document the account had at that version:
\* the shortcut that takes the base for the remote when the versions are equal
\* (engine.ts:112) reads no other document than the server would have given.
BaseIsWhatWasThere ==
    lost \/ \A m \in Machines :
        disk[m].base # NoBase => disk[m].version \in 1..Len(log)
                                 /\ disk[m].base = log[disk[m].version]

\* A value the account moved on from does not come back by a sync, unless the
\* syncing machine's base is behind its own store (a sync that died half-way,
\* a store that was not saved, a state or a list read before another write).
\* A project a machine still has may come back after the others dropped it.
NothingComesBack ==
    [][\A m \in Machines :
         Put(m) /\ Accepts(m) /\ m \notin lagging /\ ~lost /\ op[m].state.base # NoBase =>
           \A k \in Keys : LET v == op[m].merged.vals[k] IN
               \/ v \in {Absent, Remote.vals[k]}
               \/ scope = "projects" /\ Remote.vals[k] = Absent
               \/ \A i \in 1..Len(log) : log[i].vals[k] # v]_vars

\* A sync takes nothing out of a store that no user of any machine removed, and
\* nothing at all when the server has no document, having lost it.
NothingIsDeleted ==
    [][\A m \in Machines, k \in Keys :
         Merge(m) /\ local[m][k] # Absent /\ local'[m][k] = Absent =>
           op[m].version > 0 /\ (lost \/ k \in removed)]_vars

\* What a user enters for an entry this machine keeps to itself is never put, as
\* long as the account has had the entry ever since (toSyncedProject has no other
\* value to put in its place for a project the account no longer has).
OverridesStayHome ==
    lost \/ \A p \in private : \A i \in 1..Len(log) :
        log[i].vals[p.key] = p.val =>
          \E j \in p.since..(i - 1) : log[j].vals[p.key] = Absent

\* Once users and faults are done, every store says what the account says, and
\* the account lists the machines that have each project and no other.
Agreed ==
    \A m \in Machines, k \in Keys :
        /\ IF scope = "projects"
           THEN local[m][k] = Absent \/ k \in kept[m] \/ local[m][k] = Remote.vals[k]
           ELSE local[m][k] = Remote.vals[k]
        /\ scope = "projects" => (m \in Remote.on[k] <=> local[m][k] # Absent)
Converges == <>[](Agreed \/ lost)
==============================================================================
