----------------------------- MODULE ProjectsFile -----------------------------
(* projects.json: the debounced saves of `stores/projectsStore.ts` with their  *)
(* retries, the command that writes the file (`projects.rs`), and the two ways *)
(* the page goes away, `lib/closeCoordinator.ts` and the reload after a switch *)
(* of profile.  A document is the set of edits it has; an action is one turn   *)
(* of the event loop, or one save served while SAVE_MUTEX is held.             *)
EXTENDS Integers

CONSTANTS
    Profiles,
    First,        \* the profile that is active at the first launch
    Events,       \* what an instance allows, see MayHappen
    MaxEdits,     \* bound: edits
    MaxFaults     \* bound: saves, loads and quits that fail, and crashes

ASSUME ProjectsFileAssumption ==
    First \in Profiles /\ MaxEdits \in Nat /\ MaxFaults \in Nat

VARIABLES
    active,       \* profiles.json: the profile the back end reads and writes
    file,         \* projects.json of each profile
    last,         \* LAST_WRITE_SEQUENCE
    sent,         \* the saves the back end was given and has not served
    page,         \* the window: it loads, is ready or is gone
    home,         \* the profile it loaded
    doc,          \* the document in memory
    pendingSave, saveTimer,
    orphans,      \* timers that still run but are not in saveTimer any more
    sequence,     \* lastWriteSequence, as a count
    closing,      \* where handleCloseRequest is
    quit,         \* quit_app was invoked and may still be served
    owed,         \* history: what the close has flushed
    edits, faults,
    blank,        \* history: the page could not read the file and began empty
    unsaved,      \* history: a flush failed, which nothing tries again
    newest        \* history: the newest of the saves this launch has written

saving == <<pendingSave, saveTimer, orphans, sequence>>
window == <<page, home, doc, blank>>
shut == <<closing, quit, owed>>
vars == <<active, file, last, sent, window, saving, shut, edits, faults, unsaved, newest>>

Document == SUBSET (Profiles \X (1..MaxEdits))
Kinds == {"save", "retry"}
\* Who waits for the answer: the retry, handleCloseRequest, or nobody.
Save == [doc : Document, seq : Nat, by : {"timer", "close", "nobody"}]

MayHappen(e) == e \in Events
Fault(e) == e \in Events /\ faults < MaxFaults /\ faults' = faults + 1

TypeOK ==
    /\ active \in Profiles /\ file \in [Profiles -> Document]
    /\ last \in 0..sequence /\ sent \subseteq Save
    /\ page \in {"loading", "ready", "gone"} /\ home \in Profiles /\ doc \in Document
    /\ pendingSave \in BOOLEAN /\ saveTimer \in Kinds \cup {"none"}
    /\ orphans \in [Kinds -> Nat]
    /\ sequence \in Nat
    /\ closing \in {"no", "confirm", "persist", "quit", "destroy"} /\ quit \in BOOLEAN
    /\ owed \in Document
    /\ edits \in 0..MaxEdits /\ faults \in 0..MaxFaults
    /\ blank \in BOOLEAN /\ unsaved \in BOOLEAN /\ newest \in last..sequence

Nothing == [k \in Kinds |-> 0]

Init ==
    /\ active = First /\ file = [p \in Profiles |-> {}] /\ last = 0 /\ sent = {}
    /\ page = "loading" /\ home = First /\ doc = {}
    /\ pendingSave = FALSE /\ saveTimer = "none" /\ orphans = Nothing /\ sequence = 0
    /\ closing = "no" /\ quit = FALSE /\ owed = {}
    /\ edits = 0 /\ faults = 0 /\ blank = FALSE /\ unsaved = FALSE /\ newest = 0
------------------------------------------------------------------------------
(* The saves of the store. *)

Ready == page = "ready"

\* The timer that saveTimer pointed at runs on when the variable is overwritten
\* without clearTimeout.
Orphaned == IF saveTimer = "none" THEN orphans ELSE [orphans EXCEPT ![saveTimer] = @ + 1]

\* saveProjectsFile(JSON.stringify(projectsPayload(state)), nextWriteSequence())
Sends(document, by) ==
    /\ sent' = sent \cup {[doc |-> document, seq |-> sequence + 1, by |-> by]}
    /\ sequence' = sequence + 1

\* update, which ends in scheduleSave: the timer starts again.
Edit ==
    /\ Ready /\ edits < MaxEdits
    /\ edits' = edits + 1
    /\ doc' = doc \cup {<<home, edits + 1>>}
    /\ pendingSave' = TRUE /\ saveTimer' = "save"
    /\ unsaved' = FALSE
    /\ UNCHANGED <<active, file, last, sent, page, home, blank, orphans, sequence, shut,
                   faults, newest>>

\* openRemoteAgent: an edit, and flushProjectsState at once.
EditAndFlush ==
    /\ MayHappen("flush")
    /\ Ready /\ edits < MaxEdits
    /\ edits' = edits + 1
    /\ doc' = doc \cup {<<home, edits + 1>>}
    /\ pendingSave' = FALSE /\ saveTimer' = "none"
    /\ Sends(doc', "nobody") /\ unsaved' = FALSE
    /\ UNCHANGED <<active, file, last, page, home, blank, orphans, shut, faults, newest>>

\* A timer of scheduleSave fires: the debounce sends what there is to save, the
\* retry begins another debounce.  Either takes whatever saveTimer holds for
\* itself; `left` is what runs on besides it.
Fires(kind, left) ==
    /\ orphans' = left
    /\ IF kind = "retry"
       THEN pendingSave' = TRUE /\ saveTimer' = "save" /\ UNCHANGED <<sent, sequence>>
       ELSE /\ pendingSave' = FALSE /\ saveTimer' = "none"
            /\ IF pendingSave THEN Sends(doc, "timer") ELSE UNCHANGED <<sent, sequence>>
    /\ UNCHANGED <<active, file, last, window, shut, edits, faults, unsaved, newest>>

TimerFires == saveTimer # "none" /\ Fires(saveTimer, orphans)
OrphanFires(kind) ==
    /\ orphans[kind] > 0
    /\ Fires(kind, [Orphaned EXCEPT ![kind] = @ - 1])
------------------------------------------------------------------------------
(* save_projects. *)

\* Mutant: the age of a save is all that counts.
OnlyLate(save, late) == late

\* A save that is not newer than the last one is dropped if it is more than
\* STALE_WRITE_THRESHOLD_MS old; `late` says whether it is.
TooLate(save, late) == save.seq <= last /\ late

\* handleCloseRequest goes on when its flush is answered, either way.
Answers(save) ==
    /\ closing' = IF save.by = "close" THEN "quit" ELSE closing
    /\ quit' = (quit \/ save.by = "close")

\* Tasks wait for SAVE_MUTEX in the order they come to it, which need not be the
\* order of the calls.
Waiting ==
    IF MayHappen("overtake") THEN sent ELSE {s \in sent : \A t \in sent : s.seq <= t.seq}

Writes(save, late) ==
    /\ save \in Waiting
    /\ IF TooLate(save, late) THEN UNCHANGED <<file, last, unsaved, newest>>
       ELSE /\ file' = [file EXCEPT ![active] = save.doc]
            /\ last' = save.seq
            /\ newest' = IF save.seq > newest THEN save.seq ELSE newest
            /\ unsaved' = (unsaved /\ save.doc # doc)
    /\ sent' = sent \ {save} /\ Answers(save)
    /\ UNCHANGED <<active, window, saving, owed, edits, faults>>

\* Mutant: the catch only notes that there is something to save.
NotRetried(save) ==
    /\ pendingSave' = TRUE /\ sent' = sent \ {save}
    /\ UNCHANGED <<saveTimer, orphans, sequence>>

\* Mutant: the catch sends the same text once more.
SentAgain(save) ==
    /\ sent' = (sent \ {save}) \cup {[save EXCEPT !.seq = sequence + 1]}
    /\ sequence' = sequence + 1
    /\ UNCHANGED <<pendingSave, saveTimer, orphans>>

\* The timer's catch sets a retry over whatever saveTimer holds.
Retried(save) ==
    /\ pendingSave' = TRUE /\ saveTimer' = "retry" /\ orphans' = Orphaned
    /\ sent' = sent \ {save} /\ UNCHANGED sequence

\* The write fails.
Fails(save) ==
    /\ save \in Waiting
    /\ Fault("fail")
    /\ IF save.by = "timer" THEN Retried(save) /\ UNCHANGED unsaved
       ELSE unsaved' = TRUE /\ sent' = sent \ {save} /\ UNCHANGED saving
    /\ owed' = IF save.by = "close" THEN {} ELSE owed
    /\ Answers(save)
    /\ UNCHANGED <<active, file, last, window, edits, newest>>
------------------------------------------------------------------------------
(* The window. *)

\* hydrate: what the page before it sent is served by then.  The new page takes its
\* sequence from the clock, past all that were used: the count begins anew.
Load ==
    /\ page = "loading" /\ sent = {}
    /\ page' = "ready" /\ home' = active
    /\ \/ doc' = file[active] /\ blank' = FALSE /\ UNCHANGED faults
       \/ Fault("load") /\ doc' = {} /\ blank' = TRUE
    /\ unsaved' = FALSE /\ sequence' = 0 /\ last' = 0 /\ newest' = 0
    /\ UNCHANGED <<active, file, sent, pendingSave, saveTimer, orphans, shut, edits>>

\* The page goes, with its timers and what it waited for.
Drops ==
    /\ pendingSave' = FALSE /\ saveTimer' = "none" /\ orphans' = Nothing
    /\ closing' = "no" /\ owed' = {}
    /\ UNCHANGED <<active, file, home, doc, blank, sequence, edits, unsaved>>

\* ProfilesModal: the back end is told of the profile, then the page reloads.  A
\* page also reloads when a profile is renamed.
SetActiveProfile(p) ==
    /\ MayHappen("switch")
    /\ Ready /\ home = active /\ p # active
    /\ active' = p
    /\ UNCHANGED <<file, last, sent, window, saving, shut, edits, faults, unsaved, newest>>
Unasked(save) == [save EXCEPT !.by = "nobody"]
Reload ==
    /\ MayHappen("switch") /\ Ready
    /\ page' = "loading"
    /\ sent' = {Unasked(s) : s \in sent}
    /\ Drops /\ UNCHANGED <<last, newest, quit, faults>>

\* The app ends: saves that were not served are lost.
Ends == page' = "gone" /\ sent' = {} /\ last' = 0 /\ newest' = 0 /\ quit' = FALSE /\ Drops
Crash == page # "gone" /\ Fault("crash") /\ Ends
Launch ==
    /\ page = "gone" /\ page' = "loading"
    /\ UNCHANGED <<active, file, last, sent, home, doc, blank, saving, shut, edits, faults,
                   unsaved, newest>>
------------------------------------------------------------------------------
(* handleCloseRequest: it does nothing while one is under way. *)

Closes(from, to) == Ready /\ closing = from /\ closing' = to
Still == UNCHANGED <<active, file, last, window, edits, unsaved, newest>>

CloseRequested ==
    /\ MayHappen("close")
    /\ Closes("no", "confirm")
    /\ Still /\ UNCHANGED <<sent, saving, quit, owed, faults>>
Cancelled ==
    /\ Closes("confirm", "no")
    /\ Still /\ UNCHANGED <<sent, saving, quit, owed, faults>>

\* Mutant: the page quits while the flush is under way.
NotAwaited == "quit"

Awaited == "persist"

\* beforeClose: flushProjectsState, which clears the timer it knows of.
Confirmed ==
    /\ Closes("confirm", Awaited)
    /\ pendingSave' = FALSE /\ saveTimer' = "none"
    /\ Sends(doc, "close")
    /\ owed' = doc /\ quit' = (Awaited = "quit")
    /\ Still /\ UNCHANGED <<orphans, faults>>

\* quit_app is served, at any time after it was invoked; or it fails or is not
\* answered in time, and the window is destroyed, which may fail too.
QuitServed == quit /\ page # "gone" /\ Ends /\ UNCHANGED faults
QuitFails ==
    /\ Closes("quit", "destroy") /\ Fault("quit")
    /\ quit' \in {quit, FALSE}
    /\ Still /\ UNCHANGED <<sent, saving, owed>>
Destroyed ==
    /\ Ready /\ closing = "destroy"
    /\ \/ Ends /\ UNCHANGED faults
       \/ /\ Fault("quit") /\ closing' = "no"
          /\ Still /\ UNCHANGED <<sent, saving, quit, owed>>

SavesOn == TimerFires \/ (\E k \in Kinds : OrphanFires(k))
Served == \E save \in sent, late \in BOOLEAN : Writes(save, late)
GoesOn == Load \/ QuitServed \/ Destroyed

Next ==
    \/ Edit \/ EditAndFlush \/ SavesOn
    \/ Served \/ \E save \in sent : Fails(save)
    \/ (\E p \in Profiles : SetActiveProfile(p)) \/ Reload \/ Crash \/ Launch
    \/ CloseRequested \/ Cancelled \/ Confirmed \/ QuitFails \/ GoesOn

Spec == Init /\ [][Next]_vars

\* Timers ring, the back end serves what it is given, and a page that has told it
\* of a profile reloads.
FairSpec ==
    /\ Spec
    /\ WF_vars(TimerFires) /\ \A k \in Kinds : WF_vars(OrphanFires(k))
    /\ WF_vars(Served) /\ WF_vars(GoesOn) /\ WF_vars(active # home /\ Reload)
------------------------------------------------------------------------------
(* Properties. *)

\* What is being served is for the profile the page shows.
Settled == Ready /\ home = active

\* The file was last written by a save older than another one that was written.
Overtaken == last # newest

\* An edit that is not in the file is on its way there: a timer will send it, or
\* it was sent.  Nothing else would, until the next edit.  (Not so when a flush
\* failed, or a save was overtaken by an older one.)
UnsavedIsComing ==
    Settled /\ ~unsaved /\ ~Overtaken /\ ~(doc \subseteq file[home]) =>
        \/ pendingSave /\ (saveTimer # "none" \/ \E k \in Kinds : orphans[k] > 0)
        \/ \E save \in sent : doc \subseteq save.doc

\* A save takes nothing out of the file that an earlier one put there.  (Not so
\* for a save that is overtaken by a newer one and comes less than two seconds
\* late, nor after the page could not read the file and began with an empty one.)
NothingSavedIsLost ==
    [][Settled /\ ~blank /\ ~Overtaken' => file[home] \subseteq file'[home]]_vars

\* When the app quits, the file has all the document had when the close was
\* confirmed, unless the flush failed.
QuitKeepsEdits ==
    [][Ready /\ page' = "gone" /\ closing \in {"quit", "destroy"} /\ home = active
         /\ ~Overtaken => owed \subseteq file[home]]_vars

\* projectsStore.ts:759: "Never let a delayed save from the previous profile write
\* into the newly selected namespace."
SavesStayInTheirProfile == \A p \in Profiles : \A e \in file[p] : e[1] = p

\* Every edit gets into the file in the end, unless the page goes first or a save
\* is overtaken.
EditsAreSaved ==
    [](Settled => <>(~Settled \/ unsaved \/ Overtaken \/ doc \subseteq file[home]))
==============================================================================
