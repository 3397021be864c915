------------------------- MODULE ProjectsFileProofs --------------------------
(* What the saves of projects.json keep, for any profiles, edits and faults.   *)
EXTENDS ProjectsFile, TLAPS

\* The saves of a page are numbered in the order they were sent, and a later one has
\* all that an earlier one has.
Ordered ==
    /\ \A s, t \in sent : s.seq = t.seq => s = t
    /\ \A s, t \in sent : s.seq < t.seq => s.doc \subseteq t.doc
    /\ \A s \in sent : s.seq <= sequence /\ s.seq # newest

\* Nothing was sent that the page has not.
FromDoc == Ready => \A s \in sent : s.doc \subseteq doc

\* A save that was passed by a newer one has nothing that the file has not.
Passed ==
    Settled /\ ~Overtaken =>
        \A s \in sent : s.seq < newest => s.doc \subseteq file[home]

\* The page, and every save that is yet to be the newest, have all that is in the file.
Kept ==
    Settled /\ ~blank =>
        /\ file[home] \subseteq doc
        /\ \A s \in sent : s.seq > newest => file[home] \subseteq s.doc

\* UnsavedIsComing, with what keeps it when the file was overtaken: then no save is
\* left that could undo that.
TimerIsSet == saveTimer # "none" \/ \E k \in Kinds : orphans[k] > 0
Pending == pendingSave /\ TimerIsSet
Coming ==
    Settled /\ ~unsaved =>
        \/ Pending
        \/ \E s \in sent : doc \subseteq s.doc
        \/ (\A s \in sent : s.seq < newest) /\ (~Overtaken => doc \subseteq file[home])

\* One flush is under way for a close, with what the close owes, and what comes after
\* it has that as well.
Flush ==
    /\ closing # "no" => Ready
    /\ \A s \in sent : s.by = "close" => closing = "persist" /\ s.doc = owed
    /\ \A s, t \in sent : s.by = "close" /\ t.by = "close" => s = t
    /\ Settled /\ closing \in {"quit", "destroy"} =>
        /\ ~Overtaken => owed \subseteq file[home]
        /\ \A s \in sent : s.seq > newest => owed \subseteq s.doc
        /\ owed \subseteq doc

\* Timers run and save, and answers are waited for, in a page that is there.
Idle == ~Ready => ~pendingSave /\ ~TimerIsSet /\ \A s \in sent : s.by = "nobody"

Inv == TypeOK /\ Ordered /\ FromDoc /\ Passed /\ Kept /\ Coming /\ Idle /\ Flush

\* The invariant without the types.
Facts == Ordered /\ FromDoc /\ Passed /\ Kept /\ Coming /\ Flush

\* A save that the page sends is newer than all, and has all that they have.
LEMMA SendingKeepsFacts ==
    ASSUME Inv, Ready, NEW by \in {"timer", "close", "nobody"}, Sends(doc', by),
           doc \subseteq doc', UNCHANGED <<active, file, last, page, home, blank, newest>>,
           IF by = "close" THEN closing = "confirm" /\ closing' = "persist" /\ owed' = doc'
                           ELSE UNCHANGED <<closing, owed>>
    PROVE  Facts'
<1> DEFINE new == [doc |-> doc', seq |-> sequence + 1, by |-> by]
<1>1. /\ sent' = sent \cup {new} /\ sequence' = sequence + 1
      /\ new.doc = doc' /\ new.seq = sequence + 1 /\ new.by = by
  BY DEF Sends
<1>2. /\ \A s \in sent : s.seq \in Nat /\ s.seq <= sequence /\ s.doc \subseteq doc'
      /\ sequence \in Nat /\ newest \in Nat /\ newest <= sequence
  BY DEF Inv, TypeOK, Save, Ordered, FromDoc
<1> HIDE DEF new
<1>3. Ordered'
  BY <1>1, <1>2 DEF Inv, Ordered
<1>4. FromDoc'
  BY <1>1, <1>2 DEF FromDoc
<1>5. Passed'
  BY <1>1, <1>2 DEF Inv, Passed, Settled, Ready, Overtaken
<1>6. Kept'
  BY <1>1, <1>2 DEF Inv, Kept, Settled, Ready
<1>7. Coming'
  BY <1>1 DEF Coming
<1>8. Flush'
  BY <1>1, <1>2 DEF Inv, Flush, Settled, Ready, Overtaken
<1> QED
  BY <1>3, <1>4, <1>5, <1>6, <1>7, <1>8 DEF Facts

\* A step that sends nothing and serves nothing, and leaves what is written and shown.
LEMMA QuietKeepsFacts ==
    ASSUME Inv,
           UNCHANGED <<active, file, last, sent, page, home, blank, newest, owed, sequence>>,
           doc \subseteq doc', doc' = doc \/ Pending',
           unsaved' = unsaved \/ Pending', Pending => Pending',
           \/ closing' = closing
           \/ Ready /\ closing \in {"no", "confirm", "destroy"} /\ closing' \in {"no", "confirm"}
           \/ Ready /\ closing = "quit" /\ closing' = "destroy"
    PROVE  Facts'
<1>1. Ordered' /\ FromDoc' /\ Passed' /\ Kept'
  BY DEF Inv, Ordered, FromDoc, Passed, Kept, Settled, Ready, Overtaken
<1>2. Coming'
  BY DEF Inv, Coming, Settled, Ready, Overtaken
<1>3. Flush'
  BY DEF Inv, Flush, Settled, Ready, Overtaken
<1> QED
  BY <1>1, <1>2, <1>3 DEF Facts

\* A save leaves: it was written, or dropped for a newer one.
LEMMA WritingKeepsFacts ==
    ASSUME Inv, NEW save \in sent, NEW late \in BOOLEAN, Writes(save, late)
    PROVE  Facts'
<1>1. /\ sent' = sent \ {save}
      /\ UNCHANGED <<active, page, home, blank, doc, sequence, pendingSave, saveTimer,
                     orphans, owed>>
      /\ closing' = IF save.by = "close" THEN "quit" ELSE closing
  BY DEF Writes, Answers, window, saving
<1>2. /\ \A s \in sent : s.seq \in Nat
      /\ sequence \in Nat /\ newest \in Nat /\ newest <= sequence
      /\ last \in Nat /\ last <= newest
      /\ \A s \in sent : s.seq <= sequence /\ s.seq # newest
      /\ \A s \in sent \ {save} : s.seq # save.seq
      /\ \A s \in sent : s.seq < save.seq => s.doc \subseteq save.doc
      /\ \A s \in sent : save.seq < s.seq => save.doc \subseteq s.doc
  BY DEF Inv, TypeOK, Save, Ordered
<1>3. CASE TooLate(save, late)
  <2>1. UNCHANGED <<file, last, unsaved, newest>> /\ save.seq < newest
    BY <1>2, <1>3 DEF Writes, TooLate
  <2>2. Ordered' /\ FromDoc' /\ Passed' /\ Kept'
    BY <1>1, <2>1 DEF Inv, Ordered, FromDoc, Passed, Kept, Settled, Ready, Overtaken
  <2>3. Coming'
    BY <1>1, <1>2, <2>1
    DEF Inv, Coming, Passed, Settled, Ready, Overtaken, Pending, TimerIsSet
  <2>4. Flush'
    BY <1>1, <1>2, <2>1 DEF Inv, Flush, FromDoc, Passed, Settled, Ready, Overtaken
  <2> QED
    BY <2>2, <2>3, <2>4 DEF Facts
<1>4. CASE ~TooLate(save, late)
  <2>1. /\ file' = [file EXCEPT ![active] = save.doc] /\ last' = save.seq
        /\ newest' = IF save.seq > newest THEN save.seq ELSE newest
        /\ unsaved' = (unsaved /\ save.doc # doc)
    BY <1>4 DEF Writes
  <2>2. Settled => file'[home] = save.doc
    BY <2>1 DEF Inv, TypeOK, Settled
  <2>3. Ordered' /\ FromDoc'
    BY <1>1, <1>2, <2>1 DEF Inv, Ordered, FromDoc, Ready
  <2>4. Passed'
    BY <1>1, <1>2, <2>1, <2>2 DEF Inv, Passed, Settled, Ready, Overtaken
  <2>5. Kept'
    BY <1>1, <1>2, <2>1, <2>2 DEF Inv, Kept, FromDoc, Settled, Ready
  <2>6. Coming'
    <3> SUFFICES ASSUME Settled', ~unsaved'
                 PROVE  \/ Pending'
                        \/ \E s \in sent' : doc' \subseteq s.doc
                        \/ /\ \A s \in sent' : s.seq < newest'
                           /\ ~Overtaken' => doc' \subseteq file'[home']
      BY DEF Coming
    <3>1. Settled /\ file'[home] = save.doc /\ Pending' = Pending
      BY <1>1, <2>2 DEF Settled, Ready, Pending, TimerIsSet
    <3>2. CASE doc \subseteq save.doc
      BY <1>1, <1>2, <2>1, <3>1, <3>2
    <3>3. CASE ~(doc \subseteq save.doc)
      <4>1. ~unsaved
        BY <2>1, <3>3
      <4>2. CASE \A s \in sent : s.seq < newest
        BY <1>1, <1>2, <2>1, <4>2 DEF Overtaken
      <4> QED
        BY <1>1, <3>1, <3>3, <4>1, <4>2 DEF Inv, Coming
    <3> QED
      BY <3>2, <3>3
  <2>7. Flush'
    BY <1>1, <1>2, <2>1, <2>2 DEF Inv, Flush, FromDoc, Settled, Ready, Overtaken
  <2> QED
    BY <2>3, <2>4, <2>5, <2>6, <2>7 DEF Facts
<1> QED
  BY <1>3, <1>4

\* A save leaves: it failed.
LEMMA FailingKeepsFacts ==
    ASSUME Inv, NEW save \in sent, Fails(save)
    PROVE  Facts'
<1>1. /\ sent' = sent \ {save}
      /\ UNCHANGED <<active, file, last, page, home, blank, doc, sequence, newest>>
      /\ closing' = IF save.by = "close" THEN "quit" ELSE closing
      /\ owed' = IF save.by = "close" THEN {} ELSE owed
  BY DEF Fails, Retried, Answers, window, saving
<1>2. Pending' \/ unsaved' = TRUE
  BY DEF Fails, Retried, Pending, TimerIsSet
<1>3. Ordered' /\ FromDoc' /\ Passed' /\ Kept'
  BY <1>1 DEF Inv, Ordered, FromDoc, Passed, Kept, Settled, Ready, Overtaken
<1>4. Coming'
  BY <1>2 DEF Coming
<1>5. Flush'
  BY <1>1 DEF Inv, Flush, Settled, Ready, Overtaken
<1> QED
  BY <1>3, <1>4, <1>5 DEF Facts

LEMMA UnaskedIsSave ==
    ASSUME NEW s \in Save
    PROVE  /\ Unasked(s) \in Save
           /\ Unasked(s).seq = s.seq /\ Unasked(s).doc = s.doc /\ Unasked(s).by = "nobody"
BY DEF Unasked, Save

\* The page or the app goes, or comes back.
LEMMA ComingAndGoingKeepsFacts ==
    ASSUME Inv, Load \/ Reload \/ Ends \/ Launch
    PROVE  Facts'
<1>1. CASE Load
  <2>1. /\ sent' = {} /\ last' = newest' /\ (~blank' => doc' = file'[home'])
        /\ doc' = file'[home'] \/ doc' = {}
        /\ closing' = "no"
    BY <1>1 DEF Inv, Flush, Load, shut, Ready
  <2> QED
    <3>1. Ordered' /\ FromDoc' /\ Passed' /\ Flush'
      BY <2>1 DEF Ordered, FromDoc, Passed, Flush
    <3>2. Kept' /\ Coming'
      BY <2>1 DEF Kept, Coming
    <3> QED
      BY <3>1, <3>2 DEF Facts
<1>2. CASE Reload
  <2>1. /\ sent' = {Unasked(s) : s \in sent} /\ ~Ready' /\ ~Settled'
        /\ closing' = "no" /\ UNCHANGED <<sequence, newest>>
    BY <1>2 DEF Reload, Drops, Ready, Settled
  <2>2. \A t \in sent' : \E s \in sent : /\ t.seq = s.seq /\ t.doc = s.doc
                                        /\ t.by = "nobody" /\ t = Unasked(s)
    BY <2>1, UnaskedIsSave DEF Inv, TypeOK
  <2>3. Ordered'
    BY <2>1, <2>2 DEF Inv, Ordered
  <2> QED
    BY <2>1, <2>2, <2>3 DEF Facts, FromDoc, Passed, Kept, Coming, Flush
<1>3. CASE Ends
  <2>1. sent' = {} /\ ~Ready' /\ ~Settled' /\ closing' = "no"
    BY <1>3 DEF Ends, Drops, Ready, Settled
  <2> QED
    BY <2>1 DEF Facts, Ordered, FromDoc, Passed, Kept, Coming, Flush
<1>4. CASE Launch
  <2>1. UNCHANGED <<sent, sequence, newest, closing, owed>> /\ ~Ready /\ ~Ready' /\ ~Settled'
    BY <1>4 DEF Launch, Ready, Settled, saving, shut
  <2> QED
    BY <2>1 DEF Inv, Facts, Ordered, FromDoc, Passed, Kept, Coming, Flush
<1> QED
  BY <1>1, <1>2, <1>3, <1>4

FileTypes ==
    /\ active \in Profiles /\ file \in [Profiles -> Document]
    /\ sent \subseteq Save /\ sequence \in Nat
    /\ last \in 0..sequence /\ newest \in last..sequence
PageTypes ==
    /\ page \in {"loading", "ready", "gone"} /\ home \in Profiles /\ doc \in Document
    /\ closing \in {"no", "confirm", "persist", "quit", "destroy"} /\ quit \in BOOLEAN
    /\ owed \in Document /\ edits \in 0..MaxEdits /\ faults \in 0..MaxFaults
SaveTypes ==
    /\ pendingSave \in BOOLEAN /\ saveTimer \in Kinds \cup {"none"}
    /\ orphans \in [Kinds -> Nat] /\ blank \in BOOLEAN /\ unsaved \in BOOLEAN

LEMMA TypesAreKept ==
    ASSUME Inv, [Next]_vars
    PROVE  TypeOK'
<1> USE DEF Inv, TypeOK
<1>1. ASSUME NEW document \in Document, NEW by \in {"timer", "close", "nobody"},
             Sends(document, by), UNCHANGED <<last, newest>>
      PROVE  sent' \subseteq Save /\ sequence' \in Nat /\ last' \in 0..sequence'
             /\ newest' \in last'..sequence'
  BY <1>1 DEF Sends, Save
<1>2. edits < MaxEdits => edits + 1 \in 0..MaxEdits
                          /\ doc \cup {<<home, edits + 1>>} \in Document
  BY ProjectsFileAssumption DEF Document
<1>3. Orphaned \in [Kinds -> Nat]
  BY DEF Orphaned
<1>4. Nothing \in [Kinds -> Nat] /\ {} \in Document
  BY DEF Nothing, Document
<1>5. ASSUME Edit \/ EditAndFlush PROVE TypeOK'
  <2>1. CASE Edit
    BY <2>1, <1>2 DEF Edit, shut, Kinds
  <2>2. CASE EditAndFlush
    <3>1. doc' \in Document /\ Sends(doc', "nobody")
      BY <2>2, <1>2 DEF EditAndFlush
    <3>2. sent' \subseteq Save /\ sequence' \in Nat /\ last' \in 0..sequence'
          /\ newest' \in last'..sequence'
      BY <1>1, <2>2, <3>1 DEF EditAndFlush
    <3> QED
      BY <2>2, <1>2, <3>1, <3>2 DEF EditAndFlush, shut
  <2> QED
    BY <1>5, <2>1, <2>2
<1>6. ASSUME NEW kind \in Kinds, NEW left \in [Kinds -> Nat], Fires(kind, left)
      PROVE  TypeOK'
  <2>1. /\ sent' \subseteq Save /\ sequence' \in Nat /\ last' \in 0..sequence'
        /\ newest' \in last'..sequence'
    BY <1>1, <1>6 DEF Fires
  <2> QED
    BY <2>1, <1>6 DEF Fires, window, shut, Kinds
<1>7. ASSUME NEW save \in sent, NEW late \in BOOLEAN, Writes(save, late) PROVE TypeOK'
  <2>1. save \in Save /\ save.doc \in Document /\ save.seq \in Nat /\ save.seq <= sequence
    BY DEF Save, Ordered
  <2>2. FileTypes'
    BY <2>1, <1>7 DEF Writes, FileTypes, saving
  <2>3. PageTypes' /\ SaveTypes'
    BY <2>1, <1>7 DEF Writes, Answers, PageTypes, SaveTypes, window, saving
  <2> QED
    BY <2>2, <2>3, Zenon DEF FileTypes, PageTypes, SaveTypes
<1>8. ASSUME NEW save \in sent, Fails(save) PROVE TypeOK'
  <2>1. FileTypes'
    BY <1>8 DEF Fails, Retried, FileTypes, saving
  <2>2. PageTypes'
    BY <1>4, <1>8, ProjectsFileAssumption DEF Fails, Fault, Answers, PageTypes, window
  <2>3. SaveTypes'
    BY <1>3, <1>8 DEF Fails, Retried, SaveTypes, Kinds, window, saving
  <2> QED
    BY <2>1, <2>2, <2>3, Zenon DEF FileTypes, PageTypes, SaveTypes
<1>9. ASSUME Load \/ Reload \/ Ends \/ Launch, faults' \in 0..MaxFaults PROVE TypeOK'
  <2>1. CASE Load
    <3>1. FileTypes'
      BY <1>4, <2>1 DEF Load, FileTypes
    <3>2. PageTypes' /\ SaveTypes'
      BY <1>4, <1>9, <2>1 DEF Load, PageTypes, SaveTypes, shut
    <3> QED
      BY <3>1, <3>2, Zenon DEF FileTypes, PageTypes, SaveTypes
  <2>2. CASE Reload
    <3> QED
      BY <1>4, <2>2, UnaskedIsSave DEF Reload, Drops
  <2>3. CASE Ends
    <3>1. FileTypes'
      BY <1>4, <2>3 DEF Ends, Drops, FileTypes
    <3>2. PageTypes' /\ SaveTypes'
      BY <1>4, <1>9, <2>3 DEF Ends, Drops, PageTypes, SaveTypes
    <3> QED
      BY <3>1, <3>2, Zenon DEF FileTypes, PageTypes, SaveTypes
  <2>4. CASE Launch
    BY <1>9, <2>4 DEF Launch, saving, shut
  <2> QED
    BY <1>9, <2>1, <2>2, <2>3, <2>4
<1>10. ASSUME NEW p \in Profiles, SetActiveProfile(p) PROVE TypeOK'
  BY <1>10 DEF SetActiveProfile, window, saving, shut
<1>11. ASSUME CloseRequested \/ Cancelled \/ QuitFails PROVE TypeOK'
  <2>1. FileTypes'
    BY <1>11 DEF CloseRequested, Cancelled, QuitFails, Still, FileTypes, saving
  <2>2. PageTypes' /\ SaveTypes'
    <3>1. faults' \in 0..MaxFaults
      <4>1. faults' = faults \/ (faults < MaxFaults /\ faults' = faults + 1)
        BY <1>11 DEF CloseRequested, Cancelled, QuitFails, Fault
      <4> QED
        BY <4>1, ProjectsFileAssumption
    <3>2. /\ closing' \in {"no", "confirm", "destroy"} /\ quit' \in BOOLEAN
          /\ UNCHANGED <<window, saving, edits, owed, unsaved>>
      BY <1>11 DEF CloseRequested, Cancelled, QuitFails, Closes, Still
    <3> QED
      BY <3>1, <3>2 DEF PageTypes, SaveTypes, window, saving
  <2> QED
    BY <2>1, <2>2, Zenon DEF FileTypes, PageTypes, SaveTypes
<1>12. ASSUME Confirmed PROVE TypeOK'
  <2>1. FileTypes'
    BY <1>1, <1>12 DEF Confirmed, Still, FileTypes
  <2>2. PageTypes' /\ SaveTypes'
    BY <1>12 DEF Confirmed, Closes, Awaited, Still, PageTypes, SaveTypes, window
  <2> QED
    BY <2>1, <2>2, Zenon DEF FileTypes, PageTypes, SaveTypes
<1>13. ASSUME Destroyed PROVE TypeOK'
  <2>1. CASE Ends /\ UNCHANGED faults
    BY <1>9, <2>1
  <2>2. CASE Fault("quit") /\ closing' = "no" /\ Still /\ UNCHANGED <<sent, saving, quit, owed>>
    BY <2>2, ProjectsFileAssumption DEF Fault, Still, window, saving
  <2> QED
    BY <1>13, <2>1, <2>2 DEF Destroyed
<1> HIDE DEF Inv, TypeOK
<1>14. CASE \/ Edit \/ EditAndFlush \/ SavesOn
  <2>1. CASE SavesOn
    <3>1. CASE TimerFires
      BY <1>6, <3>1 DEF TimerFires, Inv, TypeOK
    <3>2. ASSUME NEW k \in Kinds, OrphanFires(k) PROVE TypeOK'
      <4>1. [Orphaned EXCEPT ![k] = @ - 1] \in [Kinds -> Nat]
        BY <1>3, <3>2 DEF OrphanFires, Orphaned, Inv, TypeOK
      <4> QED
        BY <1>6, <3>2, <4>1 DEF OrphanFires
    <3> QED
      BY <2>1, <3>1, <3>2 DEF SavesOn
  <2> QED
    BY <1>5, <1>14, <2>1
<1>15. CASE Served \/ \E save \in sent : Fails(save)
  BY <1>7, <1>8, <1>15 DEF Served
<1>16. CASE (\E p \in Profiles : SetActiveProfile(p)) \/ Reload \/ Crash \/ Launch
  <2>1. faults \in 0..MaxFaults /\ MaxFaults \in Nat
    BY ProjectsFileAssumption DEF Inv, TypeOK
  <2>2. CASE Reload
    BY <1>9, <2>1, <2>2 DEF Reload
  <2>3. CASE Crash
    BY <1>9, <2>1, <2>3 DEF Crash, Fault
  <2>4. CASE Launch
    BY <1>9, <2>1, <2>4 DEF Launch
  <2> QED
    BY <1>10, <1>16, <2>2, <2>3, <2>4
<1>17. CASE CloseRequested \/ Cancelled \/ Confirmed \/ QuitFails \/ GoesOn
  <2>1. faults \in 0..MaxFaults /\ MaxFaults \in Nat
    BY ProjectsFileAssumption DEF Inv, TypeOK
  <2>2. CASE Load
    <3>1. faults' \in 0..MaxFaults
      BY <2>1, <2>2 DEF Load, Fault
    <3> QED
      BY <1>9, <2>2, <3>1
  <2>3. CASE QuitServed
    BY <1>9, <2>1, <2>3 DEF QuitServed
  <2> QED
    BY <1>11, <1>12, <1>13, <1>17, <2>2, <2>3 DEF GoesOn
<1>18. CASE UNCHANGED vars
  BY <1>18 DEF vars, window, saving, shut, Inv, TypeOK
<1> QED
  BY <1>14, <1>15, <1>16, <1>17, <1>18 DEF Next

LEMMA FactsAreKept ==
    ASSUME Inv, [Next]_vars
    PROVE  Facts'
<1>1. CASE Edit
  <2>1. Pending'
    BY <1>1 DEF Edit, Pending, TimerIsSet
  <2> QED
    BY <1>1, <2>1, QuietKeepsFacts DEF Edit, shut
<1>2. CASE EditAndFlush
  BY <1>2, SendingKeepsFacts DEF EditAndFlush, shut
<1>3. ASSUME NEW kind \in Kinds, NEW left, Fires(kind, left),
             kind = saveTimer \/ orphans[kind] > 0
      PROVE  Facts'
  <2>1. CASE kind = "retry" \/ ~pendingSave
    <3>1. Pending => Pending'
      BY <1>3, <2>1 DEF Fires, Pending, TimerIsSet
    <3>2. UNCHANGED <<active, file, last, sent, page, home, blank, newest, owed, sequence,
                      doc, unsaved, closing>>
      BY <1>3, <2>1 DEF Fires, window, shut
    <3> QED
      BY <3>1, <3>2, QuietKeepsFacts
  <2>2. CASE kind = "save" /\ pendingSave
    <3>1. Ready
      BY <1>3, <2>2 DEF Inv, Idle
    <3>2. Sends(doc', "timer") /\ doc' = doc
          /\ UNCHANGED <<active, file, last, page, home, blank, newest, closing, owed>>
      BY <1>3, <2>2 DEF Fires, window, shut
    <3> QED
      BY <3>1, <3>2, SendingKeepsFacts
  <2> QED
    BY <2>1, <2>2 DEF Kinds
<1>4. CASE TimerFires
  BY <1>3, <1>4 DEF TimerFires, Inv, TypeOK
<1>5. ASSUME NEW k \in Kinds, OrphanFires(k) PROVE Facts'
  BY <1>3, <1>5 DEF OrphanFires
<1>6. CASE Served \/ \E save \in sent : Fails(save)
  BY <1>6, WritingKeepsFacts, FailingKeepsFacts DEF Served
<1>7. ASSUME NEW p \in Profiles, SetActiveProfile(p) PROVE Facts'
  <2>1. ~Settled' /\ UNCHANGED <<page, doc, sent, sequence, newest, closing, owed>>
    BY <1>7 DEF SetActiveProfile, Settled, window, saving, shut
  <2> QED
    BY <2>1 DEF Inv, Facts, Ordered, FromDoc, Passed, Kept, Coming, Flush, Ready
<1>8. CASE Load \/ Reload \/ Crash \/ Launch \/ QuitServed
  BY <1>8, ComingAndGoingKeepsFacts DEF Crash, QuitServed
<1>9. CASE Confirmed
  BY <1>9, SendingKeepsFacts DEF Confirmed, Closes, Awaited, Still, window
<1>10. CASE CloseRequested \/ Cancelled \/ QuitFails
  <2>1. UNCHANGED <<active, file, last, sent, page, home, blank, newest, owed, sequence,
                    doc, unsaved, pendingSave, saveTimer, orphans>>
    BY <1>10 DEF CloseRequested, Cancelled, QuitFails, Still, window, saving
  <2>2. Pending => Pending'
    BY <2>1 DEF Pending, TimerIsSet
  <2>3. \/ Ready /\ closing \in {"no", "confirm", "destroy"} /\ closing' \in {"no", "confirm"}
        \/ Ready /\ closing = "quit" /\ closing' = "destroy"
    BY <1>10 DEF CloseRequested, Cancelled, QuitFails, Closes
  <2> QED
    BY <1>10, <2>1, <2>2, <2>3, QuietKeepsFacts
<1>11. CASE Destroyed
  <2>1. CASE Ends
    BY <2>1, ComingAndGoingKeepsFacts
  <2>2. CASE Fault("quit") /\ closing' = "no" /\ Still /\ UNCHANGED <<sent, saving, quit, owed>>
    <3>1. UNCHANGED <<active, file, last, sent, page, home, blank, newest, owed, sequence,
                      doc, unsaved, pendingSave, saveTimer, orphans>>
          /\ Ready /\ closing = "destroy"
      BY <1>11, <2>2 DEF Destroyed, Still, window, saving
    <3>2. Pending => Pending'
      BY <3>1 DEF Pending, TimerIsSet
    <3> QED
      BY <2>2, <3>1, <3>2, QuietKeepsFacts
  <2> QED
    BY <1>11, <2>1, <2>2 DEF Destroyed
<1>12. CASE UNCHANGED vars
  <2>1. UNCHANGED <<active, file, last, sent, page, home, blank, newest, owed, sequence,
                    doc, unsaved, pendingSave, saveTimer, orphans, closing>>
    BY <1>12 DEF vars, window, saving, shut
  <2>2. Pending => Pending'
    BY <2>1 DEF Pending, TimerIsSet
  <2> QED
    BY <2>1, <2>2, QuietKeepsFacts
<1> QED
  BY <1>1, <1>2, <1>4, <1>5, <1>6, <1>7, <1>8, <1>9, <1>10, <1>11, <1>12
  DEF Next, SavesOn, GoesOn

LEMMA IdleIsKept ==
    ASSUME Inv, [Next]_vars
    PROVE  Idle'
<1>1. CASE Ready'
  BY <1>1 DEF Idle
<1>2. CASE ~Ready'
  <2>1. CASE ~Ready /\ UNCHANGED <<pendingSave, saveTimer, orphans>> /\ sent' \subseteq sent
    BY <2>1 DEF Inv, Idle, TimerIsSet
  <2>2. CASE Drops /\ \A s \in sent' : s.by = "nobody"
    BY <2>2 DEF Drops, Idle, TimerIsSet, Nothing, Kinds
  <2>3. ASSUME NEW k \in Kinds, NEW left, Fires(k, left), TimerIsSet PROVE FALSE
    BY <1>2, <2>3 DEF Fires, Inv, Idle, Ready, window
  <2>4. ASSUME NEW save \in sent, Fails(save) PROVE Idle'
    <3>1. save.by # "timer"
      BY <1>2, <2>4 DEF Inv, Idle, Fails, window, Ready
    <3> QED
      BY <1>2, <2>1, <2>4, <3>1 DEF Fails, window, saving, Ready
  <2>5. ASSUME NEW save \in sent, NEW late, Writes(save, late) PROVE Idle'
    BY <1>2, <2>1, <2>5 DEF Writes, window, saving, Ready
  <2>6. CASE Reload
    BY <2>2, <2>6, UnaskedIsSave DEF Reload, Inv, TypeOK
  <2>7. CASE Ends
    BY <2>2, <2>7 DEF Ends
  <2>8. CASE TimerFires
    BY <2>3, <2>8 DEF TimerFires, TimerIsSet, Inv, TypeOK
  <2>9. CASE \E k \in Kinds : OrphanFires(k)
    BY <2>3, <2>9 DEF OrphanFires, TimerIsSet
  <2>10. CASE UNCHANGED vars
    BY <1>2, <2>1, <2>10 DEF vars, window, saving, Ready
  <2>11. CASE Launch \/ \E p \in Profiles : SetActiveProfile(p)
    BY <1>2, <2>1, <2>11 DEF Launch, SetActiveProfile, window, saving, Ready
  <2>12. CASE \/ Edit \/ EditAndFlush \/ Load \/ CloseRequested \/ Cancelled \/ Confirmed
             \/ QuitFails \/ (Destroyed /\ ~Ends)
    BY <1>2, <2>12
    DEF Edit, EditAndFlush, Load, CloseRequested, Cancelled, Confirmed, QuitFails,
        Destroyed, Closes, Still, window, Ready
  <2> QED
    BY <2>4, <2>5, <2>6, <2>7, <2>8, <2>9, <2>10, <2>11, <2>12
    DEF Next, SavesOn, Served, GoesOn, Crash, QuitServed, Destroyed
<1> QED
  BY <1>1, <1>2

\* Spec keeps Inv.
LEMMA Invariance == Spec => []Inv
<1>1. Init => Inv
  <2> SUFFICES ASSUME Init PROVE Inv
    OBVIOUS
  <2>1. TypeOK
    <3>1. FileTypes
      BY ProjectsFileAssumption DEF Init, FileTypes, Document
    <3>2. PageTypes
      <4>1. {} \in Document /\ 0 \in 0..MaxEdits /\ 0 \in 0..MaxFaults
        BY ProjectsFileAssumption DEF Document
      <4> QED
        BY <4>1, ProjectsFileAssumption DEF Init, PageTypes
    <3>3. SaveTypes
      BY DEF Init, SaveTypes, Nothing
    <3> QED
      BY <3>1, <3>2, <3>3, Zenon DEF TypeOK, FileTypes, PageTypes, SaveTypes
  <2>2. Ordered /\ FromDoc /\ Passed /\ Kept /\ Coming /\ Idle /\ Flush
    BY DEF Init, Ordered, FromDoc, Passed, Kept, Coming, Idle, Flush, Settled, Ready, TimerIsSet,
           Nothing, Kinds
  <2> QED
    BY <2>1, <2>2 DEF Inv
<1>2. Inv /\ [Next]_vars => Inv'
  BY TypesAreKept, FactsAreKept, IdleIsKept DEF Facts, Inv
<1> QED
  BY <1>1, <1>2, PTL DEF Spec

\* The state stays in its types.
THEOREM TypesHold == Spec => []TypeOK
<1>1. Inv => TypeOK
  BY DEF Inv
<1> QED
  BY <1>1, Invariance, PTL

\* An edit that is not in projects.json is on its way there, whatever the timers that
\* lost their place, the failures and the order in which the saves are served.
THEOREM EditsAreOnTheirWay == Spec => []UnsavedIsComing
<1>1. Inv => UnsavedIsComing
  BY DEF Inv, Coming, UnsavedIsComing, Pending, TimerIsSet
<1> QED
  BY <1>1, Invariance, PTL

\* No save takes out of projects.json what an earlier one put there.
THEOREM SavesKeepWhatIsSaved == Spec => NothingSavedIsLost
<1>1. Inv /\ Inv' /\ [Next]_vars
      => [Settled /\ ~blank /\ ~Overtaken' => file[home] \subseteq file'[home]]_vars
  <2> SUFFICES ASSUME Inv, Next, Settled, ~blank, ~Overtaken'
               PROVE  file[home] \subseteq file'[home]
    BY DEF vars
  <2>1. CASE Served
    <3> PICK save \in sent, late \in BOOLEAN : Writes(save, late)
      BY <2>1 DEF Served
    <3>1. CASE TooLate(save, late)
      BY <3>1 DEF Writes
    <3>2. CASE ~TooLate(save, late)
      <4>1. /\ file'[home] = save.doc /\ last' = save.seq
            /\ newest' = IF save.seq > newest THEN save.seq ELSE newest
        BY <3>2 DEF Writes, Inv, TypeOK, Settled
      <4>2. save.seq \in Nat /\ newest \in Nat /\ save.seq # newest
        BY DEF Inv, TypeOK, Save, Ordered
      <4> QED
        BY <4>1, <4>2 DEF Inv, Kept, Overtaken
    <3> QED
      BY <3>1, <3>2
  <2>2. CASE ~Served
    <3>1. UNCHANGED file
      BY <2>2
      DEF Next, Edit, EditAndFlush, SavesOn, TimerFires, OrphanFires, Fires, Fails,
          SetActiveProfile, Reload, Crash, Launch, CloseRequested, Cancelled, Confirmed,
          QuitFails, GoesOn, Load, QuitServed, Destroyed, Ends, Drops, Still
    <3> QED
      BY <3>1
  <2> QED
    BY <2>1, <2>2
<1> QED
  BY <1>1, Invariance, PTL DEF Spec, NothingSavedIsLost

\* An app that quits leaves in projects.json what the document had when the user
\* agreed to close it.
THEOREM QuittingKeepsEdits == Spec => QuitKeepsEdits
<1>1. Inv => [Ready /\ page' = "gone" /\ closing \in {"quit", "destroy"} /\ home = active
                /\ ~Overtaken => owed \subseteq file[home]]_vars
  BY DEF Inv, Flush, Settled
<1> QED
  BY <1>1, Invariance, PTL DEF Spec, QuitKeepsEdits
==============================================================================
