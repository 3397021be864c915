--------------------------- MODULE WorkspaceProofs ---------------------------
(* The screen, the saved tabs and the history are in step, for any projects,   *)
(* terminals, tabs and limits.                                                 *)
EXTENDS Workspace, FiniteSetTheorems, SequenceTheorems, TLAPS

\* The part of the state that decides it: who has which terminal, and the screen.
Panes == [Projects -> SUBSET Terminals]
Shape == live \subseteq Projects /\ terms \in Panes /\ view \in View

\* What a call brings to the screen is there: what is on screen after it and is not
\* there was on screen before, and was not there either.
ScreenStep ==
    /\ Shape'
    /\ \A p \in Projects : view'[p] \subseteq terms'[p] \cup (view[p] \ terms[p])

\* A snapshot that was sanitized shows only what is there, whatever it held.
LEMMA SanitizedIsThere ==
    ASSUME NEW panes, NEW of \in Panes
    PROVE  /\ Sanitized(panes, of) \in View
           /\ \A p \in Projects : Sanitized(panes, of)[p] \subseteq of[p]
BY DEF Panes, View, Sanitized

\* A tab that is shown, opened or visited again, is sanitized first.
LEMMA NavigatesShowsWhatIsThere ==
    ASSUME Shape, NEW tab, NEW add, NEW s, NEW h, NEW n,
           Navigates(tab, add, s, h, n), UNCHANGED <<live, terms>>
    PROVE  ScreenStep
<1>1. view' = Sanitized(tab.panes, terms)
  BY DEF Navigates
<1> QED
  BY <1>1, SanitizedIsThere DEF ScreenStep, Shape

\* A call that changes the screen alone shows what it was given.
LEMMA ShowsWhatIsGiven ==
    ASSUME Shape, NEW newView \in View, Shows(newView),
           \A p \in Projects : newView[p] \subseteq terms[p] \cup view[p]
    PROVE  ScreenStep
<1>1. view' = newView /\ UNCHANGED <<live, terms>>
  BY DEF Shows, Saves
<1> QED
  BY <1>1 DEF ScreenStep, Shape

\* What a call gives is there when it adds terminals of the project or takes away.
LEMMA ViewAfter ==
    ASSUME Shape, NEW p \in Projects, NEW panes
    PROVE  LET more == [view EXCEPT ![p] = @ \cup panes]
               less == [view EXCEPT ![p] = @ \ panes]
           IN /\ panes \subseteq terms[p] =>
                     more \in View /\ \A q \in Projects : more[q] \subseteq terms[q] \cup view[q]
              /\ less \in View /\ \A q \in Projects : less[q] \subseteq terms[q] \cup view[q]
BY DEF Shape, Panes, View

LEMMA TabStepsShowWhatIsThere ==
    ASSUME Shape,
           \/ \E p \in live : OpenProject(p) \/ \E t \in terms[p] : OpenTerminal(p, t)
           \/ \E i \in DOMAIN tabs : Activate(i) \/ AddToActive(i) \/ Close(i)
           \/ \E i \in DOMAIN tabs : Pin(i)
           \/ Reopen \/ \E n : GoTo(n)
    PROVE  ScreenStep
<1>1. ASSUME NEW p \in live, OpenProject(p) PROVE ScreenStep
  <2>1. UNCHANGED <<live, terms>>
    BY <1>1 DEF OpenProject, Keep
  <2>2. \E tab, add : Navigates(tab, add, tabs, history, index)
    BY <1>1, Zenon DEF OpenProject, NewTab
  <2> QED
    BY <2>1, <2>2, NavigatesShowsWhatIsThere
<1>2. ASSUME NEW p \in live, NEW t \in terms[p], OpenTerminal(p, t) PROVE ScreenStep
  <2>1. UNCHANGED <<live, terms>>
    BY <1>2 DEF OpenTerminal, Keep
  <2>2. \E tab, add : Navigates(tab, add, tabs, history, index)
    BY <1>2, Zenon DEF OpenTerminal, NewTab
  <2> QED
    BY <2>1, <2>2, NavigatesShowsWhatIsThere
<1>3. ASSUME NEW i \in DOMAIN tabs, Activate(i) PROVE ScreenStep
  BY <1>3, NavigatesShowsWhatIsThere DEF Activate, Keep
<1>4. ASSUME NEW i \in DOMAIN tabs, AddToActive(i) PROVE ScreenStep
  <2> DEFINE shown == [p \in Projects |-> view[p] \cup Sanitized(tabs[i].panes, terms)[p]]
  <2>1. \A p \in Projects : Sanitized(tabs[i].panes, terms)[p] \subseteq terms[p]
    BY SanitizedIsThere DEF Shape
  <2>2. shown \in View /\ \A p \in Projects : shown[p] \subseteq terms[p] \cup view[p]
    BY <2>1 DEF Shape, Panes, View
  <2>3. Shows(shown)
    BY <1>4 DEF AddToActive
  <2> QED
    BY <2>2, <2>3, ShowsWhatIsGiven
<1>5. ASSUME NEW i \in DOMAIN tabs, Close(i) PROVE ScreenStep
  <2>1. UNCHANGED <<live, terms>>
    BY <1>5 DEF Close
  <2>2. \/ UNCHANGED view
        \/ view' = Nothing
        \/ \E tab, add, s, h, n : Navigates(tab, add, s, h, n)
    BY <1>5, Zenon DEF Close
  <2>3. CASE UNCHANGED view
    BY <2>1, <2>3 DEF ScreenStep, Shape
  <2>4. CASE view' = Nothing
    BY <2>1, <2>4 DEF ScreenStep, Shape, View, Nothing
  <2> QED
    BY <2>1, <2>2, <2>3, <2>4, NavigatesShowsWhatIsThere
<1>6. ASSUME NEW i \in DOMAIN tabs, Pin(i) PROVE ScreenStep
  <2>1. UNCHANGED <<live, terms, view>>
    BY <1>6, Zenon DEF Pin
  <2> QED
    BY <2>1 DEF ScreenStep, Shape
<1>7. ASSUME Reopen PROVE ScreenStep
  BY <1>7, NavigatesShowsWhatIsThere DEF Reopen, Keep
<1>8. ASSUME NEW n, GoTo(n) PROVE ScreenStep
  <2>1. view' = Sanitized(history[n].panes, terms) /\ UNCHANGED <<live, terms>>
    BY <1>8 DEF GoTo
  <2> QED
    BY <2>1, SanitizedIsThere DEF ScreenStep, Shape
<1> QED
  BY <1>1, <1>2, <1>3, <1>4, <1>5, <1>6, <1>7, <1>8, Zenon

LEMMA PaneStepsShowWhatIsThere ==
    ASSUME Shape,
           \/ \E p \in live : \E panes \in Some(terms[p] \ view[p]) : Show(p, panes)
           \/ \E p \in Projects : \E panes \in Some(view[p]) \ {{}} : Hide(p, panes)
           \/ Focus \/ Restart
    PROVE  ScreenStep
<1>1. ASSUME NEW p \in live, NEW panes \in Some(terms[p] \ view[p]), Show(p, panes)
      PROVE  ScreenStep
  <2>1. p \in Projects /\ panes \in SUBSET terms[p]
    BY DEF Shape, Some
  <2> QED
    BY <1>1, <2>1, ViewAfter, ShowsWhatIsGiven DEF Show
<1>2. ASSUME NEW p \in Projects, NEW panes \in Some(view[p]) \ {{}}, Hide(p, panes)
      PROVE  ScreenStep
  <2> QED
    BY <1>2, ViewAfter, ShowsWhatIsGiven DEF Hide
<1>3. CASE Focus
  <2>1. UNCHANGED <<live, terms, view>>
    BY <1>3 DEF Focus
  <2> QED
    BY <2>1 DEF ScreenStep, Shape
<1>4. CASE Restart
  <2>1. view' = Sanitized(view, terms) /\ UNCHANGED <<live, terms>>
    BY <1>4 DEF Restart
  <2> QED
    BY <2>1, SanitizedIsThere DEF ScreenStep, Shape
<1> QED
  BY <1>1, <1>2, <1>3, <1>4

\* The calls that change what there is take it off the screen with them.
LEMMA ProjectStepsShowWhatIsThere ==
    ASSUME Shape,
           \/ \E p \in live : \E t \in terms[p] : DeleteTerminal(p, t)
           \/ \E gone \in (SUBSET live) \ {{}} : DeleteProjects(gone)
           \/ \E p \in live : \E q \in live \ {p}, t \in terms[p] : MoveTerminal(p, t, q)
    PROVE  ScreenStep
<1> USE DEF ScreenStep, Shape, Panes, View
<1>2. ASSUME NEW p \in live, NEW t \in terms[p], DeleteTerminal(p, t) PROVE ScreenStep
  <2>1. /\ terms' = [terms EXCEPT ![p] = @ \ {t}]
        /\ view' = [view EXCEPT ![p] = @ \ {t}] /\ UNCHANGED live
    BY <1>2 DEF DeleteTerminal, Forgets, Saves
  <2> QED
    BY <2>1
<1>3. ASSUME NEW gone \in (SUBSET live) \ {{}}, DeleteProjects(gone) PROVE ScreenStep
  <2>1. /\ terms' = [p \in Projects |-> IF p \in gone THEN {} ELSE terms[p]]
        /\ view' = [p \in Projects |-> IF p \in gone THEN {} ELSE view[p]]
        /\ live' = live \ gone
    BY <1>3 DEF DeleteProjects, Forgets, Saves
  <2> QED
    BY <2>1
<1>4. ASSUME NEW p \in live, NEW q \in live \ {p}, NEW t \in terms[p], MoveTerminal(p, t, q)
      PROVE  ScreenStep
  <2>1. /\ terms' = [terms EXCEPT ![p] = @ \ {t}, ![q] = @ \cup {t}]
        /\ view' = [view EXCEPT ![p] = @ \ {t}] /\ UNCHANGED live
    BY <1>4 DEF MoveTerminal, Saves
  <2> QED
    BY <2>1
<1> QED
  BY <1>2, <1>3, <1>4, Zenon

\* A terminal that is created has its project, unless the project is gone.
LEMMA CreatingShowsTheNewOne ==
    ASSUME Shape, NEW p \in Projects, NEW t \in Terminals, CreateTerminal(p, t)
    PROVE  /\ Shape'
           /\ terms' = [terms EXCEPT ![p] = IF p \in live THEN @ \cup {t} ELSE @]
           /\ view' = [view EXCEPT ![p] = @ \cup {t}]
           /\ late' = [late EXCEPT ![p] = IF p \in live THEN @ ELSE @ \cup {t}]
<1>1. /\ terms' = [terms EXCEPT ![p] = IF p \in live THEN @ \cup {t} ELSE @]
      /\ view' = [view EXCEPT ![p] = @ \cup {t}] /\ UNCHANGED live
      /\ late' = [late EXCEPT ![p] = IF p \in live THEN @ ELSE @ \cup {t}]
  BY DEF CreateTerminal, Saves
<1> QED
  BY <1>1 DEF Shape, Panes, View

LEMMA CallsShowWhatIsThere == Shape /\ Calls => ScreenStep
BY TabStepsShowWhatIsThere, PaneStepsShowWhatIsThere, ProjectStepsShowWhatIsThere, Zenon DEF Calls

ShownInv == Shape /\ late \in View /\ ShownPanesExist

LEMMA ShownInvIsKept == Spec => []ShownInv
<1>1. Init => ShownInv
  BY DEF Init, ShownInv, Shape, Panes, View, ShownPanesExist, Nothing
<1>2. ShownInv /\ [Next]_vars => ShownInv'
  <2> SUFFICES ASSUME ShownInv, [Next]_vars PROVE ShownInv'
    OBVIOUS
  <2>1. CASE UNCHANGED vars
    BY <2>1 DEF ShownInv, Shape, ShownPanesExist, vars
  <2>2. ASSUME Calls, late' = [p \in Projects |-> late[p] \cap view'[p]] PROVE ShownInv'
    <3>1. ScreenStep
      BY <2>2, CallsShowWhatIsThere DEF ShownInv
    <3> QED
      BY <2>2, <3>1 DEF ShownInv, ScreenStep, Shape, View, ShownPanesExist
  <2>3. ASSUME NEW p \in Projects, NEW t \in Terminals, CreateTerminal(p, t) PROVE ShownInv'
    <3>1. /\ Shape'
          /\ terms' = [terms EXCEPT ![p] = IF p \in live THEN @ \cup {t} ELSE @]
          /\ view' = [view EXCEPT ![p] = @ \cup {t}]
          /\ late' = [late EXCEPT ![p] = IF p \in live THEN @ ELSE @ \cup {t}]
      BY <2>3, CreatingShowsTheNewOne DEF ShownInv
    <3> QED
      BY <3>1 DEF ShownInv, Shape, Panes, View, ShownPanesExist
  <2> QED
    BY <2>1, <2>2, <2>3 DEF Next
<1> QED
  BY <1>1, <1>2, PTL DEF Spec

\* Only panes of terminals their project has are ever on screen, whatever was
\* saved, closed, deleted or moved before (sanitizeWorkspaceSnapshot), but for panes
\* that were created for a project after it went (createAgentTerminal).
THEOREM ShownPanesAreThere == Spec => []ShownPanesExist
<1>1. ShownInv => ShownPanesExist
  BY DEF ShownInv
<1> QED
  BY <1>1, ShownInvIsKept, PTL

LEMMA LateOnesFit == Spec => [](late \in View)
<1>1. ShownInv => late \in View
  BY DEF ShownInv
<1> QED
  BY <1>1, ShownInvIsKept, PTL

-----------------------------------------------------------------------------
(* What is left of a sequence.                                                *)

\* A function on 1..n is a sequence.
LEMMA IsSeq ==
    ASSUME NEW S, NEW n \in Nat, NEW f \in [1..n -> S]
    PROVE  f \in Seq(S) /\ Len(f) = n /\ DOMAIN f = 1..n
<1>1. f \in Seq(S)
  BY SeqDef
<1>2. Len(f) \in Nat /\ DOMAIN f = 1..Len(f) /\ DOMAIN f = 1..n
  BY <1>1, LenProperties
<1>3. Len(f) = n
  BY <1>2
<1> QED
  BY <1>1, <1>2, <1>3

LEMMA NumbersUpTo ==
    ASSUME NEW n \in Nat
    PROVE  IsFiniteSet(1..n) /\ Cardinality(1..n) = n
BY FS_Interval

\* The rank of a place among those that are left: it is not after the place, it
\* keeps the order, and every rank up to their number is that of some place.
LEMMA Ranks ==
    ASSUME NEW n \in Nat, NEW at \in SUBSET (1..n)
    PROVE  /\ IsFiniteSet(at) /\ Cardinality(at) \in Nat /\ Cardinality(at) <= n
           /\ at # 1..n => Cardinality(at) < n
           /\ \A i \in Nat : Rank(at, i) \in 0..Cardinality(at) /\ Rank(at, i) <= i
           /\ \A i \in at : Rank(at, i) \in 1..Cardinality(at)
           /\ \A i, j \in at : i < j => Rank(at, i) < Rank(at, j)
           /\ \A i \in Nat : 1..i \subseteq at => Rank(at, i) = i
<1>1. IsFiniteSet(1..n) /\ Cardinality(1..n) = n
  BY NumbersUpTo
<1>2. IsFiniteSet(at) /\ Cardinality(at) \in Nat /\ Cardinality(at) <= n
  BY <1>1, FS_Subset, FS_CardinalityType
<1>3. at # 1..n => Cardinality(at) < n
  <2>1. Cardinality(1..n) = Cardinality(at) => 1..n = at
    BY <1>1, FS_Subset
  <2> QED
    BY <1>1, <1>2, <2>1
<1> DEFINE Upto(i) == {j \in at : j <= i}
<1>0. \A i \in at : i \in 1..n /\ i \in Nat
  OBVIOUS
<1>4. ASSUME NEW i \in Nat
      PROVE  IsFiniteSet(Upto(i)) /\ Rank(at, i) \in 0..Cardinality(at) /\ Rank(at, i) <= i
  <2>1. IsFiniteSet(Upto(i)) /\ Cardinality(Upto(i)) <= Cardinality(at)
    BY <1>2, FS_Subset
  <2>2. Upto(i) \subseteq 1..i /\ IsFiniteSet(1..i) /\ Cardinality(1..i) = i
    <3>1. ASSUME NEW j \in at, j <= i PROVE j \in 1..i
      BY <1>0, <3>1
    <3> QED
      BY <3>1, NumbersUpTo
  <2>3. Cardinality(Upto(i)) <= i
    BY <2>2, FS_Subset
  <2>4. Cardinality(Upto(i)) \in Nat
    BY <2>1, FS_CardinalityType
  <2> QED
    BY <1>2, <2>1, <2>3, <2>4 DEF Rank
<1>5. ASSUME NEW i \in at PROVE Rank(at, i) \in 1..Cardinality(at)
  <2>1. i \in Nat /\ i \in Upto(i)
    OBVIOUS
  <2>2. Cardinality(Upto(i)) # 0
    BY <1>4, <2>1, FS_EmptySet
  <2> QED
    BY <1>2, <1>4, <2>1, <2>2 DEF Rank
<1>6. ASSUME NEW i \in at, NEW j \in at, i < j PROVE Rank(at, i) < Rank(at, j)
  <2>1. i \in Nat /\ j \in Nat /\ Upto(i) \subseteq Upto(j) /\ j \in Upto(j) /\ j \notin Upto(i)
    <3>1. i \in Nat /\ j \in Nat
      BY <1>0
    <3>2. ASSUME NEW k \in at, k <= i PROVE k <= j
      BY <1>0, <1>6, <3>2
    <3>3. Upto(i) \subseteq Upto(j)
      BY <3>2
    <3>4. j <= j /\ ~(j <= i)
      BY <1>6, <3>1
    <3> QED
      BY <3>1, <3>3, <3>4
  <2>2. /\ Cardinality(Upto(i)) <= Cardinality(Upto(j))
        /\ Cardinality(Upto(i)) # Cardinality(Upto(j))
    <3>1. IsFiniteSet(Upto(j))
      BY <1>4, <2>1
    <3> QED
      BY <2>1, <3>1, FS_Subset
  <2>3. Rank(at, i) \in 0..Cardinality(at) /\ Rank(at, j) \in 0..Cardinality(at)
    BY <1>4, <2>1
  <2>4. Rank(at, i) \in Int /\ Rank(at, j) \in Int
    BY <1>2, <2>3
  <2> QED
    BY <2>2, <2>4 DEF Rank
<1>7. ASSUME NEW i \in Nat, 1..i \subseteq at PROVE Rank(at, i) = i
  <2>1. ASSUME NEW j \in at, j <= i PROVE j \in 1..i
    BY <1>0, <2>1
  <2>2. 1..i \subseteq Upto(i)
    BY <1>7
  <2>3. Upto(i) = 1..i
    BY <2>1, <2>2
  <2> QED
    BY <2>3, NumbersUpTo DEF Rank
<1> QED
  BY <1>2, <1>3, <1>4, <1>5, <1>6, <1>7

LEMMA EveryRankIsTaken ==
    ASSUME NEW n \in Nat, NEW at \in SUBSET (1..n), NEW k \in 1..Cardinality(at)
    PROVE  \E i \in at : Rank(at, i) = k
<1> DEFINE size == Cardinality(at)
           rank == [i \in at |-> Rank(at, i)]
<1>1. IsFiniteSet(at) /\ size \in Nat /\ \A i \in at : Rank(at, i) \in 1..size
  BY Ranks
<1>2. \A i, j \in at : i < j => Rank(at, i) < Rank(at, j)
  BY Ranks
<1>3. ASSUME NEW i \in at, NEW j \in at, Rank(at, i) = Rank(at, j) PROVE i = j
  <2>1. i \in Nat /\ j \in Nat
    OBVIOUS
  <2>2. Rank(at, i) \in Nat
    BY <1>1
  <2>3. ~(i < j) /\ ~(j < i)
    BY <1>2, <1>3, <2>2
  <2> QED
    BY <2>1, <2>3
<1>4. rank \in Injection(at, 1..size)
  BY <1>1, <1>3 DEF Injection, IsInjective
<1>5. IsFiniteSet(1..size) /\ Cardinality(1..size) = size
  BY <1>1, FS_Interval
<1>6. rank \in Surjection(at, 1..size)
  BY <1>4, <1>5, FS_Injection
<1> QED
  BY <1>6 DEF Surjection

LEMMA RankIsOne ==
    ASSUME NEW n \in Nat, NEW at \in SUBSET (1..n), NEW i \in at, NEW j \in at,
           Rank(at, i) = Rank(at, j)
    PROVE  i = j
<1>1. \A k, l \in at : k < l => Rank(at, k) < Rank(at, l)
  BY Ranks
<1>2. Rank(at, i) \in Nat /\ i \in Nat /\ j \in Nat
  <2>1. Rank(at, i) \in 1..Cardinality(at) /\ Cardinality(at) \in Nat
    BY Ranks
  <2> QED
    BY <2>1
<1>3. ~(i < j) /\ ~(j < i)
  BY <1>1, <1>2
<1> QED
  BY <1>2, <1>3

\* What is left of `s` is what was there at the places that are left, in order.
LEMMA PickedIsLeft ==
    ASSUME NEW S, NEW s \in Seq(S), NEW at \in SUBSET (DOMAIN s)
    PROVE  /\ Picked(s, at) \in Seq(S)
           /\ Len(Picked(s, at)) = Cardinality(at) /\ Cardinality(at) <= Len(s)
           /\ \A k \in DOMAIN Picked(s, at) :
                 \E i \in at : Rank(at, i) = k /\ Picked(s, at)[k] = s[i]
           /\ \A i \in at : /\ Rank(at, i) \in DOMAIN Picked(s, at)
                            /\ Picked(s, at)[Rank(at, i)] = s[i]
<1>1. Len(s) \in Nat /\ DOMAIN s = 1..Len(s) /\ s \in [1..Len(s) -> S]
  BY LenProperties
<1>2. /\ Cardinality(at) \in Nat /\ Cardinality(at) <= Len(s)
      /\ \A i \in at : Rank(at, i) \in 1..Cardinality(at)
  BY <1>1, Ranks
<1>3. \A k \in 1..Cardinality(at) : \E i \in at : Rank(at, i) = k
  BY <1>1, EveryRankIsTaken
<1> DEFINE place(k) == CHOOSE i \in at : Rank(at, i) = k
<1>4. CASE at = DOMAIN s
  <2>1. Picked(s, at) = s
    BY <1>4 DEF Picked
  <2>2. ASSUME NEW i \in at PROVE Rank(at, i) = i
    <3>1. i \in Nat /\ 1..i \subseteq at
      BY <1>1, <1>4
    <3> QED
      BY <1>1, <3>1, Ranks
  <2>3. Cardinality(at) = Len(s)
    BY <1>1, <1>4, FS_Interval
  <2> QED
    BY <1>1, <1>4, <2>1, <2>2, <2>3
<1>5. CASE at # DOMAIN s
  <2>1. Picked(s, at) = [k \in 1..Cardinality(at) |-> s[place(k)]]
    BY <1>5 DEF Picked
  <2>2. ASSUME NEW k \in 1..Cardinality(at)
        PROVE  place(k) \in at /\ Rank(at, place(k)) = k /\ Picked(s, at)[k] = s[place(k)]
    BY <1>3, <2>1
  <2>3. Picked(s, at) \in [1..Cardinality(at) -> S]
    BY <1>1, <2>1, <2>2
  <2>4. /\ Picked(s, at) \in Seq(S) /\ Len(Picked(s, at)) = Cardinality(at)
        /\ DOMAIN Picked(s, at) = 1..Cardinality(at)
    BY <1>2, <2>3, IsSeq
  <2>5. ASSUME NEW i \in at PROVE Picked(s, at)[Rank(at, i)] = s[i]
    <3>1. Rank(at, i) \in 1..Cardinality(at)
      BY <1>2
    <3>2. place(Rank(at, i)) \in at /\ Rank(at, place(Rank(at, i))) = Rank(at, i)
      BY <2>2, <3>1
    <3>3. place(Rank(at, i)) = i
      BY <1>1, <3>2, RankIsOne
    <3> QED
      BY <2>2, <3>1, <3>3
  <2>6. \A k \in DOMAIN Picked(s, at) :
           \E i \in at : Rank(at, i) = k /\ Picked(s, at)[k] = s[i]
    BY <2>2, <2>4
  <2> QED
    BY <1>2, <2>4, <2>5, <2>6
<1> QED
  BY <1>4, <1>5

-----------------------------------------------------------------------------
(* Tabs and visits.                                                           *)

In(s) == {s[i] : i \in DOMAIN s}
Distinct(s) == \A i, j \in DOMAIN s : s[i].id = s[j].id => i = j

TabsFit(s) == s \in Seq(Tab) /\ Distinct(s)
VisitsFit(h, ids) == h \in Seq(Entry) /\ \A e \in In(h) : e.tab \in ids

\* A set of places has a first one.
LEMMA FirstPlace ==
    ASSUME NEW n \in Nat, NEW at \in SUBSET (1..n), at # {}
    PROVE  \E i \in at : \A j \in at : i <= j
<1>1. Cardinality(at) \in Nat /\ \A i \in at : Rank(at, i) \in 1..Cardinality(at)
  BY Ranks
<1>2. 1 \in 1..Cardinality(at)
  <2>1. PICK i \in at : TRUE
    OBVIOUS
  <2>2. Rank(at, i) \in 1..Cardinality(at) /\ Cardinality(at) \in Nat
    BY <1>1
  <2> QED
    BY <2>2
<1>3. PICK i \in at : Rank(at, i) = 1
  BY <1>2, EveryRankIsTaken
<1>4. ASSUME NEW j \in at, j < i PROVE FALSE
  <2>1. Rank(at, j) < Rank(at, i)
    BY <1>4, Ranks
  <2> QED
    BY <1>1, <1>3, <2>1
<1>5. ASSUME NEW j \in at PROVE i <= j
  <2>1. i \in 1..n /\ j \in 1..n
    OBVIOUS
  <2> QED
    BY <1>4, <2>1
<1> QED
  BY <1>5

LEMMA PickedTabs ==
    ASSUME NEW s, TabsFit(s), NEW at \in SUBSET (DOMAIN s)
    PROVE  /\ TabsFit(Picked(s, at))
           /\ In(Picked(s, at)) = {s[i] : i \in at}
           /\ Ids(Picked(s, at)) = {s[i].id : i \in at}
           /\ Len(Picked(s, at)) <= Len(s) /\ Len(Picked(s, at)) = Cardinality(at)
           /\ at # DOMAIN s => Len(Picked(s, at)) < Len(s)
<1> DEFINE t == Picked(s, at)
<1>0. s \in Seq(Tab) /\ Len(s) \in Nat /\ DOMAIN s = 1..Len(s)
  BY LenProperties DEF TabsFit
<1>1. /\ t \in Seq(Tab) /\ Len(t) = Cardinality(at) /\ Cardinality(at) <= Len(s)
      /\ \A k \in DOMAIN t : \E i \in at : Rank(at, i) = k /\ t[k] = s[i]
      /\ \A i \in at : Rank(at, i) \in DOMAIN t /\ t[Rank(at, i)] = s[i]
  BY <1>0, PickedIsLeft
<1>2. at # DOMAIN s => Cardinality(at) < Len(s)
  BY <1>0, Ranks
<1> HIDE DEF t
<1>3. ASSUME NEW k \in DOMAIN t, NEW l \in DOMAIN t, t[k].id = t[l].id PROVE k = l
  <2>1. PICK i \in at : Rank(at, i) = k /\ t[k] = s[i]
    BY <1>1
  <2>2. PICK j \in at : Rank(at, j) = l /\ t[l] = s[j]
    BY <1>1
  <2>3. i = j
    BY <1>3, <2>1, <2>2 DEF TabsFit, Distinct
  <2> QED
    BY <2>1, <2>2, <2>3
<1>4. In(t) = {s[i] : i \in at}
  <2>1. ASSUME NEW k \in DOMAIN t PROVE \E i \in at : t[k] = s[i]
    BY <1>1
  <2>2. ASSUME NEW i \in at PROVE \E k \in DOMAIN t : t[k] = s[i]
    BY <1>1
  <2> QED
    BY <2>1, <2>2 DEF In
<1>5. Ids(t) = {s[i].id : i \in at}
  <2>1. ASSUME NEW k \in DOMAIN t PROVE \E i \in at : t[k] = s[i]
    BY <1>1
  <2>2. ASSUME NEW i \in at PROVE \E k \in DOMAIN t : t[k] = s[i]
    BY <1>1
  <2> QED
    BY <2>1, <2>2 DEF Ids
<1> QED
  BY <1>1, <1>2, <1>3, <1>4, <1>5 DEF TabsFit, Distinct, t

LEMMA WithoutTab ==
    ASSUME NEW s, TabsFit(s), NEW id
    PROVE  /\ TabsFit(Without(s, id))
           /\ In(Without(s, id)) = {x \in In(s) : x.id # id}
           /\ Ids(Without(s, id)) = Ids(s) \ {id}
           /\ Len(Without(s, id)) <= Len(s)
           /\ id \in Ids(s) => Len(Without(s, id)) < Len(s)
<1> DEFINE at == {i \in DOMAIN s : s[i].id # id}
<1>1. Without(s, id) = Picked(s, at)
  BY DEF Without
<1>2. {s[i] : i \in at} = {x \in In(s) : x.id # id}
  BY DEF In
<1>3. {s[i].id : i \in at} = Ids(s) \ {id}
  BY DEF Ids
<1>4. id \in Ids(s) => at # DOMAIN s
  BY DEF Ids
<1> HIDE DEF at
<1>5. at \in SUBSET (DOMAIN s)
  BY DEF at
<1> QED
  BY <1>1, <1>2, <1>3, <1>4, <1>5, PickedTabs

LEMMA AppendedTab ==
    ASSUME NEW s, TabsFit(s), NEW tab \in Tab, tab.id \notin Ids(s)
    PROVE  /\ TabsFit(Append(s, tab))
           /\ In(Append(s, tab)) = In(s) \cup {tab}
           /\ Ids(Append(s, tab)) = Ids(s) \cup {tab.id}
           /\ Len(Append(s, tab)) = Len(s) + 1
<1> DEFINE t == Append(s, tab)
<1>0. s \in Seq(Tab) /\ Len(s) \in Nat /\ DOMAIN s = 1..Len(s)
  BY LenProperties DEF TabsFit
<1>1. /\ t \in Seq(Tab) /\ Len(t) = Len(s) + 1 /\ DOMAIN t = 1..(Len(s) + 1)
      /\ \A i \in 1..Len(s) : t[i] = s[i]
      /\ t[Len(s) + 1] = tab
  BY <1>0
<1> HIDE DEF t
<1>2. DOMAIN t = DOMAIN s \cup {Len(s) + 1} /\ Len(s) + 1 \notin DOMAIN s
  BY <1>0, <1>1
<1>3. \A i \in DOMAIN s : s[i].id # tab.id
  BY DEF Ids
<1>4. Distinct(t)
  BY <1>0, <1>1, <1>2, <1>3 DEF TabsFit, Distinct
<1>5. In(t) = In(s) \cup {tab}
  BY <1>0, <1>1, <1>2 DEF In
<1>6. Ids(t) = Ids(s) \cup {tab.id}
  BY <1>0, <1>1, <1>2 DEF Ids
<1> QED
  BY <1>1, <1>4, <1>5, <1>6 DEF TabsFit, t

LEMMA TabsAreDistinct ==
    ASSUME NEW s, TabsFit(s), NEW x \in In(s), NEW y \in In(s), x.id = y.id
    PROVE  x = y
BY DEF TabsFit, Distinct, In

LEMMA IdsOfTabs == ASSUME NEW s PROVE Ids(s) = {x.id : x \in In(s)}
BY DEF Ids, In

\* The visits of the tabs that stay.
LEMMA VisitsStay ==
    ASSUME NEW h \in Seq(Entry), NEW ids
    PROVE  /\ VisitsFit(Visits(h, ids), ids)
           /\ Len(Visits(h, ids)) <= Len(h)
           /\ \A k \in DOMAIN Visits(h, ids) :
                 \E i \in Kept(h, ids) : /\ Rank(Kept(h, ids), i) = k
                                         /\ Visits(h, ids)[k] = h[i]
           /\ \A i \in Kept(h, ids) : /\ Rank(Kept(h, ids), i) \in DOMAIN Visits(h, ids)
                                      /\ Visits(h, ids)[Rank(Kept(h, ids), i)] = h[i]
<1> DEFINE at == Kept(h, ids)
<1>1. Visits(h, ids) = Picked(h, at) /\ at \in SUBSET (DOMAIN h)
  BY DEF Visits, Kept
<1>2. \A i \in at : h[i].tab \in ids
  BY DEF Kept
<1> HIDE DEF at
<1>3. /\ Visits(h, ids) \in Seq(Entry) /\ Len(Visits(h, ids)) <= Len(h)
      /\ \A k \in DOMAIN Visits(h, ids) :
            \E i \in at : Rank(at, i) = k /\ Visits(h, ids)[k] = h[i]
      /\ \A i \in at : /\ Rank(at, i) \in DOMAIN Visits(h, ids)
                       /\ Visits(h, ids)[Rank(at, i)] = h[i]
  BY <1>1, PickedIsLeft
<1>4. \A e \in In(Visits(h, ids)) : e.tab \in ids
  BY <1>2, <1>3 DEF In
<1> QED
  BY <1>3, <1>4 DEF VisitsFit, at

\* What is visited is the last visit; what is ahead is forgotten, and the oldest
\* visit when there are too many.
LEMMA PushedFits ==
    ASSUME NEW h \in Seq(Entry), Len(h) <= MAX_WORKSPACE_HISTORY,
           NEW n \in 0..Len(h), NEW e \in Entry
    PROVE  /\ Pushed(h, n, e) \in Seq(Entry)
           /\ Len(Pushed(h, n, e)) \in 1..MAX_WORKSPACE_HISTORY
           /\ Pushed(h, n, e)[Len(Pushed(h, n, e))] = e
           /\ In(Pushed(h, n, e)) \subseteq In(h) \cup {e}
           /\ \A m \in 1..n : m > 1 \/ n < MAX_WORKSPACE_HISTORY =>
                 \E k \in DOMAIN Pushed(h, n, e) : Pushed(h, n, e)[k] = h[m]
<1> DEFINE b == Append(SubSeq(h, 1, n), e)
           p == Pushed(h, n, e)
           max == MAX_WORKSPACE_HISTORY
<1>0. /\ Len(h) \in Nat /\ DOMAIN h = 1..Len(h) /\ h \in [1..Len(h) -> Entry]
      /\ n \in Nat /\ n <= Len(h) /\ max \in Nat /\ max # 0 /\ n <= max
  BY LenProperties, WorkspaceAssumption
<1>1. /\ SubSeq(h, 1, n) \in Seq(Entry) /\ Len(SubSeq(h, 1, n)) = n
      /\ \A i \in 1..n : SubSeq(h, 1, n)[i] = h[i]
  <2>1. \A i \in 1..n : h[i] \in Entry
    BY <1>0
  <2>2. /\ SubSeq(h, 1, n) \in Seq(Entry)
        /\ Len(SubSeq(h, 1, n)) = IF 1 <= n THEN n - 1 + 1 ELSE 0
        /\ \A i \in 1..(n - 1 + 1) : SubSeq(h, 1, n)[i] = h[1 + i - 1]
    BY <1>0, <2>1, SubSeqProperties
  <2> QED
    BY <1>0, <2>2
<1>2. /\ b \in Seq(Entry) /\ Len(b) = n + 1 /\ DOMAIN b = 1..(n + 1)
      /\ b[n + 1] = e /\ \A i \in 1..n : b[i] = h[i]
  BY <1>0, <1>1
<1>3. p = LastOf(b, max)
  BY DEF Pushed
<1> HIDE DEF b, p, max
<1>4. CASE n < max
  <2>1. p = b
    BY <1>0, <1>2, <1>3, <1>4 DEF LastOf
  <2>2. In(p) \subseteq In(h) \cup {e}
    BY <1>0, <1>2, <2>1 DEF In
  <2>3. \A m \in 1..n : m \in DOMAIN p /\ p[m] = h[m]
    BY <1>0, <1>2, <2>1
  <2>4. Len(p) \in 1..max
    BY <1>0, <1>2, <1>4, <2>1
  <2> QED
    BY <1>2, <2>1, <2>2, <2>3, <2>4 DEF p, max
<1>5. CASE n = max
  <2>1. p = SubSeq(b, 2, n + 1)
    BY <1>0, <1>2, <1>3, <1>5 DEF LastOf
  <2>2. /\ p \in Seq(Entry) /\ Len(p) = n /\ \A i \in 1..n : p[i] = b[i + 1]
    <3>1. \A i \in 2..(n + 1) : b[i] \in Entry
      BY <1>0, <1>2
    <3>2. /\ p \in Seq(Entry)
          /\ Len(p) = IF 2 <= n + 1 THEN n + 1 - 2 + 1 ELSE 0
          /\ \A i \in 1..(n + 1 - 2 + 1) : p[i] = b[2 + i - 1]
      BY <1>0, <2>1, <3>1, SubSeqProperties
    <3> QED
      BY <1>0, <1>5, <3>2
  <2>3. DOMAIN p = 1..n
    BY <2>2, LenProperties
  <2>4. p[n] = e /\ Len(p) \in 1..max
    BY <1>0, <1>2, <1>5, <2>2
  <2>5. ASSUME NEW m \in 1..n, m > 1 PROVE m - 1 \in DOMAIN p /\ p[m - 1] = h[m]
    BY <1>0, <1>2, <2>2, <2>3, <2>5
  <2>6. In(p) \subseteq In(h) \cup {e}
    <3>1. ASSUME NEW i \in 1..n PROVE p[i] \in In(h) \cup {e}
      <4>1. CASE i = n
        BY <2>4, <4>1
      <4>2. CASE i # n
        <5>1. i + 1 \in 1..n
          BY <1>0, <4>2
        <5>2. p[i] = h[i + 1] /\ i + 1 \in DOMAIN h
          BY <1>0, <1>2, <2>2, <5>1
        <5> QED
          BY <5>2 DEF In
      <4> QED
        BY <4>1, <4>2
    <3> QED
      BY <2>3, <3>1 DEF In
  <2>7. \A m \in 1..n : m > 1 \/ n < max => \E k \in DOMAIN p : p[k] = h[m]
    BY <1>0, <1>5, <2>5
  <2>8. p \in Seq(Entry) /\ p[Len(p)] = e
    BY <2>2, <2>4
  <2> QED
    BY <2>4, <2>6, <2>7, <2>8 DEF p, max
<1> QED
  BY <1>0, <1>4, <1>5

-----------------------------------------------------------------------------
(* A tab is shown (applyTabNavigation).                                       *)

All(tab, add, s) == IF add THEN Append(Without(s, tab.id), tab) ELSE s
Others(tab, s, pinnedToo) ==
    {i \in DOMAIN s : s[i].id # tab.id /\ (pinnedToo \/ ~s[i].pinned)}
Choice(tab, s) ==
    IF Others(tab, s, FALSE) # {} THEN Others(tab, s, FALSE) ELSE Others(tab, s, TRUE)
Out(tab, s) == s[CHOOSE i \in Choice(tab, s) : \A j \in Choice(tab, s) : i <= j].id
Staying(tab, s) == IF TooMany(s) THEN Ids(s) \ {Out(tab, s)} ELSE Ids(s)

LEMMA NavigatesIs ==
    ASSUME NEW tab, NEW add, NEW s, NEW h, NEW n, Navigates(tab, add, s, h, n)
    PROVE  LET all == All(tab, add, s) IN
           /\ view' = Sanitized(tab.panes, terms) /\ active' = tab.id
           /\ tabs' = IF TooMany(all) THEN Without(all, Out(tab, all)) ELSE all
           /\ history' = Pushed(IF TooMany(all) THEN Visits(h, Staying(tab, all)) ELSE h,
                                IF TooMany(all) THEN IndexAfter(h, n, Staying(tab, all)) ELSE n,
                                [tab |-> tab.id, panes |-> Sanitized(tab.panes, terms)])
           /\ index' = Len(history') /\ shifted' = FALSE
BY DEF Navigates, All, Others, Choice, Out, Staying

\* The tabs it starts from, with the one that is shown.
LEMMA AllTabs ==
    ASSUME NEW s, TabsFit(s), NEW tab \in Tab, NEW add, add \in BOOLEAN,
           add \/ tab \in In(s)
    PROVE  /\ TabsFit(All(tab, add, s))
           /\ In(All(tab, add, s)) = {x \in In(s) : x.id # tab.id} \cup {tab}
           /\ Ids(All(tab, add, s)) = Ids(s) \cup {tab.id}
           /\ Len(All(tab, add, s)) <= Len(s) + 1
           /\ tab.id \in Ids(s) => Len(All(tab, add, s)) <= Len(s)
<1>0. Len(s) \in Nat
  BY LenProperties DEF TabsFit
<1>1. CASE add
  <2> DEFINE w == Without(s, tab.id)
  <2>1. /\ TabsFit(w) /\ In(w) = {x \in In(s) : x.id # tab.id} /\ Ids(w) = Ids(s) \ {tab.id}
        /\ Len(w) <= Len(s) /\ (tab.id \in Ids(s) => Len(w) < Len(s))
    BY WithoutTab
  <2>2. Len(w) \in Nat
    BY <2>1, LenProperties DEF TabsFit
  <2> HIDE DEF w
  <2>3. /\ TabsFit(Append(w, tab)) /\ In(Append(w, tab)) = In(w) \cup {tab}
        /\ Ids(Append(w, tab)) = Ids(w) \cup {tab.id} /\ Len(Append(w, tab)) = Len(w) + 1
    BY <2>1, AppendedTab
  <2>4. All(tab, add, s) = Append(w, tab)
    BY <1>1 DEF All, w
  <2> QED
    BY <1>0, <2>1, <2>2, <2>3, <2>4
<1>2. CASE ~add
  <2>1. All(tab, add, s) = s /\ tab \in In(s)
    BY <1>2 DEF All
  <2>2. \A x \in In(s) : x.id = tab.id => x = tab
    BY <2>1, TabsAreDistinct
  <2>3. tab.id \in Ids(s)
    BY <2>1, IdsOfTabs
  <2> QED
    BY <1>0, <2>1, <2>2, <2>3
<1> QED
  BY <1>1, <1>2

\* The tab that is pushed out is another one.
LEMMA AnotherGoes ==
    ASSUME NEW s, TabsFit(s), NEW tab \in In(s), TooMany(s)
    PROVE  Out(tab, s) \in Ids(s) /\ Out(tab, s) # tab.id
<1>0. s \in Seq(Tab) /\ Len(s) \in Nat /\ DOMAIN s = 1..Len(s) /\ Len(s) > 1
  BY LenProperties, WorkspaceAssumption DEF TabsFit, TooMany
<1>1. Others(tab, s, TRUE) # {}
  <2>1. 1 \in DOMAIN s /\ 2 \in DOMAIN s
    BY <1>0
  <2>2. s[1].id # tab.id \/ s[2].id # tab.id
    BY <2>1 DEF TabsFit, Distinct
  <2> QED
    BY <2>1, <2>2 DEF Others
<1>2. Choice(tab, s) # {} /\ Choice(tab, s) \in SUBSET (1..Len(s))
  BY <1>0, <1>1 DEF Choice, Others
<1>3. \A i \in Choice(tab, s) : i \in DOMAIN s /\ s[i].id # tab.id
  BY DEF Choice, Others
<1>4. \E i \in Choice(tab, s) : \A j \in Choice(tab, s) : i <= j
  BY <1>0, <1>2, FirstPlace
<1>5. \E i \in Choice(tab, s) : Out(tab, s) = s[i].id
  BY <1>4 DEF Out
<1> QED
  BY <1>3, <1>5 DEF Ids

\* Where the current visit is among those that stay.
LEMMA IndexAfterFits ==
    ASSUME NEW h \in Seq(Entry), Len(h) <= MAX_WORKSPACE_HISTORY, NEW n \in 0..Len(h), NEW ids
    PROVE  /\ IndexAfter(h, n, ids) \in 0..Len(Visits(h, ids))
           /\ n \in Kept(h, ids) =>
                 \A m \in Kept(h, ids) : m <= n =>
                    /\ Rank(Kept(h, ids), m) \in 1..IndexAfter(h, n, ids)
                    /\ m > 1 \/ Len(h) < MAX_WORKSPACE_HISTORY =>
                          \/ Rank(Kept(h, ids), m) > 1
                          \/ IndexAfter(h, n, ids) < MAX_WORKSPACE_HISTORY
<1> DEFINE at == Kept(h, ids)
           len == Len(Visits(h, ids))
           new == IndexAfter(h, n, ids)
           max == MAX_WORKSPACE_HISTORY
<1>0. /\ Len(h) \in Nat /\ DOMAIN h = 1..Len(h) /\ at \in SUBSET (1..Len(h)) /\ n \in Nat
      /\ max \in Nat
  BY LenProperties, WorkspaceAssumption DEF Kept
<1>1. len = Cardinality(at) /\ len \in Nat /\ len <= Len(h)
  <2>1. Visits(h, ids) = Picked(h, at) /\ at \in SUBSET (DOMAIN h)
    BY <1>0 DEF Visits
  <2>2. Len(Picked(h, at)) = Cardinality(at) /\ Cardinality(at) <= Len(h)
    BY <2>1, PickedIsLeft
  <2> QED
    BY <1>0, <2>1, <2>2, Ranks
<1>2. n \in at => new = Rank(at, n)
  BY <1>0 DEF IndexAfter
<1>3. \A i \in at : Rank(at, i) \in 1..len
  BY <1>0, <1>1, Ranks
<1>4. new \in 0..len
  BY <1>0, <1>1, <1>2, <1>3 DEF IndexAfter
<1>5. ASSUME n \in at, NEW m \in at, m <= n PROVE Rank(at, m) \in 1..new
  <2>1. \A i, j \in at : i < j => Rank(at, i) < Rank(at, j)
    BY <1>0, Ranks
  <2>2. m = n \/ m < n
    BY <1>0, <1>5
  <2>3. Rank(at, m) \in 1..len /\ Rank(at, n) \in 1..len
    BY <1>3, <1>5
  <2>4. Rank(at, m) <= Rank(at, n)
    BY <1>1, <1>5, <2>1, <2>2, <2>3
  <2> QED
    BY <1>1, <1>2, <1>5, <2>3, <2>4
<1>6. ASSUME n \in at, NEW m \in at, m <= n, m > 1 \/ Len(h) < max
      PROVE  Rank(at, m) > 1 \/ new < max
  <2>1. CASE at = 1..Len(h)
    <3>1. m \in Nat /\ 1..m \subseteq at
      BY <1>0, <2>1
    <3>2. Rank(at, m) = m
      BY <1>0, <3>1, Ranks
    <3> QED
      BY <1>0, <1>1, <1>4, <1>6, <3>1, <3>2
  <2>2. CASE at # 1..Len(h)
    <3>1. Cardinality(at) < Len(h)
      BY <1>0, <2>2, Ranks
    <3> QED
      BY <1>0, <1>1, <1>4, <3>1
  <2> QED
    BY <2>1, <2>2
<1> QED
  BY <1>4, <1>5, <1>6

\* The visits up to the current one that can still be gone back to.
StillVisited(tab, s, h, n) ==
    \A m \in 1..n :
        /\ h[m].tab \in Ids(tabs')
        /\ m > 1 \/ Len(h) < MAX_WORKSPACE_HISTORY
        /\ h[n].tab \in Ids(tabs') \/ tab.id \in Ids(s)
        => \E k \in DOMAIN history' : history'[k].tab = h[m].tab

\* The other tabs are as they were, if they are still there.
OthersStay(tab, s) == In(tabs') \subseteq {x \in In(s) : x.id # tab.id} \cup {tab}

\* What showing a tab does to the tabs, the history and the screen.
LEMMA NavigatesOutcome ==
    ASSUME terms \in Panes,
           NEW s, TabsFit(s), Len(s) <= MAX_WORKSPACE_TABS,
           NEW tab \in Tab, NEW add \in BOOLEAN, add \/ tab \in In(s),
           NEW h, VisitsFit(h, Ids(s)), Len(h) <= MAX_WORKSPACE_HISTORY,
           NEW n \in 0..Len(h), Navigates(tab, add, s, h, n)
    PROVE  /\ TabsFit(tabs') /\ Len(tabs') <= MAX_WORKSPACE_TABS
           /\ OthersStay(tab, s) /\ tab \in In(tabs')
           /\ StillVisited(tab, s, h, n)
           /\ active' = tab.id /\ active' \in Ids(tabs')
           /\ view' = Sanitized(tab.panes, terms)
           /\ VisitsFit(history', Ids(tabs')) /\ Len(history') \in 1..MAX_WORKSPACE_HISTORY
           /\ index' = Len(history')
           /\ history'[index'] = [tab |-> tab.id, panes |-> view']
           /\ shifted' = FALSE
<1> DEFINE all == All(tab, add, s)
           ids == Staying(tab, all)
           seen == IF TooMany(all) THEN Visits(h, ids) ELSE h
           at == IF TooMany(all) THEN IndexAfter(h, n, ids) ELSE n
           shown == Sanitized(tab.panes, terms)
           e == [tab |-> tab.id, panes |-> shown]
           max == MAX_WORKSPACE_HISTORY
<1>0. h \in Seq(Entry) /\ Len(s) \in Nat /\ Len(h) \in Nat /\ DOMAIN h = 1..Len(h) /\ n \in Nat
  BY LenProperties DEF TabsFit, VisitsFit
<1>1. /\ view' = shown /\ active' = tab.id
      /\ tabs' = IF TooMany(all) THEN Without(all, Out(tab, all)) ELSE all
      /\ history' = Pushed(seen, at, e)
      /\ index' = Len(history') /\ shifted' = FALSE
  BY NavigatesIs
<1>2. /\ TabsFit(all) /\ In(all) = {x \in In(s) : x.id # tab.id} \cup {tab}
      /\ Ids(all) = Ids(s) \cup {tab.id} /\ Len(all) <= Len(s) + 1
      /\ tab.id \in Ids(s) => Len(all) <= Len(s)
  BY AllTabs
<1>3. Len(all) \in Nat /\ MAX_WORKSPACE_TABS \in Nat /\ max \in Nat /\ max # 0
  BY <1>2, LenProperties, WorkspaceAssumption DEF TabsFit
<1> HIDE DEF all
<1>4. TooMany(all) => Out(tab, all) \in Ids(all) /\ Out(tab, all) # tab.id
  BY <1>2, AnotherGoes
<1>5. /\ TabsFit(tabs') /\ Len(tabs') <= MAX_WORKSPACE_TABS
      /\ In(tabs') \subseteq In(all) /\ tab \in In(tabs')
      /\ Ids(tabs') = ids
  <2>1. CASE TooMany(all)
    <3> DEFINE out == Out(tab, all)
               w == Without(all, out)
    <3>1. /\ TabsFit(w) /\ In(w) = {x \in In(all) : x.id # out} /\ Ids(w) = Ids(all) \ {out}
          /\ Len(w) < Len(all)
      BY <1>2, <1>4, <2>1, WithoutTab
    <3>2. Len(w) \in Nat
      BY <3>1, LenProperties DEF TabsFit
    <3>3. tabs' = w /\ ids = Ids(all) \ {out}
      BY <1>1, <2>1 DEF Staying
    <3> HIDE DEF w, out
    <3>4. Len(tabs') <= MAX_WORKSPACE_TABS
      BY <1>0, <1>2, <1>3, <3>1, <3>2, <3>3
    <3>5. tab \in In(w)
      BY <1>2, <1>4, <2>1, <3>1 DEF out
    <3> QED
      BY <3>1, <3>3, <3>4, <3>5
  <2>2. CASE ~TooMany(all)
    <3>1. tabs' = all /\ ids = Ids(all)
      BY <1>1, <2>2 DEF Staying
    <3> QED
      BY <1>2, <1>3, <2>2, <3>1 DEF TooMany
  <2> QED
    BY <2>1, <2>2
<1>6. tab.id \in Ids(tabs')
  BY <1>5, IdsOfTabs
<1>7. e \in Entry /\ shown \in View
  <2>1. shown \in View /\ tab.id \in TabIds
    BY SanitizedIsThere DEF Tab
  <2> QED
    BY <2>1 DEF Entry
<1>8. /\ seen \in Seq(Entry) /\ Len(seen) <= max /\ at \in 0..Len(seen)
      /\ \A x \in In(seen) : x.tab \in ids
  <2>1. CASE TooMany(all)
    <3>1. seen = Visits(h, ids) /\ at = IndexAfter(h, n, ids)
      BY <2>1
    <3>2. VisitsFit(Visits(h, ids), ids) /\ Len(Visits(h, ids)) <= Len(h)
      BY <1>0, VisitsStay
    <3>3. IndexAfter(h, n, ids) \in 0..Len(Visits(h, ids))
      BY <1>0, IndexAfterFits
    <3>4. Len(Visits(h, ids)) \in Nat
      BY <3>2, LenProperties DEF VisitsFit
    <3> QED
      BY <1>0, <1>3, <3>1, <3>2, <3>3, <3>4 DEF VisitsFit
  <2>2. CASE ~TooMany(all)
    <3>1. seen = h /\ at = n /\ ids = Ids(all)
      BY <2>2 DEF Staying
    <3> QED
      BY <1>0, <1>2, <3>1 DEF VisitsFit
  <2> QED
    BY <2>1, <2>2
<1> DEFINE p == Pushed(seen, at, e)
<1>9. /\ p \in Seq(Entry) /\ Len(p) \in 1..max /\ p[Len(p)] = e /\ In(p) \subseteq In(seen) \cup {e}
      /\ \A m \in 1..at : m > 1 \/ at < max => \E k \in DOMAIN p : p[k] = seen[m]
  <2> HIDE DEF seen, at, e
  <2> QED
    BY <1>7, <1>8, PushedFits
<1>10. VisitsFit(history', Ids(tabs'))
  <2>1. e.tab = tab.id
    OBVIOUS
  <2> HIDE DEF p, e, seen, ids
  <2> QED
    BY <1>1, <1>5, <1>6, <1>8, <1>9, <2>1 DEF VisitsFit, p
<1>11. ASSUME NEW m \in 1..n, h[m].tab \in Ids(tabs'), m > 1 \/ Len(h) < max,
              h[n].tab \in Ids(tabs') \/ tab.id \in Ids(s)
       PROVE  \E k \in DOMAIN history' : history'[k].tab = h[m].tab
  <2>1. CASE ~TooMany(all)
    <3>1. seen = h /\ at = n
      BY <2>1
    <3>2. m \in 1..at /\ (m > 1 \/ at < max) /\ seen[m] = h[m]
      BY <1>0, <1>3, <1>11, <3>1
    <3> HIDE DEF p, seen, at, e
    <3>3. PICK k \in DOMAIN p : p[k] = seen[m]
      BY <1>9, <3>2
    <3> QED
      BY <1>1, <3>2, <3>3 DEF p
  <2>2. CASE TooMany(all)
    <3>1. tab.id \notin Ids(s)
      BY <1>0, <1>2, <1>3, <2>2 DEF TooMany
    <3>2. m \in Kept(h, ids) /\ n \in Kept(h, ids) /\ m <= n
      BY <1>0, <1>5, <1>11, <3>1 DEF Kept
    <3>3. seen = Visits(h, ids) /\ at = IndexAfter(h, n, ids)
      BY <2>2
    <3> DEFINE r == Rank(Kept(h, ids), m)
    <3>4. r \in 1..at /\ (r > 1 \/ at < max)
      BY <1>0, <1>11, <3>2, <3>3, IndexAfterFits
    <3>5. seen[r] = h[m]
      BY <1>0, <3>2, <3>3, VisitsStay
    <3> HIDE DEF p, seen, at, e, r
    <3>6. PICK k \in DOMAIN p : p[k] = seen[r]
      BY <1>9, <3>4
    <3> QED
      BY <1>1, <3>5, <3>6 DEF p
  <2> QED
    BY <2>1, <2>2
<1>12. /\ Len(history') \in 1..max /\ index' = Len(history')
       /\ history'[index'] = [tab |-> tab.id, panes |-> view']
  BY <1>1, <1>9
<1>13. OthersStay(tab, s)
  BY <1>2, <1>5 DEF OthersStay
<1>14. StillVisited(tab, s, h, n)
  BY <1>11 DEF StillVisited
<1> HIDE DEF e, shown, max, ids, at, seen, p
<1> QED
  BY <1>1, <1>5, <1>6, <1>10, <1>12, <1>13, <1>14 DEF shown, max

-----------------------------------------------------------------------------
(* What is saved.                                                             *)

LEMMA SanitizedTwice ==
    ASSUME NEW panes, NEW of
    PROVE  Sanitized(Sanitized(panes, of), of) = Sanitized(panes, of)
BY DEF Sanitized

\* Tabs that only changed in what they show and were opened for.
Resembles(t, s) ==
    /\ TabsFit(t) /\ Len(t) = Len(s) /\ DOMAIN t = DOMAIN s /\ Ids(t) = Ids(s)
    /\ \A i \in DOMAIN s : t[i].id = s[i].id

LEMMA TabByTab ==
    ASSUME NEW s, TabsFit(s), NEW t, t \in [DOMAIN s -> Tab],
           \A i \in DOMAIN s : t[i].id = s[i].id
    PROVE  Resembles(t, s)
<1>1. s \in Seq(Tab) /\ Len(s) \in Nat /\ DOMAIN s = 1..Len(s)
  BY LenProperties DEF TabsFit
<1>2. t \in Seq(Tab) /\ Len(t) = Len(s) /\ DOMAIN t = DOMAIN s
  BY <1>1, IsSeq
<1>3. Distinct(t)
  BY <1>2 DEF TabsFit, Distinct
<1>4. Ids(t) = Ids(s)
  BY <1>2 DEF Ids
<1> QED
  BY <1>2, <1>3, <1>4 DEF Resembles, TabsFit

LEMMA TabIs ==
    ASSUME NEW s, TabsFit(s), NEW i \in DOMAIN s
    PROVE  s[i] \in Tab
BY LenProperties DEF TabsFit

LEMMA InTabFits ==
    ASSUME NEW s, TabsFit(s), NEW act, NEW panes \in View
    PROVE  /\ Resembles(InTab(s, act, panes), s)
           /\ \A i \in DOMAIN s :
                 InTab(s, act, panes)[i].panes = IF s[i].id = act THEN panes ELSE s[i].panes
<1>1. ASSUME NEW i \in DOMAIN s
      PROVE  LET x == IF s[i].id = act THEN [s[i] EXCEPT !.panes = panes] ELSE s[i]
             IN /\ x \in Tab /\ x.id = s[i].id
                /\ x.panes = IF s[i].id = act THEN panes ELSE s[i].panes
  <2>1. s[i] \in Tab
    BY TabIs
  <2> QED
    BY <2>1 DEF Tab
<1>2. /\ InTab(s, act, panes) \in [DOMAIN s -> Tab]
      /\ \A i \in DOMAIN s : InTab(s, act, panes)[i].id = s[i].id
      /\ \A i \in DOMAIN s :
            InTab(s, act, panes)[i].panes = IF s[i].id = act THEN panes ELSE s[i].panes
  BY <1>1 DEF InTab
<1> QED
  BY <1>2, TabByTab

LEMMA CompositionFits ==
    ASSUME NEW s, TabsFit(s), NEW act
    PROVE  /\ Resembles(Composition(s, act), s)
           /\ \A i \in DOMAIN s : Composition(s, act)[i].panes = s[i].panes
<1>1. ASSUME NEW i \in DOMAIN s
      PROVE  LET x == IF s[i].id = act THEN [s[i] EXCEPT !.project = None, !.terminal = None]
                      ELSE s[i]
             IN x \in Tab /\ x.id = s[i].id /\ x.panes = s[i].panes
  <2>1. s[i] \in Tab
    BY TabIs
  <2> QED
    BY <2>1 DEF Tab
<1>2. /\ Composition(s, act) \in [DOMAIN s -> Tab]
      /\ \A i \in DOMAIN s : Composition(s, act)[i].id = s[i].id
      /\ \A i \in DOMAIN s : Composition(s, act)[i].panes = s[i].panes
  BY <1>1 DEF Composition
<1> QED
  BY <1>2, TabByTab

LEMMA SavedFits ==
    ASSUME NEW s, TabsFit(s), NEW act, NEW panes \in View
    PROVE  LET t == InTab(Composition(s, act), act, panes)
           IN /\ Resembles(t, s)
              /\ \A i \in DOMAIN s : t[i].panes = IF s[i].id = act THEN panes ELSE s[i].panes
<1> DEFINE c == Composition(s, act)
<1>1. Resembles(c, s) /\ \A i \in DOMAIN s : c[i].panes = s[i].panes
  BY CompositionFits
<1> HIDE DEF c
<1>2. /\ Resembles(InTab(c, act, panes), c)
      /\ \A i \in DOMAIN c :
            InTab(c, act, panes)[i].panes = IF c[i].id = act THEN panes ELSE c[i].panes
  BY <1>1, InTabFits DEF Resembles
<1> QED
  BY <1>1, <1>2 DEF Resembles, c

LEMMA CleanTabs ==
    ASSUME NEW s, TabsFit(s), NEW of \in Panes
    PROVE  /\ Resembles(Clean(s, of), s)
           /\ \A i \in DOMAIN s : Clean(s, of)[i].panes = Sanitized(s[i].panes, of)
<1>1. ASSUME NEW i \in DOMAIN s
      PROVE  LET x == [s[i] EXCEPT !.panes = Sanitized(@, of)]
             IN x \in Tab /\ x.id = s[i].id /\ x.panes = Sanitized(s[i].panes, of)
  <2>1. s[i] \in Tab /\ Sanitized(s[i].panes, of) \in View
    BY TabIs, SanitizedIsThere
  <2> QED
    BY <2>1 DEF Tab
<1>2. /\ Clean(s, of) \in [DOMAIN s -> Tab]
      /\ \A i \in DOMAIN s : Clean(s, of)[i].id = s[i].id
      /\ \A i \in DOMAIN s : Clean(s, of)[i].panes = Sanitized(s[i].panes, of)
  BY <1>1 DEF Clean
<1> QED
  BY <1>2, TabByTab

\* Tabs closed need not be distinct.
LEMMA CleanClosed ==
    ASSUME NEW s \in Seq(Tab), NEW of \in Panes
    PROVE  Clean(s, of) \in Seq(Tab) /\ Len(Clean(s, of)) = Len(s)
<1>1. Len(s) \in Nat /\ DOMAIN s = 1..Len(s) /\ s \in [1..Len(s) -> Tab]
  BY LenProperties
<1>2. ASSUME NEW i \in DOMAIN s PROVE [s[i] EXCEPT !.panes = Sanitized(@, of)] \in Tab
  <2>1. s[i] \in Tab /\ Sanitized(s[i].panes, of) \in View
    BY <1>1, SanitizedIsThere
  <2> QED
    BY <2>1 DEF Tab
<1>3. Clean(s, of) \in [1..Len(s) -> Tab]
  BY <1>1, <1>2 DEF Clean
<1> QED
  BY <1>1, <1>3, IsSeq

LEMMA CleanVisits ==
    ASSUME NEW h, NEW ids, VisitsFit(h, ids), NEW of \in Panes
    PROVE  /\ VisitsFit(Clean(h, of), ids) /\ Len(Clean(h, of)) = Len(h)
           /\ DOMAIN Clean(h, of) = DOMAIN h
           /\ \A i \in DOMAIN h : /\ Clean(h, of)[i].tab = h[i].tab
                                  /\ Clean(h, of)[i].panes = Sanitized(h[i].panes, of)
<1>1. Len(h) \in Nat /\ DOMAIN h = 1..Len(h) /\ h \in [1..Len(h) -> Entry]
  BY LenProperties DEF VisitsFit
<1>2. ASSUME NEW i \in DOMAIN h
      PROVE  LET x == [h[i] EXCEPT !.panes = Sanitized(@, of)]
             IN x \in Entry /\ x.tab = h[i].tab /\ x.panes = Sanitized(h[i].panes, of)
  <2>1. h[i] \in Entry /\ Sanitized(h[i].panes, of) \in View
    BY <1>1, SanitizedIsThere
  <2> QED
    BY <2>1 DEF Entry
<1>3. /\ Clean(h, of) \in [1..Len(h) -> Entry]
      /\ \A i \in DOMAIN h : /\ Clean(h, of)[i].tab = h[i].tab
                             /\ Clean(h, of)[i].panes = Sanitized(h[i].panes, of)
  BY <1>1, <1>2 DEF Clean
<1>4. Clean(h, of) \in Seq(Entry) /\ Len(Clean(h, of)) = Len(h) /\ DOMAIN Clean(h, of) = DOMAIN h
  BY <1>1, <1>3, IsSeq
<1> QED
  BY <1>3, <1>4 DEF VisitsFit, In

LEMMA InHistoryFits ==
    ASSUME NEW h, NEW ids, VisitsFit(h, ids), NEW act \in ids \cap TabIds, NEW panes \in View,
           NEW n \in 0..Len(h)
    PROVE  LET g == InHistory(h, n, act, panes)
           IN /\ VisitsFit(g, ids) /\ Len(g) = Len(h) /\ DOMAIN g = DOMAIN h
              /\ n > 0 => g[n] = [tab |-> act, panes |-> panes]
              /\ \A k \in DOMAIN h : k # n => g[k] = h[k]
<1> DEFINE e == [tab |-> act, panes |-> panes]
           g == InHistory(h, n, act, panes)
<1>1. Len(h) \in Nat /\ DOMAIN h = 1..Len(h) /\ h \in Seq(Entry) /\ n \in Nat
  BY LenProperties DEF VisitsFit
<1>2. e \in Entry /\ e.tab \in ids
  BY DEF Entry
<1>3. CASE n > 0
  <2>1. n \in 1..Len(h) /\ g = [h EXCEPT ![n] = e]
    BY <1>1, <1>3 DEF InHistory
  <2> HIDE DEF e, g
  <2>2. /\ g \in Seq(Entry) /\ Len(g) = Len(h)
        /\ \A j \in 1..Len(h) : g[j] = IF j = n THEN e ELSE h[j]
    BY <1>1, <1>2, <2>1, ExceptSeq
  <2>3. DOMAIN g = DOMAIN h
    BY <2>1
  <2>4. \A x \in In(g) : x.tab \in ids
    BY <1>1, <1>2, <2>2, <2>3 DEF In, VisitsFit
  <2> QED
    BY <1>1, <2>1, <2>2, <2>3, <2>4 DEF VisitsFit, e, g
<1>4. CASE ~(n > 0)
  BY <1>1, <1>4 DEF InHistory
<1> QED
  BY <1>3, <1>4

-----------------------------------------------------------------------------
(* The saved tabs, the history and the screen are in step.                    *)

Current ==
    active # None /\ index > 0 /\ ~shifted =>
        history[index].tab = active /\ Sanitized(history[index].panes, terms) = OnScreen

NavInv ==
    /\ Shape
    /\ TabsFit(tabs) /\ Len(tabs) <= MAX_WORKSPACE_TABS
    /\ active \in Ids(tabs) \/ (active = None /\ tabs = <<>>)
    /\ VisitsFit(history, Ids(tabs)) /\ Len(history) <= MAX_WORKSPACE_HISTORY
    /\ index \in 0..Len(history)
    /\ closed \in Seq(Tab) /\ Len(closed) <= MAX_CLOSED
    /\ shifted \in BOOLEAN
    /\ OnScreenIsSaved /\ Current

\* What OthersKeepTheirs and PastIsKept say of a step.
OthersStep ==
    \A i \in DOMAIN tabs, j \in DOMAIN tabs' :
        tabs[i].id = tabs'[j].id /\ tabs[i].id \notin {active, active'} =>
            Sanitized(tabs'[j].panes, terms') = Sanitized(tabs[i].panes, terms')

PastStep ==
    ~shifted => \A n \in 1..index :
        /\ history[n].tab \in Ids(tabs')
        /\ n > 1 \/ Len(history) < MAX_WORKSPACE_HISTORY
        /\ active \in Ids(tabs') \/ active' \in Ids(tabs)
        => \/ \E k \in DOMAIN history' : history'[k].tab = history[n].tab
           \/ /\ active \notin Ids(tabs')
              /\ \A m \in (n + 1)..index : history[m].tab \notin Ids(tabs')

GoodStep == NavInv' /\ OthersStep /\ PastStep

LEMMA NavInvGives ==
    ASSUME NavInv
    PROVE  /\ tabs \in Seq(Tab) /\ Len(tabs) \in Nat /\ DOMAIN tabs = 1..Len(tabs)
           /\ history \in Seq(Entry) /\ Len(history) \in Nat /\ DOMAIN history = 1..Len(history)
           /\ index \in Nat /\ index <= Len(history)
           /\ \A n \in 1..index : n \in DOMAIN history /\ history[n].tab \in Ids(tabs)
           /\ index > 0 => active # None /\ active \in Ids(tabs)
           /\ ~shifted /\ index > 0 => history[index].tab = active
           /\ terms \in Panes /\ view \in View /\ None \notin Ids(tabs) /\ Ids(tabs) \subseteq TabIds
<1>1. /\ tabs \in Seq(Tab) /\ Len(tabs) \in Nat /\ DOMAIN tabs = 1..Len(tabs)
      /\ history \in Seq(Entry) /\ Len(history) \in Nat /\ DOMAIN history = 1..Len(history)
  BY LenProperties DEF NavInv, TabsFit, VisitsFit
<1>2. index \in Nat /\ index <= Len(history)
  BY <1>1 DEF NavInv
<1>3. \A n \in 1..index : n \in DOMAIN history /\ history[n].tab \in Ids(tabs)
  BY <1>1, <1>2 DEF NavInv, VisitsFit, In
<1>4. Ids(tabs) \subseteq TabIds /\ None \notin Ids(tabs)
  <2>1. \A i \in DOMAIN tabs : tabs[i] \in Tab
    BY TabIs DEF NavInv
  <2>2. Ids(tabs) \subseteq TabIds
    BY <2>1 DEF Ids, Tab
  <2> QED
    BY <2>2, WorkspaceAssumption
<1>5. ASSUME index > 0 PROVE active # None /\ active \in Ids(tabs)
  <2>1. 1 \in 1..index
    BY <1>2, <1>5
  <2>2. Ids(tabs) # {}
    BY <1>3, <2>1
  <2>3. tabs = <<>> => Ids(tabs) = {}
    BY DEF Ids
  <2> QED
    BY <1>4, <2>2, <2>3 DEF NavInv
<1>6. ~shifted /\ index > 0 => history[index].tab = active
  BY <1>5 DEF NavInv, Current
<1>7. terms \in Panes /\ view \in View
  BY DEF NavInv, Shape
<1> QED
  BY <1>1, <1>2, <1>3, <1>4, <1>5, <1>6, <1>7

\* OnScreenIsSaved in terms of what the tabs are.
LEMMA InTabs == ASSUME NEW s, NEW i \in DOMAIN s PROVE s[i] \in In(s) /\ s[i].id \in Ids(s)
BY DEF In, Ids

\* After a tab was shown, everything is in step, whatever it started from.
LEMMA ShownIsInStep ==
    ASSUME NavInv, UNCHANGED <<live, terms>>, closed' \in Seq(Tab), Len(closed') <= MAX_CLOSED,
           NEW s, TabsFit(s), Len(s) <= MAX_WORKSPACE_TABS,
           NEW tab \in Tab, NEW add \in BOOLEAN, add \/ tab \in In(s),
           NEW h, VisitsFit(h, Ids(s)), Len(h) <= MAX_WORKSPACE_HISTORY,
           NEW n \in 0..Len(h), Navigates(tab, add, s, h, n)
    PROVE  NavInv'
<1>0. terms \in Panes
  BY NavInvGives
<1>1. /\ TabsFit(tabs') /\ Len(tabs') <= MAX_WORKSPACE_TABS
      /\ tab \in In(tabs')
      /\ active' = tab.id /\ active' \in Ids(tabs')
      /\ view' = Sanitized(tab.panes, terms)
      /\ VisitsFit(history', Ids(tabs')) /\ Len(history') \in 1..MAX_WORKSPACE_HISTORY
      /\ index' = Len(history')
      /\ history'[index'] = [tab |-> tab.id, panes |-> view']
      /\ shifted' = FALSE
  BY <1>0, NavigatesOutcome
<1>2. Shape'
  BY NavigatesShowsWhatIsThere DEF NavInv, ScreenStep
<1>2a. OnScreen' = Sanitized(tab.panes, terms)
  BY <1>1, SanitizedTwice DEF OnScreen
<1>3. OnScreenIsSaved'
  <2>1. ASSUME NEW i \in DOMAIN tabs', tabs'[i].id = active' PROVE tabs'[i] = tab
    BY <1>1, <2>1, InTabs, TabsAreDistinct
  <2> QED
    BY <1>1, <1>2a, <2>1 DEF OnScreenIsSaved
<1>4. Current'
  <2>1. history'[index'].tab = active' /\ history'[index'].panes = Sanitized(tab.panes, terms)
    BY <1>1
  <2> QED
    BY <1>1, <1>2a, <2>1, SanitizedTwice DEF Current
<1>5. Len(history') <= MAX_WORKSPACE_HISTORY /\ index' \in 0..Len(history')
  BY <1>1, WorkspaceAssumption
<1> QED
  BY <1>1, <1>2, <1>3, <1>4, <1>5 DEF NavInv

\* What showing a tab keeps of the tabs and of the visits.
LEMMA WhatNavigationKeeps ==
    ASSUME terms \in Panes,
           NEW s, TabsFit(s), Len(s) <= MAX_WORKSPACE_TABS,
           NEW tab \in Tab, NEW add \in BOOLEAN, add \/ tab \in In(s),
           NEW h, VisitsFit(h, Ids(s)), Len(h) <= MAX_WORKSPACE_HISTORY,
           NEW n \in 0..Len(h), Navigates(tab, add, s, h, n)
    PROVE  /\ OthersStay(tab, s)
           /\ active' = tab.id
           /\ StillVisited(tab, s, h, n)
<1>1. OthersStay(tab, s)
  BY NavigatesOutcome, Zenon
<1>2. active' = tab.id
  BY NavigatesOutcome
<1>3. StillVisited(tab, s, h, n)
  BY NavigatesOutcome, Zenon
<1> QED
  BY <1>1, <1>2, <1>3

\* A tab is opened, shown or reopened.
LEMMA NavigationIsGood ==
    ASSUME NavInv, UNCHANGED <<live, terms>>, closed' \in Seq(Tab), Len(closed') <= MAX_CLOSED,
           NEW tab \in Tab, NEW add \in BOOLEAN, add \/ tab \in In(tabs),
           Navigates(tab, add, tabs, history, index)
    PROVE  GoodStep
<1>0. /\ terms \in Panes /\ index \in Nat
      /\ ~shifted /\ index > 0 => history[index].tab = active
  BY NavInvGives
<1>00. /\ TabsFit(tabs) /\ Len(tabs) <= MAX_WORKSPACE_TABS
       /\ VisitsFit(history, Ids(tabs)) /\ Len(history) <= MAX_WORKSPACE_HISTORY
       /\ index \in 0..Len(history)
  BY DEF NavInv
<1>1. /\ OthersStay(tab, tabs)
      /\ active' = tab.id
      /\ StillVisited(tab, tabs, history, index)
  BY <1>0, <1>00, WhatNavigationKeeps
<1>2. NavInv'
  BY <1>00, ShownIsInStep
<1>3. OthersStep
  <2>1. ASSUME NEW i \in DOMAIN tabs, NEW j \in DOMAIN tabs',
               tabs[i].id = tabs'[j].id, tabs[i].id # active'
        PROVE  tabs'[j] = tabs[i]
    <3>1. tabs'[j] \in In(tabs)
      BY <1>1, <2>1, InTabs DEF OthersStay
    <3> QED
      BY <2>1, <3>1, InTabs, TabsAreDistinct DEF NavInv
  <2> QED
    BY <2>1 DEF OthersStep
<1>4. PastStep
  <2>1. \A m \in 1..index : index > 0
    BY <1>0
  <2> QED
    BY <1>0, <1>1, <2>1 DEF PastStep, StillVisited
<1> QED
  BY <1>2, <1>3, <1>4 DEF GoodStep

\* After update saved the screen, everything is in step, whatever it started from.
LEMMA SavedIsInStep ==
    ASSUME NavInv, NEW newView \in View, NEW s, TabsFit(s), Len(s) <= MAX_WORKSPACE_TABS,
           NEW act, act \in Ids(s) \/ (act = None /\ s = <<>>),
           NEW h, VisitsFit(h, Ids(s)), Len(h) <= MAX_WORKSPACE_HISTORY,
           NEW n \in 0..Len(h), Saves(newView, s, act, h, n),
           Shape', UNCHANGED closed
    PROVE  /\ NavInv'
           /\ Resembles(tabs', s) /\ active' = act /\ index' = n
           /\ \A i \in DOMAIN s : tabs'[i].panes = IF s[i].id = act THEN newView ELSE s[i].panes
           /\ Len(history') = Len(h) /\ DOMAIN history' = DOMAIN h
           /\ \A k \in DOMAIN h : k # n => history'[k] = h[k]
           /\ n > 0 => history'[n].tab = act
<1>0. /\ Len(h) \in Nat /\ DOMAIN h = 1..Len(h) /\ Len(s) \in Nat /\ DOMAIN s = 1..Len(s)
      /\ n \in Nat
  BY LenProperties DEF TabsFit, VisitsFit
<1>1. /\ view' = newView /\ active' = act /\ index' = n /\ shifted' = FALSE
      /\ tabs' = InTab(Composition(s, act), act, newView)
      /\ history' = IF act \in Ids(s) THEN InHistory(h, n, act, newView) ELSE h
  BY DEF Saves
<1>2. /\ Resembles(tabs', s)
      /\ \A i \in DOMAIN s : tabs'[i].panes = IF s[i].id = act THEN newView ELSE s[i].panes
  BY <1>1, SavedFits
<1>3. OnScreen' = Sanitized(newView, terms')
  BY <1>1 DEF OnScreen
<1>4. CASE act \in Ids(s)
  <2>1. act \in TabIds
    <3>1. \A i \in DOMAIN s : s[i] \in Tab
      BY TabIs
    <3> QED
      BY <1>4, <3>1 DEF Ids, Tab
  <2>2. /\ VisitsFit(history', Ids(s)) /\ Len(history') = Len(h) /\ DOMAIN history' = DOMAIN h
        /\ n > 0 => history'[n] = [tab |-> act, panes |-> newView]
        /\ \A k \in DOMAIN h : k # n => history'[k] = h[k]
    BY <1>1, <1>4, <2>1, InHistoryFits
  <2>3. n > 0 => history'[n].tab = act /\ history'[n].panes = newView
    BY <2>2
  <2>4. Current'
    BY <1>1, <1>3, <2>3 DEF Current
  <2>5. OnScreenIsSaved'
    BY <1>1, <1>2, <1>3 DEF OnScreenIsSaved, Resembles
  <2>6. NavInv'
    BY <1>0, <1>1, <1>2, <1>4, <2>2, <2>4, <2>5 DEF NavInv, Resembles
  <2> QED
    BY <1>1, <1>2, <2>2, <2>3, <2>6
<1>5. CASE act = None /\ s = <<>> /\ act \notin Ids(s)
  <2>1. tabs' = <<>>
    <3>1. Len(tabs') = 0 /\ tabs' \in Seq(Tab)
      BY <1>2, <1>5 DEF Resembles, TabsFit
    <3> QED
      BY <3>1, EmptySeq
  <2>2. history' = h /\ VisitsFit(history', Ids(tabs'))
    BY <1>1, <1>2, <1>5 DEF Resembles
  <2>3. Current' /\ OnScreenIsSaved'
    BY <1>1, <1>5 DEF Current, OnScreenIsSaved
  <2>4. Ids(s) = {} /\ DOMAIN h = {}
    <3>1. Ids(s) = {}
      BY <1>5 DEF Ids
    <3> QED
      BY <3>1 DEF VisitsFit, In
  <2>5. n = 0
    BY <1>0, <2>4
  <2>6. NavInv'
    BY <1>0, <1>1, <1>2, <1>5, <2>1, <2>2, <2>3 DEF NavInv, Resembles
  <2> QED
    BY <1>1, <1>2, <2>2, <2>5, <2>6
<1> QED
  BY <1>4, <1>5

-----------------------------------------------------------------------------
(* The calls one by one.                                                      *)

LEMMA TabForIsOpen ==
    ASSUME NavInv, NEW p, NEW t, TabFor(p, t) # 0
    PROVE  TabFor(p, t) \in DOMAIN tabs
<1> DEFINE found == {i \in DOMAIN tabs : tabs[i].project = p /\ tabs[i].terminal = t}
<1>1. found # {} /\ found \in SUBSET (1..Len(tabs)) /\ Len(tabs) \in Nat
  BY NavInvGives DEF TabFor
<1>2. TabFor(p, t) = CHOOSE i \in found : \A j \in found : i <= j
  BY <1>1 DEF TabFor
<1> HIDE DEF found
<1>3. \E i \in found : \A j \in found : i <= j
  BY <1>1, FirstPlace
<1>4. TabFor(p, t) \in found
  BY <1>2, <1>3
<1> QED
  BY <1>4 DEF found

LEMMA OpeningTheProjectIsGood ==
    ASSUME NavInv, NEW p \in live, OpenProject(p)
    PROVE  GoodStep
<1> DEFINE place == TabFor(p, None)
<1>1. UNCHANGED <<live, terms>> /\ closed' \in Seq(Tab) /\ Len(closed') <= MAX_CLOSED
  BY DEF OpenProject, Keep, NavInv
<1>2. p \in Projects /\ Only(p, terms[p]) \in View
  <2>1. p \in Projects
    BY DEF NavInv, Shape
  <2> QED
    BY <2>1, NavInvGives DEF Panes, View, Only, Nothing
<1>3. CASE place = 0
  <2>1. PICK id \in TabIds :
          Navigates([id |-> id, project |-> p, terminal |-> None,
                     panes |-> Only(p, terms[p]), pinned |-> FALSE], TRUE, tabs, history, index)
    BY <1>3, Zenon DEF OpenProject, NewTab
  <2> DEFINE tab == [id |-> id, project |-> p, terminal |-> None,
                     panes |-> Only(p, terms[p]), pinned |-> FALSE]
  <2>2. tab \in Tab
    BY <1>2 DEF Tab
  <2>3. Navigates(tab, TRUE, tabs, history, index)
    BY <2>1
  <2> HIDE DEF tab
  <2> QED
    BY <1>1, <2>2, <2>3, NavigationIsGood
<1>4. CASE place # 0
  <2> DEFINE tab == [tabs[place] EXCEPT !.panes = Only(p, terms[p])]
  <2>1. tabs[place] \in Tab
    BY <1>4, TabForIsOpen, TabIs DEF NavInv
  <2>2. tab \in Tab
    BY <1>2, <2>1 DEF Tab
  <2>3. Navigates(tab, TRUE, tabs, history, index)
    BY <1>4, Zenon DEF OpenProject
  <2> HIDE DEF tab
  <2> QED
    BY <1>1, <2>2, <2>3, NavigationIsGood
<1> QED
  BY <1>3, <1>4

LEMMA OpeningATerminalIsGood ==
    ASSUME NavInv, NEW p \in live, NEW t \in terms[p], OpenTerminal(p, t)
    PROVE  GoodStep
<1> DEFINE place == TabFor(p, t)
<1>1. UNCHANGED <<live, terms>> /\ closed' \in Seq(Tab) /\ Len(closed') <= MAX_CLOSED
  BY DEF OpenTerminal, Keep, NavInv
<1>2. p \in Projects /\ t \in Terminals /\ Only(p, {t}) \in View
  <2>1. p \in Projects
    BY DEF NavInv, Shape
  <2>2. t \in Terminals
    BY <2>1, NavInvGives DEF Panes
  <2> QED
    BY <2>1, <2>2 DEF View, Only, Nothing
<1>3. CASE place = 0
  <2>1. PICK id \in TabIds :
          Navigates([id |-> id, project |-> p, terminal |-> t,
                     panes |-> Only(p, {t}), pinned |-> FALSE], TRUE, tabs, history, index)
    BY <1>3, Zenon DEF OpenTerminal, NewTab
  <2> DEFINE tab == [id |-> id, project |-> p, terminal |-> t,
                     panes |-> Only(p, {t}), pinned |-> FALSE]
  <2>2. tab \in Tab
    BY <1>2 DEF Tab
  <2>3. Navigates(tab, TRUE, tabs, history, index)
    BY <2>1
  <2> HIDE DEF tab
  <2> QED
    BY <1>1, <2>2, <2>3, NavigationIsGood
<1>4. CASE place # 0
  <2>1. tabs[place] \in Tab /\ tabs[place] \in In(tabs)
    BY <1>4, TabForIsOpen, TabIs, InTabs DEF NavInv
  <2>2. Navigates(tabs[place], FALSE, tabs, history, index)
    BY <1>4, Zenon DEF OpenTerminal
  <2> QED
    BY <1>1, <2>1, <2>2, NavigationIsGood
<1> QED
  BY <1>3, <1>4

LEMMA ActivatingIsGood ==
    ASSUME NavInv, NEW i \in DOMAIN tabs, Activate(i)
    PROVE  GoodStep
<1>1. UNCHANGED <<live, terms>> /\ closed' \in Seq(Tab) /\ Len(closed') <= MAX_CLOSED
  BY DEF Activate, Keep, NavInv
<1>2. tabs[i] \in Tab /\ tabs[i] \in In(tabs)
  BY TabIs, InTabs DEF NavInv
<1>3. Navigates(tabs[i], FALSE, tabs, history, index)
  BY DEF Activate
<1> QED
  BY <1>1, <1>2, <1>3, NavigationIsGood

LEMMA ReopeningIsGood ==
    ASSUME NavInv, Reopen
    PROVE  GoodStep
<1> DEFINE tab == [closed[1] EXCEPT !.panes = Sanitized(@, terms)]
<1>0. closed \in Seq(Tab) /\ Len(closed) <= MAX_CLOSED /\ closed # <<>> /\ MAX_CLOSED \in Nat
  BY WorkspaceAssumption DEF NavInv, Reopen
<1>1. UNCHANGED <<live, terms>> /\ closed' = Tail(closed)
  BY DEF Reopen, Keep
<1>2. closed' \in Seq(Tab) /\ Len(closed') <= MAX_CLOSED
  <2>1. Tail(closed) \in Seq(Tab) /\ Len(Tail(closed)) = Len(closed) - 1 /\ Len(closed) \in Nat
    BY <1>0, HeadTailProperties, LenProperties
  <2> QED
    BY <1>0, <1>1, <2>1
<1>3. tab \in Tab
  <2>1. closed[1] \in Tab
    BY <1>0, HeadTailProperties
  <2>2. Sanitized(closed[1].panes, terms) \in View
    BY NavInvGives, SanitizedIsThere
  <2> QED
    BY <2>1, <2>2 DEF Tab
<1>4. Navigates(tab, TRUE, tabs, history, index)
  BY DEF Reopen
<1> HIDE DEF tab
<1> QED
  BY <1>1, <1>2, <1>3, <1>4, NavigationIsGood

\* update: the screen is saved in the active tab and in the current visit, which was
\* already a visit of that tab.
LEMMA SavingIsGood ==
    ASSUME NavInv, NEW newView \in View, Saves(newView, tabs, active, history, index),
           Shape', UNCHANGED closed
    PROVE  GoodStep
<1>0. /\ TabsFit(tabs) /\ Len(tabs) <= MAX_WORKSPACE_TABS
      /\ active \in Ids(tabs) \/ (active = None /\ tabs = <<>>)
      /\ VisitsFit(history, Ids(tabs)) /\ Len(history) <= MAX_WORKSPACE_HISTORY
      /\ index \in 0..Len(history)
  BY DEF NavInv
<1>1. /\ NavInv'
      /\ Resembles(tabs', tabs) /\ active' = active /\ index' = index
      /\ \A i \in DOMAIN tabs :
            tabs'[i].panes = IF tabs[i].id = active THEN newView ELSE tabs[i].panes
      /\ Len(history') = Len(history) /\ DOMAIN history' = DOMAIN history
      /\ \A k \in DOMAIN history : k # index => history'[k] = history[k]
      /\ index > 0 => history'[index].tab = active
  BY <1>0, SavedIsInStep
<1>2. OthersStep
  <2>1. ASSUME NEW i \in DOMAIN tabs, NEW j \in DOMAIN tabs',
               tabs[i].id = tabs'[j].id, tabs[i].id # active
        PROVE  tabs'[j].panes = tabs[i].panes
    <3>1. j \in DOMAIN tabs /\ tabs[j].id = tabs[i].id
      BY <1>1, <2>1 DEF Resembles
    <3>2. i = j
      BY <1>0, <3>1 DEF TabsFit, Distinct
    <3> QED
      BY <1>1, <2>1, <3>2
  <2> QED
    BY <1>1, <2>1 DEF OthersStep
<1>3. PastStep
  <2>1. ASSUME ~shifted, NEW n \in 1..index PROVE n \in DOMAIN history' /\ history'[n].tab = history[n].tab
    <3>1. n \in DOMAIN history /\ index > 0 /\ history[index].tab = active
      BY <2>1, NavInvGives
    <3> QED
      BY <1>1, <3>1
  <2> QED
    BY <2>1 DEF PastStep
<1> QED
  BY <1>1, <1>2, <1>3 DEF GoodStep

LEMMA AddingIsGood ==
    ASSUME NavInv, NEW i \in DOMAIN tabs, AddToActive(i)
    PROVE  GoodStep
<1> DEFINE shown == [p \in Projects |-> view[p] \cup Sanitized(tabs[i].panes, terms)[p]]
<1>1. Shape'
  BY TabStepsShowWhatIsThere DEF NavInv, ScreenStep
<1>2. shown \in View
  <2>1. Sanitized(tabs[i].panes, terms) \in View /\ view \in View
    BY NavInvGives, SanitizedIsThere
  <2> QED
    BY <2>1 DEF View
<1>3. Saves(shown, tabs, active, history, index) /\ UNCHANGED closed
  BY DEF AddToActive, Shows
<1> HIDE DEF shown
<1> QED
  BY <1>1, <1>2, <1>3, SavingIsGood

LEMMA ShowingIsGood ==
    ASSUME NavInv, NEW p \in live, NEW panes \in Some(terms[p] \ view[p]), Show(p, panes)
    PROVE  GoodStep
<1>1. Shape /\ Shape'
  BY PaneStepsShowWhatIsThere DEF NavInv, ScreenStep
<1>2. [view EXCEPT ![p] = @ \cup panes] \in View
  <2>1. p \in Projects /\ panes \subseteq terms[p]
    BY <1>1 DEF Shape, Some
  <2> QED
    BY <1>1, <2>1, ViewAfter
<1>3. Saves([view EXCEPT ![p] = @ \cup panes], tabs, active, history, index) /\ UNCHANGED closed
  BY DEF Show, Shows
<1> QED
  BY <1>1, <1>2, <1>3, SavingIsGood

LEMMA HidingIsGood ==
    ASSUME NavInv, NEW p \in Projects, NEW panes \in Some(view[p]) \ {{}}, Hide(p, panes)
    PROVE  GoodStep
<1>1. Shape /\ Shape'
  BY PaneStepsShowWhatIsThere DEF NavInv, ScreenStep
<1>2. [view EXCEPT ![p] = @ \ panes] \in View
  BY <1>1 DEF Shape, View
<1>3. Saves([view EXCEPT ![p] = @ \ panes], tabs, active, history, index) /\ UNCHANGED closed
  BY DEF Hide, Shows
<1> QED
  BY <1>1, <1>2, <1>3, SavingIsGood

LEMMA CreatingIsGood ==
    ASSUME NavInv, NEW p \in Projects, NEW t \in Terminals, CreateTerminal(p, t)
    PROVE  GoodStep
<1>1. Shape /\ Shape'
  BY CreatingShowsTheNewOne DEF NavInv
<1>2. [view EXCEPT ![p] = @ \cup {t}] \in View
  BY <1>1 DEF Shape, View
<1>3. Saves([view EXCEPT ![p] = @ \cup {t}], tabs, active, history, index) /\ UNCHANGED closed
  BY DEF CreateTerminal
<1> QED
  BY <1>1, <1>2, <1>3, SavingIsGood

LEMMA MovingIsGood ==
    ASSUME NavInv, NEW p \in live, NEW q \in live \ {p}, NEW t \in terms[p],
           MoveTerminal(p, t, q)
    PROVE  GoodStep
<1>1. Shape /\ Shape'
  BY ProjectStepsShowWhatIsThere DEF NavInv, ScreenStep
<1>2. [view EXCEPT ![p] = @ \ {t}] \in View
  BY <1>1 DEF Shape, View
<1>3. Saves([view EXCEPT ![p] = @ \ {t}], tabs, active, history, index) /\ UNCHANGED closed
  BY DEF MoveTerminal
<1> QED
  BY <1>1, <1>2, <1>3, SavingIsGood

LEMMA FocusingIsGood ==
    ASSUME NavInv, Focus
    PROVE  GoodStep
<1>0. /\ TabsFit(tabs) /\ Len(tabs) <= MAX_WORKSPACE_TABS
      /\ active \in Ids(tabs) /\ active \in TabIds
      /\ VisitsFit(history, Ids(tabs)) /\ Len(history) <= MAX_WORKSPACE_HISTORY
      /\ index \in 0..Len(history) /\ view \in View
      /\ closed \in Seq(Tab) /\ Len(closed) <= MAX_CLOSED
  BY NavInvGives DEF NavInv, Focus
<1>1. /\ tabs' = InTab(tabs, active, view) /\ history' = InHistory(history, index, active, view)
      /\ shifted' = FALSE /\ UNCHANGED <<live, terms, view, active, index, closed>>
  BY DEF Focus
<1>2. /\ Resembles(tabs', tabs)
      /\ \A i \in DOMAIN tabs : tabs'[i].panes = IF tabs[i].id = active THEN view ELSE tabs[i].panes
  BY <1>0, <1>1, InTabFits
<1>3. /\ VisitsFit(history', Ids(tabs)) /\ Len(history') = Len(history)
      /\ DOMAIN history' = DOMAIN history
      /\ index > 0 => history'[index] = [tab |-> active, panes |-> view]
      /\ \A k \in DOMAIN history : k # index => history'[k] = history[k]
  BY <1>0, <1>1, InHistoryFits
<1>4. Shape'
  BY PaneStepsShowWhatIsThere DEF NavInv, ScreenStep
<1>5. OnScreen' = Sanitized(view, terms)
  BY <1>1 DEF OnScreen
<1>6. index > 0 => history'[index].tab = active /\ history'[index].panes = view
  BY <1>3
<1>7. OnScreenIsSaved' /\ Current'
  BY <1>1, <1>2, <1>5, <1>6 DEF OnScreenIsSaved, Current, Resembles
<1>8. NavInv'
  BY <1>0, <1>1, <1>2, <1>3, <1>4, <1>7 DEF NavInv, Resembles
<1>9. OthersStep
  <2>1. ASSUME NEW i \in DOMAIN tabs, NEW j \in DOMAIN tabs',
               tabs[i].id = tabs'[j].id, tabs[i].id # active
        PROVE  tabs'[j].panes = tabs[i].panes
    <3>1. j \in DOMAIN tabs /\ tabs[j].id = tabs[i].id
      BY <1>2, <2>1 DEF Resembles
    <3>2. i = j
      BY <1>0, <3>1 DEF TabsFit, Distinct
    <3> QED
      BY <1>2, <2>1, <3>2
  <2> QED
    BY <2>1 DEF OthersStep
<1>10. PastStep
  <2>1. ASSUME ~shifted, NEW n \in 1..index PROVE n \in DOMAIN history' /\ history'[n].tab = history[n].tab
    <3>1. n \in DOMAIN history /\ index > 0 /\ history[index].tab = active
      BY <2>1, NavInvGives
    <3> QED
      BY <1>3, <1>6, <3>1
  <2> QED
    BY <2>1 DEF PastStep
<1> QED
  BY <1>8, <1>9, <1>10 DEF GoodStep

LEMMA GoingBackIsGood ==
    ASSUME NavInv, NEW n, GoTo(n)
    PROVE  GoodStep
<1> DEFINE act == history[n].tab
           shown == Sanitized(history[n].panes, terms)
<1>0. /\ TabsFit(tabs) /\ Len(tabs) <= MAX_WORKSPACE_TABS
      /\ VisitsFit(history, Ids(tabs)) /\ Len(history) <= MAX_WORKSPACE_HISTORY
      /\ Len(history) \in Nat /\ DOMAIN history = 1..Len(history)
      /\ closed \in Seq(Tab) /\ Len(closed) <= MAX_CLOSED
  BY NavInvGives DEF NavInv
<1>1. /\ n \in DOMAIN history /\ act \in Ids(tabs)
      /\ view' = shown /\ active' = act /\ index' = n
      /\ tabs' = InTab(tabs, act, shown)
      /\ shifted' = FALSE /\ UNCHANGED <<live, terms, history, closed>>
  BY DEF GoTo
<1>2. shown \in View
  BY NavInvGives, SanitizedIsThere
<1>3. Sanitized(shown, terms) = shown /\ OnScreen' = shown
  BY <1>1, SanitizedTwice DEF OnScreen
<1>4. act = history[n].tab /\ shown = Sanitized(history[n].panes, terms)
  OBVIOUS
<1> HIDE DEF act, shown
<1>5. /\ Resembles(tabs', tabs)
      /\ \A i \in DOMAIN tabs : tabs'[i].panes = IF tabs[i].id = act THEN shown ELSE tabs[i].panes
  BY <1>0, <1>1, <1>2, InTabFits
<1>6. Shape'
  BY TabStepsShowWhatIsThere DEF NavInv, ScreenStep
<1>7. OnScreenIsSaved' /\ Current'
  BY <1>1, <1>3, <1>4, <1>5 DEF OnScreenIsSaved, Current, Resembles
<1>8. NavInv'
  <2>1. index' \in 0..Len(history')
    BY <1>0, <1>1
  <2> QED
    BY <1>0, <1>1, <1>5, <1>6, <1>7, <2>1 DEF NavInv, Resembles
<1>9. OthersStep
  <2>1. ASSUME NEW i \in DOMAIN tabs, NEW j \in DOMAIN tabs',
               tabs[i].id = tabs'[j].id, tabs[i].id # act
        PROVE  tabs'[j].panes = tabs[i].panes
    <3>1. j \in DOMAIN tabs /\ tabs[j].id = tabs[i].id
      BY <1>5, <2>1 DEF Resembles
    <3>2. i = j
      BY <1>0, <3>1 DEF TabsFit, Distinct
    <3> QED
      BY <1>5, <2>1, <3>2
  <2> QED
    BY <1>1, <2>1 DEF OthersStep
<1>10. PastStep
  <2>1. \A m \in 1..index : m \in DOMAIN history' /\ history'[m].tab = history[m].tab
    BY <1>1, NavInvGives
  <2> QED
    BY <2>1 DEF PastStep
<1> QED
  BY <1>8, <1>9, <1>10 DEF GoodStep

LEMMA RestartingIsGood ==
    ASSUME NavInv, Restart
    PROVE  GoodStep
<1>0. /\ TabsFit(tabs) /\ Len(tabs) <= MAX_WORKSPACE_TABS
      /\ active \in Ids(tabs) \/ (active = None /\ tabs = <<>>)
      /\ VisitsFit(history, Ids(tabs)) /\ Len(history) <= MAX_WORKSPACE_HISTORY
      /\ index \in 0..Len(history) /\ terms \in Panes /\ view \in View
      /\ closed \in Seq(Tab) /\ Len(closed) <= MAX_CLOSED
      /\ shifted \in BOOLEAN
  BY NavInvGives DEF NavInv
<1>2. /\ tabs' = Clean(tabs, terms) /\ history' = Clean(history, terms)
      /\ closed' = Clean(closed, terms) /\ view' = Sanitized(view, terms)
      /\ UNCHANGED <<live, terms, index, shifted>>
  BY DEF Restart
<1>1. OnScreen' = OnScreen
  BY <1>2, SanitizedTwice DEF OnScreen
<1>3. active' = active
  <2>1. active' = IF active = None /\ tabs # <<>> THEN tabs[1].id ELSE active
    BY DEF Restart
  <2>2. active = None => tabs = <<>>
    BY <1>0, NavInvGives
  <2> QED
    BY <2>1, <2>2
<1>4. /\ Resembles(tabs', tabs)
      /\ \A i \in DOMAIN tabs : tabs'[i].panes = Sanitized(tabs[i].panes, terms)
  BY <1>0, <1>2, CleanTabs
<1>5. /\ VisitsFit(history', Ids(tabs)) /\ Len(history') = Len(history)
      /\ DOMAIN history' = DOMAIN history
      /\ \A i \in DOMAIN history : /\ history'[i].tab = history[i].tab
                                   /\ history'[i].panes = Sanitized(history[i].panes, terms)
  BY <1>0, <1>2, CleanVisits
<1>6. closed' \in Seq(Tab) /\ Len(closed') = Len(closed)
  BY <1>0, <1>2, CleanClosed
<1>7. Shape'
  BY PaneStepsShowWhatIsThere DEF NavInv, ScreenStep
<1>8. OnScreenIsSaved'
  BY <1>1, <1>2, <1>3, <1>4, SanitizedTwice DEF NavInv, OnScreenIsSaved, Resembles
<1>9. Current'
  <2>1. ASSUME index > 0
        PROVE  /\ history'[index].tab = history[index].tab
               /\ Sanitized(history'[index].panes, terms) = Sanitized(history[index].panes, terms)
    <3>1. index \in DOMAIN history
      BY <2>1, NavInvGives
    <3> QED
      BY <1>5, <3>1, SanitizedTwice
  <2> QED
    BY <1>1, <1>2, <1>3, <2>1 DEF NavInv, Current
<1>10. NavInv'
  <2>1. active' \in Ids(tabs') \/ (active' = None /\ tabs' = <<>>)
    <3>1. CASE active = None /\ tabs = <<>>
      <4>1. Len(tabs') = 0 /\ tabs' \in Seq(Tab)
        BY <1>4, <3>1 DEF Resembles, TabsFit
      <4>2. tabs' = <<>>
        BY <4>1, EmptySeq
      <4> QED
        BY <1>3, <3>1, <4>2
    <3> QED
      BY <1>0, <1>3, <1>4, <3>1 DEF Resembles
  <2> QED
    BY <1>0, <1>2, <1>4, <1>5, <1>6, <1>7, <1>8, <1>9, <2>1 DEF NavInv, Resembles
<1>11. OthersStep
  <2>1. ASSUME NEW i \in DOMAIN tabs, NEW j \in DOMAIN tabs', tabs[i].id = tabs'[j].id
        PROVE  tabs'[j].panes = Sanitized(tabs[i].panes, terms)
    <3>1. j \in DOMAIN tabs /\ tabs[j].id = tabs[i].id
      BY <1>4, <2>1 DEF Resembles
    <3>2. i = j
      BY <1>0, <3>1 DEF TabsFit, Distinct
    <3> QED
      BY <1>4, <2>1, <3>2
  <2> QED
    BY <1>2, <2>1, SanitizedTwice DEF OthersStep
<1>12. PastStep
  <2>1. \A m \in 1..index : m \in DOMAIN history' /\ history'[m].tab = history[m].tab
    BY <1>5, NavInvGives
  <2> QED
    BY <2>1 DEF PastStep
<1> QED
  BY <1>10, <1>11, <1>12 DEF GoodStep

LEMMA JoinedTabs ==
    ASSUME NEW a, NEW b, TabsFit(a), TabsFit(b),
           \A x \in In(a), y \in In(b) : x.id # y.id
    PROVE  /\ TabsFit(a \o b) /\ Len(a \o b) = Len(a) + Len(b)
           /\ In(a \o b) = In(a) \cup In(b)
<1> DEFINE c == a \o b
<1>0. /\ a \in Seq(Tab) /\ Len(a) \in Nat /\ DOMAIN a = 1..Len(a)
      /\ b \in Seq(Tab) /\ Len(b) \in Nat /\ DOMAIN b = 1..Len(b)
  BY LenProperties DEF TabsFit
<1>1. /\ c \in Seq(Tab) /\ Len(c) = Len(a) + Len(b)
      /\ \A i \in 1..(Len(a) + Len(b)) :
            c[i] = IF i <= Len(a) THEN a[i] ELSE b[i - Len(a)]
  BY <1>0, ConcatProperties
<1> HIDE DEF c
<1>2. DOMAIN c = 1..(Len(a) + Len(b))
  BY <1>0, <1>1, LenProperties
<1>3. ASSUME NEW i \in DOMAIN c, ~(i <= Len(a))
      PROVE  c[i] = b[i - Len(a)] /\ i - Len(a) \in DOMAIN b
  BY <1>0, <1>1, <1>2, <1>3
<1>4. ASSUME NEW i \in DOMAIN c, i <= Len(a)
      PROVE  c[i] = a[i] /\ i \in DOMAIN a
  BY <1>0, <1>1, <1>2, <1>4
<1>5. Distinct(c)
  <2>1. ASSUME NEW i \in DOMAIN c, NEW j \in DOMAIN c, c[i].id = c[j].id PROVE i = j
    <3>0. i \in Nat /\ j \in Nat
      BY <1>0, <1>2
    <3>1. CASE i <= Len(a) /\ j <= Len(a)
      BY <1>4, <2>1, <3>1 DEF TabsFit, Distinct
    <3>2. CASE ~(i <= Len(a)) /\ ~(j <= Len(a))
      <4>1. i - Len(a) = j - Len(a)
        BY <1>3, <2>1, <3>2 DEF TabsFit, Distinct
      <4> QED
        BY <1>0, <3>0, <4>1
    <3>3. CASE i <= Len(a) /\ ~(j <= Len(a))
      <4>1. c[i] \in In(a) /\ c[j] \in In(b)
        BY <1>3, <1>4, <3>3, InTabs
      <4> QED
        BY <2>1, <4>1
    <3>4. CASE ~(i <= Len(a)) /\ j <= Len(a)
      <4>1. c[j] \in In(a) /\ c[i] \in In(b)
        BY <1>3, <1>4, <3>4, InTabs
      <4> QED
        BY <2>1, <4>1
    <3> QED
      BY <3>1, <3>2, <3>3, <3>4
  <2> QED
    BY <2>1 DEF Distinct
<1>6. In(c) = In(a) \cup In(b)
  <2>1. ASSUME NEW i \in DOMAIN c PROVE c[i] \in In(a) \cup In(b)
    BY <1>3, <1>4, InTabs
  <2>2. ASSUME NEW i \in DOMAIN a PROVE i \in DOMAIN c /\ c[i] = a[i]
    BY <1>0, <1>1, <1>2
  <2>3. ASSUME NEW i \in DOMAIN b PROVE \E j \in DOMAIN c : c[j] = b[i]
    <3>1. i + Len(a) \in DOMAIN c /\ c[i + Len(a)] = b[i + Len(a) - Len(a)]
      BY <1>0, <1>1, <1>2
    <3>2. i + Len(a) - Len(a) = i
      BY <1>0
    <3> QED
      BY <3>1, <3>2
  <2> QED
    BY <2>1, <2>2, <2>3 DEF In
<1> QED
  BY <1>1, <1>5, <1>6 DEF TabsFit, c

LEMMA PinningIsGood ==
    ASSUME NavInv, NEW i \in DOMAIN tabs, Pin(i)
    PROVE  GoodStep
<1> DEFINE toggled == [tabs EXCEPT ![i].pinned = ~@]
           at == {j \in DOMAIN toggled : toggled[j].pinned}
           rest == DOMAIN toggled \ at
           a == Picked(toggled, at)
           b == Picked(toggled, rest)
<1>0. /\ TabsFit(tabs) /\ Len(tabs) <= MAX_WORKSPACE_TABS
      /\ Len(tabs) \in Nat /\ DOMAIN tabs = 1..Len(tabs)
  BY NavInvGives DEF NavInv
<1>1. tabs' = a \o b /\ UNCHANGED <<live, terms, view, active, history, index, closed, shifted>>
  BY DEF Pin
<1>2. /\ Resembles(toggled, tabs)
      /\ \A j \in DOMAIN tabs : toggled[j].panes = tabs[j].panes
  <2>1. ASSUME NEW j \in DOMAIN tabs
        PROVE  /\ toggled[j] \in Tab
               /\ toggled[j].id = tabs[j].id /\ toggled[j].panes = tabs[j].panes
    <3>1. tabs[j] \in Tab
      BY <1>0, TabIs
    <3>2. CASE j = i
      <4> DEFINE flag == ~tabs[i].pinned
      <4>1. toggled[j] = [tabs[i] EXCEPT !.pinned = flag]
        BY <3>2
      <4>2. flag \in BOOLEAN
        OBVIOUS
      <4> HIDE DEF toggled, flag
      <4> QED
        BY <3>1, <3>2, <4>1, <4>2 DEF Tab
    <3>3. CASE j # i
      <4>1. toggled[j] = tabs[j]
        BY <3>3
      <4> HIDE DEF toggled
      <4> QED
        BY <3>1, <4>1
    <3> QED
      BY <3>2, <3>3
  <2>2. toggled \in [DOMAIN tabs -> Tab]
    <3>1. toggled = [j \in DOMAIN tabs |-> toggled[j]]
      OBVIOUS
    <3> QED
      BY <2>1, <3>1
  <2> HIDE DEF toggled
  <2>3. Resembles(toggled, tabs)
    BY <1>0, <2>1, <2>2, TabByTab
  <2> QED
    BY <2>1, <2>3
<1>3. TabsFit(toggled) /\ Len(toggled) = Len(tabs) /\ DOMAIN toggled = DOMAIN tabs
  BY <1>2 DEF Resembles
<1>4. at \in SUBSET (DOMAIN toggled) /\ rest \in SUBSET (DOMAIN toggled)
      /\ at \cup rest = 1..Len(tabs) /\ at \cap rest = {}
  BY <1>0, <1>3
<1> HIDE DEF toggled, at, rest
<1>5. /\ TabsFit(a) /\ In(a) = {toggled[j] : j \in at} /\ Len(a) = Cardinality(at)
      /\ TabsFit(b) /\ In(b) = {toggled[j] : j \in rest} /\ Len(b) = Cardinality(rest)
  BY <1>3, <1>4, PickedTabs
<1>6. Cardinality(at) + Cardinality(rest) = Len(tabs)
  <2>1. IsFiniteSet(1..Len(tabs)) /\ Cardinality(1..Len(tabs)) = Len(tabs)
    BY <1>0, NumbersUpTo
  <2>2. IsFiniteSet(at) /\ IsFiniteSet(rest)
    BY <1>4, <2>1, FS_Subset
  <2>3. Cardinality(at) \in Nat /\ Cardinality(rest) \in Nat
    BY <2>2, FS_CardinalityType
  <2>4. Cardinality(at \cup rest) = Cardinality(at) + Cardinality(rest) - Cardinality(at \cap rest)
    BY <2>2, FS_Union
  <2>5. Cardinality(at \cap rest) = 0
    BY <1>4, FS_EmptySet
  <2>6. Cardinality(at \cup rest) = Len(tabs)
    BY <1>4, <2>1
  <2> QED
    BY <1>0, <2>3, <2>4, <2>5, <2>6
<1>7. \A x \in In(a), y \in In(b) : x.id # y.id
  <2>1. ASSUME NEW j \in at, NEW k \in rest PROVE toggled[j].id # toggled[k].id
    BY <1>3, <1>4 DEF TabsFit, Distinct
  <2> QED
    BY <1>5, <2>1
<1> HIDE DEF a, b
<1>8. TabsFit(tabs') /\ Len(tabs') = Len(tabs) /\ In(tabs') = In(a) \cup In(b)
  BY <1>1, <1>5, <1>6, <1>7, JoinedTabs
<1>9. In(tabs') = In(toggled)
  <2>1. In(a) \cup In(b) = {toggled[j] : j \in at \cup rest}
    BY <1>5
  <2> QED
    BY <1>0, <1>3, <1>4, <1>8, <2>1 DEF In
<1>10. Ids(tabs') = Ids(tabs)
  <2>1. Ids(tabs') = Ids(toggled)
    BY <1>9, IdsOfTabs
  <2> QED
    BY <1>2, <2>1 DEF Resembles
<1>11. ASSUME NEW j \in DOMAIN tabs'
       PROVE  \E k \in DOMAIN tabs : tabs'[j].id = tabs[k].id /\ tabs'[j].panes = tabs[k].panes
  <2>1. tabs'[j] \in In(toggled)
    BY <1>9, InTabs
  <2>2. PICK k \in DOMAIN tabs : tabs'[j] = toggled[k]
    BY <1>3, <2>1 DEF In
  <2> QED
    BY <1>2, <2>2 DEF Resembles
<1>12. Shape'
  BY TabStepsShowWhatIsThere DEF NavInv, ScreenStep
<1>13. OnScreenIsSaved' /\ Current'
  BY <1>1, <1>11 DEF NavInv, OnScreenIsSaved, Current, OnScreen
<1>14. NavInv'
  <2>1. active' \in Ids(tabs') \/ (active' = None /\ tabs' = <<>>)
    <3>1. CASE active \in Ids(tabs)
      BY <1>1, <1>10, <3>1
    <3>2. CASE tabs = <<>>
      BY <3>2
    <3> QED
      BY <3>1, <3>2 DEF NavInv
  <2> QED
    BY <1>0, <1>1, <1>8, <1>10, <1>12, <1>13, <2>1 DEF NavInv
<1>15. OthersStep
  <2>1. ASSUME NEW j \in DOMAIN tabs, NEW k \in DOMAIN tabs', tabs[j].id = tabs'[k].id
        PROVE  tabs'[k].panes = tabs[j].panes
    <3>1. PICK l \in DOMAIN tabs : tabs'[k].id = tabs[l].id /\ tabs'[k].panes = tabs[l].panes
      BY <1>11
    <3>2. l = j
      BY <1>0, <2>1, <3>1 DEF TabsFit, Distinct
    <3> QED
      BY <3>1, <3>2
  <2> QED
    BY <1>1, <2>1 DEF OthersStep
<1>16. PastStep
  <2>1. \A m \in 1..index : m \in DOMAIN history'
    BY <1>1, NavInvGives
  <2> QED
    BY <1>1, <2>1 DEF PastStep
<1> QED
  BY <1>14, <1>15, <1>16 DEF GoodStep

\* A visit of a tab that went leaves room for another.
LEMMA FewerVisits ==
    ASSUME NEW h \in Seq(Entry), NEW ids, NEW i \in DOMAIN h, h[i].tab \notin ids
    PROVE  Len(Visits(h, ids)) < Len(h)
<1> DEFINE at == Kept(h, ids)
<1>1. Len(h) \in Nat /\ DOMAIN h = 1..Len(h)
  BY LenProperties
<1>2. Visits(h, ids) = Picked(h, at) /\ at \in SUBSET (DOMAIN h) /\ i \notin at
  BY DEF Visits, Kept
<1> HIDE DEF at
<1>3. Len(Visits(h, ids)) = Cardinality(at)
  BY <1>2, PickedIsLeft
<1>4. at \in SUBSET (1..Len(h)) /\ at # 1..Len(h)
  BY <1>1, <1>2
<1> QED
  BY <1>1, <1>3, <1>4, Ranks

LEMMA ClosedTabFits ==
    ASSUME NEW s \in Seq(Tab), NEW x \in Tab
    PROVE  LET t == FirstOf(<<x>> \o Without(s, x.id), MAX_CLOSED)
           IN t \in Seq(Tab) /\ Len(t) <= MAX_CLOSED
<1> DEFINE rest == Without(s, x.id)
           all == <<x>> \o rest
<1>0. MAX_CLOSED \in Nat /\ MAX_CLOSED # 0
  BY WorkspaceAssumption
<1>1. rest \in Seq(Tab)
  <2> DEFINE at == {i \in DOMAIN s : s[i].id # x.id}
  <2>1. rest = Picked(s, at) /\ at \in SUBSET (DOMAIN s)
    BY DEF Without
  <2> HIDE DEF at
  <2> QED
    BY <2>1, PickedIsLeft
<1> HIDE DEF rest
<1>2. all \in Seq(Tab) /\ Len(all) \in Nat
  BY <1>1
<1> HIDE DEF all
<1>3. FirstOf(all, MAX_CLOSED) \in Seq(Tab) /\ Len(FirstOf(all, MAX_CLOSED)) <= MAX_CLOSED
  <2>1. CASE Len(all) > MAX_CLOSED
    <3>1. FirstOf(all, MAX_CLOSED) = SubSeq(all, 1, MAX_CLOSED)
      BY <2>1 DEF FirstOf
    <3>2. \A j \in 1..MAX_CLOSED : all[j] \in Tab
      BY <1>0, <1>2, <2>1
    <3>3. SubSeq(all, 1, MAX_CLOSED) \in Seq(Tab) /\ Len(SubSeq(all, 1, MAX_CLOSED)) = MAX_CLOSED
      BY <1>0, <1>2, <2>1, <3>2, SubSeqProperties
    <3> QED
      BY <1>0, <3>1, <3>3
  <2>2. CASE ~(Len(all) > MAX_CLOSED)
    BY <1>0, <1>2, <2>2 DEF FirstOf
  <2> QED
    BY <2>1, <2>2
<1> QED
  BY <1>3 DEF all, rest

LEMMA ClosingIsGood ==
    ASSUME NavInv, NEW i \in DOMAIN tabs, Close(i)
    PROVE  GoodStep
<1> DEFINE id == tabs[i].id
           rest == Without(tabs, id)
           seen == Visits(history, Ids(rest))
           kept == Kept(history, Ids(rest))
<1>0. /\ TabsFit(tabs) /\ Len(tabs) <= MAX_WORKSPACE_TABS /\ Len(tabs) \in Nat
      /\ history \in Seq(Entry) /\ Len(history) <= MAX_WORKSPACE_HISTORY
      /\ Len(history) \in Nat /\ DOMAIN history = 1..Len(history)
      /\ index \in Nat /\ index <= Len(history)
      /\ closed \in Seq(Tab) /\ tabs[i] \in Tab /\ MAX_WORKSPACE_TABS \in Nat
      /\ MAX_WORKSPACE_HISTORY \in Nat
  BY NavInvGives, TabIs, WorkspaceAssumption DEF NavInv
<1>1. /\ UNCHANGED <<live, terms>>
      /\ active # id =>
           /\ tabs' = rest /\ history' = seen /\ index' = Lower(index, Len(seen))
           /\ shifted' = (shifted \/ \E n \in 1..index : history[n].tab = id)
           /\ UNCHANGED <<view, active>>
      /\ active = id /\ rest = <<>> =>
           /\ view' = Nothing /\ tabs' = <<>> /\ active' = None
           /\ history' = <<>> /\ index' = 0 /\ shifted' = FALSE
      /\ active = id /\ rest # <<>> =>
           Navigates(rest[Lower(i, Len(rest))], FALSE, rest, seen, Len(seen))
  BY DEF Close
<1>2. closed' \in Seq(Tab) /\ Len(closed') <= MAX_CLOSED
  <2>1. closed' = FirstOf(<<tabs[i]>> \o Without(closed, tabs[i].id), MAX_CLOSED)
    BY DEF Close
  <2> QED
    BY <1>0, <2>1, ClosedTabFits
<1>3. Shape'
  BY TabStepsShowWhatIsThere DEF NavInv, ScreenStep
<1>4. /\ TabsFit(rest) /\ In(rest) = {x \in In(tabs) : x.id # id}
      /\ Ids(rest) = Ids(tabs) \ {id} /\ Len(rest) <= Len(tabs)
  BY <1>0, WithoutTab
<1>5. Len(rest) \in Nat /\ DOMAIN rest = 1..Len(rest) /\ rest \in Seq(Tab)
  BY <1>4, LenProperties DEF TabsFit
<1>6. id \in Ids(tabs)
  BY InTabs
<1> HIDE DEF id, rest
<1>7. /\ VisitsFit(seen, Ids(rest)) /\ Len(seen) <= Len(history)
      /\ \A n \in kept : Rank(kept, n) \in DOMAIN seen /\ seen[Rank(kept, n)] = history[n]
  BY <1>0, VisitsStay
<1>8. seen \in Seq(Entry) /\ Len(seen) \in Nat /\ DOMAIN seen = 1..Len(seen)
  BY <1>7, LenProperties DEF VisitsFit
<1>9. ASSUME NEW n \in 1..index, history[n].tab \in Ids(rest) PROVE n \in kept
  BY <1>9, NavInvGives DEF Kept
<1>10. \A n \in 1..index : n \in DOMAIN history /\ history[n].tab \in Ids(tabs)
  BY NavInvGives
<1>11. kept \in SUBSET (1..Len(history))
  BY <1>0 DEF Kept
<1> HIDE DEF seen, kept
<1>12. CASE active # id
  <2>1. ASSUME ~shifted', index > 0
        PROVE  index \in DOMAIN seen /\ seen[index] = history[index] /\ ~shifted
    <3>1. ~shifted /\ \A n \in 1..index : history[n].tab # id
      BY <1>1, <1>12, <2>1
    <3>2. 1..index \subseteq kept
      BY <1>4, <1>9, <1>10, <3>1
    <3>3. Rank(kept, index) = index
      BY <1>0, <1>11, <3>2, Ranks
    <3>4. index \in kept
      BY <1>0, <2>1, <3>2
    <3> QED
      BY <1>7, <3>1, <3>3, <3>4
  <2>2. /\ index' \in Nat /\ index' <= Len(seen)
        /\ index' > 0 => index > 0
        /\ index <= Len(seen) => index' = index
    BY <1>0, <1>1, <1>8, <1>12 DEF Lower
  <2>3. Current'
    <3> SUFFICES ASSUME active' # None, index' > 0, ~shifted'
                 PROVE  /\ history'[index'].tab = active'
                        /\ Sanitized(history'[index'].panes, terms') = OnScreen'
      BY DEF Current
    <3>1. /\ index > 0 /\ index \in DOMAIN seen /\ seen[index] = history[index] /\ ~shifted
          /\ index' = index
      BY <1>8, <2>1, <2>2
    <3>2. history[index].tab = active /\ Sanitized(history[index].panes, terms) = OnScreen
      BY <1>1, <1>12, <3>1 DEF NavInv, Current
    <3> QED
      BY <1>1, <1>12, <3>1, <3>2 DEF OnScreen
  <2>4. ASSUME NEW j \in DOMAIN tabs' PROVE \E k \in DOMAIN tabs : tabs'[j] = tabs[k]
    <3>1. tabs'[j] \in In(rest)
      BY <1>1, <1>12, InTabs
    <3> QED
      BY <1>4, <3>1 DEF In
  <2>5. OnScreenIsSaved'
    BY <1>1, <1>12, <2>4 DEF NavInv, OnScreenIsSaved, OnScreen
  <2>6. shifted' \in BOOLEAN
    BY <1>1, <1>12
  <2>7. active' \in Ids(tabs')
    <3>1. active \in Ids(tabs)
      <4>1. tabs # <<>>
        BY <1>6 DEF Ids
      <4> QED
        BY <4>1 DEF NavInv
    <3> QED
      BY <1>1, <1>4, <1>12, <3>1
  <2>8. NavInv'
    <3>1. Len(tabs') <= MAX_WORKSPACE_TABS /\ Len(history') <= MAX_WORKSPACE_HISTORY
      BY <1>0, <1>1, <1>4, <1>5, <1>7, <1>8, <1>12
    <3>2. index' \in 0..Len(history')
      BY <1>1, <1>8, <1>12, <2>2
    <3>3. TabsFit(tabs') /\ VisitsFit(history', Ids(tabs'))
      BY <1>1, <1>4, <1>7, <1>12
    <3> QED
      BY <1>2, <1>3, <2>3, <2>5, <2>6, <2>7, <3>1, <3>2, <3>3 DEF NavInv
  <2>9. OthersStep
    <3>1. ASSUME NEW j \in DOMAIN tabs, NEW k \in DOMAIN tabs', tabs[j].id = tabs'[k].id
          PROVE  tabs'[k] = tabs[j]
      BY <1>0, <2>4, <3>1 DEF TabsFit, Distinct
    <3> QED
      BY <3>1 DEF OthersStep
  <2>10. PastStep
    <3>1. ASSUME NEW n \in 1..index, history[n].tab \in Ids(tabs')
          PROVE  \E k \in DOMAIN history' : history'[k].tab = history[n].tab
      <4>1. n \in kept
        BY <1>1, <1>9, <1>12, <3>1
      <4> QED
        BY <1>1, <1>7, <1>12, <4>1
    <3> QED
      BY <3>1 DEF PastStep
  <2> QED
    BY <2>8, <2>9, <2>10 DEF GoodStep
<1>13. CASE active = id /\ rest = <<>>
  <2>1. /\ TabsFit(<<>>) /\ Len(<<>>) = 0 /\ VisitsFit(<<>>, {}) /\ Ids(<<>>) = {}
        /\ DOMAIN <<>> = {}
    <3>1. /\ <<>> \in Seq(Tab) /\ <<>> \in Seq(Entry) /\ Len(<<>>) = 0 /\ DOMAIN <<>> = {}
      OBVIOUS
    <3> QED
      BY <3>1 DEF TabsFit, VisitsFit, Ids, In, Distinct
  <2>2. OnScreenIsSaved' /\ Current'
    BY <1>1, <1>13 DEF OnScreenIsSaved, Current
  <2>3. NavInv'
    <3>1. /\ TabsFit(tabs') /\ Len(tabs') <= MAX_WORKSPACE_TABS
          /\ active' = None /\ tabs' = <<>>
      BY <1>0, <1>1, <1>13, <2>1
    <3>2. VisitsFit(history', Ids(tabs')) /\ Len(history') = 0 /\ index' = 0
      BY <1>1, <1>13, <2>1
    <3>3. Len(history') <= MAX_WORKSPACE_HISTORY /\ index' \in 0..Len(history')
      BY <1>0, <3>2
    <3>4. shifted' \in BOOLEAN
      BY <1>1, <1>13
    <3> QED
      BY <1>2, <1>3, <2>2, <3>1, <3>2, <3>3, <3>4 DEF NavInv
  <2>4. OthersStep /\ PastStep
    BY <1>1, <1>13, <2>1 DEF OthersStep, PastStep
  <2> QED
    BY <2>3, <2>4 DEF GoodStep
<1>14. CASE active = id /\ rest # <<>>
  <2> DEFINE tab == rest[Lower(i, Len(rest))]
  <2>1. Lower(i, Len(rest)) \in DOMAIN rest
    <3>1. Len(rest) # 0
      BY <1>5, <1>14, EmptySeq
    <3>2. i \in Nat /\ i >= 1
      BY NavInvGives
    <3> QED
      BY <1>5, <3>1, <3>2 DEF Lower
  <2>2. tab \in In(rest) /\ tab \in Tab /\ tab.id \in Ids(rest)
    BY <1>4, <2>1, InTabs, TabIs
  <2>3. Navigates(tab, FALSE, rest, seen, Len(seen))
    BY <1>1, <1>14
  <2> HIDE DEF tab
  <2>4. /\ Len(rest) <= MAX_WORKSPACE_TABS /\ Len(seen) <= MAX_WORKSPACE_HISTORY
        /\ Len(seen) \in 0..Len(seen) /\ terms \in Panes
    BY <1>0, <1>4, <1>5, <1>7, <1>8, NavInvGives
  <2>5. NavInv'
    BY <1>1, <1>2, <1>4, <1>7, <2>2, <2>3, <2>4, ShownIsInStep
  <2>6. OthersStay(tab, rest) /\ StillVisited(tab, rest, seen, Len(seen)) /\ active' = tab.id
    BY <1>4, <1>7, <2>2, <2>3, <2>4, WhatNavigationKeeps
  <2>7. In(tabs') \subseteq In(rest)
    BY <2>2, <2>6 DEF OthersStay
  <2>8. OthersStep
    <3>1. ASSUME NEW j \in DOMAIN tabs, NEW k \in DOMAIN tabs', tabs[j].id = tabs'[k].id
          PROVE  tabs'[k] = tabs[j]
      <4>1. tabs'[k] \in In(tabs) /\ tabs[j] \in In(tabs)
        BY <1>4, <2>7, InTabs
      <4> QED
        BY <1>0, <3>1, <4>1, TabsAreDistinct
    <3> QED
      BY <3>1 DEF OthersStep
  <2>9. PastStep
    <3>1. ASSUME ~shifted, NEW n \in 1..index, history[n].tab \in Ids(tabs')
          PROVE  \E k \in DOMAIN history' : history'[k].tab = history[n].tab
      <4>1. history[n].tab \in Ids(rest)
        BY <2>7, <3>1, IdsOfTabs
      <4>2. n \in kept
        BY <1>9, <4>1
      <4> DEFINE m == Rank(kept, n)
      <4>3. m \in 1..Len(seen) /\ seen[m] = history[n]
        BY <1>7, <1>8, <4>2
      <4>4. Len(seen) < Len(history)
        <5>1. index \in DOMAIN history /\ history[index].tab = id
          <6>1. index > 0
            BY <1>0, <3>1
          <6> QED
            BY <1>14, <3>1, <6>1, NavInvGives
        <5>2. history[index].tab \notin Ids(rest)
          BY <1>4, <5>1
        <5> QED
          BY <1>0, <5>1, <5>2, FewerVisits DEF seen
      <4>5. Len(seen) < MAX_WORKSPACE_HISTORY
        BY <1>0, <1>8, <4>4
      <4> HIDE DEF m
      <4>6. seen[m].tab \in Ids(tabs')
        BY <3>1, <4>3
      <4> QED
        BY <2>2, <2>6, <4>3, <4>5, <4>6 DEF StillVisited
    <3> QED
      BY <3>1 DEF PastStep
  <2> QED
    BY <2>5, <2>8, <2>9 DEF GoodStep
<1> QED
  BY <1>12, <1>13, <1>14

\* What deletes tabs: the place that is written over is the one of the current visit
\* when its tab stays, and the one of the last visit that is left when it goes.
LEMMA ForgettingIsGood ==
    ASSUME NavInv, NEW of \in Panes, NEW newView \in View, NEW gone \in SUBSET (DOMAIN tabs),
           Forgets(of, newView, gone), Shape'
    PROVE  GoodStep
<1> DEFINE left == Picked(tabs, DOMAIN tabs \ gone)
           rest == Clean(left, of)
           act == IF active \in Ids(rest) THEN active ELSE IF rest = <<>> THEN None ELSE rest[1].id
           kept == Kept(history, Ids(rest))
           visits == Visits(history, Ids(rest))
           seen == Clean(visits, of)
           n == Lower(index, Len(seen))
<1>0. /\ TabsFit(tabs) /\ Len(tabs) <= MAX_WORKSPACE_TABS /\ Len(tabs) \in Nat
      /\ history \in Seq(Entry) /\ Len(history) <= MAX_WORKSPACE_HISTORY
      /\ Len(history) \in Nat /\ DOMAIN history = 1..Len(history)
      /\ index \in Nat /\ index <= Len(history)
      /\ MAX_WORKSPACE_TABS \in Nat /\ MAX_WORKSPACE_HISTORY \in Nat
  BY NavInvGives, WorkspaceAssumption DEF NavInv
<1>1. Saves(newView, rest, act, seen, n) /\ terms' = of /\ UNCHANGED closed
  BY DEF Forgets
<1>2. TabsFit(left) /\ In(left) \subseteq In(tabs) /\ Len(left) <= Len(tabs)
  <2>1. DOMAIN tabs \ gone \in SUBSET (DOMAIN tabs)
    OBVIOUS
  <2>2. TabsFit(left) /\ In(left) = {tabs[i] : i \in DOMAIN tabs \ gone} /\ Len(left) <= Len(tabs)
    BY <1>0, <2>1, PickedTabs
  <2> HIDE DEF left
  <2> QED
    BY <2>2 DEF In
<1> HIDE DEF left
<1>3. /\ Resembles(rest, left)
      /\ \A i \in DOMAIN left : rest[i].panes = Sanitized(left[i].panes, of)
  BY <1>2, CleanTabs
<1> HIDE DEF rest
<1>4. TabsFit(rest) /\ Len(rest) = Len(left) /\ DOMAIN rest = DOMAIN left
  BY <1>3 DEF Resembles
<1>5. Len(rest) \in Nat /\ DOMAIN rest = 1..Len(rest) /\ rest \in Seq(Tab)
  BY <1>4, LenProperties DEF TabsFit
<1>6. Len(rest) <= MAX_WORKSPACE_TABS
  BY <1>0, <1>2, <1>4, <1>5
<1>7. act \in Ids(rest) \/ (act = None /\ rest = <<>>)
  <2>1. ASSUME rest # <<>> PROVE rest[1].id \in Ids(rest)
    <3>1. Len(rest) # 0
      BY <1>5, <2>1, EmptySeq
    <3>2. 1 \in DOMAIN rest
      BY <1>5, <3>1
    <3> QED
      BY <3>2, InTabs
  <2> QED
    BY <2>1
<1>8. active \in Ids(rest) => act = active
  OBVIOUS
<1>9. /\ VisitsFit(visits, Ids(rest)) /\ Len(visits) <= Len(history)
      /\ \A k \in kept : Rank(kept, k) \in DOMAIN visits /\ visits[Rank(kept, k)] = history[k]
  BY <1>0, VisitsStay
<1>10. kept \in SUBSET (1..Len(history)) /\ \A k \in DOMAIN history : history[k].tab \in Ids(rest) => k \in kept
  BY <1>0 DEF Kept
<1> HIDE DEF act, visits, kept
<1>11. /\ VisitsFit(seen, Ids(rest)) /\ Len(seen) = Len(visits) /\ DOMAIN seen = DOMAIN visits
       /\ \A k \in DOMAIN visits : seen[k].tab = visits[k].tab
  BY <1>9, CleanVisits
<1> HIDE DEF seen
<1>12. Len(seen) \in Nat /\ DOMAIN seen = 1..Len(seen) /\ Len(visits) \in Nat
  BY <1>9, <1>11, LenProperties DEF VisitsFit
<1>13. /\ n \in 0..Len(seen) /\ n \in Nat
       /\ \A k \in Nat : k <= index /\ k <= Len(seen) => k <= n
  BY <1>0, <1>12 DEF Lower
<1> HIDE DEF n
<1>14. Len(seen) <= MAX_WORKSPACE_HISTORY
  BY <1>0, <1>9, <1>11, <1>12
<1>15. /\ NavInv'
       /\ Resembles(tabs', rest) /\ active' = act /\ index' = n
       /\ \A i \in DOMAIN rest : tabs'[i].panes = IF rest[i].id = act THEN newView ELSE rest[i].panes
       /\ DOMAIN history' = DOMAIN seen
       /\ \A k \in DOMAIN seen : k # n => history'[k] = seen[k]
       /\ n > 0 => history'[n].tab = act
  <2>1. Saves(newView, rest, act, seen, n) /\ UNCHANGED closed
    BY <1>1
  <2>2. TabsFit(rest) /\ VisitsFit(seen, Ids(rest)) /\ n \in 0..Len(seen)
    BY <1>4, <1>11, <1>13
  <2> QED
    BY <1>6, <1>7, <1>14, <2>1, <2>2, SavedIsInStep
<1>16. OthersStep
  <2>1. ASSUME NEW i \in DOMAIN tabs, NEW j \in DOMAIN tabs',
               tabs[i].id = tabs'[j].id, tabs[i].id # act
        PROVE  tabs'[j].panes = Sanitized(tabs[i].panes, of)
    <3>1. j \in DOMAIN rest /\ j \in DOMAIN left /\ rest[j].id = tabs[i].id /\ left[j].id = tabs[i].id
      BY <1>3, <1>15, <2>1 DEF Resembles
    <3>2. left[j] \in In(tabs) /\ tabs[i] \in In(tabs)
      BY <1>2, <3>1, InTabs
    <3>3. left[j] = tabs[i]
      BY <1>0, <3>1, <3>2, TabsAreDistinct
    <3> QED
      BY <1>3, <1>15, <2>1, <3>1, <3>3
  <2> QED
    BY <1>1, <1>15, <2>1, SanitizedTwice DEF OthersStep
<1>17. PastStep
  <2> SUFFICES ASSUME ~shifted, NEW i \in 1..index, history[i].tab \in Ids(tabs'),
                      \A k \in DOMAIN history' : history'[k].tab # history[i].tab
               PROVE  /\ active \notin Ids(tabs')
                      /\ \A m \in (i + 1)..index : history[m].tab \notin Ids(tabs')
    BY DEF PastStep
  <2>0. Ids(tabs') = Ids(rest)
    BY <1>15 DEF Resembles
  <2>1. ASSUME NEW m \in 1..index, history[m].tab \in Ids(rest)
        PROVE  /\ m \in kept /\ m \in Nat /\ Rank(kept, m) \in Nat
               /\ Rank(kept, m) \in DOMAIN seen /\ seen[Rank(kept, m)].tab = history[m].tab
               /\ Rank(kept, m) <= n
    <3>1. m \in DOMAIN history /\ m \in Nat /\ m <= index
      BY <1>0
    <3>2. m \in kept
      BY <1>10, <2>1, <3>1
    <3>3. Rank(kept, m) \in DOMAIN seen /\ seen[Rank(kept, m)].tab = history[m].tab
      BY <1>9, <1>11, <3>2
    <3>4. Rank(kept, m) <= m
      BY <1>0, <1>10, <3>1, Ranks
    <3>5. Rank(kept, m) \in Nat /\ Rank(kept, m) <= Len(seen)
      BY <1>12, <3>3
    <3> QED
      BY <1>0, <1>13, <3>1, <3>2, <3>3, <3>4, <3>5
  <2>2. i \in kept /\ Rank(kept, i) = n /\ n > 0
    <3>1. Rank(kept, i) \in DOMAIN history' /\ Rank(kept, i) \in DOMAIN seen /\ i \in kept
      BY <1>15, <2>0, <2>1
    <3>2. Rank(kept, i) = n
      BY <1>15, <2>0, <2>1, <3>1
    <3> QED
      BY <1>12, <3>1, <3>2
  <2>3. ASSUME NEW m \in (i + 1)..index, history[m].tab \in Ids(rest) PROVE FALSE
    <3>1. m \in 1..index /\ i \in Nat /\ i < m
      BY <1>0
    <3>2. m \in kept /\ Rank(kept, m) <= n /\ Rank(kept, m) \in Nat
      BY <2>1, <2>3, <3>1
    <3>3. Rank(kept, i) < Rank(kept, m)
      BY <1>0, <1>10, <2>2, <3>1, <3>2, Ranks
    <3> QED
      BY <1>13, <2>2, <3>2, <3>3
  <2>4. active \notin Ids(rest)
    <3> SUFFICES ASSUME active \in Ids(rest) PROVE FALSE
      OBVIOUS
    <3>1. index > 0 /\ index \in 1..index /\ history[index].tab = active
      BY <1>0, NavInvGives
    <3>2. ~(i < index)
      <4>1. i < index => index \in (i + 1)..index
        BY <1>0
      <4> QED
        BY <2>3, <3>1, <4>1
    <3>3. i = index
      BY <1>0, <3>2
    <3>4. history'[n].tab = history[i].tab
      BY <1>8, <1>15, <2>2, <3>1, <3>3
    <3>5. n \in DOMAIN history'
      BY <1>12, <1>13, <1>15, <2>2
    <3> QED
      BY <3>4, <3>5
  <2> QED
    BY <2>0, <2>3, <2>4
<1> QED
  BY <1>15, <1>16, <1>17 DEF GoodStep

LEMMA DeletingATerminalIsGood ==
    ASSUME NavInv, NEW p \in live, NEW t \in terms[p], DeleteTerminal(p, t)
    PROVE  GoodStep
<1> DEFINE of == [terms EXCEPT ![p] = @ \ {t}]
           newView == [view EXCEPT ![p] = @ \ {t}]
           gone == {i \in DOMAIN tabs : tabs[i].project = p /\ tabs[i].terminal = t}
<1>1. Shape'
  BY ProjectStepsShowWhatIsThere DEF NavInv, ScreenStep
<1>2. Forgets(of, newView, gone)
  BY DEF DeleteTerminal
<1>3. terms' = of /\ view' = newView
  BY <1>2 DEF Forgets, Saves
<1>4. of \in Panes /\ newView \in View
  BY <1>1, <1>3 DEF Shape
<1>5. gone \in SUBSET (DOMAIN tabs)
  OBVIOUS
<1> HIDE DEF of, newView, gone
<1> QED
  BY <1>1, <1>2, <1>4, <1>5, ForgettingIsGood

LEMMA DeletingProjectsIsGood ==
    ASSUME NavInv, NEW gone \in (SUBSET live) \ {{}}, DeleteProjects(gone)
    PROVE  GoodStep
<1> DEFINE of == [p \in Projects |-> IF p \in gone THEN {} ELSE terms[p]]
           newView == [p \in Projects |-> IF p \in gone THEN {} ELSE view[p]]
           at == {i \in DOMAIN tabs : tabs[i].project \in gone}
<1>1. Shape'
  BY ProjectStepsShowWhatIsThere DEF NavInv, ScreenStep
<1>2. Forgets(of, newView, at)
  BY DEF DeleteProjects
<1>3. terms' = of /\ view' = newView
  BY <1>2 DEF Forgets, Saves
<1>4. of \in Panes /\ newView \in View
  BY <1>1, <1>3 DEF Shape
<1>5. at \in SUBSET (DOMAIN tabs)
  OBVIOUS
<1> HIDE DEF of, newView, at
<1> QED
  BY <1>1, <1>2, <1>4, <1>5, ForgettingIsGood

-----------------------------------------------------------------------------
(* The workspace.                                                             *)

LEMMA InitIsInStep == Init => NavInv
<1> SUFFICES ASSUME Init PROVE NavInv
  OBVIOUS
<1>1. Shape
  BY DEF Init, Shape, Panes, View, Nothing
<1>2. /\ tabs = <<>> /\ active = None /\ history = <<>> /\ index = 0
      /\ closed = <<>> /\ shifted = FALSE
  BY DEF Init
<1>3. /\ <<>> \in Seq(Tab) /\ <<>> \in Seq(Entry) /\ Len(<<>>) = 0 /\ DOMAIN <<>> = {}
  OBVIOUS
<1>4. TabsFit(<<>>) /\ VisitsFit(<<>>, Ids(<<>>))
  BY <1>3 DEF TabsFit, VisitsFit, In, Distinct
<1>5. OnScreenIsSaved /\ Current
  BY <1>2 DEF OnScreenIsSaved, Current
<1>6. 0 <= MAX_WORKSPACE_TABS /\ 0 <= MAX_WORKSPACE_HISTORY /\ 0 <= MAX_CLOSED
  BY WorkspaceAssumption
<1>7. TabsFit(tabs) /\ VisitsFit(history, Ids(tabs)) /\ index \in 0..Len(history)
  BY <1>2, <1>3, <1>4
<1>8. /\ Len(tabs) <= MAX_WORKSPACE_TABS /\ Len(history) <= MAX_WORKSPACE_HISTORY
      /\ closed \in Seq(Tab) /\ Len(closed) <= MAX_CLOSED /\ shifted \in BOOLEAN
  BY <1>2, <1>3, <1>6
<1> QED
  BY <1>1, <1>2, <1>5, <1>7, <1>8 DEF NavInv

LEMMA EveryCallIsGood == NavInv /\ Next => GoodStep
<1> SUFFICES ASSUME NavInv, Next PROVE GoodStep
  OBVIOUS
<1>1. ASSUME NEW p \in live, OpenProject(p) PROVE GoodStep
  BY <1>1, OpeningTheProjectIsGood
<1>2. ASSUME NEW p \in live, NEW t \in terms[p], OpenTerminal(p, t) PROVE GoodStep
  BY <1>2, OpeningATerminalIsGood
<1>3. ASSUME NEW i \in DOMAIN tabs, Activate(i) PROVE GoodStep
  BY <1>3, ActivatingIsGood
<1>4. ASSUME NEW i \in DOMAIN tabs, AddToActive(i) PROVE GoodStep
  BY <1>4, AddingIsGood
<1>5. ASSUME NEW i \in DOMAIN tabs, Close(i) PROVE GoodStep
  BY <1>5, ClosingIsGood
<1>6. ASSUME NEW i \in DOMAIN tabs, Pin(i) PROVE GoodStep
  BY <1>6, PinningIsGood
<1>7. ASSUME Reopen PROVE GoodStep
  BY <1>7, ReopeningIsGood
<1>8. ASSUME NEW n, GoTo(n) PROVE GoodStep
  BY <1>8, GoingBackIsGood
<1>9. ASSUME NEW p \in live, NEW panes \in Some(terms[p] \ view[p]), Show(p, panes)
      PROVE  GoodStep
  BY <1>9, ShowingIsGood
<1>10. ASSUME NEW p \in Projects, NEW panes \in Some(view[p]) \ {{}}, Hide(p, panes) PROVE GoodStep
  BY <1>10, HidingIsGood
<1>11. ASSUME Focus PROVE GoodStep
  BY <1>11, FocusingIsGood
<1>12. ASSUME NEW p \in Projects, NEW t \in Terminals, CreateTerminal(p, t) PROVE GoodStep
  BY <1>12, CreatingIsGood
<1>13. ASSUME NEW p \in live, NEW t \in terms[p], DeleteTerminal(p, t) PROVE GoodStep
  BY <1>13, DeletingATerminalIsGood
<1>14. ASSUME NEW gone \in (SUBSET live) \ {{}}, DeleteProjects(gone) PROVE GoodStep
  BY <1>14, DeletingProjectsIsGood
<1>15. ASSUME NEW p \in live, NEW q \in live \ {p}, NEW t \in terms[p], MoveTerminal(p, t, q)
       PROVE  GoodStep
  BY <1>15, MovingIsGood
<1>16. ASSUME Restart PROVE GoodStep
  BY <1>16, RestartingIsGood
<1> QED
  BY <1>1, <1>2, <1>3, <1>4, <1>5, <1>6, <1>7, <1>8, <1>9, <1>10, <1>11, <1>12, <1>13, <1>14,
     <1>15, <1>16, Zenon DEF Next, Calls

\* A step that changes nothing, the part of it the properties speak of included.
LEMMA NothingIsGood == NavInv /\ UNCHANGED vars => GoodStep
<1> SUFFICES ASSUME NavInv, UNCHANGED vars PROVE GoodStep
  OBVIOUS
<1>1. UNCHANGED <<live, terms, view, tabs, active, history, index, closed, shifted>>
  BY DEF vars
<1>2. NavInv'
  <2>1. Shape'
    BY <1>1 DEF NavInv, Shape
  <2>2. OnScreenIsSaved' /\ Current'
    BY <1>1 DEF NavInv, OnScreenIsSaved, Current, OnScreen
  <2> QED
    BY <1>1, <2>1, <2>2 DEF NavInv
<1>3. OthersStep
  <2>1. TabsFit(tabs)
    BY DEF NavInv
  <2> QED
    BY <1>1, <2>1 DEF OthersStep, TabsFit, Distinct
<1>4. PastStep
  <2>1. \A n \in 1..index : n \in DOMAIN history'
    BY <1>1, NavInvGives
  <2> QED
    BY <1>1, <2>1 DEF PastStep
<1> QED
  BY <1>2, <1>3, <1>4 DEF GoodStep

\* The saved tabs, the history and the screen stay in step, and every call keeps
\* what it has to keep.
THEOREM TheWorkspaceIsInStep == Spec => []NavInv /\ [][GoodStep]_vars
<1>1. Init => NavInv
  BY InitIsInStep
<1>2. NavInv /\ [Next]_vars => NavInv' /\ [GoodStep]_vars
  <2> SUFFICES ASSUME NavInv, [Next]_vars PROVE GoodStep
    BY DEF GoodStep
  <2> QED
    BY EveryCallIsGood, NothingIsGood
<1> QED
  BY <1>1, <1>2, PTL DEF Spec

\* The tabs, the history and the tabs closed last keep within their limits and hold
\* what they should, no tab is there twice, and the active tab is one of them.
THEOREM WorkspaceTypeCorrect == Spec => []TypeOK
<1>1. NavInv /\ late \in View => TypeOK
  <2> SUFFICES ASSUME NavInv, late \in View PROVE TypeOK
    OBVIOUS
  <2>1. live \subseteq Projects /\ terms \in [Projects -> SUBSET Terminals] /\ view \in View
    BY DEF NavInv, Shape, Panes
  <2>2. tabs \in Seq(Tab) /\ \A i, j \in DOMAIN tabs : tabs[i].id = tabs[j].id => i = j
    BY DEF NavInv, TabsFit, Distinct
  <2>3. history \in Seq(Entry)
    BY DEF NavInv, VisitsFit
  <2> QED
    BY <2>1, <2>2, <2>3 DEF NavInv, TypeOK
<1>2. Spec => []NavInv
  BY TheWorkspaceIsInStep, PTL
<1> QED
  BY <1>1, <1>2, LateOnesFit, PTL

\* What is on screen is what its tab would show again, after any sequence of calls.
THEOREM TheScreenIsSaved == Spec => []OnScreenIsSaved
<1>1. NavInv => OnScreenIsSaved
  BY DEF NavInv
<1> QED
  BY <1>1, TheWorkspaceIsInStep, PTL

\* Every visit can be gone back to, and the current one is what is on screen, but
\* after a tab was closed in the background.
THEOREM TheHistoryIsTheView == Spec => []HistoryIsTheView
<1>1. NavInv => HistoryIsTheView
  <2> SUFFICES ASSUME NavInv PROVE HistoryIsTheView
    OBVIOUS
  <2>1. \A i \in DOMAIN history : history[i].tab \in Ids(tabs)
    BY DEF NavInv, VisitsFit, In
  <2> QED
    BY <2>1 DEF NavInv, Current, HistoryIsTheView
<1> QED
  BY <1>1, TheWorkspaceIsInStep, PTL

\* No call changes what another tab than those it leaves and goes to would show.
THEOREM OtherTabsKeepTheirs == Spec => OthersKeepTheirs
<1>1. [GoodStep]_vars => [OthersStep]_vars
  BY DEF GoodStep
<1>2. Spec => [][OthersStep]_vars
  BY <1>1, TheWorkspaceIsInStep, PTL
<1> QED
  BY <1>2 DEF OthersKeepTheirs, OthersStep

\* No call forgets a visit made up to now to a tab that stays, but for those the
\* property names.
THEOREM ThePastIsKept == Spec => PastIsKept
<1>1. [GoodStep]_vars => [PastStep]_vars
  BY DEF GoodStep
<1>2. Spec => [][PastStep]_vars
  BY <1>1, TheWorkspaceIsInStep, PTL
<1> QED
  BY <1>2 DEF PastIsKept, PastStep
=============================================================================
