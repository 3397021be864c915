------------------------------- MODULE Workspace -------------------------------
(* The workspace of the front end, `stores/projectsStore.ts` with its slices:  *)
(* what is on screen, the saved tabs, the history of Alt+Left and Alt+Right    *)
(* and the tabs closed last.  An action is one call of the store, which runs   *)
(* to its end; what makes it hard is that every call must keep the saved       *)
(* snapshot, the history and the screen in step.  Projects have no grids of    *)
(* their own here, and a view is which panes of which project are shown.       *)
EXTENDS Integers, Sequences, FiniteSets

CONSTANTS
    Projects, Terminals,
    TabIds,       \* what nanoid gives to tabs
    None,
    MAX_WORKSPACE_TABS, MAX_WORKSPACE_HISTORY,
    MAX_CLOSED,   \* tabs closed last that are kept: MAX_WORKSPACE_TABS in the code
    MaxPinned,    \* bound: tabs pinned at once, closed ones included
    PinProjects,  \* bound: projects there are when a tab is pinned
    Events        \* the calls an instance allows beside opening and closing tabs

ASSUME WorkspaceAssumption ==
    /\ MAX_WORKSPACE_TABS \in Nat \ {0} /\ MAX_WORKSPACE_HISTORY \in Nat \ {0}
    /\ MAX_CLOSED \in Nat \ {0} /\ MaxPinned \in Nat /\ PinProjects \in Nat
    /\ None \notin Projects \cup Terminals \cup TabIds

VARIABLES
    live,         \* the projects there are
    terms,        \* project.terminals; none for a project that is gone
    view,         \* workspace.containers: the panes on screen, by project
    tabs,         \* workspace.tabs
    active,       \* workspace.activeTabId
    history,      \* workspace.history
    index,        \* workspace.historyIndex, counted from one; 0 for -1
    closed,       \* workspace.closedTabs, the last one first
    shifted,      \* history: a tab closed in the background moved the index
    late          \* history: panes on screen that were created for a project already gone

vars == <<live, terms, view, tabs, active, history, index, closed, shifted, late>>

View == [Projects -> SUBSET Terminals]
\* What a tab was opened for; a composition was opened for nothing in particular.
Tab == [id : TabIds, project : Projects \cup {None}, terminal : Terminals \cup {None},
        panes : View, pinned : BOOLEAN]
Entry == [tab : TabIds, panes : View]

May(e) == e \in Events
Ids(s) == {s[i].id : i \in DOMAIN s}

TypeOK ==
    /\ live \subseteq Projects /\ terms \in [Projects -> SUBSET Terminals] /\ view \in View
    /\ tabs \in Seq(Tab) /\ Len(tabs) <= MAX_WORKSPACE_TABS
    /\ active \in Ids(tabs) \cup {None}
    /\ history \in Seq(Entry) /\ Len(history) <= MAX_WORKSPACE_HISTORY
    /\ index \in 0..Len(history)
    /\ closed \in Seq(Tab) /\ Len(closed) <= MAX_CLOSED
    /\ shifted \in BOOLEAN /\ late \in View
    /\ \A i, j \in DOMAIN tabs : tabs[i].id = tabs[j].id => i = j

Nothing == [p \in Projects |-> {}]

\* A file with projects and nothing open.
Init ==
    /\ live = Projects
    /\ terms \in [Projects -> SUBSET Terminals]
    /\ \A p, q \in Projects : p # q => terms[p] \cap terms[q] = {}
    /\ view = Nothing
    /\ tabs = <<>> /\ active = None
    /\ history = <<>> /\ index = 0
    /\ closed = <<>> /\ shifted = FALSE /\ late = Nothing
------------------------------------------------------------------------------
(* What the calls are made of. *)

\* Mutant: a snapshot is shown as it was saved.
AsSaved(panes, of) == panes

\* sanitizeWorkspaceSnapshot: the panes of it that are still there.
Sanitized(panes, of) == [p \in Projects |-> panes[p] \cap of[p]]

\* Array.filter: what `s` has at the places `at`, in its order.
Rank(at, i) == Cardinality({j \in at : j <= i})
Picked(s, at) ==
    IF at = DOMAIN s THEN s
    ELSE [k \in 1..Cardinality(at) |-> s[CHOOSE i \in at : Rank(at, i) = k]]

Without(s, id) == Picked(s, {i \in DOMAIN s : s[i].id # id})
Kept(h, ids) == {i \in DOMAIN h : h[i].tab \in ids}
Visits(h, ids) == Picked(h, Kept(h, ids))
Clean(s, of) == [i \in DOMAIN s |-> [s[i] EXCEPT !.panes = Sanitized(@, of)]]
FirstOf(s, n) == IF Len(s) > n THEN SubSeq(s, 1, n) ELSE s
LastOf(s, n) == IF Len(s) > n THEN SubSeq(s, Len(s) - n + 1, Len(s)) ELSE s
Lower(a, b) == IF a < b THEN a ELSE b

\* Mutants: the tabs are left out of what update returns; the first tab is taken
\* for the active one.
NotInTab(s, act, panes) == s
InFirstTab(s, act, panes) == [i \in DOMAIN s |-> IF i = 1 THEN [s[i] EXCEPT !.panes = panes] ELSE s[i]]

InTab(s, act, panes) ==
    [i \in DOMAIN s |-> IF s[i].id = act THEN [s[i] EXCEPT !.panes = panes] ELSE s[i]]
Composition(s, act) ==
    [i \in DOMAIN s |-> IF s[i].id = act THEN [s[i] EXCEPT !.project = None, !.terminal = None]
                         ELSE s[i]]

\* Mutant: the history keeps what the tab showed when it was opened.
NotInHistory(h, n, act, panes) == h

\* replaceCurrentHistorySnapshot
InHistory(h, n, act, panes) == IF n > 0 THEN [h EXCEPT ![n] = [tab |-> act, panes |-> panes]] ELSE h

\* update, whose end saves the screen in the active tab, which is a composition
\* from then on, and in the current entry of the history.
Saves(newView, s, act, h, n) ==
    /\ view' = newView
    /\ active' = act
    /\ tabs' = InTab(Composition(s, act), act, newView)
    /\ history' = IF act \in Ids(s) THEN InHistory(h, n, act, newView) ELSE h
    /\ index' = n /\ shifted' = FALSE

\* The same for calls that only change what is on screen.
Shows(newView) ==
    /\ Saves(newView, tabs, active, history, index)
    /\ UNCHANGED <<live, terms, closed>>

\* Where the current entry is once the visits of a tab that went are taken out.
IndexAfter(h, n, ids) ==
    IF n = 0 THEN Len(Visits(h, ids))
    ELSE IF n \in Kept(h, ids) THEN Rank(Kept(h, ids), n) ELSE 0

\* Mutant: one tab too many is kept.
OneOver(s) == Len(s) > MAX_WORKSPACE_TABS + 1

TooMany(s) == Len(s) > MAX_WORKSPACE_TABS

\* Mutant: what is on screen now is cut off with what is ahead of it.
PushedOver(h, n, entry) == LastOf(Append(SubSeq(h, 1, n - 1), entry), MAX_WORKSPACE_HISTORY)

\* pushWorkspaceHistory: what is ahead of the current entry is forgotten.
Pushed(h, n, entry) == LastOf(Append(SubSeq(h, 1, n), entry), MAX_WORKSPACE_HISTORY)

\* applyTabNavigation: a tab is shown, added at the end if asked, which may push
\* another one out (the first that is not pinned, if any), and visited.  `s`, `h`
\* and `n` are the tabs, the history and the index it starts from.
Navigates(tab, add, s, h, n) ==
    LET all == IF add THEN Append(Without(s, tab.id), tab) ELSE s
        others(pinnedToo) == {i \in DOMAIN all : all[i].id # tab.id /\ (pinnedToo \/ ~all[i].pinned)}
        choice == IF others(FALSE) # {} THEN others(FALSE) ELSE others(TRUE)
        out == all[CHOOSE i \in choice : \A j \in choice : i <= j].id
        full == TooMany(all)
        kept == IF full THEN Ids(all) \ {out} ELSE Ids(all)
        seen == IF full THEN Visits(h, kept) ELSE h
        at == IF full THEN IndexAfter(h, n, kept) ELSE n
        shown == Sanitized(tab.panes, terms)
    IN /\ view' = shown
       /\ active' = tab.id
       /\ tabs' = IF full THEN Without(all, out) ELSE all
       /\ history' = Pushed(seen, at, [tab |-> tab.id, panes |-> shown])
       /\ index' = Len(history') /\ shifted' = FALSE

\* nanoid: never one that was used for something that is still around.
FreshTab(id) ==
    /\ id \notin Ids(tabs) \cup Ids(closed)
    /\ \A i \in DOMAIN history : history[i].tab # id
FreshTerminal(t) ==
    /\ \A p \in Projects : t \notin terms[p] \cup view[p]
    /\ \A s \in {tabs, closed} : \A i \in DOMAIN s :
          t # s[i].terminal /\ \A p \in Projects : t \notin s[i].panes[p]
    /\ \A i \in DOMAIN history : \A p \in Projects : t \notin history[i].panes[p]
------------------------------------------------------------------------------
(* Opening and closing tabs. *)

Only(p, panes) == [Nothing EXCEPT ![p] = panes]
Keep(s) == closed' = s /\ UNCHANGED <<live, terms>>

\* The first tab opened for a project, or for one of its terminals; 0 for none.
TabFor(p, t) ==
    LET found == {i \in DOMAIN tabs : tabs[i].project = p /\ tabs[i].terminal = t}
    IN IF found = {} THEN 0 ELSE CHOOSE i \in found : \A j \in found : i <= j

NewTab(p, t, panes) ==
    \E id \in TabIds :
        /\ FreshTab(id)
        /\ Navigates([id |-> id, project |-> p, terminal |-> t, panes |-> Only(p, panes),
                      pinned |-> FALSE], TRUE, tabs, history, index)

\* openProjectGrid on the only grid: all of its panes, in the tab of the project.
OpenProject(p) ==
    LET i == TabFor(p, None) IN
    /\ IF i = 0 THEN NewTab(p, None, terms[p])
       ELSE Navigates([tabs[i] EXCEPT !.panes = Only(p, terms[p])], TRUE, tabs, history, index)
    /\ Keep(closed)

\* openTerminalWorkspace
OpenTerminal(p, t) ==
    LET i == TabFor(p, t) IN
    /\ IF i = 0 THEN NewTab(p, t, {t}) ELSE Navigates(tabs[i], FALSE, tabs, history, index)
    /\ Keep(closed)

\* activateWorkspaceTab
Activate(i) ==
    /\ Navigates(tabs[i], FALSE, tabs, history, index)
    /\ Keep(closed)

\* addWorkspaceTabToCurrent, when a tab is active: appendSnapshotToActive.
\* addProjectToWorkspace and addTerminalToWorkspace do what Show does then, and
\* what OpenProject and OpenTerminal do when none is.
AddToActive(i) ==
    /\ active \notin {None, tabs[i].id}
    /\ Shows([p \in Projects |-> view[p] \cup Sanitized(tabs[i].panes, terms)[p]])

\* toggleWorkspaceTabPinned: the pinned ones come first.
Pin(i) ==
    LET toggled == [tabs EXCEPT ![i].pinned = ~@]
        pinned(s) == {j \in DOMAIN s : s[j].pinned}
    IN /\ \/ tabs[i].pinned
          \/ /\ Cardinality(pinned(tabs)) + Cardinality(pinned(closed)) < MaxPinned
             /\ Cardinality(live) <= PinProjects
       /\ tabs' = Picked(toggled, pinned(toggled))
                  \o Picked(toggled, DOMAIN toggled \ pinned(toggled))
       /\ UNCHANGED <<live, terms, view, active, history, index, closed, shifted>>

\* closeSavedWorkspaceTab: the tab that takes the place of the active one is
\* shown; the index of the history is only kept in bounds.
Close(i) ==
    LET rest == Without(tabs, tabs[i].id)
        seen == Visits(history, Ids(rest))
    IN /\ closed' = FirstOf(<<tabs[i]>> \o Without(closed, tabs[i].id), MAX_CLOSED)
       /\ IF active # tabs[i].id
          THEN /\ tabs' = rest /\ history' = seen /\ index' = Lower(index, Len(seen))
               /\ shifted' = (shifted \/ \E n \in 1..index : history[n].tab = tabs[i].id)
               /\ UNCHANGED <<view, active>>
          ELSE /\ IF rest = <<>>
                  THEN view' = Nothing /\ tabs' = <<>> /\ active' = None
                       /\ history' = <<>> /\ index' = 0 /\ shifted' = FALSE
                  ELSE Navigates(rest[Lower(i, Len(rest))], FALSE, rest, seen, Len(seen))
       /\ UNCHANGED <<live, terms>>

\* reopenClosedWorkspaceTab
Reopen ==
    /\ closed # <<>>
    /\ Navigates([closed[1] EXCEPT !.panes = Sanitized(@, terms)], TRUE, tabs, history, index)
    /\ Keep(Tail(closed))

\* navigateWorkspaceHistory: what was on screen then, in the tab it was in.
GoTo(n) ==
    LET entry == history[n]
        shown == Sanitized(entry.panes, terms)
    IN /\ n \in DOMAIN history /\ entry.tab \in Ids(tabs)
       /\ view' = shown /\ active' = entry.tab /\ index' = n
       /\ tabs' = InTab(tabs, entry.tab, shown)
       /\ shifted' = FALSE
       /\ UNCHANGED <<live, terms, history, closed>>
------------------------------------------------------------------------------
(* Panes, projects and terminals. *)

\* None, one or all of some panes.
Some(panes) == {{}, panes} \cup {{t} : t \in panes}

\* openPane and openContainerWithAllPanes; setActiveProject shows a project that
\* is not on screen, and saves what is on screen in any case.
Show(p, panes) ==
    /\ Shows([view EXCEPT ![p] = @ \cup panes])

\* closePane, minimizePane and killTerminal; closeContainer and setProjectDisabled.
Hide(p, panes) ==
    /\ Shows([view EXCEPT ![p] = @ \ panes])

\* focusWorkspaceTerminal on a pane that is shown.
Focus ==
    /\ active # None /\ view # Nothing
    /\ tabs' = InTab(tabs, active, view)
    /\ history' = InHistory(history, index, active, view)
    /\ shifted' = FALSE
    /\ UNCHANGED <<live, terms, view, active, index, closed>>

\* createTerminal: the new pane is shown.  createAgentTerminal awaits a worktree
\* before it calls this, and by then the project may be gone: there is no project
\* to give the terminal to, and its pane is shown all the same.
CreateTerminal(p, t) ==
    /\ FreshTerminal(t)
    /\ terms' = [terms EXCEPT ![p] = IF p \in live THEN @ \cup {t} ELSE @]
    /\ Saves([view EXCEPT ![p] = @ \cup {t}], tabs, active, history, index)
    /\ late' = [late EXCEPT ![p] = IF p \in live THEN @ ELSE @ \cup {t}]
    /\ UNCHANGED <<live, closed>>

\* What deleteTerminal, deleteProject and deleteGroup have in common: the tabs
\* opened for what went go too, the first tab takes the place of the active one,
\* and update saves what is left on screen in it.
Forgets(of, newView, gone) ==
    LET rest == Clean(Picked(tabs, DOMAIN tabs \ gone), of)
        seen == Clean(Visits(history, Ids(rest)), of)
    IN /\ Saves(newView, rest,
                IF active \in Ids(rest) THEN active ELSE IF rest = <<>> THEN None ELSE rest[1].id,
                seen, Lower(index, Len(seen)))
       /\ terms' = of
       /\ UNCHANGED closed

DeleteTerminal(p, t) ==
    /\ Forgets([terms EXCEPT ![p] = @ \ {t}], [view EXCEPT ![p] = @ \ {t}],
               {i \in DOMAIN tabs : tabs[i].project = p /\ tabs[i].terminal = t})
    /\ UNCHANGED live

DeleteProjects(gone) ==
    /\ Forgets([p \in Projects |-> IF p \in gone THEN {} ELSE terms[p]],
               [p \in Projects |-> IF p \in gone THEN {} ELSE view[p]],
               {i \in DOMAIN tabs : tabs[i].project \in gone})
    /\ live' = live \ gone

\* moveTerminal: the saved tabs and the history keep it where it was.
MoveTerminal(p, t, q) ==
    /\ terms' = [terms EXCEPT ![p] = @ \ {t}, ![q] = @ \cup {t}]
    /\ Saves([view EXCEPT ![p] = @ \ {t}], tabs, active, history, index)
    /\ UNCHANGED <<live, closed>>

\* The app starts again from its file: migrateWorkspaceNavigation.
Restart ==
    /\ tabs' = Clean(tabs, terms) /\ history' = Clean(history, terms)
    /\ closed' = Clean(closed, terms)
    /\ view' = Sanitized(view, terms)
    /\ active' = IF active = None /\ tabs # <<>> THEN tabs[1].id ELSE active
    /\ UNCHANGED <<live, terms, index, shifted>>

\* Every other call.
Calls ==
    \/ \E p \in live : OpenProject(p) \/ \E t \in terms[p] : OpenTerminal(p, t)
    \/ \E i \in DOMAIN tabs : Activate(i) \/ AddToActive(i) \/ Close(i)
    \/ \E i \in DOMAIN tabs : May("pin") /\ Pin(i)
    \/ Reopen \/ GoTo(index - 1) \/ GoTo(index + 1)
    \/ May("panes") /\ \E p \in live : \E panes \in Some(terms[p] \ view[p]) : Show(p, panes)
    \/ May("panes") /\ \E p \in Projects : \E panes \in Some(view[p]) \ {{}} : Hide(p, panes)
    \/ May("focus") /\ Focus
    \/ May("delete") /\ \E p \in live : \E t \in terms[p] : DeleteTerminal(p, t)
    \/ May("delete") /\ \E gone \in (SUBSET live) \ {{}} : DeleteProjects(gone)
    \/ May("move") /\ \E p \in live : \E q \in live \ {p}, t \in terms[p] : MoveTerminal(p, t, q)
    \/ May("restart") /\ Restart

Next ==
    \/ Calls /\ late' = [p \in Projects |-> late[p] \cap view'[p]]
    \/ May("create") /\ \E p \in Projects, t \in Terminals : CreateTerminal(p, t)

Spec == Init /\ [][Next]_vars
------------------------------------------------------------------------------
(* Properties. *)

\* Only panes of terminals their project has are on screen, whatever was deleted
\* or moved since the snapshot they come from was taken, but for panes created for
\* a project after it went.  Once such a pane is off the screen it does not return.
ShownPanesExist == \A p \in Projects : view[p] \subseteq terms[p] \cup late[p]

\* What is on screen, but for panes of projects that are gone.
OnScreen == Sanitized(view, terms)

\* What is on screen is what its tab would show again: leaving a tab and coming
\* back, or a restart, loses nothing of the arrangement.
OnScreenIsSaved ==
    active # None => \A i \in DOMAIN tabs :
        tabs[i].id = active => Sanitized(tabs[i].panes, terms) = OnScreen

\* Every visit can be gone back to, as its tab is still there; and the current one
\* is what is on screen, so that going back and forward again returns to it.
\* `shifted` is a departure: see Close.
HistoryIsTheView ==
    /\ \A i \in DOMAIN history : history[i].tab \in Ids(tabs)
    /\ active # None /\ index > 0 /\ ~shifted =>
        /\ history[index].tab = active
        /\ Sanitized(history[index].panes, terms) = OnScreen

\* A call changes the tab it leaves or the tab it goes to; every other tab keeps
\* its arrangement, but for what is gone.
OthersKeepTheirs ==
    [][\A i \in DOMAIN tabs, j \in DOMAIN tabs' :
         tabs[i].id = tabs'[j].id /\ tabs[i].id \notin {active, active'} =>
             Sanitized(tabs'[j].panes, terms') = Sanitized(tabs[i].panes, terms')]_vars

\* A call forgets no visit made up to now to a tab that stays, but the oldest one
\* when the history is full, and the last one that is left when the active tab goes
\* with its project or terminal, as update then writes the tab that takes its place
\* over it.  When the tab that is pushed out by a new one is the active one, the
\* whole history is forgotten: see IndexAfter.
PastIsKept ==
    [][~shifted => \A n \in 1..index :
         /\ history[n].tab \in Ids(tabs')
         /\ n > 1 \/ Len(history) < MAX_WORKSPACE_HISTORY
         /\ active \in Ids(tabs') \/ active' \in Ids(tabs)
         => \/ \E k \in DOMAIN history' : history'[k].tab = history[n].tab
            \/ /\ active \notin Ids(tabs')
               /\ \A m \in (n + 1)..index : history[m].tab \notin Ids(tabs')]_vars
==============================================================================
