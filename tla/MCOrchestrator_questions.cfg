SPECIFICATION Spec
CONSTANTS
    Jobs = {j1, j2}
    Procs = {p1, p2}
    Callers = {c1, c2}
    NoJob = NoJob
    NoProc = NoProc
    FirstLimit = 1
    Limits = {1, 2}
    ParkedLimit = 1
    MaxInbox = 1
    MaxSends = 0
    Events = {"ask", "answer", "die", "launchError", "refuse", "check", "lose", "settings"}
SYMMETRY Symmetric
\* Planners may stop calling, and workers need not end a turn.
CHECK_DEADLOCK FALSE
INVARIANTS
    ParkedIsBounded
PROPERTIES
    NoticesAreSeen
