SPECIFICATION FairSpec
CONSTANTS
    Jobs = {j1, j2}
    Procs = {p1, p2}
    Callers = {c1}
    NoJob = NoJob
    NoProc = NoProc
    FirstLimit = 1
    Limits = {1}
    ParkedLimit = 1
    MaxInbox = 1
    MaxSends = 0
    Events = {"cancel", "die", "launchError", "budget"}
\* Planners may stop calling, and workers need not end a turn.
CHECK_DEADLOCK FALSE
INVARIANTS
    AnnouncedOnce
PROPERTIES
    QueuedIsServed
    SlotsAreGivenBack
