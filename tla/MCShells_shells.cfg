SPECIFICATION FairSpec
CONSTANTS
    Threads = {t1, t2}
    Commands = {c1}
    NoCommand = none
    MaxShells = 1
    MaxRuns = 2
    Events = {"stop", "restart", "remove", "spawnError", "stopError", "slowExit"}
\* Nobody needs to call, and processes need not end.
CHECK_DEADLOCK FALSE
INVARIANTS
    TypeOK
    LiveIsInReach
    StoppedIsDown

    
