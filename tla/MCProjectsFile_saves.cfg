SPECIFICATION FairSpec
CONSTANTS
    Profiles = {a, b}
    First = a
    Events = {"flush", "overtake", "switch", "close", "fail", "load", "crash", "quit"}
    MaxEdits = 3
    MaxFaults = 2
INVARIANTS
    UnsavedIsComing
PROPERTIES
    NothingSavedIsLost
    QuitKeepsEdits
    EditsAreSaved
