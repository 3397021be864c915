SPECIFICATION FairSpec
CONSTANTS
    Machines = {a, b}
    Keys = {k1}
    Faulty = {a}
    Absent = Absent
    NoBase = NoBase
    Scopes = {"settings", "tooling", "projects"}
    Events = {"remove", "keep", "adopt", "add", "forget", "fail", "crash", "lose"}
    MaxEdits <- MCEdits
    MaxFaults = 1
INVARIANTS
    BaseIsWhatWasThere
    OverridesStayHome
PROPERTIES
    NothingComesBack
    NothingIsDeleted
    Converges
