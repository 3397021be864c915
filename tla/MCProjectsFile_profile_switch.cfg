SPECIFICATION Spec
CONSTANTS
    Profiles = {a, b}
    First = a
    Events = {"switch"}
    MaxEdits = 2
    MaxFaults = 0
INVARIANTS
    SavesStayInTheirProfile
