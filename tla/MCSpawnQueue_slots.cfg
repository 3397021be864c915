SPECIFICATION FairSpec
CONSTANTS
    Panes = {p1, p2, p3}
    Resets = {r1}
    FirstLimit = 3
    Sizes <- MCSizes
INVARIANTS
    TypeOK
    SlotsAreHeld
    NoIdleSlot
    LineIsExact
PROPERTIES
    PoolIsKept
    WaitersAreServed
