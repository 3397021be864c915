SPECIFICATION FairSpec
CONSTANTS
    a = a
    b = b
    Tasks = {a, b}
    NoTask = NoTask
    NoPlan = NoPlan
    Plans <- MCPlans
    FirstPlan <- MCFirst
    MaxRetries = 1
    MaxEdits = 1
    MaxCrashes = 1
INVARIANTS
    RunningIsWatched
    OneAgentEach
PROPERTIES
    EndsAreKept
    RunningEnds
