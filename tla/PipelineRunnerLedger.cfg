SPECIFICATION Spec
CONSTANTS
    Proc = {p1, p2}
    Plans <- MCPlans
    MaxLen = 5
    Value = {0, 1}
    Items <- MCItems
    MaxItems = 2
    MaxAttempts = 2
    MaxExecuted = 2
    MaxFaults = 1
    MaxStops = 1
    MaxMoves = 1
    Shutdowns = TRUE
    None = None
INVARIANTS
    OneDriver
    AtMostOnce
    SameInput
    TimelineComplete
    StopReachesChildren
PROPERTY ImplementsLedger
SYMMETRY Symmetry
CHECK_DEADLOCK FALSE
