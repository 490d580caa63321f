SPECIFICATION Spec
CONSTANTS
    Proc = {p1, p2}
    Plans <- MCPlans
    MaxLen = 5
    Value = {0, 1}
    Items <- MCItems
    MaxItems = 2
    MaxAttempts = 2
    MaxExecuted = 2
    MaxFaults = 0
    MaxStops = 0
    MaxMoves = 0
    Shutdowns = TRUE
    None = None
INVARIANT NeverRunTwice
CHECK_DEADLOCK FALSE
