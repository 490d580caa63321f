SPECIFICATION Spec
CONSTANTS
    Proc = {p1, p2}
    Plans <- AgentPlans
    MaxLen = 4
    Value = {0, 1}
    Items <- MCItems
    MaxItems = 2
    MaxAttempts = 2
    MaxExecuted = 2
    MaxFaults = 1
    MaxStops = 0
    MaxMoves = 0
    Shutdowns = TRUE
    None = None
INVARIANT DeployCancelsNothing
CHECK_DEADLOCK FALSE
