SPECIFICATION FairSpec
CONSTANTS
    MaxRuns = 2
    MaxBusy = 2
    Bounds <- SilentBounds
    None = None
PROPERTY EveryEndIsShown
CHECK_DEADLOCK FALSE
