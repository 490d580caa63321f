SPECIFICATION FairSpec
CONSTANTS
    MaxRuns = 3
    MaxBusy = 2
    Bounds <- MCBounds
    None = None
INVARIANTS TranscriptFaithful NoMessageLost SentInOrder
PROPERTIES EndsAreShown QueueDrains
CHECK_DEADLOCK FALSE
