SPECIFICATION Spec
CONSTANTS
    MaxRuns = 3
    MaxBusy = 2
    Bounds <- BusySlotBounds
    None = None
INVARIANTS TranscriptFaithful NoMessageLost SentInOrder
CHECK_DEADLOCK FALSE
