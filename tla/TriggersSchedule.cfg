SPECIFICATION FairSpec
CONSTANTS
    p1 = p1  p2 = p2  r1 = r1  r2 = r2  w1 = w1  w2 = w2  m1 = m1  k1 = k1  k2 = k2
    Proc = {p1, p2}
    Req = {}
    Ed = {"e1"}
    Wf = {w1, w2}
    StartType <- ScheduleAndHook
    Skip = {w1}
    Types = {"webhook"}
    Sources = {}
    Key = {}
    Msg = {}
    Mention = {}
    Cap = 2
    Pool = 1
    MaxIdem = 1
    MaxSeen = 1
    Windows = {1, 2, 3}
    MaxNow = 3
    MaxRuns = 2
    MaxEdits = 1
    MaxFaults = 1
INVARIANT CursorAhead
PROPERTY DueIsClaimed
CHECK_DEADLOCK FALSE
