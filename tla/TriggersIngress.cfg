SPECIFICATION Spec
CONSTANTS
    p1 = p1  p2 = p2  r1 = r1  r2 = r2  w1 = w1  w2 = w2  m1 = m1  k1 = k1  k2 = k2
    Proc = {p1}
    Req = {r1, r2}
    Ed = {}
    Wf = {w1, w2}
    StartType <- HookAndSlack
    Skip = {w1}
    Types = {}
    Sources = {"webhook", "slack", "manual"}
    Key = {k1, k2}
    Msg = {m1}
    Mention = {m1}
    Cap = 2
    Pool = 3
    MaxIdem = 1
    MaxSeen = 2
    Windows = {}
    MaxNow = 0
    MaxRuns = 3
    MaxEdits = 0
    MaxFaults = 1
INVARIANTS LimitsHold LocksMatchRuns RedeliveryStartsNothing
SYMMETRY RequestSymmetry
CHECK_DEADLOCK FALSE
