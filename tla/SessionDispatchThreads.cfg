SPECIFICATION Spec
CONSTANTS
  NumSessions = 2
  MaxRuns = 2
  Disp = {d1, d2}
  Kind = {"agentNew", "agentCont", "reset"}
  Outcome = {"done"}
  MaxCrashes = 1
  MaxLog = 0
  EarlyTraffic = FALSE
  SlowStop = FALSE
SYMMETRY DispSymmetry
PROPERTY EvictionSparesDispatch
CHECK_DEADLOCK FALSE
