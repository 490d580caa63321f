SPECIFICATION Spec
CONSTANTS
  NumSessions = 1
  MaxRuns = 2
  Disp = {d1}
  Kind = {"chat", "message"}
  Outcome = {"done"}
  MaxCrashes = 0
  MaxLog = 4
  EarlyTraffic = FALSE
  SlowStop = TRUE
INVARIANT StoppedTurnIsOwed
CHECK_DEADLOCK FALSE
