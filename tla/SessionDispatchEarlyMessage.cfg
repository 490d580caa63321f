SPECIFICATION Spec
CONSTANTS
  NumSessions = 1
  MaxRuns = 2
  Disp = {d1}
  Kind = {"chat", "message"}
  Outcome = {"done"}
  MaxCrashes = 1
  MaxLog = 4
  EarlyTraffic = TRUE
  SlowStop = FALSE
INVARIANT OneEveSessionPerRow
CHECK_DEADLOCK FALSE
