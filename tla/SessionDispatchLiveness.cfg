SPECIFICATION FairSpec
CONSTANTS
  NumSessions = 1
  MaxRuns = 2
  Disp = {d1}
  Kind = {"chat", "message"}
  Outcome = {"done", "session.completed"}
  MaxCrashes = 1
  MaxLog = 4
  EarlyTraffic = FALSE
  SlowStop = FALSE
PROPERTIES RunsSettle ObligationsSettle
CHECK_DEADLOCK FALSE
