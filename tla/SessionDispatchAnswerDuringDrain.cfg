SPECIFICATION FairSpec
CONSTANTS
  NumSessions = 1
  MaxRuns = 1
  Disp = {d1}
  Kind = {"chat", "resume"}
  Outcome = {"parked"}
  MaxCrashes = 0
  MaxLog = 2
  EarlyTraffic = FALSE
  SlowStop = FALSE
PROPERTY RunsSettle
CHECK_DEADLOCK FALSE
