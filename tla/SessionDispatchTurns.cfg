SPECIFICATION Spec
CONSTANTS
  NumSessions = 1
  MaxRuns = 2
  Disp = {d1, d2}
  Kind = {"chat", "message", "resume", "agentCont", "reset"}
  Outcome = {"done", "parked", "turn.failed", "cancelled", "session.completed", "session.failed"}
  MaxCrashes = 1
  MaxLog = 5
  EarlyTraffic = FALSE
  SlowStop = FALSE
INVARIANTS ResetStaysQuiet OneEveSessionPerRow OneLiveRun StoppedTurnIsOwed PersistLands TailMeetsItsEnd
SYMMETRY DispSymmetry
CHECK_DEADLOCK FALSE
