SPECIFICATION Spec
CONSTANTS
  User = {u1}
  Url = {a, b}
  Home = a
  Browser = {b1}
  Caller = {c1}
  MaxFlows = 2
  MaxTokens = 3
  MaxEdits = 1
  MaxFaults = 1
  SameTick = TRUE
INVARIANT NoResurrection
CHECK_DEADLOCK FALSE
