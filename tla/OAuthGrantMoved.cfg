SPECIFICATION Spec
CONSTANTS
  User = {u1}
  Url = {a, b}
  Home = a
  Browser = {b1}
  Caller = {c1}
  MaxFlows = 1
  MaxTokens = 1
  MaxEdits = 1
  MaxFaults = 0
  SameTick = FALSE
INVARIANT TokensMatchUrl
CHECK_DEADLOCK FALSE
