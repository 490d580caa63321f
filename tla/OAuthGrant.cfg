SPECIFICATION Spec
CONSTANTS
  User = {u1, u2}
  Url = {a, b}
  Home = a
  Browser = {b1, b2}
  Caller = {c1, c2}
  MaxFlows = 2
  MaxTokens = 3
  MaxEdits = 1
  MaxFaults = 1
  SameTick = FALSE
INVARIANTS PairedEndpoints NoResurrection UsedOnce
PROPERTY GrantKept
SYMMETRY Symmetry
CHECK_DEADLOCK FALSE
