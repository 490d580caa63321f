SPECIFICATION Spec
CONSTANTS
  Hash = {h1}
  MaxPort = 2
  Req = {r1, r2}
  MaxAgents = 1
  MaxProcs = 2
  Stuck = {}
  ForeignPorts = {}
INVARIANTS DrainLeavesNoAgent
CHECK_DEADLOCK FALSE
