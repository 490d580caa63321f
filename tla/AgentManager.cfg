SPECIFICATION FairSpec
CONSTANTS
  Hash = {h1, h2}
  MaxPort = 3
  Req = {r1}
  MaxAgents = 1
  MaxProcs = 2
  Stuck = {1}
  ForeignPorts = {2}
INVARIANTS TypeOK PortsConserved AgentOwnsItsPort CapRespected StopAllCovers
PROPERTY DrainCompletes
CHECK_DEADLOCK FALSE
