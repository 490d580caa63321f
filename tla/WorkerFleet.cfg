SPECIFICATION Spec
CONSTANTS
  Worker = {w1, w2}
  Session = {s1}
  h1 = h1
  Hash = {h1}
  HashOf <- SameHash
  MaxAgents = 1
  MaxRuns = 1
  MaxFaults = 2
INVARIANTS FencedBeforeLive NobodyForgotten
PROPERTY DrainSticks
SYMMETRY WorkerSymmetry
CHECK_DEADLOCK FALSE
