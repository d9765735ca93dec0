CONSTANTS
  a = a
  b = b
  c = c
  d = d
  w = w
  Clients = {a, b, c, d}
  Drainers = {w}
  Capacity = 2
  MaxWaiters = 2
  Weights = {1, 2}
SPECIFICATION FairSpec
CHECK_DEADLOCK FALSE
INVARIANTS
  WeightConserved
PROPERTIES
  NoBypass
  DrainedMeansIdle
  NoStarvation
