CONSTANTS
  light = light
  heavy = heavy
  other = other
  fourth = fourth
  Callers = {light, heavy, other, fourth}
  Weight <- Weigh
  Capacity = 2
  MaxQueued = 3
  MaxCreated = 2
SPECIFICATION FairSpec
CHECK_DEADLOCK FALSE
INVARIANTS
  CapacityShared
  NoLostGrant
PROPERTIES
  StrictFifo
  Progress
