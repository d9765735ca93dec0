CONSTANTS
  o1 = o1
  o2 = o2
  Owners = {o1, o2}
  NoOwner = NoOwner
  Backend = "valkey"
  TTL = 3
  SafetyMargin = 0
  Grain = 2
  Drift = 0
  MaxToken = 2
  MaxTime = 4
SYMMETRY Symmetry
SPECIFICATION Spec
CHECK_DEADLOCK FALSE
INVARIANTS
  MutualExclusion
