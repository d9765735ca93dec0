CONSTANTS
  o1 = o1
  o2 = o2
  Owners = {o1, o2}
  NoOwner = NoOwner
  Backend = "postgres"
  TTL = 4
  SafetyMargin = 2
  Grain = 3
  Drift = 1
  MaxToken = 2
  MaxTime = 3
SYMMETRY Symmetry
SPECIFICATION Spec
CHECK_DEADLOCK FALSE
INVARIANTS
  MutualExclusion
PROPERTIES
  NoRevival
  FencedPromise
