CONSTANTS
  h1 = h1
  Handles = {h1}
  MaxManaged = 1
  Faults = {}
SPECIFICATION GuardSpec
CHECK_DEADLOCK FALSE
INVARIANTS
  ExplicitRelease
