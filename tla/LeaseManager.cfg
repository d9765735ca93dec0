CONSTANTS
  h1 = h1
  h2 = h2
  c1 = c1
  Handles = {h1, h2}
  Closers = {c1}
  MaxHandles = 2
  MaxManaged = 1
  Faults = {"deadline", "unavailable", "cancel"}
SPECIFICATION ManagerFairSpec
CHECK_DEADLOCK FALSE
INVARIANTS
  ActiveExact
  ShutdownHonest
PROPERTIES
  ClosedTakesNone
  ShutdownStopsRenewal
