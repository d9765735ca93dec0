CONSTANTS
  h1 = h1
  h2 = h2
  Handles = {h1, h2}
  MaxManaged = 1
  Faults = {"deadline", "stale", "unavailable", "cancel"}
SPECIFICATION GuardFairSpec
CHECK_DEADLOCK FALSE
INVARIANTS
  NothingLeftBehind
  LossReported
  SuccessMeansReleased
PROPERTIES
  LossCancelsCallback
  RunReturns
