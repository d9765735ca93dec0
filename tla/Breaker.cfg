\* A success ratio over the whole sample, callers that wait, cancellation, late
\* completion and operators.  Liveness, so no symmetry.
CONSTANTS
  Callers = {c1, c2}
  Permits = {p1, p2}
  WindowSize = 2
  MinimumThroughput = 2
  ConsecutiveFailures = 0
  FailureCount = 2
  OpenWhenAll = FALSE
  ResetOnIgnored = FALSE
  MaxProbes = 2
  RequiredSuccesses = 0
  SuccessPercent = 50
  ReopenImmediately = FALSE
  WaitForProbe = TRUE
  Outcomes = {"success", "failure", "ignored"}
  Uses = {"cancel", "late", "admin", "reset"}
SPECIFICATION FairSpec
INVARIANTS ProbesExact SampleSound ClosedIsHealthy NoLostWakeup
PROPERTIES StaleHarmless RecoveryDecided
CHECK_DEADLOCK FALSE
