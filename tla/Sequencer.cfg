CONSTANTS
  pay = pay
  refund = refund
  Ops = {pay, refund}
  NoOp = NoOp
  Forward <- Undoes
  DependsOn <- Requires
  Replayable = {refund}
  Results = {"succeeded", "retryable"}
  f1 = f1
  f2 = f2
  Fleets = {f1, f2}
  NoFleet = NoFleet
  MaxConcurrency = 2
  MaxAttempts = 2
  MaxExceptions = 2
  MaxFence = 3
SYMMETRY Symmetry
SPECIFICATION Spec
CHECK_DEADLOCK FALSE
INVARIANTS
  CompensationFenced
  NoBlindReplay
  LedgerAgrees
  AttemptBudget
