\* Two records of one scope and two relays.  One fault of any kind, or one
\* replay, while both records are there; with one record two of them, or one
\* and an abandoned request.  Liveness, so no symmetry.
CONSTANTS
  Messages = {1, 2}
  Unordered = {}
  Relays = {r1, r2}
  Tokens = {t1, t2, t3, t4, t5, t6}
  NoToken = NoToken
  AttemptCap = 2
  MaxAttempts = 2
  BatchSize = 2
  Workers = 1
  MaxFaults = 2
  MaxLate = 1
  MaxLoad = 3
  Features = {"late_commit", "replay", "prune"}
  Faults = {"crash", "error", "pause", "cancel"}
SPECIFICATION FairSpec
INVARIANTS DeliveredWasAccepted DeadWasExhausted OneHolder
PROPERTIES OrderKept EventuallySettled RelayStops
CHECK_DEADLOCK FALSE
