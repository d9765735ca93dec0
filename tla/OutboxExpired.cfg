\* One relay that is paused beyond its lease and comes back before anybody has
\* claimed the record again.
CONSTANTS
  Messages = {1}
  Unordered = {}
  Relays = {r1}
  Tokens = {t1, t2, t3}
  NoToken = NoToken
  AttemptCap = 1
  MaxAttempts = 1
  BatchSize = 1
  Workers = 1
  MaxFaults = 1
  MaxLate = 0
  MaxLoad = 2
  Features = {}
  Faults = {"pause"}
SPECIFICATION FairSpec
PROPERTIES ExpiredCannotMutate
CHECK_DEADLOCK FALSE
