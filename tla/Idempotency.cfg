CONSTANTS
  c1 = c1
  c2 = c2
  c3 = c3
  p1 = p1
  p2 = p2
  Callers = {c1, c2, c3}
  Prints = {p1, p2}
  PrintOf <- Request
  t1 = t1
  t2 = t2
  t3 = t3
  Tokens = {t1, t2, t3}
  NoToken = NoToken
  MaxGen = 1
SYMMETRY Symmetry
SPECIFICATION Spec
CHECK_DEADLOCK FALSE
INVARIANTS
  AnswersAgree
  NoCrossing
PROPERTIES
  OncePromise
