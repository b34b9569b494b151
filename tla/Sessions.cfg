SPECIFICATION Spec
CONSTANTS
  Sessions = {s1}
  Tokens = {t1, t2, t3}
  Requests = {q1, q2}
  Sliding = 2
  Absolute = 3
  AccessLife = 1
  Horizon = 4
  None = None
SYMMETRY Symmetry
INVARIANTS
  OneSuccessor
  NoLateExchange
  LogoutFinal
PROPERTIES
  LogoutStopsRotation
CHECK_DEADLOCK FALSE
