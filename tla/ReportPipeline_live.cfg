\* No faults: everything requested settles and every series goes on.
SPECIFICATION FairSpec
CONSTANTS
  Reports = {r1, r2}
  Workers = {w1, w2}
  None = None
  MaxAttempts = 3
  MaxStalled = 1
  FaultKinds = {}
  MaxFaults = 0
  AttemptsFinish = FALSE
INVARIANTS
  NoStrandedReport
PROPERTIES
  EverySettles
  SeriesContinues
CHECK_DEADLOCK FALSE
