\* Crashes, lost locks and a queue that refuses jobs; attempts end within the
\* cron's threshold.
SPECIFICATION Spec
CONSTANTS
  Reports = {r1, r2}
  Workers = {w1, w2}
  None = None
  MaxAttempts = 3
  MaxStalled = 1
  FaultKinds = {"crash", "lockLost", "queueDown"}
  MaxFaults = 2
  AttemptsFinish = TRUE
SYMMETRY Symmetry
INVARIANTS
  SingleComputation
PROPERTIES
  ImplementsLifecycle
CHECK_DEADLOCK FALSE
