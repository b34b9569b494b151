\* One worker crash: the report it was computing is reset to PENDING by the
\* cron, but its job has meanwhile used up its attempts.
SPECIFICATION FairSpec
CONSTANTS
  Reports = {r1}
  Workers = {w1}
  None = None
  MaxAttempts = 3
  MaxStalled = 1
  FaultKinds = {"crash"}
  MaxFaults = 1
  AttemptsFinish = TRUE
PROPERTIES
  CrashedReportsAreRetried
CHECK_DEADLOCK FALSE
