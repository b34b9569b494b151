\* Two slots deliver one alert, with every fault of the delivery.
SPECIFICATION FairSpec
CONSTANTS
  Day = 2
  LastType = 1
  Evals = {e1}
  Workers = {w1, w2}
  None = None
  Windows <- NightAndAlways
  Cooldown = 2
  MaxAttempts = 2
  MaxStalled = 1
  FaultKinds = {"crash", "database", "lockLost", "response"}
  MaxFaults = 1
  MaxAlerts = 1
  Horizon = 3
  EvaluationsFinish = TRUE
INVARIANTS
  OneMessagePerFault
  DeliveredWasSent
PROPERTIES
  QuietKept
  QueuedSettles
CHECK_DEADLOCK FALSE
