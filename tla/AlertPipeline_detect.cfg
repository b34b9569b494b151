\* Two evaluations that race to raise three alerts, none of which is delivered.
SPECIFICATION Spec
CONSTANTS
  Day = 2
  LastType = 2
  Evals = {e1, e2}
  Workers = {}
  None = None
  Windows = {}
  Cooldown = 2
  MaxAttempts = 2
  MaxStalled = 1
  FaultKinds = {"evaluation"}
  MaxFaults = 1
  MaxAlerts = 3
  Horizon = 5
  EvaluationsFinish = TRUE
SYMMETRY EvalSymmetry
INVARIANTS
  RepeatsOnlyByRace
CHECK_DEADLOCK FALSE
