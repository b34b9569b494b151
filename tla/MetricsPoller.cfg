\* One inverter, two polls of it at once; announcements and publications that get
\* lost, a database that fails, restarts, a cloud that comes and goes.
SPECIFICATION FairSpec
CONSTANTS
  Inverters = {i1}
  User = u
  Owner <- SameOwner
  Slots = {k1, k2}
  FaultKinds = {"restart", "publish", "database"}
  MaxFaults = 2
INVARIANTS
  PolledOnce
  ActiveIsTracked
  OneAlertPerCooldown
PROPERTIES
  RecoversOnline
  OutageIsNoticed
CHECK_DEADLOCK FALSE
