\* Two inverters of one user, both out of reach, polled without overlap.
SPECIFICATION Spec
CONSTANTS
  Inverters = {i1, i2}
  User = u
  Owner <- SameOwner
  Slots = {k1}
  FaultKinds = {}
  MaxFaults = 0
SYMMETRY Symmetry
PROPERTIES
  HeldBackByItsOwn
CHECK_DEADLOCK FALSE
