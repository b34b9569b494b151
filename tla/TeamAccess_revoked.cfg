\* One invite, one request that accepts it and one that revokes it.
SPECIFICATION Spec
CONSTANTS
  None = None
  Requests = {q1, q2}
  MaxFaults = 0
  People = {e1}
  Owner = owner
  Rows = {m1}
  Tokens = {t1}
  Roles = {"admin", "viewer"}
PROPERTIES
  RevocationLasts
CHECK_DEADLOCK FALSE
