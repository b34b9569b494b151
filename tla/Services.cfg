\* Installers and their assignments; attempts that outlive the cron's threshold
\* and their lock; share links, event streams, a chat, and mails with their pushes.
SPECIFICATION SideSpec
CONSTANTS
  Profiles = {w1, w2}
  Inverters = {w1, w2}
  Assignments = {r1, r2, r3}
  Requests = {r1, r2, r3}
  Reports = {r1, r2, r3}
  Workers = {w1, w2}
  None = None
  MaxAttempts = 1
  MaxStalled = 1
  FaultKinds = {"lockLost"}
  MaxFaults = 1
  AttemptsFinish = FALSE
  Opens = {v1}
  LinkLife = 1
  DeleteAttempts = 2
  Horizon = 2
  MaxOpened = 5
  ContextLength = 2
  MaxCalls = 2
  MaxDevices = 2
SYMMETRY Symmetry
INVARIANTS
  IndexNeverRefuses
  RecomputedPerFault
  LinkWorks
  NoForgottenFile
  OpenIsHeard
  UsageCounted
  OncePerFailure
PROPERTIES
  ImplementsBook
CHECK_DEADLOCK FALSE
