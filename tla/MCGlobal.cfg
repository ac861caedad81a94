SPECIFICATION PartsSpec
CONSTANTS
  a1 = a1
  a2 = a2
  a3 = a3
  t1 = t1
  t2 = t2
  t3 = t3
  old = old
  new = new
  own = own
  fork = fork
  x1 = x1
  x2 = x2
  y1 = y1
  y2 = y2
  None = None
  Account = {a1, a2, a3}
  Task = {t1, t2, t3}
  Job <- MCJob
  TaskOf <- MCTaskOf
  Owner <- MCOwner
  Place <- MCPlace
  MaxPermits = 2
  MaxTasks = 2
  MaxPending = 2
  Outcomes = {x1, x2}
  Tasks = {y1, y2}
  Targets = {x1, x2}
  Installed = {x1, x2}
  Removable = {x1, x2}
  Sources <- MCSources
  NoIdentity = own
  Keys = {x1, x2}
  Digests = {y1, y2}
  MaxOpen = 2
  MaxRev = 3
  MaxEpoch = 2
  MaxPlans = 2
  MaxRing = 1
  MaxWakes = 0
INVARIANTS
  PermitsAreSound
  AccountOrder
  VersionsAreNewest
  IntentMakesOneTask
  RefusalsAreFinal
PROPERTIES
  ReservationIsComplete
  PermitsNeverRevoked
  AdvanceIsTruthful
  LostAnswersAreFound
SYMMETRY MCSymmetry
CHECK_DEADLOCK FALSE
