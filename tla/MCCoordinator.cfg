SPECIFICATION Spec
CONSTANTS
  a1 = a1
  t1 = t1
  t2 = t2
  e1 = e1
  Account = {a1}
  Task = {t1, t2}
  Job <- MCJob
  TaskOf <- MCTaskOf
  Owner <- MCOwner
  Place <- MCPlace
  MaxPermits = 2
  MaxTasks = 2
  MaxPending = 2
  MaxWakes = 0
  MaxSteps = 1
  StepCount <- MCStepCount
  MaxActive = 1
  Evidence = {e1}
  None = None
  MaxReceipts = 3
  Global = Global
  Budget = 2
  MaxFaults = 1
  MaxRequests = 1
  MaxToggles = 0
INVARIANTS
  PermitsCoverWork
  BeliefsAreTrue
  AcknowledgedIsKnown
  NoWakeUpIsLost
CHECK_DEADLOCK FALSE
