SPECIFICATION FairSpec
CONSTANTS
  a1 = a1
  t1 = t1
  t2 = t2
  e1 = e1
  Account = {a1}
  Task = {t1}
  Job <- MCJob
  TaskOf <- MCTaskOf
  Owner <- MCOwner
  Place <- MCPlace
  MaxPermits = 1
  MaxTasks = 2
  MaxPending = 2
  MaxWakes = 0
  MaxSteps = 1
  StepCount <- MCStepCount
  MaxActive = 1
  Evidence = {e1}
  None = None
  MaxReceipts = 3
  Global = Global
  Budget = 3
  MaxFaults = 0
  MaxRequests = 1
  MaxToggles = 1
PROPERTIES
  PermitsReturn
CHECK_DEADLOCK FALSE
