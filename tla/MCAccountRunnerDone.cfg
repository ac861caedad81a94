SPECIFICATION FairSpec
CONSTANTS
  a1 = a1
  j1 = j1
  j2 = j2
  Account = {a1}
  Job = {j1, j2}
  Owner <- MCOwner
  MaxSteps = 2
  StepCount <- MCStepCount
  MaxActive = 2
  Evidence = {e1}
  None = None
  MaxReceipts = 8
  MaxCalls = 2
  CallCount <- MCCallCount
  WriteSites <- MCWriteSites
  Warm <- WarmJournal
  MaxCrashes = 1
PROPERTIES
  MutationUnknownsEnd
CHECK_DEADLOCK FALSE
