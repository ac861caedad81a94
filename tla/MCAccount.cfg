SPECIFICATION PartsSpec
CONSTANTS
  a1 = a1
  a2 = a2
  j1 = j1
  x1 = x1
  x2 = x2
  Account = {a1}
  Job = {j1, x1, x2}
  Owner <- MCOwner
  MaxSteps = 2
  StepCount <- MCStepCount
  MaxActive = 2
  Evidence = {x1, x2}
  None = None
  MaxReceipts = 2
  Namespaces = {x1, x2}
  Kinds <- MCKinds
  Accounts = {a1, a2}
  Tasks = {j1}
  On <- MCOn
  Drains = {x1, x2}
  MaxEpoch = 2
  MaxGeneration = 2
  MaxEdits = 2
  Templates <- MCTemplates
  Windows = {1, 2}
  Late = 1
  Webhooks = {}
  Budget = 1
  MaxRev = 3
  MaxVersion = 2
  MaxClock = 2
  MaxMoves = 0
  Runs = {x1, x2}
  MaxWrites = 1
INVARIANTS
  LedgerIsConsistent
  OneUncertainStep
  WorkStartsInOrder
  ResultIsTrue
  SealsAreLifted
  RetiredIsQuiet
  VerifiedHolds
  OpenedWithEverything
PROPERTIES
  ProgressVersionIsSound
  NeverDowngrades
SYMMETRY MCSymmetry
CHECK_DEADLOCK FALSE
