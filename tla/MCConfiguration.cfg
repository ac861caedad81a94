SPECIFICATION PartsSpec
CONSTANTS
    a1 = a1
    r1 = r1
    r2 = r2
    r3 = r3
    k1 = k1
    k2 = k2
    t1 = t1
    None = None
    Accounts = {a1}
    Requests = {r1, r2, r3}
    Tasks = {t1}
    KeyOf <- MCKeyOf
    KindsOf <- MCKindsOf
    MaxRev = 3
    MaxEpoch = 2
    Targets = {r1, r2}
    AccountOf <- MCAccountOf
    Installed = {r1, r2}
    MaxSha = 2
    MaxUuid = 1
    StaleReads = TRUE
    MaxMine = 2
    MaxOthers = 1
    MaxRereads = 1
SYMMETRY MCSymmetry
INVARIANTS
    AuthorityIsConsistent
    CredentialsAreCurrent
    NoWorkerIsForgotten
PROPERTIES
    EditsAreTrue
    RotationSticks
    NothingUnseenIsLost
CHECK_DEADLOCK FALSE
