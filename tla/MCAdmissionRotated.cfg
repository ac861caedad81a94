SPECIFICATION Spec
CONSTANTS
    k1 = k1
    k2 = k2
    d1 = d1
    d2 = d2
    None = None
    Keys = {k1}
    Digests = {d1, d2}
    MaxOpen = 2
    MaxRev = 3
    MaxEpoch = 2
    MaxPlans = 2
    MaxRing = 2

PROPERTIES
    LostAnswersAreFound
CHECK_DEADLOCK FALSE
