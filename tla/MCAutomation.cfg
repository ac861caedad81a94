SPECIFICATION FairSpec
CONSTANTS
    t1 = t1
    t2 = t2
    Templates <- MCTwoTemplates
    Windows = {1}
    Webhooks = {t2}
    Late = 0
    Budget = 2
    MaxRev = 2
    MaxVersion = 1
    MaxClock = 2
    MaxMoves = 1
INVARIANTS
    LanesAreTrue
PROPERTIES
    FlowsComeToRest
CHECK_DEADLOCK FALSE
