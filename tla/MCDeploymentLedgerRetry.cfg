SPECIFICATION Spec
CONSTANTS
    t1 = t1
    t2 = t2
    t3 = t3
    w1 = w1
    w2 = w2
    old = old
    new = new
    own = own
    fork = fork
    None = None
    Tasks = {t1, t2, t3}
    Targets = {w1}
    Sources <- MCSources
    NoIdentity = own
    Installed = {w1}
    Removable = {}
SYMMETRY MCSymmetry
PROPERTIES
    RetryClearsPending
CHECK_DEADLOCK FALSE
