CONSTANTS
    k1 = k1
    k2 = k2
    h1 = h1
    h2 = h2
    a1 = a1
    Keys = {k1, k2}
    HashSpace = 2
    WorkerCounts = {1, 2}
    Hitters = {h1, h2}
    Adders = {a1}
    KeyOf <- SharedKey
    OutSize = 1
    MaxRestarts = 1
SPECIFICATION Spec
INVARIANTS KeyAtItsWorker CountedOnce HitsSurvive
PROPERTIES CallersAndCloseReturn
CHECK_DEADLOCK FALSE
