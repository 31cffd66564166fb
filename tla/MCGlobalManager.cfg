CONSTANTS
    k1 = k1
    k2 = k2
    k3 = k3
    Keys = {k1, k2, k3}
    BatchLimit = 3
    MaxQueued = 5
SPECIFICATION Spec
INVARIANTS CollectedWillTick
PROPERTY QueuedLeaves
CHECK_DEADLOCK FALSE
