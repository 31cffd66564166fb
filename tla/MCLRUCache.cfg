CONSTANTS
    k1 = k1
    k2 = k2
    k3 = k3
    ItemKeys = {k1, k2, k3}
    CacheSize = 4
    Workers = 2
    DefaultSize = 4
    Expiries = {1, 3}
    Balances <- BothSides
    MaxClock = 3
    MaxEvictions = 2
SPECIFICATION CacheSpec
SYMMETRY AnyKey
INVARIANTS MapMatchesList DebtAccounted
PROPERTY EvictsLeastRecent
CHECK_DEADLOCK FALSE
