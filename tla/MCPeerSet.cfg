CONSTANTS
    pool = pool
    a = a
    b = b
    c = c
    bad = bad
    here = here
    far = far
    Callers = {pool}
    Addrs = {a, b, c, bad}
    DCs = {here, far}
    Here = here
    Undialable = {bad}
    Lists <- InLists
    Hashings <- AllHashings
    Replicas = 2
    HashSpace = 7
    NoClient = NoClient
    MaxCalls = 3
SPECIFICATION PeerSetSpec
INVARIANTS OwnerIsFirstPoint ClientsAccounted
PROPERTIES PickersFollowList ImplementsPeerRing
CHECK_DEADLOCK FALSE
