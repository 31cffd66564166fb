CONSTANTS
    me = me
    a = a
    here = here
    Blank = Blank
    Self = me
    Others = {a}
    NoUpdate = NoUpdate
    MaxRevision = 3
    MaxFaults = 0
    Callers = {"pool", "join"}
    Addrs = {me, a, Blank}
    DCs = {here}
    Here = here
    Undialable = {}
    Lists <- InLists
    Hashings <- InHashings
    Replicas = 1
    HashSpace = 3
    NoClient = NoClient
    MaxCalls = 4
SPECIFICATION Spec
INVARIANT RingIsOpen
CHECK_DEADLOCK FALSE
