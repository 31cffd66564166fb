CONSTANTS
    me = me
    k1 = k1
    p1 = p1
    p2 = p2
    q1 = q1
    s1 = s1
    Self = me
    Clients = {me, p1, p2}
    Keys = {k1}
    Plain = {q1}
    Scheduled = {s1}
    MaxAttempts = 2
    ContextErrors = {TRUE, FALSE}
    NoPeer = NoPeer
    MaxChanges = 1
SPECIFICATION Spec
INVARIANTS ChargedPerAttempt
PROPERTIES  EveryRequestAnswered
CHECK_DEADLOCK FALSE
