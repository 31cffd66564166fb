CONSTANTS
    c1 = c1
    c2 = c2
    d1 = d1
    Batching = {c1, c2}
    Single = {c2}
    Direct = {d1}
    BatchLimit = 2
    QueueSize = 1
SPECIFICATION Spec
INVARIANTS NoSendOnClosedQueue TickPending SentOnce NothingLeftBehind
PROPERTIES NotSentAfterLeaving CallersAndShutdownReturn
CHECK_DEADLOCK FALSE
