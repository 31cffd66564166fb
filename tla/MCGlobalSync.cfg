CONSTANTS
    p1 = p1
    p2 = p2
    Peers = {p1, p2}
    Limit = 2
    Hits = {1, 2}
    Resets = {FALSE, TRUE}
    MayFail = {FALSE, TRUE}
    MaxHits = 3
    NoItem = NoItem
SPECIFICATION SyncSpec
INVARIANTS HitsConserved 
 
CHECK_DEADLOCK FALSE
