CONSTANTS
    me = me
    a = a
    Self = me
    Others = {a}
    NoUpdate = NoUpdate
    Blank = Blank
    MaxRevision = 3
    MaxFaults = 2
    Queries <- InQueries
    Answered <- InAnswered
    Kinds = {"none", "etcd", "dns", "k8s", "member-list"}
    Serving = {"none"}
SPECIFICATION Spec
INVARIANTS PeersFollowCluster 
PROPERTIES StaysListed  
CHECK_DEADLOCK FALSE
