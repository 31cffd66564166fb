--------------------------- MODULE MemberListPool ---------------------------
(***************************************************************************)
(* Discovery through gossip (memberlist.go).  The memberlist library calls *)
(* NotifyJoin, NotifyLeave and NotifyUpdate one at a time; each changes    *)
(* the map of peers and hands the list over.  The goroutine that joins the *)
(* cluster does the same with addPeer, with no lock between the two.       *)
(***************************************************************************)
EXTENDS Discovery, Functions

VARIABLES
    view,        \* the other nodes the library takes for alive
    peers,       \* the map of peers: from nodes, named by their IP, to addresses
    join,        \* "off", "joining", "joined", "added", "done" or "failed"
    overlapped   \* a list was handed over while another one was

memberVars == <<view, peers, join, overlapped>>

MemberInit ==
    /\ view = {} /\ peers = [n \in {} |-> n]
    /\ join = "off" /\ overlapped = FALSE

-----------------------------------------------------------------------------
Other(c) == IF c = "pool" THEN "join" ELSE "pool"

\* The map of peers with one entry set.
Set(n, peer) == [m \in DOMAIN peers \cup {n} |-> IF m = n THEN peer ELSE peers[m]]

callOnUpdate(c, newPeers) ==
    /\ peers' = newPeers
    /\ OnUpdate(c, Range(newPeers))
    /\ overlapped' = (overlapped \/ update[Other(c)] # NoUpdate)

\* Create has the library running; joining is tried until it succeeds or the
\* context of Start ends, which leaves the library running.
NewMemberListPool ==
    /\ \/ pool' = "creating" /\ join' = "joining" /\ UNCHANGED faults
       \/ Fault /\ pool' = "failed" /\ UNCHANGED join
    /\ UNCHANGED <<cluster, revision, stop, update, picker, view, peers, overlapped>>

joinPool ==
    /\ join = "joining"
    /\ \/ join' = "joined" /\ UNCHANGED <<faults, pool>>
       \/ Fault /\ join' = "failed" /\ pool' = "failed"
    /\ UNCHANGED <<cluster, revision, stop, update, picker, view, peers, overlapped>>

\* The node adds itself: its metadata was not there when the library first
\* told of it.
addPeer ==
    /\ join = "joined"
    /\ join' = "added" /\ callOnUpdate("join", Set(Self, Self))
    /\ UNCHANGED <<cluster, revision, faults, pool, stop, picker, view>>

Joined ==
    /\ join = "added" /\ update["join"] = NoUpdate
    /\ join' = "done" /\ pool' = "up"
    /\ UNCHANGED <<cluster, revision, faults, stop, update, picker, view, peers, overlapped>>

-----------------------------------------------------------------------------
(* The callbacks; the library holds its lock until SetPeers has returned.  *)

Notified == join # "off" /\ update["pool"] = NoUpdate

\* A node whose metadata cannot be decoded is not added.
NotifyJoin(n) ==
    /\ Notified /\ n \in Up \ view
    /\ view' = view \cup {n}
    /\ \/ callOnUpdate("pool", Set(n, n)) /\ UNCHANGED faults
       \/ Fault /\ UNCHANGED <<peers, update, overlapped>>
    /\ UNCHANGED <<cluster, revision, pool, stop, picker, join>>

\* The node left or died, or is taken for dead although it is up.
NotifyLeave(n) ==
    /\ Notified /\ n \in view
    /\ \/ n \notin Up /\ UNCHANGED faults
       \/ n \in Up /\ Fault
    /\ view' = view \ {n}
    /\ callOnUpdate("pool", Restrict(peers, DOMAIN peers \ {n}))
    /\ UNCHANGED <<cluster, revision, pool, stop, picker, join>>

\* New metadata: what cannot be decoded replaces the peer by an empty one.
NotifyUpdate(n) ==
    /\ Notified /\ n \in view
    /\ \/ /\ Set(n, n) # peers
          /\ callOnUpdate("pool", Set(n, n)) /\ UNCHANGED faults
       \/ Fault /\ callOnUpdate("pool", Set(n, Blank))
    /\ UNCHANGED <<cluster, revision, pool, stop, picker, view, join>>

\* Close: the library tells of this node's own leaving, and runs on.
Leave ==
    /\ Notified
    /\ stop' = "done"
    /\ callOnUpdate("pool", Restrict(peers, DOMAIN peers \ {Self}))
    /\ UNCHANGED <<cluster, revision, faults, pool, picker, view, join>>

MemberStep ==
    \/ joinPool \/ addPeer \/ Joined
    \/ \E n \in Others : NotifyJoin(n) \/ NotifyLeave(n) \/ NotifyUpdate(n)

MemberTypeOK ==
    /\ view \subseteq Others
    /\ DOMAIN peers \subseteq Nodes /\ Range(peers) \subseteq Nodes \cup {Blank}
    /\ join \in {"off", "joining", "joined", "added", "done", "failed"}
    /\ overlapped \in BOOLEAN

\* Once the node has joined, every event was handled and no two lists were
\* handed over at the same time.
MemberAgrees ==
    /\ join = "done" /\ stop = "no" /\ update["pool"] = NoUpdate /\ ~overlapped
    /\ view = Up \ {Self} /\ \A n \in view : n \in DOMAIN peers /\ peers[n] = n
    => picker = Up \cup {Self}
=============================================================================
