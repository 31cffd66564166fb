------------------------------ MODULE PeerRing ------------------------------
(***************************************************************************)
(* What a node promises the requests it routes: at every moment it has one *)
(* ring of open clients, a key moves only to a client that is new or when  *)
(* its owner leaves, and clients that left the ring are closed, no others. *)
(* PeerSet.tla implements this; Forwarding.tla is built on it.             *)
(***************************************************************************)
EXTENDS FiniteSets

CONSTANTS
    Clients,   \* every client there may be
    Keys,      \* rate limit keys
    NoPeer     \* the ring is empty

VARIABLES
    ring,      \* the clients in the picker in use
    owner,     \* the one each key is assigned to
    retired,   \* clients that left the ring and are to be shut down
    closed     \* clients that have been shut down

ringVars == <<ring, owner, retired, closed>>

RingInit ==
    /\ ring \in SUBSET Clients
    /\ owner \in [Keys -> IF ring = {} THEN {NoPeer} ELSE ring]
    /\ retired = {} /\ closed = {}

\* What a consistent hash may do: a key moves to a new peer or, when its
\* owner left, to any.
Owners(newRing, k) ==
    IF newRing = {} THEN {NoPeer}
    ELSE IF owner[k] \in newRing THEN {owner[k]} \cup (newRing \ ring)
    ELSE newRing

\* One step changes the ring, to one of open clients.
SetPeers ==
    /\ retired = {}
    /\ ring' \in SUBSET (Clients \ closed)
    /\ owner' \in [Keys -> ring' \cup {NoPeer}]
    /\ \A k \in Keys : owner'[k] \in Owners(ring', k)
    /\ retired' = ring \ ring'
    /\ UNCHANGED closed

\* Exactly the clients that left are shut down.
ShutdownOld ==
    /\ closed' = closed \cup retired
    /\ retired' = {}
    /\ UNCHANGED <<ring, owner>>

RingNext == SetPeers \/ ShutdownOld

RingSpec == RingInit /\ [][RingNext]_ringVars
=============================================================================
