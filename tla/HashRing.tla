------------------------------ MODULE HashRing ------------------------------
(***************************************************************************)
(* The consistent hash that assigns keys to peers (replicated_hash.go):    *)
(* every peer has several points on a ring of hash values and a key        *)
(* belongs to the first point at or after its own hash, found by binary    *)
(* search.  RegionPicker keeps one such ring per data center.              *)
(*                                                                         *)
(* A client is a record with the address and the data center of its peer;  *)
(* a picker is a record of its clients and its sorted points.              *)
(***************************************************************************)
EXTENDS Naturals, Sequences, FiniteSets

CONSTANTS
    Replicas,    \* points per peer (512 in the code)
    HashSpace    \* hash values are 0 .. HashSpace - 1

ASSUME RingAssumption == Replicas \in Nat \ {0} /\ HashSpace \in Nat \ {0}

Hashes == 0 .. HashSpace - 1

-----------------------------------------------------------------------------
(* ReplicatedConsistentHash.                                               *)

New == [peers |-> {}, peerKeys |-> <<>>]

\* The points of a client, given the hash of every address and replica.
PointsOf(hash, client) ==
    [i \in 1 .. Replicas |-> [hash |-> hash[<<client.addr, i>>], peer |-> client]]

\* sort.Slice by hash: a point's place is the number of points that come before
\* it, itself included.  Points with equal hashes, whose order Go leaves open,
\* stay in the order they were added.
Place(keys, i) ==
    Cardinality({j \in 1 .. Len(keys) :
                   \/ keys[j].hash < keys[i].hash
                   \/ keys[j].hash = keys[i].hash /\ j <= i})

Sorted(keys) ==
    [n \in 1 .. Len(keys) |-> keys[CHOOSE i \in 1 .. Len(keys) : Place(keys, i) = n]]

\* The map of peers has one client per address.
Keyed(peers, client) == {p \in peers : p.addr # client.addr} \cup {client}

\* Faulty: the new points are not sorted in.
appendOnly(hash, picker, client) ==
    [peers |-> Keyed(picker.peers, client),
     peerKeys |-> picker.peerKeys \o PointsOf(hash, client)]

Add(hash, picker, client) ==
    [peers |-> Keyed(picker.peers, client),
     peerKeys |-> Sorted(picker.peerKeys \o PointsOf(hash, client))]

\* The client of an address, as a set of at most one.
GetByPeerInfo(picker, addr) == {p \in picker.peers : p.addr = addr}

\* sort.Search: the smallest index in lo .. hi at which the hash is reached,
\* by halving; hi when there is none.  Indices count from zero as in the code.
search(keys, hash) ==
    LET half[range \in (0 .. Len(keys)) \X (0 .. Len(keys))] ==
          LET lo == range[1]
              hi == range[2]
              mid == (lo + hi) \div 2
          IN  IF lo >= hi THEN lo
              ELSE IF keys[mid + 1].hash >= hash THEN half[<<lo, mid>>]
              ELSE half[<<mid + 1, hi>>]
    IN  half[<<0, Len(keys)>>]

\* Past the last point the ring starts again.
Get(picker, h) ==
    LET idx == search(picker.peerKeys, h)
    IN  picker.peerKeys[IF idx = Len(picker.peerKeys) THEN 1 ELSE idx + 1].peer

-----------------------------------------------------------------------------
(* RegionPicker: a function from data centers to pickers.                  *)

NewRegion == [dc \in {} |-> New]

RegionPeers(regions) == UNION {regions[dc].peers : dc \in DOMAIN regions}

\* A client goes to the picker of the data center it was created for.
RegionAdd(hash, regions, client) ==
    LET dc == client.dc
        picker == IF dc \in DOMAIN regions THEN regions[dc] ELSE New
    IN  [d \in DOMAIN regions \cup {dc} |->
            IF d = dc THEN Add(hash, picker, client) ELSE regions[d]]

RegionByPeerInfo(regions, addr) == {p \in RegionPeers(regions) : p.addr = addr}

\* GetClients: the owner of a key in every region.
GetClients(regions, h) == {Get(regions[dc], h) : dc \in DOMAIN regions}
=============================================================================
