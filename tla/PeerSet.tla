------------------------------- MODULE PeerSet -------------------------------
(***************************************************************************)
(* V1Instance.SetPeers: a discovery pool hands over the list of peers, and *)
(* the node builds new pickers, keeping the clients it has, swaps them in  *)
(* under peerMutex and shuts down the clients it no longer needs.  Only    *)
(* the swap is locked: every other read of the pickers, and a second call, *)
(* may come in between.                                                    *)
(***************************************************************************)
EXTENDS HashRing

CONSTANTS
    Callers,      \* goroutines that may call SetPeers
    Addrs,        \* addresses of peers
    DCs,          \* data centers
    Here,         \* the one of this node
    Undialable,   \* addresses NewPeerClient refuses
    Lists,        \* the lists pools may report: sets of [addr, dc]
    Hashings,     \* the hash values of every address and replica
    NoClient,     \* the ring is empty
    MaxCalls      \* bound: calls of SetPeers

ASSUME PeerSetAssumption ==
    /\ Here \in DCs /\ Undialable \subseteq Addrs /\ MaxCalls \in Nat
    /\ Lists \subseteq SUBSET [addr : Addrs, dc : DCs]
    /\ \A list \in Lists : \A i, j \in list : i.addr = j.addr => i = j
    /\ Hashings \subseteq [Addrs \X (1 .. Replicas) -> Hashes]

VARIABLES
    hash,        \* the hash function; it never changes
    local,       \* s.conf.LocalPicker
    region,      \* s.conf.RegionPicker
    made,        \* every client NewPeerClient has returned
    shut,        \* the ones that were shut down
    lost,        \* clients of calls that returned early: nothing refers to them
    at,          \* where each call is
    list,        \* the list of each call
    todo,        \* the part of it that is not in a picker yet
    newLocal,    \* the pickers each call builds
    newRegion,
    old,         \* the clients of the pickers it replaced, local and region
    leaving,     \* shutdownPeers
    calls        \* calls so far

callVars == <<at, list, todo, newLocal, newRegion, old, leaving, calls>>
peerVars == <<hash, local, region, made, shut, lost, callVars>>

NoOld == [local |-> {}, region |-> {}]

PeerSetInit ==
    /\ hash \in Hashings
    /\ local = New /\ region = NewRegion
    /\ made = {} /\ shut = {} /\ lost = {}
    /\ at = [c \in Callers |-> "idle"]
    /\ list = [c \in Callers |-> {}]
    /\ todo = [c \in Callers |-> {}]
    /\ newLocal = [c \in Callers |-> New]
    /\ newRegion = [c \in Callers |-> NewRegion]
    /\ old = [c \in Callers |-> NoOld]
    /\ leaving = [c \in Callers |-> {}]
    /\ calls = 0

-----------------------------------------------------------------------------
\* Faulty: the new pickers start as copies of the ones in use.
copyPickers(c, infos) ==
    /\ at[c] = "idle" /\ calls < MaxCalls
    /\ calls' = calls + 1
    /\ at' = [at EXCEPT ![c] = "building"]
    /\ list' = [list EXCEPT ![c] = infos]
    /\ todo' = [todo EXCEPT ![c] = infos]
    /\ newLocal' = [newLocal EXCEPT ![c] = local]
    /\ newRegion' = [newRegion EXCEPT ![c] = region]
    /\ UNCHANGED <<hash, local, region, made, shut, lost, old, leaving>>

\* New() gives each call empty pickers to fill.
Call(c, infos) ==
    /\ at[c] = "idle" /\ calls < MaxCalls
    /\ calls' = calls + 1
    /\ at' = [at EXCEPT ![c] = "building"]
    /\ list' = [list EXCEPT ![c] = infos]
    /\ todo' = [todo EXCEPT ![c] = infos]
    /\ newLocal' = [newLocal EXCEPT ![c] = New]
    /\ newRegion' = [newRegion EXCEPT ![c] = NewRegion]
    /\ UNCHANGED <<hash, local, region, made, shut, lost, old, leaving>>

\* A new client differs from the earlier ones of its address.
NewPeerClient(info) ==
    [addr |-> info.addr, dc |-> info.dc,
     gen |-> Cardinality({p \in made : p.addr = info.addr}) + 1]

\* Faulty: every list is given new clients.
alwaysNew(info) == {}

\* The client the pickers in use have for a peer.
Existing(info) ==
    IF info.dc # Here THEN RegionByPeerInfo(region, info.addr)
    ELSE GetByPeerInfo(local, info.addr)

Dialable(info) == Existing(info) # {} \/ info.addr \notin Undialable

AddPeer(c, info) ==
    /\ at[c] = "building" /\ info \in todo[c] /\ Dialable(info)
    /\ \E peer \in IF Existing(info) # {} THEN Existing(info) ELSE {NewPeerClient(info)} :
          /\ made' = made \cup {peer}
          /\ IF info.dc # Here
             THEN /\ newRegion' = [newRegion EXCEPT ![c] = RegionAdd(hash, @, peer)]
                  /\ UNCHANGED newLocal
             ELSE /\ newLocal' = [newLocal EXCEPT ![c] = Add(hash, @, peer)]
                  /\ UNCHANGED newRegion
    /\ todo' = [todo EXCEPT ![c] = @ \ {info}]
    /\ UNCHANGED <<hash, local, region, shut, lost, at, list, old, leaving, calls>>

Building(c) == newLocal[c].peers \cup RegionPeers(newRegion[c])
InUse == local.peers \cup RegionPeers(region)

\* Clients a running call refers to.
Handled(c) == Building(c) \cup leaving[c] \cup old[c].local \cup old[c].region

\* One peer that cannot be dialled ends the call: the pickers stay, and the
\* clients the call created are dropped as they are.
FailToConnect(c, info) ==
    /\ at[c] = "building" /\ info \in todo[c] /\ ~Dialable(info)
    /\ lost' = lost \cup (Building(c) \ InUse)
    /\ at' = [at EXCEPT ![c] = "idle"]
    /\ newLocal' = [newLocal EXCEPT ![c] = New]
    /\ newRegion' = [newRegion EXCEPT ![c] = NewRegion]
    /\ list' = [list EXCEPT ![c] = {}]
    /\ todo' = [todo EXCEPT ![c] = {}]
    /\ UNCHANGED <<hash, local, region, made, shut, old, leaving, calls>>

\* Both pickers are replaced while peerMutex is held.
Swap(c) ==
    /\ at[c] = "building" /\ todo[c] = {}
    /\ old' = [old EXCEPT ![c] = [local |-> local.peers, region |-> RegionPeers(region)]]
    /\ local' = newLocal[c] /\ region' = newRegion[c]
    /\ newLocal' = [newLocal EXCEPT ![c] = New]
    /\ newRegion' = [newRegion EXCEPT ![c] = NewRegion]
    /\ at' = [at EXCEPT ![c] = "swapped"]
    /\ list' = [list EXCEPT ![c] = {}]
    /\ UNCHANGED <<hash, made, shut, lost, todo, leaving, calls>>

\* Faulty: old clients are looked up in the old picker, which has them all.
findNone(c) ==
    /\ at[c] = "swapped"
    /\ at' = [at EXCEPT ![c] = "local"]
    /\ UNCHANGED <<hash, local, region, made, shut, lost, list, todo, newLocal,
                   newRegion, old, leaving, calls>>

\* Old clients are looked up by address in the pickers in use at that time.
FindOldLocal(c) ==
    /\ at[c] = "swapped"
    /\ leaving' = [leaving EXCEPT ![c] =
                     {p \in old[c].local : GetByPeerInfo(local, p.addr) = {}}]
    /\ at' = [at EXCEPT ![c] = "local"]
    /\ UNCHANGED <<hash, local, region, made, shut, lost, list, todo, newLocal,
                   newRegion, old, calls>>

FindOldRegion(c) ==
    /\ at[c] = "local"
    /\ leaving' = [leaving EXCEPT ![c] =
                     @ \cup {p \in old[c].region : RegionByPeerInfo(region, p.addr) = {}}]
    /\ old' = [old EXCEPT ![c] = NoOld]
    /\ at' = [at EXCEPT ![c] = "found"]
    /\ UNCHANGED <<hash, local, region, made, shut, lost, list, todo, newLocal,
                   newRegion, calls>>

\* Shutdown closes a client at once and waits for its calls in flight; the
\* call returns when all have ended or BatchTimeout passed (PeerClient.tla).
ShutdownPeers(c) ==
    /\ at[c] = "found"
    /\ shut' = shut \cup leaving[c]
    /\ leaving' = [leaving EXCEPT ![c] = {}]
    /\ at' = [at EXCEPT ![c] = "idle"]
    /\ UNCHANGED <<hash, local, region, made, lost, list, todo, newLocal, newRegion,
                   old, calls>>

CallStep(c) ==
    \/ \E info \in todo[c] : AddPeer(c, info) \/ FailToConnect(c, info)
    \/ Swap(c) \/ FindOldLocal(c) \/ FindOldRegion(c) \/ ShutdownPeers(c)

PeerSetNext ==
    \E c \in Callers : CallStep(c) \/ \E infos \in Lists : Call(c, infos)

PeerSetSpec == PeerSetInit /\ [][PeerSetNext]_peerVars

-----------------------------------------------------------------------------
(* What the pickers promise.                                               *)

\* How far a point is going up from a hash, around the end of the ring if need
\* be.
Distance(h, point) == IF point >= h THEN point - h ELSE HashSpace - h + point

\* The definition the binary search stands for: the peers with the point met
\* first, more than one only where points have the same hash.
FirstPeers(peers, h) ==
    {p \in peers : \E i \in 1 .. Replicas : \A q \in peers, j \in 1 .. Replicas :
        Distance(h, hash[<<p.addr, i>>]) <= Distance(h, hash[<<q.addr, j>>])}

\* The variables hold clients, pickers and call states.
TypeOK ==
    /\ made \subseteq [addr : Addrs, dc : DCs, gen : Nat \ {0}]
    /\ shut \subseteq made /\ lost \subseteq made /\ InUse \subseteq made
    /\ at \in [Callers -> {"idle", "building", "swapped", "local", "found"}]
    /\ list \in [Callers -> Lists \cup {{}}]
    /\ todo \in [Callers -> SUBSET [addr : Addrs, dc : DCs]]
    /\ \A c \in Callers : Handled(c) \subseteq made
    /\ calls \in 0 .. MaxCalls

\* In every picker in use, local or of a region, every key belongs to the
\* peer with the first point at or after its hash, however the list was
\* reached: sort and binary search together route as the consistent hash.
\* The state is well formed.
OwnerIsFirstPoint == TypeOK /\
    \A h \in Hashes :
       /\ local.peers # {} => Get(local, h) \in FirstPeers(local.peers, h)
       /\ \A dc \in DOMAIN region :
             GetClients(region, h) \cap FirstPeers(region[dc].peers, h) # {}
       /\ \A p \in GetClients(region, h) : p \in FirstPeers(region[p.dc].peers, h)

\* No picker in use holds a client that was shut down: what GetPeer returns
\* stays open for as long as it is in the ring.
RingIsOpen == InUse \cap shut = {}

\* Every client that was created is in use and open, in the hands of a running
\* call, shut down, or left behind by a call that failed to dial a peer: none
\* leaks with its connection and its goroutine, none is closed too early.
ClientsAccounted ==
    /\ RingIsOpen
    /\ made \subseteq InUse \cup shut \cup lost \cup UNION {Handled(c) : c \in Callers}

\* When a call has returned the pickers have one client for every peer of its
\* list, local or region as the list says, and no other; unless a peer could
\* not be dialled.
PickersFollowList ==
    [][\A c \in Callers : at[c] = "building" /\ at'[c] = "swapped" =>
         /\ {p.addr : p \in local'.peers} = {i.addr : i \in {i \in list[c] : i.dc = Here}}
         /\ {p.addr : p \in RegionPeers(region')} =
               {i.addr : i \in {i \in list[c] : i.dc # Here}}]_peerVars

-----------------------------------------------------------------------------
(* The pickers implement PeerRing, the promise Forwarding.tla builds on.   *)

HereClients == [addr : Addrs, dc : {Here}, gen : Nat \ {0}]

OwnerOf == [h \in Hashes |-> IF local.peers = {} THEN NoClient ELSE Get(local, h)]

\* Clients that left the local picker and wait to be shut down.
Retired ==
    UNION {IF at[c] = "swapped" THEN old[c].local \ local.peers
           ELSE {p \in leaving[c] : p.dc = Here} : c \in Callers}

Ring == INSTANCE PeerRing WITH
    Clients <- HereClients, Keys <- Hashes, NoPeer <- NoClient, ring <- local.peers, owner <- OwnerOf,
    retired <- Retired, closed <- {p \in shut : p.dc = Here}

\* Calls that do not overlap do what PeerRing allows: for every key, the owner
\* changes only to a new peer or when it left, and exactly the clients that
\* left the ring are closed, after they left and before the next change.
ImplementsPeerRing == Ring!RingSpec
=============================================================================
