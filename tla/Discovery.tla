----------------------------- MODULE Discovery -----------------------------
(***************************************************************************)
(* What the discovery pools of a node share: a cluster whose nodes come    *)
(* and go, the service that tells of them, and the goroutines that hand    *)
(* lists to V1Instance.SetPeers (OnUpdate) and wait for it to return.      *)
(* Here SetPeers only replaces the list; PeerSet.tla has its inside.       *)
(***************************************************************************)
EXTENDS Naturals, FiniteSets

CONSTANTS
    Self,         \* this node
    Others,       \* the other nodes
    NoUpdate,     \* no list is being handed over
    Blank,        \* an address no node has
    MaxRevision,  \* bound: changes of other nodes
    MaxFaults     \* bound: failed calls and lost connections

ASSUME DiscoveryAssumption ==
    /\ Self \notin Others /\ Blank \notin Others \cup {Self} /\ IsFiniteSet(Others)
    /\ \A list \in SUBSET (Others \cup {Self, Blank}) : list # NoUpdate
    /\ MaxRevision \in Nat /\ MaxFaults \in Nat

Nodes == Others \cup {Self}
\* The lists of peers that may be handed over.
PeerLists == SUBSET (Nodes \cup {Blank})
\* Goroutines that hand lists over: the pool's own and, with member-list, the
\* one that joins.
Updaters == {"pool", "join"}

VARIABLES
    cluster,    \* what each node is: "down", "scheduled", "starting" or "up"
    revision,   \* how often the cluster changed
    faults,     \* faults so far
    pool,       \* the pool: "none", "creating", "up" or "failed"
    stop,       \* "no", "ctx": its context is done, "done": its goroutines are told
    update,     \* the list each caller of SetPeers hands over
    picker      \* the peers of the last list SetPeers took

sharedVars == <<cluster, revision, faults, pool, stop, update, picker>>

Up == {n \in Nodes : cluster[n] = "up"}

SharedInit ==
    /\ cluster \in [Nodes -> {"down", "starting", "up"}]
    /\ \A n \in Others : cluster[n] # "starting"
    /\ revision = 1 /\ faults = 0
    /\ pool = "none" /\ stop = "no"
    /\ update = [c \in Updaters |-> NoUpdate]
    /\ picker = {}

\* A node is scheduled, starts, becomes ready or goes away.
NodeChanges(n, status) ==
    /\ revision < MaxRevision /\ cluster[n] # status
    /\ cluster' = [cluster EXCEPT ![n] = status]
    /\ revision' = revision + 1
    /\ UNCHANGED <<faults, pool, stop, update, picker>>

\* A call to a service fails.  After the context is done every call does.
Fails ==
    \/ stop = "no" /\ faults < MaxFaults /\ faults' = faults + 1
    \/ stop # "no" /\ UNCHANGED faults

\* Nothing but the world outside can fail once the context is done.
Fault == faults < MaxFaults /\ faults' = faults + 1

OnUpdate(c, peers) == update' = [update EXCEPT ![c] = peers]

\* SetPeers has the new pickers in place and returns.
SetPeersReturns(c) ==
    /\ update[c] # NoUpdate
    /\ picker' = update[c]
    /\ update' = [update EXCEPT ![c] = NoUpdate]
    /\ UNCHANGED <<cluster, revision, faults, pool, stop>>

\* HealthCheck: this node is among the peers it was told of.
Healthy == Self \in picker
=============================================================================
