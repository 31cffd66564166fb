----------------------------- MODULE GlobalSync -----------------------------
(***************************************************************************)
(* A GLOBAL token bucket key across its owner and the other peers: peers   *)
(* answer from their own cache and queue the hits (getGlobalRateLimit),    *)
(* runAsyncHits aggregates and sends them, the owner applies them and      *)
(* queues an update, runBroadcasts reads the state and overwrites every    *)
(* peer's copy (UpdatePeerGlobals).  The window does not end meanwhile.    *)
(***************************************************************************)
EXTENDS Integers, Sequences, SequencesExt, FiniteSets

CONSTANTS
    Peers,       \* the peers that do not own the key
    Limit,       \* the limit of the key
    Hits,        \* hits values of client requests
    Resets,      \* whether clients may send RESET_REMAINING: a subset of BOOLEAN
    MayFail,     \* whether peer calls may fail: a subset of BOOLEAN
    MaxHits,     \* bound: hits clients send in all
    NoItem       \* no bucket is cached

ASSUME GlobalAssumption ==
    /\ Limit \in Nat /\ MaxHits \in Nat
    /\ Hits \subseteq Nat \ {0} /\ Resets \subseteq BOOLEAN /\ MayFail \subseteq BOOLEAN
    /\ NoItem \notin 0 .. Limit

VARIABLES
    cache,           \* each peer's remaining tokens for the key, or NoItem
    answered,        \* requests each peer has answered whose hits are not queued yet
    pending,         \* each peer's aggregated hits not yet sent
    wire,            \* each peer's hits inside a GetPeerRateLimits call
    owner,           \* the owner's remaining tokens, or NoItem
    applied,         \* owner requests applied whose update is not queued yet
    broadcastQueue,  \* updates not yet collected
    update,          \* the collected update of runBroadcasts
    status,          \* the state being broadcast
    targets,         \* peers the running broadcast has not reached
    asked,           \* history: hits each peer has taken from clients
    counted,         \* history: hits of each peer that reached the owner
    failed,          \* history: some peer call has failed
    unsent           \* bound: hits clients may still send

syncVars == <<cache, answered, pending, wire, owner, applied, broadcastQueue, update, status,
              targets, asked, counted, failed, unsent>>

None == [hits |-> 0, reset |-> FALSE]

SyncInit ==
    /\ cache = [p \in Peers |-> NoItem]
    /\ answered = [p \in Peers |-> <<>>]
    /\ pending = [p \in Peers |-> None]
    /\ wire = [p \in Peers |-> None]
    /\ owner = NoItem
    /\ applied = <<>> /\ broadcastQueue = <<>> /\ update = None
    /\ status = NoItem /\ targets = {}
    /\ asked = [p \in Peers |-> 0] /\ counted = [p \in Peers |-> 0]
    /\ failed = FALSE /\ unsent = MaxHits

-----------------------------------------------------------------------------
(* The token bucket with one limit and an open window.                     *)

tokenBucket(item, r, drain) ==
    IF item = NoItem THEN IF r.hits > Limit THEN Limit ELSE Limit - r.hits
    ELSE IF r.reset THEN NoItem
    ELSE IF r.hits <= item THEN item - r.hits
    ELSE IF drain THEN 0 ELSE item

\* The owner's state as UpdatePeerGlobals stores it: the answer to a reset
\* carries a reset time of zero, so that copy is expired on arrival.
Copy(item, r) == IF item # NoItem /\ r.reset THEN NoItem ELSE tokenBucket(item, r, FALSE)

\* Faulty: a second request for the key replaces the first.
ReplaceHits(sum, r) == r

\* A second request for the key adds its hits and passes on its reset.
Aggregate(sum, r) == [hits |-> sum.hits + r.hits, reset |-> sum.reset \/ r.reset]

-----------------------------------------------------------------------------
(* Clients.                                                                *)

Request(n, reset) == [hits |-> n, reset |-> reset]

\* getGlobalRateLimit: answer from the local cache, then (later) QueueHit.
getGlobalRateLimit(p, r) ==
    /\ r.hits <= unsent
    /\ unsent' = unsent - r.hits
    /\ asked' = [asked EXCEPT ![p] = @ + r.hits]
    /\ cache' = [cache EXCEPT ![p] = tokenBucket(@, r, FALSE)]
    /\ answered' = [answered EXCEPT ![p] = Append(@, r)]
    /\ UNCHANGED <<pending, wire, owner, applied, broadcastQueue, update, status, targets,
                   counted, failed>>

\* getLocalRateLimit on the owner: apply, then (later) QueueUpdate.
getLocalRateLimit(r) ==
    /\ r.hits <= unsent
    /\ unsent' = unsent - r.hits
    /\ owner' = tokenBucket(owner, r, FALSE)
    /\ applied' = Append(applied, r)
    /\ UNCHANGED <<cache, answered, pending, wire, broadcastQueue, update, status, targets,
                   asked, counted, failed>>

-----------------------------------------------------------------------------
(* Peer to owner: QueueHit, sendHits and GetPeerRateLimits.  Requests that *)
(* run side by side queue their hits in any order.                         *)

\* QueueHit, and the loop of runAsyncHits that takes the hits in.
AggregateHit(p) ==
    \E i \in 1 .. Len(answered[p]) :
        /\ pending' = [pending EXCEPT ![p] = Aggregate(@, answered[p][i])]
        /\ answered' = [answered EXCEPT ![p] = RemoveAt(@, i)]
        /\ UNCHANGED <<cache, wire, owner, applied, broadcastQueue, update, status, targets,
                       asked, counted, failed, unsent>>

sendHits(p) ==
    /\ wire[p] = None /\ pending[p] # None
    /\ wire' = [wire EXCEPT ![p] = pending[p]]
    /\ pending' = [pending EXCEPT ![p] = None]
    /\ UNCHANGED <<cache, answered, owner, applied, broadcastQueue, update, status, targets,
                   asked, counted, failed, unsent>>

\* Forwarded global hits drain what is left.  The call may report a failure
\* although the owner applied it; either way the peer does not send it again.
GetPeerRateLimits(p, lost) ==
    /\ wire[p] # None
    /\ owner' = tokenBucket(owner, wire[p], TRUE)
    /\ applied' = Append(applied, wire[p])
    /\ counted' = [counted EXCEPT ![p] = @ + wire[p].hits]
    /\ wire' = [wire EXCEPT ![p] = None]
    /\ failed' = (failed \/ lost)
    /\ UNCHANGED <<cache, answered, pending, broadcastQueue, update, status, targets, asked,
                   unsent>>

\* The call fails before the owner saw it: the hits are gone.
LoseHits(p) ==
    /\ wire[p] # None
    /\ wire' = [wire EXCEPT ![p] = None]
    /\ failed' = TRUE
    /\ UNCHANGED <<cache, answered, pending, owner, applied, broadcastQueue, update, status,
                   targets, asked, counted, unsent>>

-----------------------------------------------------------------------------
(* Owner to peers: QueueUpdate, runBroadcasts, UpdatePeerGlobals.          *)

QueueUpdate ==
    \E i \in 1 .. Len(applied) :
        /\ broadcastQueue' = Append(broadcastQueue, applied[i])
        /\ applied' = RemoveAt(applied, i)
        /\ UNCHANGED <<cache, answered, pending, wire, owner, update, status, targets,
                       asked, counted, failed, unsent>>

\* Faulty: updates that arrive during a broadcast are cleared with it.
collectDuring ==
    /\ broadcastQueue # <<>>
    /\ update' = IF targets = {} THEN Head(broadcastQueue) ELSE update
    /\ broadcastQueue' = Tail(broadcastQueue)
    /\ UNCHANGED <<cache, answered, pending, wire, owner, applied, status, targets, asked,
                   counted, failed, unsent>>

\* The loop runs one broadcast at a time and collects updates in between.
CollectUpdate ==
    /\ targets = {} /\ broadcastQueue # <<>>
    /\ update' = Head(broadcastQueue)
    /\ broadcastQueue' = Tail(broadcastQueue)
    /\ UNCHANGED <<cache, answered, pending, wire, owner, applied, status, targets, asked,
                   counted, failed, unsent>>

\* The update with zero hits is run as a request to read the state.
broadcastPeers ==
    LET read == [update EXCEPT !.hits = 0]
    IN  /\ targets = {} /\ update # None
        /\ status' = Copy(owner, read)
        /\ owner' = tokenBucket(owner, read, FALSE)
        /\ targets' = Peers
        /\ update' = None
        /\ UNCHANGED <<cache, answered, pending, wire, applied, broadcastQueue, asked,
                       counted, failed, unsent>>

UpdatePeerGlobals(p, lost) ==
    /\ p \in targets
    /\ cache' = [cache EXCEPT ![p] = status]
    /\ targets' = targets \ {p}
    /\ failed' = (failed \/ lost)
    /\ UNCHANGED <<answered, pending, wire, owner, applied, broadcastQueue, update, status,
                   asked, counted, unsent>>

LoseUpdate(p) ==
    /\ p \in targets
    /\ targets' = targets \ {p}
    /\ failed' = TRUE
    /\ UNCHANGED <<cache, answered, pending, wire, owner, applied, broadcastQueue, update,
                   status, asked, counted, unsent>>

-----------------------------------------------------------------------------
Client ==
    \E n \in Hits, reset \in Resets :
        \/ getLocalRateLimit(Request(n, reset))
        \/ \E p \in Peers : getGlobalRateLimit(p, Request(n, reset))

PeerCall(p) ==
    \E lost \in MayFail :
        \/ GetPeerRateLimits(p, lost) \/ UpdatePeerGlobals(p, lost)
        \/ lost /\ (LoseHits(p) \/ LoseUpdate(p))

SyncNext ==
    \/ Client
    \/ \E p \in Peers : AggregateHit(p) \/ sendHits(p) \/ PeerCall(p)
    \/ QueueUpdate \/ CollectUpdate \/ broadcastPeers

\* The loops run, their intervals tick, and peer calls end by GlobalTimeout.
SyncFairness ==
    /\ \A p \in Peers : WF_syncVars(AggregateHit(p)) /\ WF_syncVars(sendHits(p)) /\ WF_syncVars(PeerCall(p))
    /\ WF_syncVars(QueueUpdate) /\ WF_syncVars(CollectUpdate) /\ WF_syncVars(broadcastPeers)

SyncSpec == SyncInit /\ [][SyncNext]_syncVars /\ SyncFairness

-----------------------------------------------------------------------------
\* The single hits of a sequence of requests.
HitsOf(s) == UNION {{i} \X (1 .. s[i].hits) : i \in 1 .. Len(s)}

\* What a caller sees of a bucket: none is a full one.
View(item) == IF item = NoItem THEN Limit ELSE item

\* A queued request asks for hits: the code queues no other.
Requests == [hits : Nat \ {0}, reset : BOOLEAN]

Quiet ==
    /\ \A p \in Peers : answered[p] = <<>> /\ pending[p] = None /\ wire[p] = None
    /\ applied = <<>> /\ broadcastQueue = <<>> /\ update = None /\ targets = {}

\* The variables hold balances within the limit and queued requests.
SyncTypeOK ==
    /\ cache \in [Peers -> 0 .. Limit \cup {NoItem}]
    /\ owner \in 0 .. Limit \cup {NoItem} /\ status \in 0 .. Limit \cup {NoItem}
    /\ answered \in [Peers -> Seq(Requests)]
    /\ applied \in Seq(Requests) /\ broadcastQueue \in Seq(Requests)
    /\ pending \in [Peers -> Requests \cup {None}] /\ wire \in [Peers -> Requests \cup {None}]
    /\ update \in Requests \cup {None} /\ targets \subseteq Peers
    /\ asked \in [Peers -> Nat] /\ counted \in [Peers -> Nat]
    /\ failed \in BOOLEAN /\ unsent \in 0 .. MaxHits

\* Every hit a peer answered for reaches the owner once: while no peer call
\* has failed, the hits it took are to be queued, aggregated, on the wire or
\* counted.  The state is well formed.
HitsConserved ==
    /\ SyncTypeOK
    /\ ~failed => \A p \in Peers :
          asked[p] = Cardinality(HitsOf(answered[p])) + pending[p].hits + wire[p].hits + counted[p]

\* Copies agree with the owner once the traffic has settled and no peer call
\* has failed: no broadcast carries a state older than the last change.
QuietAgrees ==
    Quiet /\ ~failed => \A p \in Peers : View(cache[p]) = View(owner)

\* The cluster does settle into agreement after the last request.
Converges ==
    <>[](failed \/ \A p \in Peers : View(cache[p]) = View(owner))
=============================================================================
