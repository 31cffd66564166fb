------------------------------ MODULE EtcdPool ------------------------------
(***************************************************************************)
(* Discovery through etcd (etcd.go).  One goroutine keeps this node's key  *)
(* registered under a lease, another collects the keys and watches them.   *)
(* etcd is modelled from how it is used: keys under leases that expire,    *)
(* and a watch that delivers every change from a revision on.              *)
(***************************************************************************)
EXTENDS Discovery

VARIABLES
    held,       \* this node's key: "none", "orphan" (its lease is not kept
                \* alive) or "kept"
    keepAlive,  \* the keep-alive channel: "nil", "open" or "closed"
    reg,        \* where the registering goroutine is
    watch,      \* where the watching goroutine is
    collected,  \* the revision of the last listing
    next,       \* the next revision the watch delivers
    ignored,    \* a change was noticed but listing the keys failed
    canceled    \* etcd canceled the watch while the pool was running

etcdVars == <<held, keepAlive, reg, watch, collected, next, ignored, canceled>>

EtcdInit ==
    /\ held = "none" /\ keepAlive = "nil"
    /\ reg = "off" /\ watch = "off"
    /\ collected = 0 /\ next = 0
    /\ ignored = FALSE /\ canceled = FALSE

Keys == (Up \ {Self}) \cup (IF held = "none" THEN {} ELSE {Self})

-----------------------------------------------------------------------------
(* etcd.                                                                   *)

\* A lease nobody keeps alive runs out; so may, when the connection is lost or
\* the node is slow, one that is kept or about to be.
LeaseExpires ==
    /\ \/ held = "orphan" /\ reg # "keep" /\ UNCHANGED faults
       \/ (held = "kept" \/ (held = "orphan" /\ reg = "keep")) /\ Fault
    /\ held' = "none" /\ revision' = revision + 1
    /\ UNCHANGED <<cluster, pool, stop, update, picker, keepAlive, reg, watch, collected,
                   next, ignored, canceled>>

\* The client gives up on a lease: it is gone, the connection or the context.
KeepAliveCloses ==
    /\ keepAlive = "open"
    /\ \/ held # "kept" /\ UNCHANGED faults
       \/ held = "kept" /\ Fails
    /\ keepAlive' = "closed"
    /\ held' = IF held = "kept" THEN "orphan" ELSE held
    /\ UNCHANGED <<cluster, revision, pool, stop, update, picker, reg, watch, collected,
                   next, ignored, canceled>>

-----------------------------------------------------------------------------
(* register: grant a lease, put the key under it, keep it alive.           *)

\* The first attempt is made by NewEtcdPool, which fails with it; the watch
\* starts after it.
RegisterFails ==
    /\ Fails
    /\ IF watch = "off"
       THEN pool' = "failed" /\ stop' = "ctx" /\ reg' = "exited"
       ELSE reg' = "backoff" /\ UNCHANGED <<pool, stop>>

Grant ==
    /\ reg = "grant"
    /\ \/ stop = "no" /\ reg' = "put" /\ UNCHANGED <<faults, pool, stop>>
       \/ RegisterFails
    /\ UNCHANGED <<cluster, revision, update, picker, held, keepAlive, watch, collected,
                   next, ignored, canceled>>

\* A put that fails may have reached etcd.
Put ==
    /\ reg = "put"
    /\ \/ /\ stop = "no" /\ reg' = "keep"
          /\ held' = "orphan" /\ revision' = revision + 1
          /\ UNCHANGED <<faults, pool, stop>>
       \/ /\ RegisterFails
          /\ \/ held' = "orphan" /\ revision' = revision + 1
             \/ UNCHANGED <<held, revision>>
    /\ UNCHANGED <<cluster, update, picker, keepAlive, watch, collected, next, ignored,
                   canceled>>

\* The first success starts both goroutines: this one waits for heartbeats.
KeepAlive ==
    /\ reg = "keep"
    /\ \/ /\ stop = "no" /\ reg' = "wait" /\ keepAlive' = "open"
          /\ held' = IF held = "orphan" THEN "kept" ELSE held
          /\ watch' = IF watch = "off" THEN "get" ELSE watch
          /\ UNCHANGED <<faults, pool, stop>>
       \/ RegisterFails /\ keepAlive' = "nil" /\ UNCHANGED <<held, watch>>
    /\ UNCHANGED <<cluster, revision, update, picker, collected, next, ignored, canceled>>

\* Faulty: a closed channel is not given up.
keepClosed ==
    /\ reg = "wait" /\ keepAlive = "closed" /\ stop = "no"
    /\ UNCHANGED <<sharedVars, etcdVars>>

\* Without heartbeats the node registers again, unless it is shutting down.
LostKeepAlive ==
    /\ reg = "wait" /\ keepAlive = "closed" /\ stop = "no"
    /\ keepAlive' = "nil" /\ reg' = "grant"
    /\ UNCHANGED <<sharedVars, held, watch, collected, next, ignored, canceled>>

\* At shutdown the key is deleted and the lease revoked; both may fail.
Unregister ==
    /\ reg = "wait" /\ stop = "done"
    /\ reg' = "exited"
    /\ \/ /\ held # "none" /\ held' = "none" /\ revision' = revision + 1
          /\ UNCHANGED faults
       \/ held = "none" /\ UNCHANGED <<held, revision, faults>>
       \/ held # "none" /\ Fault /\ held' = "orphan" /\ UNCHANGED revision
    /\ UNCHANGED <<cluster, pool, stop, update, picker, keepAlive, watch, collected, next,
                   ignored, canceled>>

\* Faulty: the back-off does not look at the shutdown.
keepRetrying ==
    /\ reg = "backoff" /\ reg' = "grant"
    /\ UNCHANGED <<sharedVars, held, keepAlive, watch, collected, next, ignored, canceled>>

\* The back-off ends with its timer or, without unregistering, at shutdown.
RegisterBackOff ==
    /\ reg = "backoff"
    /\ reg' = IF stop = "done" THEN "exited" ELSE "grant"
    /\ UNCHANGED <<sharedVars, held, keepAlive, watch, collected, next, ignored, canceled>>

RegisterStep ==
    Grant \/ Put \/ KeepAlive \/ LostKeepAlive \/ Unregister \/ RegisterBackOff

-----------------------------------------------------------------------------
(* watch: collect the keys, then watch from the revision they were read at.*)

\* watchPeers fails: so does NewEtcdPool, which cancels the context but does
\* not stop the goroutine that registers; later attempts back off.
WatchFails(backoff) ==
    IF pool = "creating"
    THEN pool' = "failed" /\ stop' = "ctx" /\ watch' = "exited"
    ELSE watch' = backoff /\ UNCHANGED <<pool, stop>>

\* collectPeers on behalf of watchPeers.
Collect ==
    /\ watch = "get"
    /\ \/ /\ stop = "no"
          /\ OnUpdate("pool", Keys) /\ collected' = revision
          /\ watch' = "start" /\ ignored' = FALSE
          /\ UNCHANGED <<faults, pool, stop>>
       \/ Fails /\ WatchFails("backoff") /\ UNCHANGED <<update, collected, ignored>>
    /\ UNCHANGED <<cluster, revision, picker, held, keepAlive, reg, next, canceled>>

\* Faulty: watches from now on, not from the revision of the listing.
watchFromNow ==
    /\ watch = "start" /\ update["pool"] = NoUpdate
    /\ next' = revision + 1 /\ watch' = "read"
    /\ pool' = "up"
    /\ UNCHANGED <<cluster, revision, faults, stop, update, picker, held, keepAlive, reg,
                   collected, ignored, canceled>>

\* The watch starts once SetPeers returned.  It may take longer than
\* watchPeers waits, and then be the channel that is read after the back-off.
StartWatch ==
    /\ watch = "start" /\ update["pool"] = NoUpdate
    /\ next' = collected
    /\ \/ watch' = "read" /\ pool' = "up" /\ UNCHANGED <<faults, stop>>
       \/ Fault /\ WatchFails("late")
    /\ UNCHANGED <<cluster, revision, update, picker, held, keepAlive, reg, collected,
                   ignored, canceled>>

\* A response with one or more changes: the keys are read afresh.
WatchEvent ==
    /\ watch = "read" /\ next <= revision
    /\ next' \in next + 1 .. revision + 1 /\ watch' = "event"
    /\ UNCHANGED <<sharedVars, held, keepAlive, reg, collected, ignored, canceled>>

\* collectPeers for an event: an error is ignored.
CollectEvent ==
    /\ watch = "event"
    /\ \/ /\ stop = "no"
          /\ OnUpdate("pool", Keys) /\ ignored' = FALSE /\ UNCHANGED faults
       \/ Fails /\ ignored' = TRUE /\ UNCHANGED update
    /\ watch' = "collected"
    /\ UNCHANGED <<cluster, revision, pool, stop, picker, held, keepAlive, reg, collected,
                   next, canceled>>

Collected ==
    /\ watch = "collected" /\ update["pool"] = NoUpdate
    /\ watch' = "read"
    /\ UNCHANGED <<sharedVars, held, keepAlive, reg, collected, next, ignored, canceled>>

\* The channel closes, or the response is an error: start over.  A response
\* that says the watch was canceled ends the loop, whatever the reason.
WatchEnds ==
    /\ watch = "read" /\ Fails
    /\ \/ watch' = "restart" /\ UNCHANGED canceled
       \/ watch' = "exited" /\ canceled' = (stop = "no")
    /\ UNCHANGED <<cluster, revision, pool, stop, update, picker, held, keepAlive, reg,
                   collected, next, ignored>>

Restart ==
    /\ watch = "restart"
    /\ watch' = IF stop = "no" THEN "get" ELSE "exited"
    /\ UNCHANGED <<sharedVars, held, keepAlive, reg, collected, next, ignored, canceled>>

WatchBackOff ==
    /\ watch \in {"backoff", "late"}
    /\ IF stop = "done" THEN watch' = "exited"
       ELSE watch' \in {"restart"} \cup (IF watch = "late" THEN {"read"} ELSE {})
    /\ UNCHANGED <<sharedVars, held, keepAlive, reg, collected, next, ignored, canceled>>

WatchStep ==
    Collect \/ StartWatch \/ WatchEvent \/ CollectEvent \/ Collected \/ Restart \/ WatchBackOff

-----------------------------------------------------------------------------
NewEtcdPool ==
    /\ pool' = "creating" /\ reg' = "grant"
    /\ UNCHANGED <<cluster, revision, faults, stop, update, picker, held, keepAlive, watch,
                   collected, next, ignored, canceled>>

\* Close returns when both goroutines have.
EtcdExited == reg = "exited" /\ watch = "exited"

EtcdStep == LeaseExpires \/ KeepAliveCloses \/ RegisterStep \/ WatchStep \/ WatchEnds

EtcdTypeOK ==
    /\ held \in {"none", "orphan", "kept"} /\ keepAlive \in {"nil", "open", "closed"}
    /\ reg \in {"off", "grant", "put", "keep", "wait", "backoff", "exited"}
    /\ watch \in {"off", "get", "start", "read", "event", "collected", "restart", "backoff",
                  "late", "exited"}
    /\ collected <= revision /\ next <= revision + 1
    /\ ignored \in BOOLEAN /\ canceled \in BOOLEAN

\* What a pool that waits for changes has told SetPeers.
EtcdAgrees ==
    watch = "read" /\ next > revision /\ ~ignored /\ stop = "no" => picker = Keys
=============================================================================
