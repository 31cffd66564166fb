------------------------------- MODULE Daemon -------------------------------
(***************************************************************************)
(* A daemon from SpawnDaemon to Close (daemon.go): Start acquires its      *)
(* parts one by one, any of which may fail and send it to Close; the       *)
(* discovery pool runs beside the rest of Start, the requests and Close.   *)
(***************************************************************************)
EXTENDS EtcdPool, DNSPool, K8sPool, MemberListPool

CONSTANTS
    Kinds,     \* discovery types: "none", "etcd", "dns", "k8s", "member-list"
    Serving    \* bound: those with which requests arrive

VARIABLES
    kind,       \* PeerDiscoveryType
    tls,        \* whether TLS and the status listener are configured
    stage,      \* what Start or Close does next
    failedAt,   \* the stage of Start that failed
    res,        \* what is running or open
    inflight    \* servers that are answering a request

daemonVars == <<kind, tls, stage, failedAt, res, inflight>>
vars == <<sharedVars, etcdVars, dnsVars, k8sVars, memberVars, daemonVars>>

Servers == {"grpc", "gateway", "http", "status"}

Init ==
    /\ kind \in Kinds /\ tls \in BOOLEAN /\ (kind # "none" => ~tls)
    /\ SharedInit /\ cluster[Self] = IF kind = "k8s" THEN "starting" ELSE "down"
    /\ EtcdInit /\ DNSInit /\ MemberInit
    /\ K8sInit /\ (kind # "k8s" => mechanism = "pods")
    /\ stage = "stats" /\ failedAt = "none"
    /\ res = {} /\ inflight = {}

NoPoolSteps == UNCHANGED <<etcdVars, dnsVars, k8sVars, memberVars>>

-----------------------------------------------------------------------------
(* Start.                                                                  *)

StartFails(s) ==
    /\ failedAt' = s /\ stage' = "close"
    /\ UNCHANGED <<kind, tls, inflight>>

\* A stage that cannot fail once it is reached, or that fails with nothing
\* acquired but what is already there.
Acquire(s, what, following) ==
    /\ stage = s
    /\ \/ /\ res' = res \cup what /\ stage' = following
          /\ UNCHANGED <<faults, failedAt, kind, tls, inflight>>
       \/ Fault /\ StartFails(s) /\ UNCHANGED res
    /\ UNCHANGED <<cluster, revision, pool, stop, update, picker>> /\ NoPoolSteps

\* The statistics goroutine runs before SetupTLS may fail.
StartStats ==
    /\ stage = "stats"
    /\ res' = res \cup {"stats"}
    /\ \/ stage' = "instance" /\ UNCHANGED <<faults, failedAt, kind, tls, inflight>>
       \/ Fault /\ StartFails("stats")
    /\ UNCHANGED <<cluster, revision, pool, stop, update, picker>> /\ NoPoolSteps

\* NewV1Instance starts the workers and the GLOBAL loops before it loads the
\* cache: if that fails they run, and there is no instance to close.
NewV1Instance ==
    /\ stage = "instance"
    /\ \/ /\ res' = res \cup {"workers", "instance"} /\ stage' = "grpc"
          /\ UNCHANGED <<faults, failedAt, kind, tls, inflight>>
       \/ /\ Fault /\ StartFails("instance")
          /\ res' \in {res, res \cup {"workers"}}
    /\ UNCHANGED <<cluster, revision, pool, stop, update, picker>> /\ NoPoolSteps

StartGRPC == Acquire("grpc", {"grpc"}, "gateway")
StartGateway == Acquire("gateway", IF tls THEN {"gateway"} ELSE {}, "pool")

\* The pool is created with SetPeers as its OnUpdate.
CreatePool ==
    /\ stage = "pool"
    /\ stage' = IF kind = "none" THEN "register" ELSE "creating"
    /\ \/ kind = "none" /\ UNCHANGED sharedVars /\ NoPoolSteps
       \/ kind = "etcd" /\ NewEtcdPool /\ UNCHANGED <<dnsVars, k8sVars, memberVars>>
       \/ kind = "dns" /\ NewDNSPool /\ UNCHANGED <<etcdVars, k8sVars, memberVars>>
       \/ kind = "k8s" /\ NewK8sPool /\ UNCHANGED <<etcdVars, dnsVars, memberVars>>
       \/ kind = "member-list" /\ NewMemberListPool /\ UNCHANGED <<etcdVars, dnsVars, k8sVars>>
    /\ UNCHANGED <<failedAt, res, inflight, kind, tls>>

PoolCreated ==
    /\ stage = "creating" /\ pool \in {"up", "failed"}
    /\ \/ /\ pool = "up" /\ stage' = "register"
          /\ UNCHANGED <<failedAt, kind, tls, inflight>>
       \/ pool = "failed" /\ StartFails("pool")
    /\ UNCHANGED <<sharedVars, res>> /\ NoPoolSteps

\* The context of the gateway is there before its handler is registered.
RegisterGateway ==
    /\ stage = "register"
    /\ res' = res \cup {"gwctx"}
    /\ \/ stage' = "http" /\ UNCHANGED <<faults, failedAt, kind, tls, inflight>>
       \/ Fault /\ StartFails("register")
    /\ UNCHANGED <<cluster, revision, pool, stop, update, picker>> /\ NoPoolSteps

\* The HTTP listener is open, but not served until the status listener is.
ListenHTTP == Acquire("http", {"listener"}, "status")

ServeHTTP ==
    /\ stage = "status"
    /\ \/ /\ res' = (res \ {"listener"}) \cup {"http"} \cup (IF tls THEN {"status"} ELSE {})
          /\ stage' = "connect"
          /\ UNCHANGED <<faults, failedAt, kind, tls, inflight>>
       \/ tls /\ Fault /\ StartFails("status") /\ UNCHANGED res
    /\ UNCHANGED <<cluster, revision, pool, stop, update, picker>> /\ NoPoolSteps

\* One connection that fails ends Start when its context does.
WaitForConnect == Acquire("connect", {}, "up")

StartStep ==
    \/ StartStats \/ NewV1Instance \/ StartGRPC \/ StartGateway \/ CreatePool \/ PoolCreated
    \/ RegisterGateway \/ ListenHTTP \/ ServeHTTP \/ WaitForConnect

-----------------------------------------------------------------------------
(* Requests.                                                               *)

Arrive(s) ==
    /\ kind \in Serving /\ s \in res \ inflight
    /\ inflight' = inflight \cup {s}
    /\ UNCHANGED <<sharedVars, kind, tls, stage, failedAt, res>> /\ NoPoolSteps

Answer(s) ==
    /\ s \in inflight
    /\ inflight' = inflight \ {s}
    /\ UNCHANGED <<sharedVars, kind, tls, stage, failedAt, res>> /\ NoPoolSteps

\* Without discovery the program that embeds the daemon calls SetPeers.
DaemonSetPeers ==
    /\ kind = "none" /\ stage = "up" /\ update["pool"] = NoUpdate
    /\ picker # Up \cup {Self}
    /\ OnUpdate("pool", Up \cup {Self})
    /\ UNCHANGED <<cluster, revision, faults, pool, stop, picker, daemonVars>> /\ NoPoolSteps

-----------------------------------------------------------------------------
(* Close, which also cleans up after a Start that failed.                  *)

CloseDaemon ==
    /\ stage = "up" /\ stage' = "close"
    /\ UNCHANGED <<sharedVars, kind, tls, failedAt, res, inflight>> /\ NoPoolSteps

\* s.pool is set only when New...Pool succeeded.  The etcd pool cancels its
\* context and then tells its goroutines; the gossip pool leaves.
ClosePool ==
    /\ stage = "close"
    /\ stage' = "stopping"
    /\ IF pool # "up" THEN UNCHANGED <<sharedVars, memberVars>>
       ELSE IF kind = "member-list" THEN Leave
       ELSE /\ stop' = IF kind = "k8s" THEN "done" ELSE "ctx"
            /\ UNCHANGED <<cluster, revision, faults, pool, update, picker, memberVars>>
    /\ UNCHANGED <<etcdVars, dnsVars, k8sVars, kind, tls, failedAt, res, inflight>>

StopEtcd ==
    /\ stage = "stopping" /\ kind = "etcd" /\ pool = "up" /\ stop = "ctx"
    /\ stop' = "done"
    /\ UNCHANGED <<cluster, revision, faults, pool, update, picker, daemonVars>> /\ NoPoolSteps

\* Closing the etcd pool waits for its goroutines, leaving the gossip for the
\* last update; the others do not wait.
PoolClosed ==
    /\ stage = "stopping"
    /\ \/ kind \in {"none", "dns", "k8s"} \/ pool # "up"
       \/ kind = "etcd" /\ EtcdExited
       \/ kind = "member-list" /\ update["pool"] = NoUpdate
    /\ stage' = "servers"
    /\ UNCHANGED <<sharedVars, kind, tls, failedAt, res, inflight>> /\ NoPoolSteps

\* Each server stops accepting, then waits for its requests: first the HTTP
\* servers, then the gRPC servers.
ShutdownOrder == <<"http", "status", "grpc", "gateway">>

StopServer(i) ==
    /\ stage = "servers" /\ ShutdownOrder[i] \in res
    /\ \A j \in 1 .. i - 1 : ShutdownOrder[j] \notin res \cup inflight
    /\ res' = res \ {ShutdownOrder[i]}
    /\ UNCHANGED <<sharedVars, kind, tls, stage, failedAt, inflight>> /\ NoPoolSteps

\* Faulty: does not wait for the requests the servers are answering.
instanceFirst ==
    /\ stage = "servers" /\ res \cap Servers = {}
    /\ res' = IF "instance" \in res THEN res \ {"instance", "workers"} ELSE res
    /\ stage' = "rest"
    /\ UNCHANGED <<sharedVars, kind, tls, failedAt, inflight>> /\ NoPoolSteps

\* With the servers stopped the instance is closed, if there is one.
CloseInstance ==
    /\ stage = "servers" /\ (res \cup inflight) \cap Servers = {}
    /\ res' = IF "instance" \in res THEN res \ {"instance", "workers"} ELSE res
    /\ stage' = "rest"
    /\ UNCHANGED <<sharedVars, kind, tls, failedAt, inflight>> /\ NoPoolSteps

\* wg.Stop, the statistics, the context of the gateway.
CloseRest ==
    /\ stage = "rest"
    /\ res' = res \ {"stats", "gwctx"}
    /\ stage' = "closed"
    /\ UNCHANGED <<sharedVars, kind, tls, failedAt, inflight>> /\ NoPoolSteps

CloseStep ==
    \/ ClosePool \/ StopEtcd \/ PoolClosed
    \/ \E i \in 1 .. Len(ShutdownOrder) : StopServer(i)
    \/ CloseInstance \/ CloseRest

-----------------------------------------------------------------------------
(* The composition.                                                        *)

\* What a node of the cluster may become, as far as the service tells.
Statuses == IF kind = "k8s" THEN {"down", "scheduled", "starting", "up"} ELSE {"down", "up"}

ClusterChanges ==
    /\ \E n \in IF kind = "dns" THEN Nodes ELSE Others, status \in Statuses :
          NodeChanges(n, status)
    /\ UNCHANGED daemonVars /\ NoPoolSteps

\* In Kubernetes this node may become ready.
SelfReady ==
    /\ kind = "k8s" /\ NodeChanges(Self, IF cluster[Self] = "up" THEN "starting" ELSE "up")
    /\ UNCHANGED daemonVars /\ NoPoolSteps

EtcdOnly(Step) == kind = "etcd" /\ Step /\ UNCHANGED <<dnsVars, k8sVars, memberVars, daemonVars>>
DNSOnly(Step) == kind = "dns" /\ Step /\ UNCHANGED <<etcdVars, k8sVars, memberVars, daemonVars>>
K8sOnly(Step) == kind = "k8s" /\ Step /\ UNCHANGED <<etcdVars, dnsVars, memberVars, daemonVars>>
MemberOnly(Step) ==
    kind = "member-list" /\ Step /\ UNCHANGED <<etcdVars, dnsVars, k8sVars, daemonVars>>

Apply(c) == SetPeersReturns(c) /\ UNCHANGED daemonVars /\ NoPoolSteps

Next ==
    \/ StartStep \/ CloseDaemon \/ CloseStep
    \/ \E s \in Servers : Arrive(s) \/ Answer(s)
    \/ DaemonSetPeers
    \/ \E c \in Updaters : Apply(c)
    \/ ClusterChanges \/ SelfReady
    \/ EtcdOnly(EtcdStep) \/ DNSOnly(DNSStep) \/ K8sOnly(K8sStep) \/ MemberOnly(MemberStep)

\* Goroutines are scheduled, SetPeers returns (BatchTimeout bounds it) and
\* requests are answered; the client of etcd notices that a lease is gone or
\* its context done, and the services deliver what they know.
Fairness ==
    /\ WF_vars(StartStep) /\ WF_vars(CloseStep)
    /\ \A s \in Servers : WF_vars(Answer(s))
    /\ \A c \in Updaters : WF_vars(Apply(c))
    /\ WF_vars(EtcdOnly(RegisterStep)) /\ WF_vars(EtcdOnly(WatchStep))
    /\ WF_vars(EtcdOnly(held # "kept" /\ KeepAliveCloses))
    /\ WF_vars(EtcdOnly(stop # "no" /\ WatchEnds))
    /\ WF_vars(DNSOnly(DNSStep)) /\ WF_vars(K8sOnly(K8sStep))
    /\ WF_vars(MemberOnly(MemberStep))

Spec == Init /\ [][Next]_vars /\ Fairness

-----------------------------------------------------------------------------
\* The variables hold stages, resources and what the pools allow.
TypeOK ==
    /\ cluster \in [Nodes -> {"down", "scheduled", "starting", "up"}]
    /\ revision \in Nat /\ faults \in 0 .. MaxFaults
    /\ pool \in {"none", "creating", "up", "failed"} /\ stop \in {"no", "ctx", "done"}
    /\ update \in [Updaters -> PeerLists \cup {NoUpdate}] /\ picker \in PeerLists
    /\ EtcdTypeOK /\ DNSTypeOK /\ K8sTypeOK /\ MemberTypeOK
    /\ res \subseteq Servers \cup {"stats", "workers", "instance", "gwctx", "listener"}
    /\ inflight \subseteq Servers

\* No change of the cluster is missed between a listing and the events after
\* it: a pool that has handled all it was told of has given SetPeers the peers
\* of the moment, whatever failed before.  Exempt are an etcd listing that
\* failed for an event, DNS rounds with a failed query, and gossip lists that
\* were handed over at the same time.  The state is well formed.
PeersFollowCluster == TypeOK /\ EtcdAgrees /\ DNSAgrees /\ K8sAgrees /\ MemberAgrees

\* A DNS outage never empties the list of peers, and a node in Kubernetes that
\* has found itself never drops itself, ready or not.
StaysListed ==
    [][/\ kind = "dns" /\ picker # {} => picker' # {}
       /\ kind = "k8s" /\ Healthy => Healthy']_vars

\* What Close cannot find: the HTTP listener of a Start whose status listener
\* failed, and the goroutines of an instance that failed to load.
Unreleased ==
    IF failedAt = "status" THEN {"listener"}
    ELSE IF failedAt = "instance" THEN res \cap {"workers"} ELSE {}

\* A request that is being answered finds the instance open until it is, and
\* when Close returns nothing is left running or open but Unreleased; an etcd
\* pool that was created has ended, with no list half handed over.
OrderlyClose ==
    /\ inflight # {} => {"instance", "workers"} \subseteq res
    /\ stage = "closed" =>
          /\ res = Unreleased
          /\ kind = "etcd" /\ pool = "up" => EtcdExited /\ update["pool"] = NoUpdate

\* Once faults stop, the peers in use are and stay those of the cluster; with
\* etcd the node is registered again however its lease was lost.  Exempt is a
\* pool whose watch etcd canceled, and what PeersFollowCluster exempts.
Settled ==
    CASE kind = "etcd" -> held = "kept" /\ (ignored \/ canceled \/ picker = Keys)
      [] kind = "dns" -> Up = {} \/ picker = Up
      [] kind = "k8s" -> picker = Extract(cluster)
      [] kind = "member-list" -> overlapped \/ picker = Up \cup {Self}
      [] OTHER -> TRUE

\* Every pool that keeps running reaches the state Settled describes and stays
\* in it: watch, lease, poll, informer and gossip all recover.
ViewConverges == <>[](pool = "up" /\ stop = "no" => Settled)

\* Close ends, whatever the pool, the requests and a failed Start left: it
\* waits for the requests in flight and for the goroutines of the etcd pool.
CloseReturns == stage = "close" ~> stage = "closed"
=============================================================================
