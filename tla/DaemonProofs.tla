---------------------------- MODULE DaemonProofs ----------------------------
(***************************************************************************)
(* Proofs about a daemon and its discovery pool: the peers in use follow   *)
(* the cluster, a node stays listed, and Close leaves nothing behind.      *)
(***************************************************************************)
EXTENDS Daemon, FiniteSetTheorems, TLAPS

\* The stages before the pool is created, those after the instance is there
\* and those of Close.
Early == {"stats", "instance", "grpc", "gateway", "pool"}
Serves == {"grpc", "gateway", "pool", "creating", "register", "http", "status", "connect", "up"}
Stopped == {"servers", "rest", "closed"}
Closing == {"close", "stopping"} \cup Stopped

\* The list SetPeers took last or, while one is handed over, is about to take.
Latest ==
    IF update["join"] # NoUpdate THEN update["join"]
    ELSE IF update["pool"] # NoUpdate THEN update["pool"] ELSE picker

SharedInv ==
    /\ TypeOK
    /\ stage \in Early => pool = "none" /\ reg = "off" /\ poll = "off" /\ informer = "off"
                             /\ join = "off"
    /\ update["join"] # NoUpdate => kind = "member-list" /\ join = "added"

\* A list of the keys is as new as the revision the watch has delivered.
EtcdInv ==
    /\ collected \in Nat /\ next \in Nat
    /\ kind # "etcd" => watch = "off" /\ reg = "off"
    /\ kind = "etcd" /\ update["pool"] # NoUpdate => watch \in {"start", "collected"}
    /\ watch = "late" => next <= revision
    /\ watch \in {"read", "collected"} /\ next > revision /\ ~ignored => Latest = Keys

\* A pool that was not created never comes up, and one that was closed has
\* ended.
EtcdEnds ==
    kind = "etcd" =>
       /\ pool = "none" => reg = "off" /\ watch = "off"
       /\ pool = "creating" => stage = "creating"
       /\ pool = "failed" => watch = "exited" \/ (watch = "off" /\ reg = "exited")
       /\ stage \in Stopped /\ pool = "up" => EtcdExited

\* What a round has found so far, if every query was answered in the cluster
\* of the moment.
DNSInv ==
    /\ since \in Nat
    /\ kind # "dns" => poll = "off"
    /\ poll = "off" => asked = 0 /\ found = {}
    /\ poll \in {"update", "sleep"} => asked = Len(Queries)
    /\ poll \in {"lookup", "update", "sleep"} /\ ~partial /\ since = revision =>
          found = {n \in Up : \E i \in 1 .. asked : Answered[n] = Queries[i]}
    /\ kind = "dns" /\ update["pool"] # NoUpdate =>
          poll = "update" /\ found # {} /\ update["pool"] = found
    /\ poll \in {"update", "sleep"} /\ found # {} => Latest = found

\* The peers in use are those of the informer's copy, unless a notification is
\* pending; this node is always among them.
K8sInv ==
    /\ kind # "k8s" => informer = "off"
    /\ kind = "k8s" => cluster[Self] \in {"starting", "up"}
    /\ informer # "off" => store[Self] \in {"starting", "up"}
    /\ kind = "k8s" /\ update["pool"] # NoUpdate =>
          informer = "calling" /\ Self \in update["pool"]
    /\ informer \in {"running", "calling"} /\ pending = 0 => Latest = Extract(store)

\* The last list is the map of peers, which names no node the library does not
\* take for alive.
MemberInv ==
    /\ kind # "member-list" => join = "off"
    /\ DOMAIN peers \subseteq view \cup {Self}
    /\ kind = "member-list" /\ ~overlapped =>
          /\ update["join"] = NoUpdate \/ update["pool"] = NoUpdate
          /\ Latest = Range(peers)
    /\ join \in {"added", "done"} /\ stop = "no" => Self \in DOMAIN peers /\ peers[Self] = Self

\* What is open at each stage of Start and of Close.
CloseInv ==
    /\ stage \in {"stats", "instance"} \cup Serves \cup Closing
    /\ stage \in {"stats", "instance"} => res \subseteq {"stats"}
    /\ stage \in Serves => {"instance", "workers"} \subseteq res
    /\ (res \cup inflight) \cap Servers # {} => {"instance", "workers"} \subseteq res
    /\ "workers" \in res /\ "instance" \notin res => failedAt = "instance"
    /\ failedAt = "instance" => "instance" \notin res
    /\ stage \notin Closing => failedAt = "none" /\ ("listener" \in res => stage = "status")
    /\ stage = "status" => "listener" \in res
    /\ stage \in Closing => ("listener" \in res <=> failedAt = "status")
    /\ stage \in {"rest", "closed"} =>
          (res \cup inflight) \cap Servers = {} /\ "instance" \notin res
    /\ stage = "closed" => res \cap {"stats", "gwctx"} = {}

PoolInv == SharedInv /\ EtcdInv /\ EtcdEnds /\ DNSInv /\ K8sInv /\ MemberInv

Inv == PoolInv /\ CloseInv

-----------------------------------------------------------------------------
(* The kinds of steps.                                                     *)

\* Steps of Start, of Close and of the requests that concern no pool.
Moves ==
    \/ StartStats \/ NewV1Instance \/ StartGRPC \/ StartGateway \/ PoolCreated
    \/ RegisterGateway \/ ListenHTTP \/ ServeHTTP \/ WaitForConnect
    \/ CloseDaemon \/ PoolClosed \/ CloseInstance \/ CloseRest
    \/ \E i \in 1 .. Len(ShutdownOrder) : StopServer(i)
    \/ \E s \in Servers : Arrive(s) \/ Answer(s)

\* What they have in common.
Frame ==
    /\ UNCHANGED <<cluster, revision, pool, stop, update, picker, kind>> /\ NoPoolSteps
    /\ faults' \in 0 .. MaxFaults
    /\ stage' \in Early => stage \in Early
    /\ stage = "creating" /\ pool = "creating" => stage' = "creating"
    /\ stage' \in Stopped => stage \in Stopped \/ kind # "etcd" \/ pool # "up" \/ EtcdExited

LEMMA NextCases ==
    ASSUME [Next]_vars
    PROVE  \/ UNCHANGED vars \/ Moves \/ CreatePool \/ ClosePool \/ StopEtcd \/ DaemonSetPeers
           \/ (\E c \in Updaters : Apply(c)) \/ ClusterChanges \/ SelfReady
           \/ EtcdOnly(EtcdStep) \/ DNSOnly(DNSStep) \/ K8sOnly(K8sStep)
           \/ MemberOnly(MemberStep)
BY DEF Next, StartStep, CloseStep, Moves

LEMMA FaultCounted ==
    ASSUME faults \in 0 .. MaxFaults, Fault
    PROVE  faults' \in 0 .. MaxFaults
BY DiscoveryAssumption DEF Fault

LEMMA MovesFrame ==
    ASSUME TypeOK, Moves
    PROVE  Frame
<1> faults \in 0 .. MaxFaults
  BY DEF TypeOK
<1>1. CASE StartStats \/ NewV1Instance \/ RegisterGateway \/ ServeHTTP
  BY <1>1, FaultCounted DEF StartStats, NewV1Instance, RegisterGateway, ServeHTTP, StartFails,
     Frame, Early, Stopped
<1>2. CASE StartGRPC \/ StartGateway \/ ListenHTTP \/ WaitForConnect
  BY <1>2, FaultCounted DEF StartGRPC, StartGateway, ListenHTTP, WaitForConnect, Acquire,
     StartFails, Frame, Early, Stopped
<1>3. CASE PoolCreated \/ CloseDaemon \/ CloseInstance \/ CloseRest
  BY <1>3 DEF PoolCreated, CloseDaemon, CloseInstance, CloseRest, StartFails, Frame, Early,
     Stopped, sharedVars
<1>4. CASE PoolClosed
  BY <1>4 DEF PoolClosed, Frame, Early, Stopped, sharedVars
<1>5. CASE \E i \in 1 .. Len(ShutdownOrder) : StopServer(i)
  BY <1>5 DEF StopServer, Frame, Early, Stopped, sharedVars
<1>6. CASE \E s \in Servers : Arrive(s) \/ Answer(s)
  BY <1>6 DEF Arrive, Answer, Frame, Early, Stopped, sharedVars
<1> QED
  BY <1>1, <1>2, <1>3, <1>4, <1>5, <1>6 DEF Moves

-----------------------------------------------------------------------------
(* Start and Close.                                                        *)

\* Every step that is not one of Start or Close leaves their state alone.
LEMMA CloseUnchanged ==
    ASSUME CloseInv, UNCHANGED <<stage, failedAt, res, inflight>>
    PROVE  CloseInv'
BY DEF CloseInv

LEMMA CloseStart ==
    ASSUME TypeOK, CloseInv,
           StartStats \/ NewV1Instance \/ StartGRPC \/ StartGateway \/ PoolCreated
           \/ RegisterGateway \/ ListenHTTP \/ ServeHTTP \/ WaitForConnect \/ CreatePool
    PROVE  CloseInv'
<1> USE DEF CloseInv, Serves, Closing, Stopped, Servers, StartFails
<1>1. CASE StartStats
  BY <1>1 DEF StartStats
<1>2. CASE NewV1Instance
  BY <1>2 DEF NewV1Instance
<1>3. CASE StartGRPC
  BY <1>3 DEF StartGRPC, Acquire
<1>4. CASE StartGateway
  BY <1>4 DEF StartGateway, Acquire
<1>5. CASE PoolCreated
  BY <1>5 DEF PoolCreated
<1>6. CASE RegisterGateway
  BY <1>6 DEF RegisterGateway
<1>7. CASE ListenHTTP
  BY <1>7 DEF ListenHTTP, Acquire
<1>8. CASE ServeHTTP
  BY <1>8 DEF ServeHTTP
<1>9. CASE WaitForConnect
  BY <1>9 DEF WaitForConnect, Acquire
<1>10. CASE CreatePool
  BY <1>10 DEF CreatePool
<1> QED
  BY <1>1, <1>2, <1>3, <1>4, <1>5, <1>6, <1>7, <1>8, <1>9, <1>10, Zenon

LEMMA CloseCloses ==
    ASSUME TypeOK, CloseInv,
           CloseDaemon \/ ClosePool \/ PoolClosed \/ CloseInstance \/ CloseRest
           \/ (\E i \in 1 .. Len(ShutdownOrder) : StopServer(i))
           \/ (\E s \in Servers : Arrive(s) \/ Answer(s))
    PROVE  CloseInv'
<1> USE DEF CloseInv, Serves, Closing, Stopped, Servers
<1>1. CASE CloseDaemon \/ PoolClosed
  BY <1>1 DEF CloseDaemon, PoolClosed
<1>2. CASE ClosePool
  BY <1>2 DEF ClosePool
<1>3. CASE CloseInstance
  BY <1>3 DEF CloseInstance
<1>4. CASE CloseRest
  BY <1>4 DEF CloseRest
<1>5. CASE \E i \in 1 .. Len(ShutdownOrder) : StopServer(i)
  <2>1. PICK i \in 1 .. Len(ShutdownOrder) : StopServer(i)
    BY <1>5
  <2>2. ShutdownOrder[i] \in Servers
    BY DEF ShutdownOrder
  <2> QED
    BY <2>1, <2>2 DEF StopServer
<1>6. CASE \E s \in Servers : Arrive(s) \/ Answer(s)
  BY <1>6 DEF Arrive, Answer
<1> QED
  BY <1>1, <1>2, <1>3, <1>4, <1>5, <1>6, Zenon

LEMMA CloseStays ==
    ASSUME TypeOK, CloseInv, [Next]_vars
    PROVE  CloseInv'
<1>1. CASE Moves \/ CreatePool \/ ClosePool
  BY <1>1, CloseStart, CloseCloses DEF Moves
<1>2. CASE UNCHANGED vars \/ StopEtcd \/ DaemonSetPeers \/ ClusterChanges \/ SelfReady
           \/ EtcdOnly(EtcdStep) \/ DNSOnly(DNSStep) \/ K8sOnly(K8sStep)
           \/ MemberOnly(MemberStep)
  BY <1>2, CloseUnchanged DEF vars, daemonVars, StopEtcd, DaemonSetPeers, ClusterChanges,
     SelfReady, EtcdOnly, DNSOnly, K8sOnly, MemberOnly
<1>3. CASE \E c \in Updaters : Apply(c)
  BY <1>3, CloseUnchanged DEF Apply, daemonVars
<1> QED
  BY <1>1, <1>2, <1>3, NextCases

-----------------------------------------------------------------------------
(* The pools.                                                              *)

LEMMA MovesTyped ==
    ASSUME TypeOK, Moves
    PROVE  /\ res' \subseteq Servers \cup {"stats", "workers", "instance", "gwctx", "listener"}
           /\ inflight' \subseteq Servers
<1> USE DEF TypeOK, Servers
<1>1. CASE StartStats \/ NewV1Instance \/ RegisterGateway \/ ServeHTTP
  BY <1>1, Zenon DEF StartStats, NewV1Instance, RegisterGateway, ServeHTTP, StartFails
<1>2. CASE StartGRPC \/ StartGateway \/ ListenHTTP \/ WaitForConnect
  BY <1>2, Zenon DEF StartGRPC, StartGateway, ListenHTTP, WaitForConnect, Acquire, StartFails
<1>3. CASE PoolCreated \/ CloseDaemon \/ CloseInstance \/ CloseRest \/ PoolClosed
  BY <1>3, Zenon DEF PoolCreated, CloseDaemon, CloseInstance, CloseRest, StartFails, PoolClosed
<1>4. CASE \E i \in 1 .. Len(ShutdownOrder) : StopServer(i)
  BY <1>4, Zenon DEF StopServer
<1>5. CASE \E s \in Servers : Arrive(s) \/ Answer(s)
  BY <1>5, Zenon DEF Arrive, Answer
<1> QED
  BY <1>1, <1>2, <1>3, <1>4, <1>5 DEF Moves

\* A pool whose variables stay as they are stays typed.
LEMMA TypesKept ==
    ASSUME revision' = revision
    PROVE  /\ EtcdTypeOK /\ UNCHANGED etcdVars => EtcdTypeOK'
           /\ DNSTypeOK /\ UNCHANGED dnsVars => DNSTypeOK'
           /\ K8sTypeOK /\ UNCHANGED k8sVars => K8sTypeOK'
           /\ MemberTypeOK /\ UNCHANGED memberVars => MemberTypeOK'
<1>1. EtcdTypeOK /\ UNCHANGED etcdVars => EtcdTypeOK'
  BY Zenon DEF EtcdTypeOK, etcdVars
<1>2. DNSTypeOK /\ UNCHANGED dnsVars => DNSTypeOK'
  BY Zenon DEF DNSTypeOK, dnsVars
<1>3. K8sTypeOK /\ UNCHANGED k8sVars => K8sTypeOK'
  BY Zenon DEF K8sTypeOK, k8sVars
<1>4. MemberTypeOK /\ UNCHANGED memberVars => MemberTypeOK'
  BY Zenon DEF MemberTypeOK, memberVars
<1> QED
  BY <1>1, <1>2, <1>3, <1>4, Zenon

\* A step that leaves the pool alone keeps what is known of it.
LEMMA FrameKeeps ==
    ASSUME PoolInv, Frame,
           res' \subseteq Servers \cup {"stats", "workers", "instance", "gwctx", "listener"},
           inflight' \subseteq Servers
    PROVE  PoolInv'
<1> USE DEF PoolInv, Frame, NoPoolSteps
<1>1. TypeOK'
  BY TypesKept, Zenon DEF SharedInv, TypeOK
<1>2. SharedInv'
  BY <1>1 DEF SharedInv, etcdVars, dnsVars, k8sVars, memberVars
<1>3. EtcdInv'
  BY DEF EtcdInv, etcdVars, Latest, Keys, Up
<1>4. EtcdEnds'
  BY DEF EtcdEnds, etcdVars, EtcdExited
<1>5. DNSInv'
  BY DEF DNSInv, dnsVars, Latest, Up
<1>6. K8sInv'
  BY DEF K8sInv, k8sVars, Latest, Extract
<1>7. MemberInv'
  BY DEF MemberInv, memberVars, Latest
<1> QED
  BY <1>2, <1>3, <1>4, <1>5, <1>6, <1>7

LEMMA MovesKeep ==
    ASSUME PoolInv, Moves
    PROVE  PoolInv'
BY MovesFrame, MovesTyped, FrameKeeps DEF PoolInv, SharedInv

\* A list that is handed over.
LEMMA ListIsNoUpdate ==
    ASSUME NEW list \in PeerLists
    PROVE  list # NoUpdate
BY DiscoveryAssumption DEF PeerLists, Nodes

LEMMA Handed ==
    ASSUME NEW P, NEW None, NEW u \in [Updaters -> P \cup {None}], NEW c \in Updaters
    PROVE  /\ [u EXCEPT ![c] = None] \in [Updaters -> P \cup {None}]
           /\ u[c] # None => u[c] \in P
           /\ \A list \in P : [u EXCEPT ![c] = list] \in [Updaters -> P \cup {None}]
OBVIOUS

\* SetPeers takes a list: the latest one stays the latest, unless it overtakes
\* the other.
LEMMA ApplyKeeps ==
    ASSUME PoolInv, NEW c \in Updaters, Apply(c)
    PROVE  PoolInv'
<1> USE DEF PoolInv, Apply, SetPeersReturns, NoPoolSteps, daemonVars
<1>0. c \in {"pool", "join"} /\ update' = [update EXCEPT ![c] = NoUpdate]
      /\ picker' = update[c] /\ update[c] # NoUpdate
      /\ update \in [Updaters -> PeerLists \cup {NoUpdate}] /\ Updaters = {"pool", "join"}
  BY DEF Updaters, SharedInv, TypeOK
<1>1. TypeOK'
  <2>1. picker' \in PeerLists /\ update' \in [Updaters -> PeerLists \cup {NoUpdate}]
    BY <1>0, Handed DEF SharedInv, TypeOK
  <2> QED
    BY <2>1, TypesKept, Zenon DEF SharedInv, TypeOK
<1>2. SharedInv'
  BY <1>0, <1>1 DEF SharedInv, etcdVars, dnsVars, k8sVars, memberVars
<1>3. update["join"] = NoUpdate \/ update["pool"] = NoUpdate => Latest' = Latest
  BY <1>0 DEF Latest
<1>4. kind # "member-list" => Latest' = Latest
  BY <1>3 DEF SharedInv
<1>5. EtcdInv'
  BY <1>0, <1>4 DEF EtcdInv, etcdVars, Keys, Up
<1>6. EtcdEnds'
  BY DEF EtcdEnds, etcdVars, EtcdExited
<1>7. DNSInv'
  BY <1>0, <1>4, Zenon DEF DNSInv, dnsVars, Up
<1>8. K8sInv'
  BY <1>0, <1>4, Zenon DEF K8sInv, k8sVars, Extract
<1>9. MemberInv'
  BY <1>0, <1>3, Zenon DEF MemberInv, memberVars
<1> QED
  BY <1>2, <1>5, <1>6, <1>7, <1>8, <1>9

\* Only a daemon without a pool is given its peers from outside.
LEMMA SetPeersKeeps ==
    ASSUME PoolInv, DaemonSetPeers
    PROVE  PoolInv'
<1> USE DEF PoolInv, DaemonSetPeers, OnUpdate, NoPoolSteps, daemonVars
<1>1. TypeOK'
  <2>1. Up \cup {Self} \in PeerLists /\ "pool" \in Updaters
    BY DEF PeerLists, Up, Nodes, Updaters
  <2>2. update' \in [Updaters -> PeerLists \cup {NoUpdate}]
    BY <2>1, Handed DEF SharedInv, TypeOK
  <2> QED
    BY <2>2, TypesKept, Zenon DEF SharedInv, TypeOK
<1>2. SharedInv'
  BY <1>1 DEF SharedInv, TypeOK, Updaters, etcdVars, dnsVars, k8sVars, memberVars
<1>3. EtcdInv' /\ EtcdEnds'
  BY DEF EtcdInv, EtcdEnds, etcdVars, EtcdExited
<1>4. DNSInv' /\ K8sInv' /\ MemberInv'
  BY Zenon DEF DNSInv, dnsVars, K8sInv, k8sVars, MemberInv, memberVars
<1> QED
  BY <1>2, <1>3, <1>4

\* A change of the cluster is newer than any listing.
LEMMA ChangeKeeps ==
    ASSUME PoolInv, ClusterChanges \/ SelfReady
    PROVE  PoolInv'
<1> USE DEF PoolInv, NoPoolSteps, daemonVars
<1>1. PICK n \in Nodes, status \in {"down", "scheduled", "starting", "up"} :
         /\ NodeChanges(n, status)
         /\ kind = "k8s" /\ n = Self => status \in {"starting", "up"}
  BY DiscoveryAssumption DEF ClusterChanges, SelfReady, Statuses, Nodes
<1>2. UNCHANGED daemonVars /\ NoPoolSteps
  BY DEF ClusterChanges, SelfReady
<1>3. UNCHANGED <<faults, pool, stop, update, picker>> /\ revision' = revision + 1
      /\ cluster' = [cluster EXCEPT ![n] = status] /\ revision \in Nat
      /\ cluster \in [Nodes -> {"down", "scheduled", "starting", "up"}]
  BY <1>1 DEF NodeChanges, SharedInv, TypeOK
<1>4. Latest' = Latest
  BY <1>3 DEF Latest
<1>5. collected \in Nat /\ next \in Nat /\ since \in Nat /\ since <= revision
      /\ next <= revision + 1 /\ collected <= revision
  BY Zenon DEF EtcdInv, DNSInv, SharedInv, TypeOK, EtcdTypeOK, DNSTypeOK
<1>6. TypeOK'
  <2>1. /\ collected <= revision' /\ next <= revision' + 1 /\ since <= revision'
        /\ revision' \in Nat /\ cluster' \in [Nodes -> {"down", "scheduled", "starting", "up"}]
    <3> HIDE DEF PoolInv
    <3> QED
      BY <1>3, <1>5
  <2>2. EtcdTypeOK' /\ DNSTypeOK'
    <3>1. UNCHANGED <<etcdVars, dnsVars>> /\ EtcdTypeOK /\ DNSTypeOK
      BY <1>2, Zenon DEF SharedInv, TypeOK
    <3> HIDE DEF PoolInv
    <3>2. EtcdTypeOK'
      BY <2>1, <3>1, Zenon DEF etcdVars, EtcdTypeOK
    <3>3. DNSTypeOK'
      BY <2>1, <3>1, Zenon DEF dnsVars, DNSTypeOK
    <3> QED
      BY <3>2, <3>3
  <2>3. K8sTypeOK' /\ MemberTypeOK'
    BY <1>2, Zenon DEF SharedInv, TypeOK, k8sVars, memberVars, K8sTypeOK, MemberTypeOK
  <2> QED
    BY <1>2, <1>3, <2>1, <2>2, <2>3, Zenon DEF SharedInv, TypeOK
<1>7. SharedInv'
  BY <1>2, <1>3, <1>6 DEF SharedInv, etcdVars, dnsVars, k8sVars, memberVars
<1>8. EtcdInv' /\ EtcdEnds'
  <2>1. EtcdInv'
    BY <1>2, <1>3, <1>5 DEF EtcdInv, etcdVars
  <2>2. EtcdEnds'
    BY <1>2, <1>3, Zenon DEF EtcdEnds, etcdVars, EtcdExited
  <2> QED
    BY <2>1, <2>2
<1>9. DNSInv'
  BY <1>2, <1>3, <1>4, <1>5 DEF DNSInv, dnsVars
<1>10. K8sInv'
  BY <1>1, <1>2, <1>3, <1>4 DEF K8sInv, k8sVars, Extract
<1>11. MemberInv'
  BY <1>2, <1>3, <1>4, Zenon DEF MemberInv, memberVars
<1> QED
  BY <1>7, <1>8, <1>9, <1>10, <1>11

LEMMA StopKeeps ==
    ASSUME PoolInv, StopEtcd
    PROVE  PoolInv'
<1> USE DEF PoolInv, StopEtcd, NoPoolSteps, daemonVars
<1>1. TypeOK'
  BY TypesKept, Zenon DEF SharedInv, TypeOK
<1>2. SharedInv'
  BY <1>1 DEF SharedInv, etcdVars, dnsVars, k8sVars, memberVars
<1>3. EtcdInv' /\ EtcdEnds'
  BY Zenon DEF EtcdInv, EtcdEnds, etcdVars, EtcdExited, Latest, Keys, Up
<1>4. DNSInv' /\ K8sInv'
  BY Zenon DEF DNSInv, dnsVars, K8sInv, k8sVars, Latest, Up, Extract
<1>5. MemberInv'
  BY Zenon DEF MemberInv, memberVars, Latest
<1> QED
  BY <1>2, <1>3, <1>4, <1>5

-----------------------------------------------------------------------------
(* etcd.                                                                   *)

\* Its goroutines and its service touch no other pool.
LEMMA EtcdTyped ==
    ASSUME TypeOK, EtcdInv, EtcdStep
    PROVE  /\ EtcdTypeOK' /\ collected' \in Nat /\ next' \in Nat
           /\ revision' \in Nat /\ revision' >= revision /\ faults' \in 0 .. MaxFaults
           /\ pool' \in {"none", "creating", "up", "failed"} /\ stop' \in {"no", "ctx", "done"}
           /\ UNCHANGED <<cluster, picker>>
           /\ update' = update \/ update' = [update EXCEPT !["pool"] = Keys]
<1> USE DEF TypeOK, EtcdInv
<1> DEFINE Types ==
       /\ held \in {"none", "orphan", "kept"} /\ keepAlive \in {"nil", "open", "closed"}
       /\ reg \in {"off", "grant", "put", "keep", "wait", "backoff", "exited"}
       /\ watch \in {"off", "get", "start", "read", "event", "collected", "restart",
                     "backoff", "late", "exited"}
       /\ collected <= revision /\ next <= revision + 1
<1> Types
  BY DEF EtcdTypeOK
<1> SUFFICES
       /\ Types' /\ collected' \in Nat /\ next' \in Nat
       /\ revision' \in Nat /\ revision' >= revision /\ faults' \in 0 .. MaxFaults
       /\ pool' \in {"none", "creating", "up", "failed"} /\ stop' \in {"no", "ctx", "done"}
       /\ UNCHANGED <<cluster, picker>>
       /\ update' = update \/ update' = [update EXCEPT !["pool"] = Keys]
  <2>1. ignored' \in BOOLEAN /\ canceled' \in BOOLEAN
    BY ZenonT(60) DEF EtcdTypeOK, EtcdStep, RegisterStep, WatchStep, LeaseExpires, KeepAliveCloses, Grant,
       Put, KeepAlive, LostKeepAlive, Unregister, RegisterBackOff, Collect, StartWatch,
       WatchEvent, CollectEvent, Collected, Restart, WatchBackOff, WatchEnds
  <2> QED
    BY <2>1, Zenon DEF EtcdTypeOK
<1>0. Fails => faults' \in 0 .. MaxFaults
  BY FaultCounted DEF Fails, Fault
<1>1. CASE LeaseExpires \/ KeepAliveCloses
  BY <1>0, <1>1, FaultCounted DEF LeaseExpires, KeepAliveCloses
<1>2. CASE Grant \/ Put \/ KeepAlive
  <2>1. CASE Grant \/ KeepAlive
    BY <1>0, <2>1 DEF Grant, KeepAlive, RegisterFails
  <2>2. CASE Put
    BY <1>0, <2>2 DEF Put, RegisterFails
  <2> QED
    BY <1>2, <2>1, <2>2
<1>3. CASE LostKeepAlive \/ RegisterBackOff
  <2>1. CASE LostKeepAlive
    BY <2>1 DEF LostKeepAlive, sharedVars
  <2>2. CASE RegisterBackOff
    BY <2>2 DEF RegisterBackOff, sharedVars
  <2> QED
    BY <1>3, <2>1, <2>2
<1>4. CASE Unregister
  BY <1>4, FaultCounted DEF Unregister
<1>5. CASE Collect
  BY <1>0, <1>5 DEF Collect, WatchFails, OnUpdate
<1>6. CASE StartWatch
  BY <1>6, FaultCounted DEF StartWatch, WatchFails
<1>7. CASE WatchEvent
  BY <1>7 DEF WatchEvent, sharedVars
<1>8. CASE CollectEvent
  BY <1>0, <1>8 DEF CollectEvent, OnUpdate
<1>9. CASE Collected \/ Restart \/ WatchBackOff
  <2>1. CASE Collected
    BY <2>1 DEF Collected, sharedVars
  <2>2. CASE Restart
    BY <2>2 DEF Restart, sharedVars
  <2>3. CASE WatchBackOff
    BY <2>3 DEF WatchBackOff, sharedVars
  <2> QED
    BY <1>9, <2>1, <2>2, <2>3
<1>10. CASE WatchEnds
  BY <1>0, <1>10 DEF WatchEnds
<1> QED
  BY <1>1, <1>2, <1>3, <1>4, <1>5, <1>6, <1>7, <1>8, <1>9, <1>10, Zenon
  DEF EtcdStep, RegisterStep, WatchStep

\* No change is missed: a step either leaves what the watch has delivered as
\* it is, or is a change it has yet to deliver, or lists the keys.
LEMMA EtcdListed ==
    ASSUME PoolInv, EtcdOnly(EtcdStep)
    PROVE  EtcdInv'
<1> USE DEF EtcdInv
<1>0. /\ kind = "etcd" /\ kind' = "etcd" /\ update["join"] = NoUpdate
      /\ revision \in Nat /\ collected <= revision /\ next <= revision + 1
      /\ ignored \in BOOLEAN /\ "pool" \in DOMAIN update /\ Keys # NoUpdate
  BY ListIsNoUpdate DEF EtcdOnly, daemonVars, PoolInv, SharedInv, TypeOK, EtcdTypeOK, Updaters,
     Keys, Up, Nodes, PeerLists
<1>1. collected' \in Nat /\ next' \in Nat
  BY EtcdTyped DEF PoolInv, SharedInv, EtcdOnly
<1>2. CASE LeaseExpires
  BY <1>0, <1>2 DEF LeaseExpires, PoolInv
<1>3. CASE KeepAliveCloses
  BY <1>0, <1>3, Zenon DEF KeepAliveCloses, PoolInv, Latest, Keys, Up
<1>4. CASE Grant \/ LostKeepAlive \/ RegisterBackOff
  BY <1>0, <1>4, ZenonT(60) DEF Grant, LostKeepAlive, RegisterBackOff, sharedVars, PoolInv, Latest, Keys, Up
<1>5. CASE Put
  BY <1>0, <1>5 DEF Put, PoolInv, Latest, Keys, Up
<1>6. CASE KeepAlive
  BY <1>0, <1>6, Zenon DEF KeepAlive, PoolInv, Latest, Keys, Up
<1>7. CASE Unregister
  BY <1>0, <1>7 DEF Unregister, PoolInv, Latest, Keys, Up
<1>8. CASE Collect
  BY <1>0, <1>1, <1>8 DEF Collect, WatchFails, OnUpdate, PoolInv
<1>9. CASE StartWatch
  BY <1>0, <1>9 DEF StartWatch, WatchFails, PoolInv
<1>10. CASE WatchEvent
  BY <1>0, <1>1, <1>10 DEF WatchEvent, sharedVars, PoolInv
<1>11. CASE CollectEvent
  <2>1. CASE stop = "no" /\ OnUpdate("pool", Keys) /\ ignored' = FALSE
    BY <1>0, <1>11, <2>1 DEF CollectEvent, OnUpdate, PoolInv, Latest, Keys, Up
  <2>2. CASE ignored' = TRUE /\ UNCHANGED update
    BY <1>0, <1>11, <2>2 DEF CollectEvent, PoolInv
  <2> QED
    BY <1>11, <2>1, <2>2, Zenon DEF CollectEvent
<1>12. CASE Collected \/ Restart \/ WatchBackOff
  <2>0. UNCHANGED <<revision, update, collected, next, ignored, Latest, Keys>>
    BY <1>12, Zenon DEF Collected, Restart, WatchBackOff, sharedVars, Latest, Keys, Up
  <2>1. CASE Collected
    BY <1>0, <2>0, <2>1 DEF Collected, PoolInv
  <2>2. CASE Restart
    BY <1>0, <2>0, <2>2 DEF Restart, PoolInv
  <2>3. CASE WatchBackOff
    BY <1>0, <2>0, <2>3 DEF WatchBackOff, PoolInv
  <2> QED
    BY <1>12, <2>1, <2>2, <2>3, Zenon
<1>13. CASE WatchEnds
  BY <1>0, <1>13 DEF WatchEnds, PoolInv
<1> QED
  BY <1>2, <1>3, <1>4, <1>5, <1>6, <1>7, <1>8, <1>9, <1>10, <1>11, <1>12, <1>13, Zenon
  DEF EtcdOnly, EtcdStep, RegisterStep, WatchStep

\* A pool that failed stays down and one that ended stays ended.
LEMMA EtcdEnded ==
    ASSUME PoolInv, EtcdOnly(EtcdStep)
    PROVE  EtcdEnds'
<1> USE DEF EtcdEnds, EtcdExited, PoolInv
<1>0. kind = "etcd" /\ kind' = "etcd" /\ stage' = stage
      /\ pool \in {"none", "creating", "up", "failed"}
  BY DEF EtcdOnly, daemonVars, SharedInv, TypeOK
<1>1. CASE LeaseExpires \/ KeepAliveCloses \/ LostKeepAlive \/ Unregister \/ RegisterBackOff
  BY <1>0, <1>1, Zenon DEF LeaseExpires, KeepAliveCloses, LostKeepAlive, Unregister, RegisterBackOff,
     sharedVars
<1>2. CASE Grant \/ Put \/ KeepAlive
  BY <1>0, <1>2, Zenon DEF Grant, Put, KeepAlive, RegisterFails, Stopped
<1>3. CASE Collect \/ StartWatch
  BY <1>0, <1>3, Zenon DEF Collect, StartWatch, WatchFails, Stopped
<1>4. CASE WatchEvent \/ CollectEvent \/ Collected \/ Restart \/ WatchBackOff \/ WatchEnds
  BY <1>0, <1>4, Zenon DEF WatchEvent, CollectEvent, Collected, Restart, WatchBackOff, WatchEnds,
     sharedVars
<1> QED
  BY <1>1, <1>2, <1>3, <1>4, Zenon DEF EtcdOnly, EtcdStep, RegisterStep, WatchStep

LEMMA EtcdKeeps ==
    ASSUME PoolInv, EtcdOnly(EtcdStep)
    PROVE  PoolInv'
<1> USE DEF PoolInv
<1>0. /\ kind = "etcd" /\ EtcdStep
      /\ UNCHANGED <<dnsVars, k8sVars, memberVars, kind, stage, res, inflight>>
  BY DEF EtcdOnly, daemonVars
<1>1. Keys \in PeerLists /\ "pool" \in Updaters
  BY DEF Keys, PeerLists, Up, Nodes, Updaters
<1>2. update' \in [Updaters -> PeerLists \cup {NoUpdate}] /\ update'["join"] = update["join"]
  BY <1>0, <1>1, EtcdTyped, Handed DEF SharedInv, TypeOK, Updaters
<1>3. revision \in Nat /\ revision' \in Nat /\ revision' >= revision
      /\ since \in Nat /\ since <= revision
  BY <1>0, EtcdTyped, Zenon DEF SharedInv, TypeOK, DNSTypeOK, DNSInv
<1>4. TypeOK'
  <2>1. since <= revision'
    BY <1>3
  <2>2. DNSTypeOK' /\ K8sTypeOK' /\ MemberTypeOK'
    BY <1>0, <2>1, Zenon DEF SharedInv, TypeOK, dnsVars, k8sVars, memberVars, DNSTypeOK, K8sTypeOK,
       MemberTypeOK
  <2> QED
    BY <1>0, <1>2, <1>3, <2>2, EtcdTyped, Zenon DEF SharedInv, TypeOK
<1>5. stage \in Early => reg' = "off" /\ pool' = "none"
  <2> SUFFICES ASSUME stage \in Early PROVE reg' = "off" /\ pool' = "none"
    OBVIOUS
  <2>1. reg = "off" /\ watch = "off" /\ pool = "none"
    BY <1>0 DEF SharedInv, EtcdEnds
  <2>2. LeaseExpires \/ KeepAliveCloses
    BY <1>0, <2>1, Zenon DEF EtcdStep, RegisterStep, Grant, Put, KeepAlive, LostKeepAlive, Unregister,
       RegisterBackOff, WatchStep, Collect, StartWatch, WatchEvent, CollectEvent, Collected,
       Restart, WatchBackOff, WatchEnds
  <2> QED
    BY <2>1, <2>2 DEF LeaseExpires, KeepAliveCloses
<1>6. SharedInv'
  BY <1>0, <1>2, <1>4, <1>5 DEF SharedInv, dnsVars, k8sVars, memberVars
<1>7. DNSInv' /\ K8sInv' /\ MemberInv'
  BY <1>0, <1>3, Zenon DEF DNSInv, dnsVars, K8sInv, k8sVars, MemberInv, memberVars
<1> QED
  BY <1>6, <1>7, EtcdListed, EtcdEnded

-----------------------------------------------------------------------------
(* DNS.                                                                    *)

LEMMA DNSTyped ==
    ASSUME TypeOK, DNSInv, DNSStep
    PROVE  /\ DNSTypeOK' /\ since' \in Nat /\ faults' \in 0 .. MaxFaults
           /\ UNCHANGED <<cluster, revision, pool, stop, picker>>
           /\ update' = update \/ update' = [update EXCEPT !["pool"] = found]
<1> USE DEF TypeOK, DNSTypeOK, DNSInv
<1>1. CASE Ask
  <2>1. asked' \in 0 .. Len(Queries)
    BY <1>1, DNSAssumption DEF Ask
  <2>2. found' \subseteq Nodes /\ faults' \in 0 .. MaxFaults
    BY <1>1, FaultCounted, Zenon DEF Ask, lookupHost, Up
  <2>3. partial' \in BOOLEAN
    BY <1>1, Zenon DEF Ask
  <2> QED
    BY <1>1, <2>1, <2>2, <2>3, Zenon DEF Ask
<1>2. CASE HandOver
  BY <1>2, Zenon DEF HandOver, OnUpdate
<1>3. CASE Sleep \/ DNSDone
  BY <1>3, Zenon DEF Sleep, DNSDone, sharedVars
<1>4. CASE Wake
  <2>1. partial' \in BOOLEAN
    BY <1>4, Zenon DEF Wake
  <2> QED
    BY <1>4, <2>1, DNSAssumption DEF Wake, sharedVars
<1> QED
  BY <1>1, <1>2, <1>3, <1>4, Zenon DEF DNSStep

LEMMA DNSKeeps ==
    ASSUME PoolInv, DNSOnly(DNSStep)
    PROVE  PoolInv'
<1> USE DEF PoolInv
<1>0. /\ kind = "dns" /\ DNSStep
      /\ UNCHANGED <<etcdVars, k8sVars, memberVars, kind, stage, res, inflight>>
  BY DEF DNSOnly, daemonVars
<1>1. /\ found \in PeerLists /\ "pool" \in Updaters /\ found # NoUpdate
      /\ asked \in Nat /\ asked <= Len(Queries) /\ Len(Queries) \in Nat
  BY ListIsNoUpdate, DNSAssumption DEF PeerLists, Updaters, SharedInv, TypeOK, DNSTypeOK
<1>2. update' \in [Updaters -> PeerLists \cup {NoUpdate}] /\ update'["join"] = update["join"]
      /\ update["join"] = NoUpdate /\ "pool" \in DOMAIN update
  BY <1>0, <1>1, DNSTyped, Handed DEF SharedInv, TypeOK, Updaters
<1>3. TypeOK'
  BY <1>0, <1>2, DNSTyped, TypesKept, Zenon DEF SharedInv, TypeOK
<1>4. stage \notin Early
  BY <1>0, Zenon DEF SharedInv, DNSStep, Ask, HandOver, Sleep, Wake, DNSDone
<1>5. SharedInv'
  BY <1>0, <1>2, <1>3, <1>4, Zenon DEF SharedInv, memberVars
<1>6. EtcdInv' /\ EtcdEnds' /\ K8sInv' /\ MemberInv'
  BY <1>0, DNSTyped, Zenon DEF SharedInv, EtcdInv, EtcdEnds, etcdVars, K8sInv, k8sVars, MemberInv,
     memberVars
<1>7. DNSInv'
  <2> USE DEF DNSInv
  <2>1. CASE Ask
    <3>1. since' \in Nat /\ poll' = "lookup" /\ kind' = "dns" /\ update' = update
          /\ revision' = revision /\ since' = since /\ cluster' = cluster /\ asked' = asked + 1
          /\ poll = "lookup"
      BY <1>0, <2>1, Zenon DEF Ask
    <3>2. ASSUME ~partial', since = revision
          PROVE  found' = {n \in Up : \E i \in 1 .. asked + 1 : Answered[n] = Queries[i]}
      <4>1. found' = found \cup {n \in Up : Answered[n] = Queries[asked + 1]} /\ ~partial
        <5> HIDE DEF DNSInv, PoolInv
        <5>1. found' = found \cup lookupHost(Queries[asked + 1]) /\ partial' = partial
          BY <2>1, <3>2, Zenon DEF Ask
        <5> QED
          BY <3>2, <5>1, Zenon DEF lookupHost
      <4>2. found = {n \in Up : \E i \in 1 .. asked : Answered[n] = Queries[i]}
        BY <3>1, <3>2, <4>1, Zenon
      <4>3. \A i : i \in 1 .. asked + 1 <=> (i \in 1 .. asked \/ i = asked + 1)
        <5> HIDE DEF DNSInv, PoolInv
        <5> QED
          BY <1>1
      <4> QED
        BY <4>1, <4>2, <4>3, Zenon
    <3> QED
      BY <3>1, <3>2, Zenon DEF Up
  <2>2. CASE HandOver
    <3>1. since' \in Nat /\ poll' = "update" /\ kind' = "dns" /\ picker' = picker
          /\ UNCHANGED <<asked, found, partial, since, cluster, revision>>
          /\ poll = "lookup" /\ asked = Len(Queries) /\ update["pool"] = NoUpdate
      BY <1>0, <2>2, Zenon DEF HandOver
    <3>2. IF found # {} THEN update'["pool"] = found ELSE update'["pool"] = NoUpdate
      BY <1>2, <2>2, <3>1, Zenon DEF HandOver, OnUpdate
    <3> QED
      BY <1>1, <1>2, <3>1, <3>2, Zenon DEF Latest, Up
  <2>3. CASE Sleep \/ DNSDone
    BY <1>0, <2>3, ZenonT(60) DEF Sleep, DNSDone, sharedVars, Latest, Up
  <2>4. CASE Wake
    <3>1. found' = {} /\ asked' = 0 /\ poll' = "lookup" /\ since' = revision /\ kind' = "dns"
          /\ update' = update /\ revision' = revision /\ poll = "sleep" /\ since' \in Nat
      BY <1>0, <2>4, Zenon DEF Wake, sharedVars, SharedInv, TypeOK
    <3>2. {n \in Up' : \E i \in 1 .. 0 : Answered[n] = Queries[i]} = {}
      <4> HIDE DEF DNSInv, PoolInv
      <4> QED
        OBVIOUS
    <3> QED
      BY <1>0, <3>1, <3>2, Zenon
  <2> QED
    BY <1>0, <2>1, <2>2, <2>3, <2>4, Zenon DEF DNSStep
<1> QED
  BY <1>5, <1>6, <1>7

-----------------------------------------------------------------------------
(* Kubernetes.                                                             *)

\* Both ways to find the peers give a list with this node in it, ready or not.
LEMMA ExtractListed ==
    ASSUME NEW nodes \in [Nodes -> {"down", "scheduled", "starting", "up"}],
           nodes[Self] \in {"starting", "up"}
    PROVE  Extract(nodes) \in PeerLists /\ Self \in Extract(nodes)
<1> Self \in Nodes
  BY DEF Nodes
<1>1. ExtractPeersFromPods(nodes) \in PeerLists /\ Self \in ExtractPeersFromPods(nodes)
  BY Zenon DEF ExtractPeersFromPods, PeerLists
<1>2. ExtractPeersFromEndpointSlices(Slices(nodes)) \in PeerLists
  BY ZenonT(60) DEF ExtractPeersFromEndpointSlices, Slices, PeerLists
<1>3. PICK e \in Slices(nodes) : e.family = "IPv4" /\ e.ip = Self
  <2> DEFINE ready == IF nodes[Self] = "up" THEN "true" ELSE "false"
             e == [family |-> "IPv4", ip |-> Self, ready |-> ready]
  <2>1. e \in Slices(nodes)
    BY Zenon DEF Slices
  <2> QED
    BY <2>1, Zenon
<1>4. Self \in ExtractPeersFromEndpointSlices(Slices(nodes))
  BY <1>3, Zenon DEF ExtractPeersFromEndpointSlices
<1> QED
  BY <1>1, <1>2, <1>4, Zenon DEF Extract

LEMMA K8sTyped ==
    ASSUME TypeOK, K8sStep
    PROVE  /\ K8sTypeOK' /\ mechanism' = mechanism
           /\ UNCHANGED <<cluster, revision, faults, pool, stop, picker>>
           /\ update' = update \/ update' = [update EXCEPT !["pool"] = Extract(store)]
<1> USE DEF TypeOK, K8sTypeOK
<1>1. CASE \E n \in Nodes : InformerSees(n)
  BY <1>1 DEF InformerSees, sharedVars
<1>2. CASE Handler
  BY <1>2 DEF Handler, OnUpdate
<1>3. CASE HandlerReturns \/ InformerExits
  BY <1>3 DEF HandlerReturns, InformerExits, sharedVars
<1> QED
  BY <1>1, <1>2, <1>3, Zenon DEF K8sStep

LEMMA K8sKeeps ==
    ASSUME PoolInv, K8sOnly(K8sStep)
    PROVE  PoolInv'
<1> USE DEF PoolInv
<1>0. /\ kind = "k8s" /\ K8sStep
      /\ UNCHANGED <<etcdVars, dnsVars, memberVars, kind, stage, res, inflight>>
  BY DEF K8sOnly, daemonVars
<1>1. informer # "off"
  BY <1>0, Zenon DEF K8sStep, InformerSees, Handler, HandlerReturns, InformerExits
<1>2. Extract(store) \in PeerLists /\ Self \in Extract(store) /\ Extract(store) # NoUpdate
      /\ "pool" \in Updaters
  BY <1>1, ExtractListed, ListIsNoUpdate, ZenonT(60) DEF K8sInv, SharedInv, TypeOK, K8sTypeOK, Updaters
<1>3. update' \in [Updaters -> PeerLists \cup {NoUpdate}] /\ update'["join"] = update["join"]
      /\ update["join"] = NoUpdate /\ "pool" \in DOMAIN update
  <2>1. /\ update \in [Updaters -> PeerLists \cup {NoUpdate}] /\ update["join"] = NoUpdate
        /\ update' = update \/ update' = [update EXCEPT !["pool"] = Extract(store)]
    BY <1>0, K8sTyped, Zenon DEF SharedInv, TypeOK
  <2> HIDE DEF PoolInv
  <2> QED
    BY <1>2, <2>1, Handed DEF Updaters
<1>4. TypeOK'
  BY <1>0, <1>3, K8sTyped, TypesKept, Zenon DEF SharedInv, TypeOK
<1>5. SharedInv'
  BY <1>0, <1>1, <1>3, <1>4, Zenon DEF SharedInv, memberVars
<1>6. EtcdInv' /\ EtcdEnds' /\ MemberInv'
  BY <1>0, K8sTyped, Zenon DEF SharedInv, EtcdInv, EtcdEnds, etcdVars, MemberInv, memberVars
<1>7. DNSInv'
  BY <1>0, K8sTyped, Zenon DEF DNSInv, dnsVars
<1>8. K8sInv'
  <2> USE DEF K8sInv
  <2>0. pending \in Nat /\ Self \in Nodes /\ store \in [Nodes -> {"down", "scheduled", "starting", "up"}]
    BY Zenon DEF SharedInv, TypeOK, K8sTypeOK, Nodes
  <2>1. CASE \E n \in Nodes : InformerSees(n)
    <3>1. PICK n \in Nodes : InformerSees(n)
      BY <2>1
    <3>2. /\ pending' # 0 /\ store'[Self] \in {store[Self], cluster[Self]}
          /\ UNCHANGED <<cluster, mechanism, informer, update, picker>>
      <4> HIDE DEF K8sInv, PoolInv
      <4> QED
        BY <2>0, <3>1 DEF InformerSees, sharedVars
    <3> QED
      BY <1>0, <1>1, <3>2, Zenon
  <2>2. CASE Handler
    <3>1. update'["pool"] = Extract(store) /\ informer' = "calling" /\ store' = store
          /\ kind' = "k8s" /\ cluster' = cluster /\ mechanism' = mechanism
      BY <1>0, <1>3, <2>2, Zenon DEF Handler, OnUpdate
    <3>2. Latest' = Extract(store)
      BY <1>2, <1>3, <3>1, Zenon DEF Latest
    <3>3. Extract(store)' = Extract(store)
      BY <3>1, Zenon DEF Extract
    <3> QED
      BY <1>0, <1>1, <1>2, <3>1, <3>2, <3>3, Zenon
  <2>3. CASE HandlerReturns \/ InformerExits
    BY <1>0, <2>3, Zenon DEF HandlerReturns, InformerExits, sharedVars, Latest, Extract
  <2> QED
    BY <1>0, <2>1, <2>2, <2>3, Zenon DEF K8sStep
<1> QED
  BY <1>5, <1>6, <1>7, <1>8

-----------------------------------------------------------------------------
(* Gossip.                                                                 *)

\* The map of peers with an entry set or deleted.
LEMMA EntrySet ==
    ASSUME MemberTypeOK, NEW n \in Nodes, NEW peer \in Nodes \cup {Blank}
    PROVE  /\ DOMAIN Set(n, peer) = DOMAIN peers \cup {n}
           /\ Range(Set(n, peer)) \subseteq Nodes \cup {Blank}
           /\ Set(n, peer)[n] = peer
           /\ \A m \in DOMAIN peers : m # n => Set(n, peer)[m] = peers[m]
BY Zenon DEF MemberTypeOK, Set, Range

LEMMA EntryDeleted ==
    ASSUME MemberTypeOK, NEW n \in Nodes
    PROVE  /\ DOMAIN Restrict(peers, DOMAIN peers \ {n}) = DOMAIN peers \ {n}
           /\ Range(Restrict(peers, DOMAIN peers \ {n})) \subseteq Nodes \cup {Blank}
           /\ \A m \in DOMAIN peers : m # n => Restrict(peers, DOMAIN peers \ {n})[m] = peers[m]
BY Zenon DEF MemberTypeOK, Range, Restrict

\* A list handed over is the latest, unless the other goroutine is handing one
\* over too.
LEMMA CallHands ==
    ASSUME TypeOK, NEW c \in Updaters, NEW new, Range(new) \subseteq Nodes \cup {Blank},
           callOnUpdate(c, new)
    PROVE  /\ peers' = new /\ update' \in [Updaters -> PeerLists \cup {NoUpdate}]
           /\ overlapped' \in BOOLEAN
           /\ \A d \in Updaters : d # c => update'[d] = update[d]
           /\ update'[c] = Range(new) /\ Range(new) # NoUpdate
           /\ ~overlapped' => update'[Other(c)] = NoUpdate /\ Latest' = Range(new)
<1>1. Range(new) \in PeerLists /\ Range(new) # NoUpdate
  BY ListIsNoUpdate DEF PeerLists
<1>2. update' = [update EXCEPT ![c] = Range(new)] /\ peers' = new
      /\ update \in [Updaters -> PeerLists \cup {NoUpdate}]
  BY Zenon DEF callOnUpdate, OnUpdate, TypeOK
<1>3. update' \in [Updaters -> PeerLists \cup {NoUpdate}]
  BY <1>1, <1>2, Handed
<1>4. (\A d \in Updaters : d # c => update'[d] = update[d]) /\ update'[c] = Range(new)
  BY <1>2
<1>5. overlapped' = (overlapped \/ update[Other(c)] # NoUpdate)
  BY Zenon DEF callOnUpdate
<1>6. overlapped' \in BOOLEAN
  BY <1>5
<1>7. ~overlapped' => update[Other(c)] = NoUpdate
  BY <1>5, Zenon
<1>8. Other(c) \in Updaters /\ Other(c) # c /\ {c, Other(c)} = {"pool", "join"}
  BY DEF Other, Updaters
<1>9. ~overlapped' => update'[Other(c)] = NoUpdate /\ Latest' = Range(new)
  BY <1>1, <1>4, <1>7, <1>8, Zenon DEF Latest
<1> QED
  BY <1>1, <1>2, <1>3, <1>4, <1>6, <1>9, Zenon

\* What a change of the map by one of the two goroutines keeps.
LEMMA CallKeeps ==
    ASSUME PoolInv, kind = "member-list", NEW c \in Updaters, NEW new,
           callOnUpdate(c, new), DOMAIN new \subseteq Nodes,
           Range(new) \subseteq Nodes \cup {Blank},
           c = "join" => join' = "added",
           UNCHANGED <<cluster, revision, pool, picker, kind, res, inflight>>,
           UNCHANGED <<etcdVars, dnsVars, k8sVars>>,
           faults' \in 0 .. MaxFaults, stop' \in {"no", "ctx", "done"},
           stage \notin Early /\ stage' \notin Early,
           stage' \in Stopped => stage \in Stopped,
           view' \subseteq Others,
           join' \in {"off", "joining", "joined", "added", "done", "failed"},
           join' = join \/ (join = "joined" /\ join' = "added"),
           DOMAIN new \subseteq view' \cup {Self},
           join' \in {"added", "done"} /\ stop' = "no" => Self \in DOMAIN new /\ new[Self] = Self
    PROVE  PoolInv'
<1> USE DEF PoolInv
<1>1. /\ peers' = new /\ update' \in [Updaters -> PeerLists \cup {NoUpdate}]
      /\ overlapped' \in BOOLEAN
      /\ \A d \in Updaters : d # c => update'[d] = update[d]
      /\ ~overlapped' => update'[Other(c)] = NoUpdate /\ Latest' = Range(new)
  <2>1. TypeOK
    BY Zenon DEF SharedInv
  <2> HIDE DEF PoolInv
  <2> QED
    BY <2>1, CallHands
<1>2. MemberTypeOK'
  BY <1>1, Zenon DEF MemberTypeOK
<1>3. TypeOK'
  BY <1>1, <1>2, TypesKept, Zenon DEF SharedInv, TypeOK
<1>4. SharedInv'
  <2>1. update'["join"] # NoUpdate => join' = "added"
    BY <1>1, Zenon DEF SharedInv, Updaters
  <2> QED
    BY <1>3, <2>1, Zenon DEF SharedInv
<1>5. EtcdInv' /\ EtcdEnds' /\ DNSInv' /\ K8sInv'
  BY ZenonT(60) DEF EtcdInv, EtcdEnds, etcdVars, DNSInv, dnsVars, K8sInv, k8sVars
<1>6. MemberInv'
  BY <1>1, Zenon DEF MemberInv, Other, Updaters
<1> QED
  BY <1>4, <1>5, <1>6, Zenon

\* Steps of the joining goroutine that hand nothing over.
LEMMA JoinKeeps ==
    ASSUME PoolInv, kind = "member-list", joinPool \/ Joined,
           UNCHANGED <<etcdVars, dnsVars, k8sVars, daemonVars>>
    PROVE  PoolInv'
<1> USE DEF PoolInv, daemonVars
<1>1. /\ UNCHANGED <<cluster, revision, stop, update, picker, view, peers, overlapped>>
      /\ join \in {"joining", "added"} /\ join' \in {"joined", "done", "failed"}
      /\ (join' = "done" => join = "added") /\ (update["join"] = NoUpdate)
      /\ pool' \in {"none", "creating", "up", "failed"} /\ faults' \in 0 .. MaxFaults
  BY FaultCounted, ZenonT(60) DEF joinPool, Joined, SharedInv, TypeOK
<1>2. TypeOK'
  <2>1. MemberTypeOK'
    BY <1>1, Zenon DEF SharedInv, TypeOK, MemberTypeOK
  <2> QED
    BY <1>1, <2>1, TypesKept, Zenon DEF SharedInv, TypeOK
<1>3. SharedInv'
  BY <1>1, <1>2, Zenon DEF SharedInv
<1>4. EtcdInv' /\ EtcdEnds' /\ DNSInv' /\ K8sInv'
  BY <1>1, ZenonT(60) DEF EtcdInv, EtcdEnds, etcdVars, DNSInv, dnsVars, K8sInv, k8sVars
<1>5. MemberInv'
  BY <1>1, Zenon DEF MemberInv, Latest
<1> QED
  BY <1>3, <1>4, <1>5, Zenon

\* A node whose metadata cannot be decoded is alive and not in the map.
LEMMA SkipKeeps ==
    ASSUME PoolInv, kind = "member-list", join # "off", NEW n \in Others,
           view' = view \cup {n}, faults' \in 0 .. MaxFaults,
           UNCHANGED <<cluster, revision, pool, stop, update, picker, peers, join, overlapped>>,
           UNCHANGED <<etcdVars, dnsVars, k8sVars, daemonVars>>
    PROVE  PoolInv'
<1> USE DEF PoolInv, daemonVars
<1>1. TypeOK'
  <2>1. MemberTypeOK'
    BY Zenon DEF SharedInv, TypeOK, MemberTypeOK
  <2> QED
    BY <2>1, TypesKept, Zenon DEF SharedInv, TypeOK
<1>2. SharedInv'
  BY <1>1, Zenon DEF SharedInv
<1>3. EtcdInv' /\ EtcdEnds' /\ DNSInv' /\ K8sInv'
  BY ZenonT(60) DEF EtcdInv, EtcdEnds, etcdVars, DNSInv, dnsVars, K8sInv, k8sVars
<1>4. MemberInv'
  BY Zenon DEF MemberInv, Latest
<1> QED
  BY <1>2, <1>3, <1>4, Zenon

LEMMA MemberKeeps ==
    ASSUME PoolInv, MemberOnly(MemberStep)
    PROVE  PoolInv'
<1>0. /\ kind = "member-list" /\ MemberStep
      /\ UNCHANGED <<etcdVars, dnsVars, k8sVars, daemonVars>>
  BY DEF MemberOnly
<1>1. /\ UNCHANGED <<kind, stage, res, inflight>> /\ Self \in Nodes /\ "pool" \in Updaters
      /\ "join" \in Updaters /\ Self \notin Others /\ MemberTypeOK /\ Others \subseteq Nodes
      /\ faults \in 0 .. MaxFaults /\ stop \in {"no", "ctx", "done"} /\ view \subseteq Others
      /\ join \in {"off", "joining", "joined", "added", "done", "failed"}
      /\ DOMAIN peers \subseteq view \cup {Self} /\ (join # "off" => stage \notin Early)
      /\ (join \in {"added", "done"} /\ stop = "no" => Self \in DOMAIN peers /\ peers[Self] = Self)
  BY <1>0, DiscoveryAssumption, ZenonT(60) DEF daemonVars, Nodes, Updaters, PoolInv, SharedInv, TypeOK,
     MemberTypeOK, MemberInv
<1>2. CASE joinPool \/ Joined
  BY <1>0, <1>2, JoinKeeps
<1>3. CASE addPeer
  <2>1. /\ DOMAIN Set(Self, Self) = DOMAIN peers \cup {Self} /\ Set(Self, Self)[Self] = Self
        /\ Range(Set(Self, Self)) \subseteq Nodes \cup {Blank}
    BY <1>1, EntrySet, ZenonT(60)
  <2>2. DOMAIN Set(Self, Self) \subseteq Nodes
    BY <1>1, <2>1, Zenon DEF MemberTypeOK
  <2>3. /\ join = "joined" /\ join' = "added" /\ callOnUpdate("join", Set(Self, Self))
        /\ UNCHANGED <<cluster, revision, faults, pool, stop, picker, view>>
    BY <1>3, Zenon DEF addPeer
  <2> HIDE DEF callOnUpdate
  <2> QED
    BY <1>0, <1>1, <2>1, <2>2, <2>3, CallKeeps, Zenon
<1>4. ASSUME NEW n \in Others, NotifyJoin(n)
      PROVE  PoolInv'
  <2>1. /\ join # "off" /\ view' = view \cup {n}
        /\ UNCHANGED <<cluster, revision, pool, stop, picker, join>>
    BY <1>4, Zenon DEF NotifyJoin, Notified
  <2>2. CASE Fault /\ UNCHANGED <<peers, update, overlapped>>
    BY <1>0, <1>1, <2>1, <2>2, FaultCounted, SkipKeeps, Zenon
  <2>3. CASE callOnUpdate("pool", Set(n, n)) /\ UNCHANGED faults
    <3>1. /\ DOMAIN Set(n, n) = DOMAIN peers \cup {n}
          /\ Range(Set(n, n)) \subseteq Nodes \cup {Blank}
          /\ \A m \in DOMAIN peers : m # n => Set(n, n)[m] = peers[m]
      <4>1. n \in Nodes /\ n \in Nodes \cup {Blank} /\ MemberTypeOK
        BY <1>1, Zenon
      <4> QED
        BY <4>1, EntrySet, Zenon
    <3>2. DOMAIN Set(n, n) \subseteq Nodes /\ n # Self
      BY <1>1, <3>1, ZenonT(60) DEF MemberTypeOK
    <3> QED
      BY <1>0, <1>1, <2>1, <2>3, <3>1, <3>2, CallKeeps, ZenonT(60)
  <2> QED
    BY <1>4, <2>2, <2>3, Zenon DEF NotifyJoin
<1>5. ASSUME NEW n \in Others, NotifyLeave(n)
      PROVE  PoolInv'
  <2> DEFINE new == Restrict(peers, DOMAIN peers \ {n})
  <2>1. /\ join # "off" /\ view' = view \ {n} /\ callOnUpdate("pool", new)
        /\ UNCHANGED <<cluster, revision, pool, stop, picker, join>>
        /\ faults' \in 0 .. MaxFaults
    BY <1>1, <1>5, FaultCounted, Zenon DEF NotifyLeave, Notified
  <2>2. /\ DOMAIN new = DOMAIN peers \ {n} /\ Range(new) \subseteq Nodes \cup {Blank}
        /\ \A m \in DOMAIN peers : m # n => new[m] = peers[m]
    BY <1>1, EntryDeleted, Zenon
  <2>3. DOMAIN new \subseteq Nodes /\ n # Self
    BY <1>1, <2>2, ZenonT(60) DEF MemberTypeOK
  <2> HIDE DEF new
  <2> QED
    BY <1>0, <1>1, <2>1, <2>2, <2>3, CallKeeps, ZenonT(60)
<1>6. ASSUME NEW n \in Others, NotifyUpdate(n)
      PROVE  PoolInv'
  <2>1. PICK peer \in Nodes \cup {Blank} :
           /\ callOnUpdate("pool", Set(n, peer)) /\ join # "off" /\ n \in view
           /\ UNCHANGED <<cluster, revision, pool, stop, picker, view, join>>
           /\ faults' \in 0 .. MaxFaults
    BY <1>1, <1>6, FaultCounted, Zenon DEF NotifyUpdate, Notified
  <2>2. /\ DOMAIN Set(n, peer) = DOMAIN peers \cup {n}
        /\ Range(Set(n, peer)) \subseteq Nodes \cup {Blank}
        /\ \A m \in DOMAIN peers : m # n => Set(n, peer)[m] = peers[m]
    <3>1. n \in Nodes /\ MemberTypeOK
      BY <1>1, Zenon
    <3> QED
      BY <3>1, EntrySet, Zenon
  <2>3. DOMAIN Set(n, peer) \subseteq Nodes /\ n # Self
    BY <1>1, <2>2, ZenonT(60) DEF MemberTypeOK
  <2> QED
    BY <1>0, <1>1, <2>1, <2>2, <2>3, CallKeeps, ZenonT(60)
<1> QED
  BY <1>0, <1>2, <1>3, <1>4, <1>5, <1>6, Zenon DEF MemberStep

-----------------------------------------------------------------------------
(* Creating and closing the pool.                                          *)

LEMMA CreateKeeps ==
    ASSUME PoolInv, CreatePool
    PROVE  PoolInv'
<1> USE DEF PoolInv
<1>0. /\ stage = "pool" /\ stage' \in {"register", "creating"}
      /\ UNCHANGED <<kind, res, inflight>> /\ faults \in 0 .. MaxFaults
      /\ pool = "none" /\ reg = "off" /\ poll = "off" /\ informer = "off" /\ join = "off"
      /\ asked = 0 /\ found = {} /\ update["join"] = NoUpdate /\ revision \in Nat
  BY ZenonT(60) DEF CreatePool, Early, SharedInv, TypeOK, DNSInv
<1>1. stage' \notin Early /\ stage' \notin Stopped /\ (kind = "etcd" => stage' = "creating")
  BY <1>0, Zenon DEF CreatePool, Early, Stopped
<1>2. CASE kind = "none" /\ UNCHANGED sharedVars /\ NoPoolSteps
  BY <1>0, <1>1, <1>2, FrameKeeps, Zenon DEF Frame, sharedVars, SharedInv, TypeOK
<1>3. CASE kind = "etcd" /\ NewEtcdPool /\ UNCHANGED <<dnsVars, k8sVars, memberVars>>
  <2>1. TypeOK'
    <3>1. EtcdTypeOK'
      BY <1>3, Zenon DEF NewEtcdPool, SharedInv, TypeOK, EtcdTypeOK
    <3> QED
      BY <1>0, <1>3, <3>1, TypesKept, Zenon DEF NewEtcdPool, SharedInv, TypeOK
  <2>2. SharedInv'
    BY <1>0, <1>1, <1>3, <2>1, Zenon DEF NewEtcdPool, SharedInv
  <2>3. EtcdInv' /\ EtcdEnds'
    BY <1>0, <1>1, <1>3, Zenon DEF NewEtcdPool, EtcdInv, EtcdEnds, Latest, Keys, Up
  <2>4. DNSInv' /\ K8sInv' /\ MemberInv'
    BY <1>0, <1>3, Zenon DEF NewEtcdPool, DNSInv, dnsVars, K8sInv, k8sVars, MemberInv, memberVars
  <2> QED
    BY <2>2, <2>3, <2>4
<1>4. CASE kind = "dns" /\ NewDNSPool /\ UNCHANGED <<etcdVars, k8sVars, memberVars>>
  <2>0. /\ faults' \in 0 .. MaxFaults /\ pool' \in {"up", "failed"}
        /\ UNCHANGED <<cluster, revision, stop, update, picker, asked, found, partial>>
        /\ \/ poll' = "lookup" /\ since' = revision
           \/ poll' = poll /\ since' = since
    BY <1>0, <1>4, FaultCounted, Zenon DEF NewDNSPool
  <2>1. TypeOK'
    <3>1. revision <= revision
      BY <1>0
    <3>2. DNSTypeOK'
      BY <2>0, <3>1, Zenon DEF SharedInv, TypeOK, DNSTypeOK
    <3> QED
      BY <1>0, <1>4, <2>0, <3>2, TypesKept, Zenon DEF SharedInv, TypeOK
  <2>2. SharedInv'
    BY <1>0, <1>1, <2>0, <2>1, Zenon DEF SharedInv
  <2>3. EtcdInv' /\ EtcdEnds' /\ K8sInv' /\ MemberInv'
    BY <1>0, <1>4, <2>0, Zenon DEF EtcdInv, EtcdEnds, etcdVars, K8sInv, k8sVars, MemberInv, memberVars
  <2>4. {n \in Up' : \E i \in 1 .. 0 : Answered[n] = Queries[i]} = {}
    OBVIOUS
  <2>5. DNSInv'
    BY <1>0, <1>4, <2>0, <2>4, ZenonT(60) DEF DNSInv
  <2> QED
    BY <2>2, <2>3, <2>5
<1>5. CASE kind = "k8s" /\ NewK8sPool /\ UNCHANGED <<etcdVars, dnsVars, memberVars>>
  <2>1. cluster[Self] \in {"starting", "up"}
        /\ cluster \in [Nodes -> {"down", "scheduled", "starting", "up"}]
    BY <1>5, Zenon DEF K8sInv, SharedInv, TypeOK
  <2> DEFINE Listed == {n \in Nodes : cluster[n] # "down"}
  <2>2. Cardinality(Listed) \in Nat /\ Cardinality(Listed) # 0
    <3>1. IsFiniteSet(Nodes)
      BY DiscoveryAssumption, FS_AddElement, Zenon DEF Nodes
    <3>2. IsFiniteSet(Listed)
      BY <3>1, FS_Subset
    <3>3. Self \in Listed
      BY <2>1 DEF Nodes
    <3> HIDE DEF Listed
    <3> QED
      BY <3>2, <3>3, FS_CardinalityType, FS_EmptySet, Zenon
  <2>3. /\ faults' \in 0 .. MaxFaults /\ pool' \in {"up", "failed"}
        /\ UNCHANGED <<cluster, revision, stop, update, picker, mechanism>>
        /\ \/ informer' = "running" /\ store' = cluster /\ pending' = Cardinality(Listed)
           \/ informer' = informer /\ store' = store /\ pending' = pending
    BY <1>0, <1>5, FaultCounted, Zenon DEF NewK8sPool
  <2> HIDE DEF Listed
  <2>4. TypeOK'
    <3>1. K8sTypeOK'
      BY <2>1, <2>2, <2>3, Zenon DEF SharedInv, TypeOK, K8sTypeOK
    <3> QED
      BY <1>0, <1>5, <2>3, <3>1, TypesKept, Zenon DEF SharedInv, TypeOK
  <2>5. SharedInv'
    BY <1>0, <1>1, <2>3, <2>4, Zenon DEF SharedInv
  <2>6. EtcdInv' /\ EtcdEnds' /\ DNSInv' /\ MemberInv'
    BY <1>0, <1>5, <2>3, ZenonT(60) DEF EtcdInv, EtcdEnds, etcdVars, DNSInv, dnsVars, MemberInv, memberVars
  <2>7. K8sInv'
    BY <1>0, <1>5, <2>1, <2>2, <2>3, ZenonT(60) DEF K8sInv
  <2> QED
    BY <2>5, <2>6, <2>7, Zenon
<1>6. CASE kind = "member-list" /\ NewMemberListPool /\ UNCHANGED <<etcdVars, dnsVars, k8sVars>>
  <2>0. /\ faults' \in 0 .. MaxFaults /\ pool' \in {"creating", "failed"}
        /\ UNCHANGED <<cluster, revision, stop, update, picker, view, peers, overlapped>>
        /\ join' \in {"off", "joining"}
    BY <1>0, <1>6, FaultCounted, Zenon DEF NewMemberListPool
  <2>1. TypeOK'
    <3>1. MemberTypeOK'
      BY <2>0, Zenon DEF SharedInv, TypeOK, MemberTypeOK
    <3> QED
      BY <1>0, <1>6, <2>0, <3>1, TypesKept, Zenon DEF SharedInv, TypeOK
  <2>2. SharedInv'
    BY <1>0, <1>1, <2>0, <2>1, Zenon DEF SharedInv
  <2>3. EtcdInv' /\ EtcdEnds' /\ DNSInv' /\ K8sInv'
    BY <1>0, <1>6, <2>0, Zenon DEF EtcdInv, EtcdEnds, etcdVars, DNSInv, dnsVars, K8sInv, k8sVars
  <2>4. MemberInv'
    BY <1>0, <1>6, <2>0, Zenon DEF MemberInv, Latest
  <2> QED
    BY <2>2, <2>3, <2>4, Zenon
<1> QED
  BY <1>2, <1>3, <1>4, <1>5, <1>6, Zenon DEF CreatePool

LEMMA ClosePoolKeeps ==
    ASSUME PoolInv, ClosePool
    PROVE  PoolInv'
<1>0. /\ stage = "close" /\ stage' = "stopping" /\ UNCHANGED <<etcdVars, dnsVars, k8sVars>>
      /\ UNCHANGED <<kind, res, inflight>> /\ faults \in 0 .. MaxFaults /\ MemberTypeOK
  BY Zenon DEF ClosePool, PoolInv, SharedInv, TypeOK
<1>1. stage \notin Early /\ stage' \notin Early /\ stage' \notin Stopped
  BY <1>0 DEF Early, Stopped
<1>2. CASE pool # "up"
  <2>1. UNCHANGED <<sharedVars, memberVars>>
    BY <1>2, Zenon DEF ClosePool
  <2> QED
    BY <1>0, <1>1, <2>1, FrameKeeps, Zenon DEF Frame, sharedVars, NoPoolSteps, PoolInv, SharedInv, TypeOK
<1>3. CASE pool = "up" /\ kind = "member-list"
  <2> DEFINE new == Restrict(peers, DOMAIN peers \ {Self})
  <2>1. /\ callOnUpdate("pool", new) /\ stop' = "done"
        /\ UNCHANGED <<cluster, revision, faults, pool, picker, view, join>>
    BY <1>3, Zenon DEF ClosePool, Leave
  <2>2. DOMAIN new = DOMAIN peers \ {Self} /\ Range(new) \subseteq Nodes \cup {Blank}
    BY <1>0, EntryDeleted, Zenon DEF Nodes
  <2>3. /\ DOMAIN new \subseteq Nodes /\ DOMAIN new \subseteq view \cup {Self}
        /\ view \subseteq Others /\ "pool" \in Updaters
        /\ join \in {"off", "joining", "joined", "added", "done", "failed"}
    BY <1>0, <2>2, Zenon DEF PoolInv, MemberInv, MemberTypeOK, Updaters
  <2> HIDE DEF new
  <2> QED
    BY <1>0, <1>1, <1>3, <2>1, <2>2, <2>3, CallKeeps, Zenon
<1>4. CASE pool = "up" /\ kind # "member-list"
  <2>1. /\ stop' \in {"ctx", "done"}
        /\ UNCHANGED <<cluster, revision, faults, pool, update, picker, memberVars>>
    BY <1>4, Zenon DEF ClosePool
  <2>2. TypeOK'
    BY <1>0, <2>1, TypesKept, Zenon DEF PoolInv, SharedInv, TypeOK
  <2>3. SharedInv'
    BY <1>0, <1>1, <2>1, <2>2, Zenon DEF PoolInv, SharedInv, memberVars
  <2>4. EtcdInv' /\ EtcdEnds'
    BY <1>0, <1>1, <1>4, <2>1, ZenonT(60) DEF PoolInv, EtcdInv, EtcdEnds, etcdVars, Latest, Keys, Up
  <2>5. DNSInv' /\ K8sInv'
    BY <1>0, <2>1, ZenonT(60) DEF PoolInv, DNSInv, dnsVars, K8sInv, k8sVars, Latest, Up, Extract
  <2>6. MemberInv'
    BY <1>0, <1>4, <2>1, Zenon DEF PoolInv, MemberInv, memberVars
  <2> QED
    BY <2>3, <2>4, <2>5, <2>6 DEF PoolInv
<1> QED
  BY <1>2, <1>3, <1>4

-----------------------------------------------------------------------------
(* The theorems.                                                           *)

LEMMA InitInv ==
    ASSUME Init
    PROVE  Inv
<1> USE DEF Init, SharedInit, EtcdInit, DNSInit, K8sInit, MemberInit
<1>1. Range(peers) = {} /\ DOMAIN peers = {}
  BY Zenon DEF Range
<1>2. EtcdTypeOK
  <2>1. ignored \in BOOLEAN /\ canceled \in BOOLEAN
    BY Zenon
  <2> QED
    BY <2>1 DEF EtcdTypeOK
<1>3. DNSTypeOK
  <2>1. partial \in BOOLEAN
    BY Zenon
  <2>2. 0 \in 0 .. Len(Queries) /\ 0 <= 1
    <3> HIDE DEF Init, SharedInit, EtcdInit, DNSInit, K8sInit, MemberInit
    <3> QED
      BY DNSAssumption
  <2> QED
    BY <2>1, <2>2, Zenon DEF DNSTypeOK
<1>4. K8sTypeOK /\ MemberTypeOK
  <2>1. overlapped \in BOOLEAN
    BY Zenon
  <2> QED
    BY <1>1, <2>1, Zenon DEF K8sTypeOK, MemberTypeOK
<1>5. /\ update["pool"] = NoUpdate /\ update["join"] = NoUpdate /\ Latest = {}
      /\ update \in [Updaters -> PeerLists \cup {NoUpdate}] /\ picker \in PeerLists
  BY Zenon DEF Updaters, Latest, PeerLists
<1>6. SharedInv
  BY <1>2, <1>3, <1>4, <1>5, DiscoveryAssumption DEF SharedInv, TypeOK
<1>7. EtcdInv /\ EtcdEnds
  BY <1>5, Zenon DEF EtcdInv, EtcdEnds, Stopped
<1>8. DNSInv /\ K8sInv
  BY <1>5, Zenon DEF DNSInv, K8sInv
<1>9. MemberInv
  BY <1>1, <1>5, Zenon DEF MemberInv
<1>10. CloseInv
  BY Zenon DEF CloseInv, Serves, Closing, Stopped
<1> QED
  BY <1>6, <1>7, <1>8, <1>9, <1>10, Zenon DEF Inv, PoolInv

LEMMA InvStep ==
    ASSUME Inv, [Next]_vars
    PROVE  Inv'
<1>1. TypeOK /\ PoolInv /\ CloseInv
  BY DEF Inv, PoolInv, SharedInv
<1>2. CloseInv'
  BY <1>1, CloseStays
<1> SUFFICES PoolInv'
  BY <1>2 DEF Inv
<1>3. CASE UNCHANGED vars
  BY <1>1, <1>3, FrameKeeps, Zenon DEF vars, sharedVars, daemonVars, Frame, NoPoolSteps, TypeOK
<1>4. CASE Moves \/ CreatePool \/ ClosePool \/ StopEtcd \/ DaemonSetPeers \/ ClusterChanges
           \/ SelfReady
  BY <1>1, <1>4, MovesKeep, CreateKeeps, ClosePoolKeeps, StopKeeps, SetPeersKeeps, ChangeKeeps
<1>5. CASE EtcdOnly(EtcdStep) \/ DNSOnly(DNSStep) \/ K8sOnly(K8sStep) \/ MemberOnly(MemberStep)
  BY <1>1, <1>5, EtcdKeeps, DNSKeeps, K8sKeeps, MemberKeeps
<1>6. CASE \E c \in Updaters : Apply(c)
  BY <1>1, <1>6, ApplyKeeps
<1> QED
  BY <1>3, <1>4, <1>5, <1>6, NextCases, Zenon

LEMMA InvHolds == Spec => []Inv
BY InitInv, InvStep, PTL DEF Spec

LEMMA InvAgrees ==
    ASSUME Inv
    PROVE  PeersFollowCluster
<1> USE DEF Inv, PoolInv
<1>1. TypeOK
  BY DEF SharedInv
<1>2. EtcdAgrees
  <2> SUFFICES ASSUME watch = "read", next > revision, ~ignored PROVE picker = Keys
    BY DEF EtcdAgrees
  <2>1. kind = "etcd" /\ update["pool"] = NoUpdate /\ update["join"] = NoUpdate
    BY Zenon DEF EtcdInv, SharedInv
  <2> QED
    BY <2>1, Zenon DEF EtcdInv, Latest
<1>3. DNSAgrees
  <2> SUFFICES ASSUME poll = "sleep", ~partial, since = revision, Up # {} PROVE picker = Up
    BY DEF DNSAgrees
  <2>1. found = {n \in Up : \E i \in 1 .. Len(Queries) : Answered[n] = Queries[i]}
    BY Zenon DEF DNSInv
  <2>2. found = Up
    BY <2>1, DNSAssumption, Zenon DEF Up
  <2>3. update["pool"] = NoUpdate /\ update["join"] = NoUpdate
    BY Zenon DEF DNSInv, SharedInv
  <2> QED
    BY <2>2, <2>3, Zenon DEF DNSInv, Latest
<1>4. K8sAgrees
  <2> SUFFICES ASSUME informer = "running", pending = 0, store = cluster
               PROVE  picker = Extract(cluster)
    BY DEF K8sAgrees
  <2>1. kind = "k8s" /\ update["pool"] = NoUpdate /\ update["join"] = NoUpdate
    BY Zenon DEF K8sInv, SharedInv
  <2> QED
    BY <2>1, Zenon DEF K8sInv, Latest
<1>5. MemberAgrees
  <2> SUFFICES ASSUME join = "done", stop = "no", update["pool"] = NoUpdate, ~overlapped,
                      view = Up \ {Self}, \A n \in view : n \in DOMAIN peers /\ peers[n] = n
               PROVE  picker = Up \cup {Self}
    BY Zenon DEF MemberAgrees
  <2>1. update["join"] = NoUpdate /\ kind = "member-list"
    BY Zenon DEF SharedInv, MemberInv
  <2>2. picker = Range(peers)
    BY <2>1, Zenon DEF MemberInv, Latest
  <2>3. DOMAIN peers = Up \cup {Self} /\ \A n \in DOMAIN peers : peers[n] = n
    BY Zenon DEF MemberInv
  <2> QED
    BY <2>2, <2>3, ZenonT(60) DEF Range
<1> QED
  BY <1>1, <1>2, <1>3, <1>4, <1>5 DEF PeersFollowCluster

\* Whatever the number of nodes, of changes and of faults, no pool misses a
\* change: what it was told of is what SetPeers has.
THEOREM NoChangeMissed == Spec => []PeersFollowCluster
BY InvHolds, InvAgrees, PTL

LEMMA InvListed ==
    ASSUME Inv, [Next]_vars
    PROVE  /\ kind = "dns" /\ picker # {} => picker' # {}
           /\ kind = "k8s" /\ Healthy => Healthy'
<1>1. CASE picker' = picker
  BY <1>1 DEF Healthy
<1>2. CASE \E c \in Updaters : Apply(c)
  <2>1. PICK c \in Updaters : picker' = update[c] /\ update[c] # NoUpdate
    BY <1>2 DEF Apply, SetPeersReturns
  <2>2. kind \in {"dns", "k8s"} => c = "pool"
    BY <2>1 DEF Inv, PoolInv, SharedInv, Updaters
  <2> QED
    BY <2>1, <2>2, Zenon DEF Inv, PoolInv, DNSInv, K8sInv, Healthy
<1>3. CASE Moves
  BY <1>1, <1>3, MovesFrame, Zenon DEF Frame, Inv, PoolInv, SharedInv
<1>4. CASE CreatePool
  BY <1>1, <1>4, Zenon DEF CreatePool, sharedVars, NewEtcdPool, NewDNSPool, NewK8sPool,
     NewMemberListPool
<1>5. CASE UNCHANGED vars \/ ClosePool \/ StopEtcd \/ DaemonSetPeers
  BY <1>1, <1>5, Zenon DEF vars, sharedVars, ClosePool, Leave, StopEtcd, DaemonSetPeers
<1>6. CASE ClusterChanges \/ SelfReady
  BY <1>1, <1>6, Zenon DEF ClusterChanges, SelfReady, NodeChanges
<1>7. CASE EtcdOnly(EtcdStep) \/ MemberOnly(MemberStep)
  BY <1>7 DEF EtcdOnly, MemberOnly
<1>8. CASE DNSOnly(DNSStep) \/ K8sOnly(K8sStep)
  BY <1>1, <1>8, DNSTyped, K8sTyped, Zenon DEF DNSOnly, K8sOnly, Inv, PoolInv, SharedInv
<1> QED
  BY <1>2, <1>3, <1>4, <1>5, <1>6, <1>7, <1>8, NextCases, Zenon

\* A DNS outage never empties the list and a node in Kubernetes never drops
\* itself, whatever the cluster does.
THEOREM NeverUnlisted == Spec => StaysListed
<1>1. Inv /\ [Next]_vars =>
         [/\ kind = "dns" /\ picker # {} => picker' # {}
          /\ kind = "k8s" /\ Healthy => Healthy']_vars
  BY InvListed
<1> QED
  BY <1>1, InvHolds, PTL DEF Spec, StaysListed

LEMMA InvOrderly ==
    ASSUME Inv
    PROVE  OrderlyClose
<1> USE DEF Inv, PoolInv
<1>1. inflight # {} => {"instance", "workers"} \subseteq res
  BY Zenon DEF CloseInv, SharedInv, TypeOK
<1>2. ASSUME stage = "closed"
      PROVE  res = Unreleased
  <2>1. res \subseteq {"workers", "listener"}
    BY <1>2, ZenonT(60) DEF CloseInv, SharedInv, TypeOK, Servers
  <2>2. /\ "workers" \in res => failedAt = "instance"
        /\ "listener" \in res <=> failedAt = "status"
    BY <1>2, Zenon DEF CloseInv, Closing, Stopped
  <2> QED
    BY <2>1, <2>2, Zenon DEF Unreleased
<1>3. stage = "closed" /\ kind = "etcd" /\ pool = "up" => EtcdExited /\ update["pool"] = NoUpdate
  BY Zenon DEF EtcdEnds, EtcdInv, EtcdExited, Stopped
<1> QED
  BY <1>1, <1>2, <1>3 DEF OrderlyClose

\* Requests find the instance open, and Close leaves nothing behind but what
\* Unreleased names, wherever Start failed and whatever the pool was doing.
THEOREM NothingLeftOpen == Spec => []OrderlyClose
BY InvHolds, InvOrderly, PTL
=============================================================================
