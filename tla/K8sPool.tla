------------------------------ MODULE K8sPool ------------------------------
(***************************************************************************)
(* Discovery through Kubernetes (kubernetes.go).  An informer keeps a copy *)
(* of the pods, or of the endpoint slices, and calls a handler for every   *)
(* change; the handler extracts the peers from the whole copy, which may   *)
(* be newer than the change it is called for.                              *)
(***************************************************************************)
EXTENDS Discovery

VARIABLES
    mechanism,   \* "pods" or "endpointslices"
    store,       \* the informer's copy of what each node is
    pending,     \* notifications the handler has not been called for yet
    informer     \* "off", "running", "calling" the handler or "exited"

k8sVars == <<mechanism, store, pending, informer>>

K8sInit ==
    /\ mechanism \in {"pods", "endpointslices"}
    /\ store = [n \in Nodes |-> "down"]
    /\ pending = 0 /\ informer = "off"

-----------------------------------------------------------------------------
\* The containers of a pod are ready when it is up.  This node is not left out
\* when they are not: "We need to be able to discover ourselves for the health
\* check."  A pod that was only scheduled has no containers that might not be
\* ready, and no address yet.
ExtractPeersFromPods(pods) ==
    {n \in Nodes : pods[n] = "up"}
    \cup {n \in {Self} : pods[n] = "starting"}
    \cup {Blank : n \in {n \in Nodes : pods[n] = "scheduled"}}

\* Every node that has an address has an endpoint in a slice per address
\* family.  Readiness may be unknown, which counts as ready.
Slices(nodes) ==
    {e \in [family : {"IPv4", "IPv6"}, ip : Nodes, ready : {"nil", "true", "false"}] :
        \/ nodes[e.ip] = "up" /\ e.ready = (IF e.family = "IPv4" THEN "true" ELSE "nil")
        \/ nodes[e.ip] = "starting" /\ e.ready = "false"}

ExtractPeersFromEndpointSlices(slices) ==
    {e.ip : e \in {e \in slices : e.family = "IPv4" /\ (e.ready # "false" \/ e.ip = Self)}}

Extract(nodes) ==
    IF mechanism = "pods" THEN ExtractPeersFromPods(nodes)
    ELSE ExtractPeersFromEndpointSlices(Slices(nodes))

-----------------------------------------------------------------------------
\* The informer lists the objects and is in sync before the pool is returned.
NewK8sPool ==
    /\ \/ /\ pool' = "up" /\ informer' = "running" /\ store' = cluster
          /\ pending' = Cardinality({n \in Nodes : cluster[n] # "down"})
          /\ UNCHANGED faults
       \/ Fault /\ pool' = "failed" /\ UNCHANGED <<informer, store, pending>>
    /\ UNCHANGED <<cluster, revision, stop, update, picker, mechanism>>

\* A change arrives: of one pod, or of the slice with all of them.
InformerSees(n) ==
    /\ informer \in {"running", "calling"} /\ stop = "no" /\ store[n] # cluster[n]
    /\ store' = IF mechanism = "pods" THEN [store EXCEPT ![n] = cluster[n]] ELSE cluster
    /\ pending' = pending + 1
    /\ UNCHANGED <<sharedVars, mechanism, informer>>

\* updatePeersFromPods, updatePeersFromEndpointSlices.
Handler ==
    /\ informer = "running" /\ pending > 0
    /\ pending' = pending - 1 /\ informer' = "calling"
    /\ OnUpdate("pool", Extract(store))
    /\ UNCHANGED <<cluster, revision, faults, pool, stop, picker, mechanism, store>>

HandlerReturns ==
    /\ informer = "calling" /\ update["pool"] = NoUpdate
    /\ informer' = "running"
    /\ UNCHANGED <<sharedVars, mechanism, store, pending>>

\* After Close notifications may still be delivered before the informer ends.
InformerExits ==
    /\ informer = "running" /\ stop = "done"
    /\ informer' = "exited" /\ pending' = 0
    /\ UNCHANGED <<sharedVars, mechanism, store>>

K8sStep == (\E n \in Nodes : InformerSees(n)) \/ Handler \/ HandlerReturns \/ InformerExits

K8sTypeOK ==
    /\ mechanism \in {"pods", "endpointslices"}
    /\ store \in [Nodes -> {"down", "scheduled", "starting", "up"}]
    /\ pending \in Nat
    /\ informer \in {"off", "running", "calling", "exited"}

\* When every change has arrived and every notification was handled.
K8sAgrees ==
    informer = "running" /\ pending = 0 /\ store = cluster => picker = Extract(cluster)
=============================================================================
