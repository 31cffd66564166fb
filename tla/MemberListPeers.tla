-------------------------- MODULE MemberListPeers --------------------------
(***************************************************************************)
(* The gossip pool and SetPeers together: the two goroutines of            *)
(* MemberListPool are the callers of PeerSet, and each waits for its call. *)
(***************************************************************************)
EXTENDS MemberListPool, PeerSet

vars == <<sharedVars, memberVars, peerVars>>

Init ==
    /\ SharedInit /\ MemberInit /\ PeerSetInit
    /\ cluster[Self] = "down"

InfosOf(addrs) == [addr : addrs, dc : {Here}]

\* OnUpdate is SetPeers.
CallSetPeers(c) ==
    /\ update[c] # NoUpdate
    /\ Call(c, InfosOf(update[c]))
    /\ UNCHANGED <<sharedVars, memberVars>>

\* A call that returns lets its goroutine go on.
SetPeersStep(c) ==
    /\ CallStep(c)
    /\ update' = IF at'[c] = "idle" THEN [update EXCEPT ![c] = NoUpdate] ELSE update
    /\ UNCHANGED <<cluster, revision, faults, pool, stop, picker, memberVars>>

Start == pool = "none" /\ NewMemberListPool /\ UNCHANGED peerVars

Gossip == MemberStep /\ UNCHANGED peerVars

Change ==
    /\ \E n \in Others, status \in {"down", "up"} : NodeChanges(n, status)
    /\ UNCHANGED <<memberVars, peerVars>>

Next ==
    \/ Start \/ Gossip \/ Change
    \/ \E c \in Callers : CallSetPeers(c) \/ SetPeersStep(c)

Spec == Init /\ [][Next]_vars
=============================================================================
