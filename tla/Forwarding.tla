----------------------------- MODULE Forwarding -----------------------------
(***************************************************************************)
(* One node answering GetRateLimits for one key that other nodes may own:  *)
(* it picks the owner from its hash ring, applies the request itself or    *)
(* forwards it (asyncRequest), and may try again.  Meanwhile SetPeers      *)
(* changes the ring and shuts down clients of peers that left, callers     *)
(* stop waiting, and peer calls fail before or after the peer applied      *)
(* them.  PeerClient.tla has the inside of a forwarding call.              *)
(***************************************************************************)
EXTENDS Naturals, FiniteSets, PeerRing

CONSTANTS
    Self,            \* the client that stands for this node (IsOwner)
    Plain,           \* requests without max_wait
    Scheduled,       \* requests with max_wait
    MaxAttempts,     \* asyncRequest gives up when attempts exceed it
    ContextErrors,   \* BOOLEANs: whether a failed peer call reports a context error
    MaxChanges       \* bound: ring changes

ASSUME ForwardingAssumption ==
    /\ MaxAttempts \in Nat /\ MaxChanges \in Nat
    /\ ContextErrors \subseteq BOOLEAN
    /\ Self \in Clients /\ NoPeer \notin Clients /\ Keys # {}
    /\ Plain \cap Scheduled = {}

Requests == Plain \cup Scheduled

\* The key of the requests.
key == CHOOSE k \in Keys : TRUE

VARIABLES
    changes,    \* ring changes so far
    pc,         \* where each request is in GetRateLimits and asyncRequest
    peer,       \* the client each request was last assigned to
    attempts,   \* failed attempts of each request
    left,       \* requests whose caller's context is done
    wire,       \* <<request, attempt>> peers were sent and have not seen yet
    done,       \* <<request, attempt>> peers have applied
    appliedHere, \* times each request was applied by this node
    answer      \* "none", "ok", or the kind of error each request got

requestVars == <<pc, peer, attempts, left, wire, done, appliedHere, answer>>
vars == <<ringVars, changes, requestVars>>

Init ==
    /\ RingInit /\ changes = 0
    /\ pc = [q \in Requests |-> "new"]
    /\ peer = [q \in Requests |-> NoPeer]
    /\ attempts = [q \in Requests |-> 0]
    /\ left = {} /\ wire = {} /\ done = {}
    /\ appliedHere = [q \in Requests |-> 0]
    /\ answer = [q \in Requests |-> "none"]

-----------------------------------------------------------------------------
(* The ring, as PeerRing has it.                                           *)

ChangeRing ==
    /\ changes < MaxChanges /\ SetPeers /\ ring' # ring
    /\ changes' = changes + 1
    /\ UNCHANGED requestVars

\* SetPeers waits for the shutdowns before it returns.
CloseRetired ==
    /\ retired # {} /\ ShutdownOld
    /\ UNCHANGED <<changes, requestVars>>

-----------------------------------------------------------------------------
(* A request.                                                              *)

Answered(q, a) ==
    /\ answer' = [answer EXCEPT ![q] = a]
    /\ pc' = [pc EXCEPT ![q] = "answered"]

Leave(q) ==
    /\ q \notin left /\ pc[q] # "answered"
    /\ left' = left \cup {q}
    /\ UNCHANGED <<ringVars, changes, pc, peer, attempts, wire, done, appliedHere, answer>>

\* GetRateLimits looks up the owner; a caller that left gets an error.
GetPeer(q) ==
    /\ pc[q] = "new"
    /\ IF q \in left THEN Answered(q, "left") /\ UNCHANGED peer
       ELSE IF owner[key] = NoPeer THEN Answered(q, "nopeer") /\ UNCHANGED peer
       ELSE /\ peer' = [peer EXCEPT ![q] = owner[key]]
            /\ pc' = [pc EXCEPT ![q] = IF owner[key] = Self THEN "local" ELSE "forward"]
            /\ UNCHANGED answer
    /\ UNCHANGED <<ringVars, changes, attempts, left, wire, done, appliedHere>>

\* getLocalRateLimit: the worker applies the request and answers, or the
\* caller leaves before or after that.
getLocalRateLimit(q) ==
    /\ pc[q] = "local"
    /\ \/ appliedHere' = [appliedHere EXCEPT ![q] = @ + 1] /\ Answered(q, "ok")
       \/ /\ q \in left
          /\ appliedHere' \in {appliedHere, [appliedHere EXCEPT ![q] = @ + 1]}
          /\ Answered(q, "left")
    /\ UNCHANGED <<ringVars, changes, peer, attempts, left, wire, done>>

\* Faulty: sends on behalf of a caller that left.
forwardRegardless(q) ==
    /\ pc[q] = "forward"
    /\ IF peer[q] \in closed THEN Answered(q, "closing") /\ UNCHANGED wire
       ELSE /\ wire' = wire \cup {<<q, attempts[q]>>}
            /\ pc' = [pc EXCEPT ![q] = "calling"]
            /\ UNCHANGED answer
    /\ UNCHANGED <<ringVars, changes, peer, attempts, left, done, appliedHere>>

\* One attempt of the loop in asyncRequest, up to the peer call: a closed
\* client and a caller that left are noticed before anything is sent.
Forward(q) ==
    /\ pc[q] = "forward"
    /\ IF peer[q] \in closed THEN Answered(q, "closing") /\ UNCHANGED wire
       ELSE IF q \in left THEN Answered(q, "left") /\ UNCHANGED wire
       ELSE /\ wire' = wire \cup {<<q, attempts[q]>>}
            /\ pc' = [pc EXCEPT ![q] = "calling"]
            /\ UNCHANGED answer
    /\ UNCHANGED <<ringVars, changes, peer, attempts, left, done, appliedHere>>

\* The peer applies a forwarded request without asking whether it owns the
\* key, possibly after its sender gave up on it.
PeerApplies(m) ==
    /\ m \in wire
    /\ wire' = wire \ {m}
    /\ done' = done \cup {m}
    /\ UNCHANGED <<ringVars, changes, pc, peer, attempts, left, appliedHere, answer>>

LoseMessage(m) ==
    /\ m \in wire
    /\ wire' = wire \ {m}
    /\ UNCHANGED <<ringVars, changes, pc, peer, attempts, left, done, appliedHere, answer>>

CallReturns(q) ==
    /\ pc[q] = "calling" /\ <<q, attempts[q]>> \in done
    /\ Answered(q, "ok")
    /\ UNCHANGED <<ringVars, changes, peer, attempts, left, wire, done, appliedHere>>

\* The next attempt goes to the owner of the moment, which may be this node.
Retry(q) ==
    /\ attempts' = [attempts EXCEPT ![q] = @ + 1]
    /\ IF owner[key] = NoPeer THEN Answered(q, "nopeer") /\ UNCHANGED peer
       ELSE /\ peer' = [peer EXCEPT ![q] = owner[key]]
            /\ IF attempts[q] + 1 > MaxAttempts THEN Answered(q, "notconnected")
               ELSE /\ pc' = [pc EXCEPT ![q] = IF owner[key] = Self THEN "local" ELSE "forward"]
                    /\ UNCHANGED answer

\* Faulty: a failed max_wait request is tried again like any other.
retryScheduled(q) ==
    /\ pc[q] = "calling"
    /\ \/ q \in left /\ Answered(q, "left") /\ UNCHANGED <<peer, attempts>>
       \/ \E contextError \in ContextErrors :
             IF q \notin left /\ contextError
             THEN Retry(q)
             ELSE Answered(q, "peer") /\ UNCHANGED <<peer, attempts>>
    /\ UNCHANGED <<ringVars, changes, left, wire, done, appliedHere>>

\* Faulty: the limit on attempts is never reached.
retryForever(q) ==
    /\ pc[q] = "calling"
    /\ \/ q \in left /\ Answered(q, "left") /\ UNCHANGED <<peer, attempts>>
       \/ /\ q \notin left /\ q \notin Scheduled
          /\ pc' = [pc EXCEPT ![q] = "forward"]
          /\ UNCHANGED <<peer, attempts, answer>>
    /\ UNCHANGED <<ringVars, changes, left, wire, done, appliedHere>>

\* The caller stops waiting, or the call fails: timeout, lost connection,
\* refusal.  A max_wait failure is final, as is one that is not a context
\* error.
CallFails(q) ==
    /\ pc[q] = "calling"
    /\ \/ q \in left /\ Answered(q, "left") /\ UNCHANGED <<peer, attempts>>
       \/ \E contextError \in ContextErrors :
             IF q \notin Scheduled /\ q \notin left /\ contextError
             THEN Retry(q)
             ELSE Answered(q, "peer") /\ UNCHANGED <<peer, attempts>>
    /\ UNCHANGED <<ringVars, changes, left, wire, done, appliedHere>>

-----------------------------------------------------------------------------
CallEnds(q) == CallReturns(q) \/ CallFails(q)

Progress(q) == GetPeer(q) \/ getLocalRateLimit(q) \/ Forward(q) \/ CallEnds(q)

Next ==
    \/ ChangeRing \/ CloseRetired
    \/ \E q \in Requests : Leave(q) \/ Progress(q)
    \/ \E m \in wire : PeerApplies(m) \/ LoseMessage(m)

\* Handlers are scheduled and every peer call ends by BatchTimeout.
Fairness == \A q \in Requests : WF_vars(Progress(q))

Spec == Init /\ [][Next]_vars /\ Fairness

-----------------------------------------------------------------------------
\* How often peers and this node have applied a request.
Applied(q) == appliedHere[q] + Cardinality({m \in done : m[1] = q})

\* The variables hold ring members, request states and counted attempts.
ForwardingTypeOK ==
    /\ ring \subseteq Clients /\ owner \in [Keys -> ring \cup {NoPeer}]
    /\ retired \subseteq Clients /\ closed \subseteq Clients
    /\ pc \in [Requests -> {"new", "local", "forward", "calling", "answered"}]
    /\ peer \in [Requests -> Clients \cup {NoPeer}]
    /\ attempts \in [Requests -> 0 .. MaxAttempts + 1]
    /\ left \subseteq Requests
    /\ wire \subseteq Requests \X (0 .. MaxAttempts)
    /\ done \subseteq Requests \X (0 .. MaxAttempts)
    /\ appliedHere \in [Requests -> Nat]
    /\ answer \in [Requests -> {"none", "ok", "left", "nopeer", "closing", "peer", "notconnected"}]

\* A max_wait request books at most once, although calls fail after the peer
\* applied them, messages linger and the ring changes ("A retry could book
\* the same request twice, so a failure is final."); the hits of a plain one
\* count at most once more than its attempts failed.  The state is well formed.
ChargedPerAttempt ==
    /\ ForwardingTypeOK
    /\ \A q \in Scheduled : Applied(q) <= 1
    /\ \A q \in Plain : Applied(q) <= attempts[q] + 1

\* Nothing is sent for a caller that has left.
NothingSentAfterLeaving ==
    [][\A q \in left : \A n \in 0 .. MaxAttempts :
          <<q, n>> \in wire' => <<q, n>> \in wire]_vars

\* Every request is answered, whatever the ring, the peers and the other
\* callers do: asyncRequest does not retry for ever.
EveryRequestAnswered == \A q \in Requests : <>(pc[q] = "answered")
=============================================================================
