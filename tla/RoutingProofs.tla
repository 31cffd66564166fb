---------------------------- MODULE RoutingProofs ---------------------------
(***************************************************************************)
(* Proofs about the consistent hash and PeerSet, for any addresses, data   *)
(* centers, lists and hash functions, any number of replicas and any       *)
(* number of calls.  Where keys go is proved for any number of callers of  *)
(* SetPeers, the rest for one; with two callers it does not hold           *)
(* (MemberListPeers.tla).  And proofs about Forwarding, for any requests,  *)
(* clients and keys, any number of attempts and of ring changes.           *)
(***************************************************************************)
EXTENDS Forwarding, PeerSet, FiniteSetTheorems, TLAPS

-----------------------------------------------------------------------------
(* Forwarding requests.                                                    *)

USE ForwardingAssumption

\* Attempts of a request that were sent, applied or not, all come before k.
SentBefore(q, k) == \A n \in 0 .. MaxAttempts : <<q, n>> \in wire \cup done => n < k

\* A request goes on the wire at most once per attempt, while its caller is in
\* "calling"; it is applied by this node only as the last thing that happens.
Tries ==
    \A q \in Requests :
        /\ q \in Scheduled => attempts[q] = 0
        /\ pc[q] # "answered" => attempts[q] <= MaxAttempts /\ appliedHere[q] = 0
        /\ appliedHere[q] \in {0, 1}
        /\ appliedHere[q] = 1 => SentBefore(q, attempts[q])
        /\ pc[q] \in {"new", "local", "forward"} => SentBefore(q, attempts[q])
        /\ SentBefore(q, attempts[q] + 1)

ForwardingInv == ForwardingTypeOK /\ Tries

-----------------------------------------------------------------------------
\* At most k messages of a request come before attempt k.
LEMMA AtMost ==
    ASSUME NEW q, NEW k \in Nat, NEW D \in SUBSET ({q} \X (0 .. k - 1))
    PROVE  Cardinality(D) \in Nat /\ Cardinality(D) <= k
<1>1. IsFiniteSet({q}) /\ Cardinality({q}) = 1
  BY FS_Singleton, Zenon
<1>2. IsFiniteSet(0 .. k - 1) /\ Cardinality(0 .. k - 1) = k
  BY FS_Interval
<1>3. IsFiniteSet({q} \X (0 .. k - 1)) /\ Cardinality({q} \X (0 .. k - 1)) = k
  BY <1>1, <1>2, FS_Product
<1>4. IsFiniteSet(D) /\ Cardinality(D) <= k
  BY <1>3, FS_Subset
<1> QED
  BY <1>4, FS_CardinalityType, Zenon

\* The ring stays a ring of clients.
LEMMA RingTypes ==
    ASSUME ForwardingTypeOK, SetPeers \/ ShutdownOld
    PROVE  /\ ring' \subseteq Clients /\ owner' \in [Keys -> ring' \cup {NoPeer}]
           /\ retired' \subseteq Clients /\ closed' \subseteq Clients
BY Zenon DEF ForwardingTypeOK, SetPeers, ShutdownOld

\* The key of the requests is one, and its owner a client or none.
LEMMA OwnerType ==
    ASSUME ForwardingTypeOK
    PROVE  owner[key] \in Clients \cup {NoPeer}
<1>1. key \in Keys
  BY Zenon DEF key
<1> QED
  BY <1>1, Zenon DEF ForwardingTypeOK

\* Steps of one request leave the others alone.
LEMMA StepFrame ==
    ASSUME NEW q \in Requests, Leave(q) \/ Progress(q), ForwardingTypeOK
    PROVE  /\ UNCHANGED ringVars
           /\ \A p \in Requests \ {q} :
                 /\ pc'[p] = pc[p] /\ peer'[p] = peer[p] /\ attempts'[p] = attempts[p]
                 /\ appliedHere'[p] = appliedHere[p] /\ answer'[p] = answer[p]
           /\ done' = done
           /\ wire' \in {wire, wire \cup {<<q, attempts[q]>>}}
BY SMTT(60) DEF Leave, Progress, GetPeer, getLocalRateLimit, Forward, CallEnds, CallReturns, CallFails,
       Retry, Answered, ForwardingTypeOK

\* Every step of a request keeps the state well formed.
LEMMA RequestTypes ==
    ASSUME NEW q \in Requests, Leave(q) \/ Progress(q), ForwardingInv
    PROVE  ForwardingTypeOK'
<1> USE DEF ForwardingInv, ForwardingTypeOK
<1>1. owner[key] \in Clients \cup {NoPeer}
  BY OwnerType, Zenon
<1>2. CASE Leave(q)
  BY <1>2, Zenon DEF Leave, ringVars
<1>3. CASE GetPeer(q)
  BY <1>1, <1>3, Zenon DEF GetPeer, Answered, ringVars
<1>4. CASE getLocalRateLimit(q)
  BY <1>4 DEF getLocalRateLimit, Answered, ringVars
<1>5. CASE Forward(q)
  <2>1. attempts[q] \in 0 .. MaxAttempts
    BY <1>5 DEF Forward, Tries
  <2> QED
    BY <1>5, <2>1 DEF Forward, Answered, ringVars
<1>6. CASE CallReturns(q)
  BY <1>6, Zenon DEF CallReturns, Answered, ringVars
<1>7. CASE CallFails(q)
  <2>1. attempts[q] \in 0 .. MaxAttempts
    BY <1>7 DEF CallFails, Tries
  <2>2. attempts[q] + 1 \in 0 .. MaxAttempts + 1
    BY <2>1
  <2> QED
    BY <1>1, <1>7, <2>2 DEF CallFails, Retry, Answered, ringVars
<1> QED
  BY <1>2, <1>3, <1>4, <1>5, <1>6, <1>7, SMTT(60) DEF Progress, CallEnds

\* Every step of a request keeps the count of its tries.
LEMMA RequestTries ==
    ASSUME NEW q \in Requests, Leave(q) \/ Progress(q), ForwardingInv
    PROVE  Tries'
<1> DEFINE Try(p) ==
      /\ p \in Scheduled => attempts[p] = 0
      /\ pc[p] # "answered" => attempts[p] <= MaxAttempts /\ appliedHere[p] = 0
      /\ appliedHere[p] \in {0, 1}
      /\ appliedHere[p] = 1 => SentBefore(p, attempts[p])
      /\ pc[p] \in {"new", "local", "forward"} => SentBefore(p, attempts[p])
      /\ SentBefore(p, attempts[p] + 1)
<1>1. ASSUME NEW p \in Requests PROVE Try(p)
  BY Zenon DEF ForwardingInv, Tries
<1>2. ASSUME NEW p \in Requests \ {q} PROVE Try(p)'
  <2>1. attempts[p] \in Nat /\ attempts[p] + 1 \in Nat
    BY DEF ForwardingInv, ForwardingTypeOK
  <2>2. pc'[p] = pc[p] /\ attempts'[p] = attempts[p] /\ appliedHere'[p] = appliedHere[p]
    BY StepFrame, Zenon DEF ForwardingInv
  <2>3. /\ SentBefore(p, attempts[p]) => SentBefore(p, attempts[p])'
        /\ SentBefore(p, attempts[p] + 1) => SentBefore(p, attempts[p] + 1)'
    <3>1. \A n \in 0 .. MaxAttempts :
             <<p, n>> \in wire' \cup done' => <<p, n>> \in wire \cup done
      BY StepFrame DEF ForwardingInv
    <3> QED
      BY <2>1, <2>2, <3>1, Zenon DEF SentBefore
  <2> QED
    BY <1>1, <2>2, <2>3, Zenon
<1>3. Try(q)'
  <2> USE <1>1 DEF SentBefore
  <2>1. /\ pc \in [Requests -> {"new", "local", "forward", "calling", "answered"}]
        /\ attempts \in [Requests -> Nat] /\ appliedHere \in [Requests -> Nat]
    BY DEF ForwardingInv, ForwardingTypeOK
  <2>2. CASE Leave(q)
    BY <2>2, Zenon DEF Leave
  <2>3. CASE GetPeer(q)
    BY <2>1, <2>3, Zenon DEF GetPeer, Answered
  <2>4. CASE getLocalRateLimit(q)
    BY <2>1, <2>4 DEF getLocalRateLimit, Answered
  <2>5. CASE Forward(q)
    BY <2>1, <2>5 DEF Forward, Answered
  <2>6. CASE CallReturns(q)
    BY <2>1, <2>6, Zenon DEF CallReturns, Answered
  <2>7. CASE CallFails(q)
    BY <2>1, <2>7 DEF CallFails, Retry, Answered, Requests
  <2> QED
    BY <2>2, <2>3, <2>4, <2>5, <2>6, <2>7, Zenon DEF Progress, CallEnds
<1> QED
  BY <1>2, <1>3, Zenon DEF Tries

\* Every step keeps the invariant.
LEMMA ForwardingInvStep == ForwardingInv /\ [Next]_vars => ForwardingInv'
<1> SUFFICES ASSUME ForwardingInv, [Next]_vars PROVE ForwardingInv'
  BY Zenon
<1>1. CASE ChangeRing \/ CloseRetired
  <2>1. SetPeers \/ ShutdownOld
    BY <1>1, Zenon DEF ChangeRing, CloseRetired
  <2>2. UNCHANGED requestVars
    BY <1>1, Zenon DEF ChangeRing, CloseRetired
  <2> QED
    BY <2>1, <2>2, RingTypes, Zenon DEF requestVars, ForwardingInv, ForwardingTypeOK, Tries, SentBefore
<1>2. ASSUME NEW q \in Requests, Leave(q) \/ Progress(q) PROVE ForwardingInv'
  BY <1>2, RequestTypes, RequestTries, Zenon DEF ForwardingInv
<1>3. ASSUME NEW m \in wire, PeerApplies(m) \/ LoseMessage(m) PROVE ForwardingInv'
  <2>1. /\ wire' \subseteq wire /\ wire' \cup done' \subseteq wire \cup done
        /\ UNCHANGED <<ringVars, pc, peer, attempts, left, appliedHere, answer>>
    BY <1>3, Zenon DEF PeerApplies, LoseMessage
  <2>2. ForwardingTypeOK'
    <3>1. wire \cup done \subseteq Requests \X (0 .. MaxAttempts)
      BY Zenon DEF ForwardingInv, ForwardingTypeOK
    <3>2. wire' \cup done' \subseteq Requests \X (0 .. MaxAttempts)
      BY <2>1, <3>1, Zenon
    <3> QED
      BY <2>1, <3>2, Zenon DEF ringVars, ForwardingInv, ForwardingTypeOK
  <2> QED
    BY <2>1, <2>2, Zenon DEF ForwardingInv, Tries, SentBefore
<1>4. CASE UNCHANGED vars
  BY <1>4, Zenon DEF vars, ringVars, requestVars, ForwardingInv, ForwardingTypeOK, Tries, SentBefore
<1> QED
  BY <1>1, <1>2, <1>3, <1>4, Zenon DEF Next

\* The invariant bounds how often a request was applied.
LEMMA InvBounds == ForwardingInv => ChargedPerAttempt
<1> SUFFICES ASSUME ForwardingInv, NEW q \in Requests
             PROVE  Applied(q) <= attempts[q] + 1 /\ (q \in Scheduled => attempts[q] = 0)
  BY DEF ChargedPerAttempt, ForwardingInv, Requests
<1> DEFINE D == {m \in done : m[1] = q}
<1>1. attempts[q] \in Nat /\ appliedHere[q] \in {0, 1} /\ (q \in Scheduled => attempts[q] = 0)
  BY DEF ForwardingInv, ForwardingTypeOK, Tries
<1>2. ASSUME NEW k \in Nat, SentBefore(q, k) PROVE D \in SUBSET ({q} \X (0 .. k - 1))
  <2> SUFFICES ASSUME NEW m \in done, m[1] = q PROVE m \in {q} \X (0 .. k - 1)
    BY Zenon
  <2>1. PICK n \in 0 .. MaxAttempts : m = <<q, n>>
    BY DEF ForwardingInv, ForwardingTypeOK
  <2>2. n < k
    BY <1>2, <2>1, Zenon DEF SentBefore
  <2> QED
    BY <2>1, <2>2
<1> HIDE DEF D
<1>3. CASE appliedHere[q] = 0
  <2> DEFINE k == attempts[q] + 1
  <2>1. k \in Nat /\ SentBefore(q, k)
    BY <1>1 DEF ForwardingInv, Tries
  <2> HIDE DEF k
  <2>2. D \in SUBSET ({q} \X (0 .. k - 1))
    BY <1>2, <2>1, Zenon
  <2>3. Cardinality(D) \in Nat /\ Cardinality(D) <= k
    BY <2>1, <2>2, AtMost, Zenon
  <2> QED
    BY <1>1, <1>3, <2>3 DEF Applied, D, k
<1>4. CASE appliedHere[q] = 1
  <2>1. D \in SUBSET ({q} \X (0 .. attempts[q] - 1))
    BY <1>1, <1>2, <1>4, Zenon DEF ForwardingInv, Tries
  <2>2. Cardinality(D) \in Nat /\ Cardinality(D) <= attempts[q]
    BY <1>1, <2>1, AtMost, Zenon
  <2> QED
    BY <1>1, <1>4, <2>2 DEF Applied, D
<1> QED
  BY <1>1, <1>3, <1>4, Zenon

\* A request is applied at most once more than its attempts failed, and one
\* with max_wait at most once, however calls fail, messages linger and the ring
\* changes.
THEOREM AppliedOncePerAttempt == Spec => []ChargedPerAttempt
<1>1. Init => ForwardingInv
  <2> SUFFICES ASSUME Init PROVE ForwardingInv
    BY Zenon
  <2>1. ForwardingTypeOK
    BY DEF Init, RingInit, ForwardingTypeOK
  <2> QED
    BY <2>1 DEF Init, ForwardingInv, Tries, SentBefore
<1> QED
  BY <1>1, ForwardingInvStep, InvBounds, PTL DEF Spec

\* No step sends anything on behalf of a caller that has left.
THEOREM NeverSentAfterLeaving == Spec => NothingSentAfterLeaving
<1>1. [Next]_vars => [\A q \in left : \A n \in 0 .. MaxAttempts :
                         <<q, n>> \in wire' => <<q, n>> \in wire]_vars
  <2> SUFFICES ASSUME Next, NEW q \in left, NEW n \in 0 .. MaxAttempts,
                      <<q, n>> \in wire', <<q, n>> \notin wire
               PROVE  FALSE
    BY Zenon
  <2>1. CASE ChangeRing \/ CloseRetired
    BY <2>1, Zenon DEF ChangeRing, CloseRetired, requestVars
  <2>2. ASSUME NEW p \in Requests, Leave(p) \/ Progress(p) PROVE FALSE
    <3>1. CASE Forward(p)
      BY <3>1 DEF Forward
    <3>2. CASE Leave(p) \/ GetPeer(p) \/ getLocalRateLimit(p) \/ CallReturns(p) \/ CallFails(p)
      <4>1. wire' = wire
        BY <3>2, Zenon DEF Leave, GetPeer, getLocalRateLimit, CallReturns, CallFails
      <4> QED BY <4>1, Zenon
    <3> QED BY <2>2, <3>1, <3>2, Zenon DEF Progress, CallEnds
  <2>3. ASSUME NEW m \in wire, PeerApplies(m) \/ LoseMessage(m) PROVE FALSE
    BY <2>3, Zenon DEF PeerApplies, LoseMessage
  <2> QED
    BY <2>1, <2>2, <2>3, Zenon DEF Next
<1> QED
  BY <1>1, PTL DEF Spec, NothingSentAfterLeaving

HIDE ForwardingAssumption

-----------------------------------------------------------------------------
(* Sequences of points.                                                    *)

\* A set of naturals has a least element.
LEMMA Least ==
    ASSUME NEW T \in SUBSET Nat, T # {}
    PROVE  \E x \in T : \A y \in T : x <= y
<1> DEFINE F == {1 .. t : t \in T}
           R == StrictSubsetOrdering(Nat)
<1>1. F # {}
  BY Zenon
<1>2. F \subseteq FiniteSubsetsOf(Nat)
  <2>1. \A t \in Nat : 1 .. t \subseteq Nat /\ IsFiniteSet(1 .. t)
    BY FS_Interval
  <2> QED BY <2>1, Zenon DEF FiniteSubsetsOf
<1>3. IsWellFoundedOn(R, FiniteSubsetsOf(Nat))
  BY FS_StrictSubsetOrderingWellFounded, Zenon
<1>4. \E x \in F : \A y \in F : ~ (<<y, x>> \in R)
  <2> HIDE DEF F, R
  <2> QED BY <1>1, <1>2, <1>3, WFMin, Zenon
<1>5. PICK x \in T : \A y \in T : ~ (<<1 .. y, 1 .. x>> \in R)
  BY <1>4, Zenon
<1>6. ASSUME NEW y \in T, y < x PROVE FALSE
  <2>1. 1 .. y \subseteq 1 .. x /\ 1 .. y # 1 .. x
    <3>1. x \in 1 .. x /\ x \notin 1 .. y
      BY <1>6
    <3> QED BY <1>6, <3>1
  <2>2. 1 .. y \subseteq Nat /\ 1 .. x \subseteq Nat
    OBVIOUS
  <2> QED BY <1>5, <2>1, <2>2, Zenon DEF StrictSubsetOrdering
<1> QED BY <1>6

\* The entries of a list, the list without any, and lists over a larger set.
LEMMA ListFacts ==
    ASSUME NEW S, NEW s \in Seq(S)
    PROVE  Len(s) \in Nat /\ \A i \in 1 .. Len(s) : s[i] \in S
OBVIOUS

LEMMA EmptyList == \A S : << >> \in Seq(S) /\ Len(<< >>) = 0
OBVIOUS

LEMMA LargerLists ==
    ASSUME NEW S, NEW T, S \subseteq T, NEW s \in Seq(S)
    PROVE  s \in Seq(T)
OBVIOUS

\* Points of the peers P, and points in the order of their hashes.
Points(P) == [hash : Hashes, peer : P]
Ascending(keys) == \A m, n \in 1 .. Len(keys) : m <= n => keys[m].hash <= keys[n].hash

-----------------------------------------------------------------------------
(* Sorting.                                                                *)

\* Sorting puts the same points in ascending order.
LEMMA SortedSorts ==
    ASSUME NEW P, NEW keys \in Seq(Points(P))
    PROVE  /\ Sorted(keys) \in Seq(Points(P)) /\ Len(Sorted(keys)) = Len(keys)
           /\ Ascending(Sorted(keys))
           /\ \A n \in 1 .. Len(keys) : \E i \in 1 .. Len(keys) : Sorted(keys)[n] = keys[i]
           /\ \A i \in 1 .. Len(keys) : \E n \in 1 .. Len(keys) : Sorted(keys)[n] = keys[i]
<1> DEFINE I == 1 .. Len(keys)
           Before(j, i) == keys[j].hash < keys[i].hash \/ (keys[j].hash = keys[i].hash /\ j <= i)
           Upto(i) == {j \in I : Before(j, i)}
           place == [i \in I |-> Place(keys, i)]
           from == [n \in I |-> CHOOSE i \in I : Place(keys, i) = n]
<1>1. Len(keys) \in Nat /\ \A i \in I : keys[i] \in Points(P) /\ keys[i].hash \in Nat
  <2>1. Len(keys) \in Nat /\ \A i \in I : keys[i] \in Points(P)
    BY ListFacts, Zenon
  <2>2. \A x \in Points(P) : x.hash \in Nat
    BY RingAssumption DEF Points, Hashes
  <2> QED BY <2>1, <2>2, Zenon
<1>2. IsFiniteSet(I) /\ Cardinality(I) = Len(keys)
  <2>1. 1 \in Int /\ Len(keys) \in Int /\ (IF 1 > Len(keys) THEN 0 ELSE Len(keys) - 1 + 1) = Len(keys)
    BY <1>1
  <2> QED BY <2>1, FS_Interval, Zenon
<1>3. \A i \in I : Place(keys, i) = Cardinality(Upto(i)) /\ IsFiniteSet(Upto(i))
  BY <1>2, FS_Subset, Zenon DEF Place
<1>4. \A i \in I : Place(keys, i) \in I
  <2> SUFFICES ASSUME NEW i \in I PROVE Place(keys, i) \in I
    BY Zenon
  <2>1. i \in Upto(i)
    BY <1>1
  <2>2. Cardinality(Upto(i)) \in Nat /\ Cardinality(Upto(i)) # 0
    BY <1>3, <2>1, FS_CardinalityType, FS_EmptySet, Zenon
  <2>3. Cardinality(Upto(i)) <= Len(keys)
    BY <1>2, FS_Subset, Zenon
  <2> HIDE DEF Upto
  <2> QED BY <1>1, <1>3, <2>2, <2>3
<1>5. ASSUME NEW i \in I, NEW j \in I, Before(j, i), j # i
      PROVE  Place(keys, j) < Place(keys, i)
  <2>1. Upto(j) \subseteq Upto(i)
    BY <1>1, <1>5
  <2>2. i \in Upto(i) /\ i \notin Upto(j)
    BY <1>1, <1>5
  <2>3. Upto(j) \in SUBSET Upto(i) /\ Upto(i) # Upto(j)
    BY <2>1, <2>2, Zenon
  <2> HIDE DEF Upto
  <2>4. Cardinality(Upto(j)) <= Cardinality(Upto(i)) /\ Cardinality(Upto(i)) # Cardinality(Upto(j))
    BY <1>3, <2>3, FS_Subset, Zenon
  <2>5. Cardinality(Upto(j)) \in Nat /\ Cardinality(Upto(i)) \in Nat
    BY <1>3, FS_CardinalityType, Zenon
  <2>6. Cardinality(Upto(j)) < Cardinality(Upto(i))
    BY <2>4, <2>5
  <2> QED BY <1>3, <2>6, Zenon
<1>6. \A i, j \in I : Before(i, j) \/ Before(j, i)
  BY <1>1
<1>7. place \in Injection(I, I)
  <2>1. place \in [I -> I]
    BY <1>4, Zenon
  <2>2. \A i, j \in I : i # j => Place(keys, i) # Place(keys, j)
    <3> HIDE DEF Before
    <3>1. \A i \in I : Place(keys, i) \in Nat
      BY <1>1, <1>4
    <3>2. \A i, j \in I : Place(keys, j) < Place(keys, i) => Place(keys, i) # Place(keys, j)
      BY <3>1
    <3> QED BY <1>5, <1>6, <3>2, Zenon
  <2> QED BY <2>1, <2>2, Zenon DEF Injection, IsInjective
<1>8. place \in Surjection(I, I)
  BY <1>2, <1>7, FS_Injection, Zenon
<1>9. \A n \in I : from[n] \in I /\ Place(keys, from[n]) = n
  BY <1>8, Zenon DEF Surjection
<1>10. /\ \A n \in I : Sorted(keys)[n] = keys[from[n]]
       /\ Sorted(keys) = [n \in I |-> keys[from[n]]]
  <2>1. Sorted(keys) = [n \in I |-> keys[CHOOSE i \in I : Place(keys, i) = n]]
    BY Zenon DEF Sorted
  <2>2. \A n \in I : from[n] = CHOOSE i \in I : Place(keys, i) = n
    BY Zenon
  <2> HIDE DEF from
  <2> QED BY <2>1, <2>2, ZenonT(30)
<1> HIDE DEF from, place
<1>11. Sorted(keys) \in [I -> Points(P)]
  BY <1>1, <1>9, <1>10, Zenon
<1>12. Sorted(keys) \in Seq(Points(P)) /\ Len(Sorted(keys)) = Len(keys)
  BY <1>1, <1>11
<1>13. Ascending(Sorted(keys))
  <2> SUFFICES ASSUME NEW m \in I, NEW n \in I, m <= n, ~ (keys[from[m]].hash <= keys[from[n]].hash)
               PROVE  FALSE
    BY <1>10, <1>12, Zenon DEF Ascending
  <2>1. Before(from[n], from[m]) /\ from[n] # from[m]
    BY <1>1, <1>9
  <2>2. Place(keys, from[n]) < Place(keys, from[m])
    <3> HIDE DEF Before, I
    <3> QED BY <1>5, <1>9, <2>1, Zenon
  <2> QED BY <1>1, <1>9, <2>2
<1>14. \A i \in I : from[Place(keys, i)] = i
  <2> SUFFICES ASSUME NEW i \in I PROVE from[Place(keys, i)] = i
    BY Zenon
  <2>1. from[Place(keys, i)] \in I /\ Place(keys, from[Place(keys, i)]) = Place(keys, i)
    BY <1>4, <1>9, Zenon
  <2> QED BY <1>7, <2>1, Zenon DEF place, Injection, IsInjective
<1>15. \A n \in I : \E i \in I : Sorted(keys)[n] = keys[i]
  BY <1>9, <1>10, Zenon
<1>16. \A i \in I : \E n \in I : Sorted(keys)[n] = keys[i]
  <2> SUFFICES ASSUME NEW i \in I PROVE \E n \in I : Sorted(keys)[n] = keys[i]
    BY Zenon
  <2>1. Sorted(keys)[Place(keys, i)] = keys[from[Place(keys, i)]]
    BY <1>4, <1>10, Zenon
  <2> QED BY <1>4, <1>14, <2>1, Zenon
<1> QED BY <1>12, <1>13, <1>15, <1>16, Zenon

-----------------------------------------------------------------------------
(* Searching.                                                              *)

\* In ascending points there is one place that parts those below a hash from
\* those that reach it.
LEMMA Parting ==
    ASSUME NEW P, NEW keys \in Seq(Points(P)), Ascending(keys), NEW h \in Hashes
    PROVE  \E k \in 0 .. Len(keys) : \A j \in 1 .. Len(keys) : keys[j].hash < h <=> j <= k
<1>1. /\ Len(keys) \in Nat /\ h \in Nat
      /\ \A j \in 1 .. Len(keys) : keys[j].hash \in Nat
  <2>1. \A x \in Points(P) : x.hash \in Nat
    BY RingAssumption DEF Points, Hashes
  <2>2. h \in Nat
    BY RingAssumption DEF Hashes
  <2> QED BY <2>1, <2>2, ListFacts, Zenon
<1> DEFINE T == {j \in 1 .. Len(keys) : keys[j].hash >= h}
<1>2. CASE T = {}
  <2>1. \A j \in 1 .. Len(keys) : keys[j].hash < h <=> j <= Len(keys)
    BY <1>1, <1>2
  <2>2. Len(keys) \in 0 .. Len(keys)
    BY <1>1
  <2> QED BY <2>1, <2>2, Zenon
<1>3. CASE T # {}
  <2>1. T \in SUBSET Nat
    BY <1>1
  <2>2. PICK x \in T : \A y \in T : x <= y
    <3> HIDE DEF T
    <3> QED BY <1>3, <2>1, Least, Zenon
  <2>3. x \in 1 .. Len(keys) /\ x - 1 \in 0 .. Len(keys)
    BY <1>1
  <2>4. ASSUME NEW j \in 1 .. Len(keys) PROVE keys[j].hash < h <=> j <= x - 1
    <3>1. CASE j < x
      BY <1>1, <2>2, <3>1
    <3>2. CASE j >= x
      <4>1. keys[x].hash <= keys[j].hash
        BY <2>3, <3>2, Zenon DEF Ascending
      <4> QED BY <1>1, <2>3, <3>2, <4>1
    <3> QED BY <1>1, <2>3, <3>1, <3>2
  <2> QED BY <2>3, <2>4, Zenon
<1> QED BY <1>2, <1>3, Zenon

\* The binary search finds it.
LEMMA SearchFinds ==
    ASSUME NEW P, NEW keys \in Seq(Points(P)), Ascending(keys), NEW h \in Hashes
    PROVE  /\ search(keys, h) \in 0 .. Len(keys)
           /\ \A j \in 1 .. Len(keys) : keys[j].hash < h <=> j <= search(keys, h)
<1> DEFINE D == 0 .. Len(keys)
           Mid(r) == (r[1] + r[2]) \div 2
           Half(g) == [r \in D \X D |->
                         IF r[1] >= r[2] THEN r[1]
                         ELSE IF keys[Mid(r) + 1].hash >= h THEN g[<<r[1], Mid(r)>>]
                         ELSE g[<<Mid(r) + 1, r[2]>>]]
           half == CHOOSE g : g = Half(g)
<1>1. search(keys, h) = half[<<0, Len(keys)>>]
  BY Zenon DEF search
<1>2. PICK k \in D : \A j \in 1 .. Len(keys) : keys[j].hash < h <=> j <= k
  BY Parting, Zenon
<1>3. /\ Len(keys) \in Nat /\ h \in Nat
      /\ \A j \in 1 .. Len(keys) : keys[j].hash \in Nat
  <2>1. \A x \in Points(P) : x.hash \in Nat
    BY RingAssumption DEF Points, Hashes
  <2>2. h \in Nat
    BY RingAssumption DEF Hashes
  <2> QED BY <2>1, <2>2, ListFacts, Zenon
\* A range that is not empty is halved into smaller ones.
<1>4. \A lo, hi \in D : lo < hi =>
         LET mid == (lo + hi) \div 2
         IN  /\ mid \in D /\ mid + 1 \in D /\ mid + 1 \in 1 .. Len(keys)
             /\ lo <= mid /\ mid < hi
  BY <1>3
\* The function that gives the parting place, kept within the range, solves
\* the recursion,
<1> DEFINE Clamp(lo, hi) == IF lo >= hi \/ k <= lo THEN lo ELSE IF k >= hi THEN hi ELSE k
           clamp == [r \in D \X D |-> Clamp(r[1], r[2])]
<1>5. ASSUME NEW lo \in D, NEW hi \in D, lo < hi
      PROVE  LET mid == (lo + hi) \div 2
             IN  Clamp(lo, hi) = IF keys[mid + 1].hash >= h THEN Clamp(lo, mid) ELSE Clamp(mid + 1, hi)
  <2> DEFINE mid == (lo + hi) \div 2
  <2>1. /\ mid \in D /\ mid + 1 \in 1 .. Len(keys) /\ lo <= mid /\ mid < hi
    BY <1>4, <1>5, Zenon
  <2>2. keys[mid + 1].hash >= h <=> k <= mid
    <3>1. keys[mid + 1].hash < h <=> mid + 1 <= k
      BY <1>2, <2>1, Zenon
    <3> HIDE DEF mid
    <3> QED BY <1>2, <1>3, <2>1, <3>1
  <2> HIDE DEF mid
  <2>3. k <= mid => Clamp(lo, hi) = Clamp(lo, mid)
    BY <1>2, <1>3, <1>5, <2>1
  <2>4. ~ (k <= mid) => Clamp(lo, hi) = Clamp(mid + 1, hi)
    BY <1>2, <1>3, <1>5, <2>1
  <2>5. Clamp(lo, hi) = IF keys[mid + 1].hash >= h THEN Clamp(lo, mid) ELSE Clamp(mid + 1, hi)
    <3> HIDE DEF Clamp
    <3> QED BY <2>2, <2>3, <2>4, Zenon
  <2> HIDE DEF Clamp
  <2> QED BY <2>5, Zenon DEF mid
<1> HIDE DEF Clamp
<1>6. clamp = Half(clamp)
  <2>1. ASSUME NEW lo \in D, NEW hi \in D
        PROVE  clamp[<<lo, hi>>] = Half(clamp)[<<lo, hi>>]
    <3>1. \A a, b \in D : clamp[<<a, b>>] = Clamp(a, b)
      BY Zenon
    <3> HIDE DEF clamp
    <3>2. CASE lo >= hi
      BY <1>3, <3>1, <3>2, Zenon DEF Clamp
    <3>3. CASE lo < hi
      <4> DEFINE mid == (lo + hi) \div 2
      <4>1. mid \in D /\ mid + 1 \in D
        BY <1>4, <3>3, Zenon
      <4>2. ~ (lo >= hi)
        BY <1>3, <3>3
      <4>3. Half(clamp)[<<lo, hi>>]
              = IF keys[mid + 1].hash >= h THEN clamp[<<lo, mid>>] ELSE clamp[<<mid + 1, hi>>]
        BY <4>2, Zenon
      <4> HIDE DEF mid, Half
      <4>4. Half(clamp)[<<lo, hi>>]
              = IF keys[mid + 1].hash >= h THEN Clamp(lo, mid) ELSE Clamp(mid + 1, hi)
        BY <3>1, <4>1, <4>3, Zenon
      <4> QED BY <1>5, <3>1, <3>3, <4>4, ZenonT(30) DEF mid
    <3>4. lo >= hi \/ lo < hi
      BY <1>3
    <3> QED BY <3>2, <3>3, <3>4, Zenon
  <2>2. \A r \in D \X D : clamp[r] = Half(clamp)[r]
    <3> HIDE DEF clamp, Half, D
    <3> QED BY <2>1
  <2>3. clamp = [r \in D \X D |-> clamp[r]] /\ Half(clamp) = [r \in D \X D |-> Half(clamp)[r]]
    OBVIOUS
  <2> HIDE DEF clamp, Half
  <2> QED BY <2>2, <2>3, Zenon
\* and nothing else does: a least range on which half differs would have to
\* differ on a smaller one.
<1>7. half = Half(half)
  <2> HIDE DEF Half, clamp
  <2> QED BY <1>6, Zenon
<1>8. \A lo, hi \in D : half[<<lo, hi>>] =
         IF lo >= hi THEN lo
         ELSE IF keys[((lo + hi) \div 2) + 1].hash >= h THEN half[<<lo, (lo + hi) \div 2>>]
         ELSE half[<<((lo + hi) \div 2) + 1, hi>>]
  <2> HIDE DEF half
  <2>1. \A lo, hi \in D : Half(half)[<<lo, hi>>] =
         IF lo >= hi THEN lo
         ELSE IF keys[((lo + hi) \div 2) + 1].hash >= h THEN half[<<lo, (lo + hi) \div 2>>]
         ELSE half[<<((lo + hi) \div 2) + 1, hi>>]
    BY Zenon
  <2> HIDE DEF Half
  <2> QED BY <1>7, <2>1, Zenon
<1> HIDE DEF half, Half, clamp
<1> DEFINE Differ(n) == \E lo, hi \in D : lo < hi /\ n = hi - lo /\ half[<<lo, hi>>] # Clamp(lo, hi)
           T == {n \in Nat : Differ(n)}
<1>9. T = {}
  <2> SUFFICES ASSUME T # {} PROVE FALSE
    BY Zenon
  <2>1. PICK n \in T : \A m \in T : n <= m
    <3> HIDE DEF T
    <3>1. T \in SUBSET Nat
      BY Zenon DEF T
    <3> QED BY <3>1, Least, Zenon
  <2>2. PICK lo \in D, hi \in D : lo < hi /\ n = hi - lo /\ half[<<lo, hi>>] # Clamp(lo, hi)
    BY Zenon
  <2> DEFINE mid == (lo + hi) \div 2
  <2>3. mid \in D /\ mid + 1 \in D /\ lo <= mid /\ mid < hi
    BY <1>4, <2>2, Zenon
  <2>4. ASSUME NEW a \in D, NEW b \in D, b - a < hi - lo
        PROVE  half[<<a, b>>] = Clamp(a, b)
    <3>1. CASE a >= b
      BY <1>8, <3>1, Zenon DEF Clamp
    <3>2. CASE a < b
      <4>1. b - a \in Nat /\ ~ (n <= b - a)
        BY <1>3, <2>2, <2>4, <3>2
      <4>2. b - a \notin T
        BY <2>1, <4>1, Zenon
      <4> QED BY <3>2, <4>1, <4>2, Zenon
    <3>3. a >= b \/ a < b
      BY <1>3
    <3> QED BY <3>1, <3>2, <3>3, Zenon
  <2>5. mid - lo < hi - lo /\ hi - (mid + 1) < hi - lo /\ ~ (lo >= hi)
    <3> HIDE DEF mid
    <3> QED BY <1>3, <2>2, <2>3
  <2>6. half[<<lo, mid>>] = Clamp(lo, mid) /\ half[<<mid + 1, hi>>] = Clamp(mid + 1, hi)
    <3> HIDE DEF mid, D
    <3> QED BY <2>3, <2>4, <2>5, Zenon
  <2>7. half[<<lo, hi>>]
          = IF keys[mid + 1].hash >= h THEN half[<<lo, mid>>] ELSE half[<<mid + 1, hi>>]
    BY <1>8, <2>5, Zenon
  <2>8. Clamp(lo, hi) = IF keys[mid + 1].hash >= h THEN Clamp(lo, mid) ELSE Clamp(mid + 1, hi)
    BY <1>5, <2>2, Zenon
  <2> HIDE DEF mid
  <2> QED BY <2>2, <2>6, <2>7, <2>8, Zenon
<1>10. half[<<0, Len(keys)>>] = k
  <2>1. CASE Len(keys) = 0
    BY <1>2, <1>3, <1>8, <2>1
  <2>2. CASE Len(keys) > 0
    <3>1. 0 \in D /\ Len(keys) \in D /\ 0 < Len(keys) /\ Len(keys) = Len(keys) - 0
      BY <1>3, <2>2
    <3>2. half[<<0, Len(keys)>>] = Clamp(0, Len(keys))
      BY <1>3, <1>9, <3>1, Zenon
    <3>3. Clamp(0, Len(keys)) = k
      BY <1>2, <1>3, <2>2 DEF Clamp
    <3> QED BY <3>2, <3>3, Zenon
  <2> QED BY <1>3, <2>1, <2>2
<1> QED BY <1>1, <1>2, <1>10, Zenon

-----------------------------------------------------------------------------
(* The consistent hash.                                                    *)

HashFns == [Addrs \X (1 .. Replicas) -> Hashes]
Point(hs, p, i) == [hash |-> hs[<<p.addr, i>>], peer |-> p]

\* A picker has all points of its peers, no others, in ascending order.
RingOf(hs, picker) ==
    LET keys == picker.peerKeys
    IN  /\ \A p \in picker.peers : p.addr \in Addrs
        /\ keys \in Seq(Points(picker.peers)) /\ Ascending(keys)
        /\ \A n \in 1 .. Len(keys) : \E p \in picker.peers, i \in 1 .. Replicas :
              keys[n] = Point(hs, p, i)
        /\ \A p \in picker.peers, i \in 1 .. Replicas : \E n \in 1 .. Len(keys) :
              keys[n] = Point(hs, p, i)

LEMMA NewRing == \A hs : RingOf(hs, New)
<1>1. New.peers = {} /\ New.peerKeys = << >>
  BY Zenon DEF New
<1>2. << >> \in Seq(Points({})) /\ Len(<< >>) = 0
  BY EmptyList, Zenon
<1>3. 1 .. 0 = {}
  OBVIOUS
<1> QED
  BY <1>1, <1>2, <1>3, Zenon DEF RingOf, Ascending

\* Adding a client to a picker, or to the pickers of the regions, adds just it.
Joins(hs, picker, client) == Add(hs, picker, client).peers = picker.peers \cup {client}
RegionJoins(hs, R, client) == RegionPeers(RegionAdd(hs, R, client)) = RegionPeers(R) \cup {client}

\* Adding a peer with a new address keeps a picker so.
LEMMA AddRing ==
    ASSUME NEW hs \in HashFns, NEW picker, RingOf(hs, picker), NEW client, client.addr \in Addrs,
           \A p \in picker.peers : p.addr # client.addr
    PROVE  RingOf(hs, Add(hs, picker, client)) /\ Joins(hs, picker, client)
<1> DEFINE P == picker.peers \cup {client}
           keys == picker.peerKeys
           more == PointsOf(hs, client)
           all == keys \o more
<1>1. /\ Add(hs, picker, client).peers = P
      /\ Add(hs, picker, client).peerKeys = Sorted(all)
  <2>1. Keyed(picker.peers, client) = P
    BY Zenon DEF Keyed
  <2> HIDE DEF P, all
  <2> QED BY <2>1, Zenon DEF Add, all
<1>2. Replicas \in Nat /\ \A i \in 1 .. Replicas : hs[<<client.addr, i>>] \in Hashes
  BY RingAssumption, Zenon DEF HashFns
<1>3. \A i \in 1 .. Replicas : Point(hs, client, i) \in Points(P)
  BY <1>2, Zenon DEF Point, Points
<1>4. more \in Seq(Points(P)) /\ Len(more) = Replicas
      /\ \A i \in 1 .. Replicas : more[i] = Point(hs, client, i)
  <2>1. more = [i \in 1 .. Replicas |-> Point(hs, client, i)]
    BY Zenon DEF PointsOf, Point
  <2> HIDE DEF more, P
  <2> QED BY <1>2, <1>3, <2>1
<1>5. keys \in Seq(Points(P))
  <2>1. keys \in Seq(Points(picker.peers))
    BY Zenon DEF RingOf
  <2>2. Points(picker.peers) \subseteq Points(P)
    BY Zenon DEF Points
  <2> HIDE DEF keys, P
  <2> QED BY <2>1, <2>2, LargerLists, Zenon
<1>6. /\ all \in Seq(Points(P)) /\ Len(all) = Len(keys) + Replicas /\ Len(keys) \in Nat
      /\ \A i \in 1 .. Len(keys) : all[i] = keys[i]
      /\ \A i \in 1 .. Replicas : all[Len(keys) + i] = Point(hs, client, i)
  <2> HIDE DEF keys, more, P
  <2> QED BY <1>2, <1>4, <1>5, SMTT(30)
<1> HIDE DEF all, more, keys
<1>7. /\ Sorted(all) \in Seq(Points(P)) /\ Len(Sorted(all)) = Len(all)
      /\ Ascending(Sorted(all))
      /\ \A n \in 1 .. Len(all) : \E i \in 1 .. Len(all) : Sorted(all)[n] = all[i]
      /\ \A i \in 1 .. Len(all) : \E n \in 1 .. Len(all) : Sorted(all)[n] = all[i]
  <2> HIDE DEF P
  <2> QED BY <1>6, SortedSorts, Zenon
<1>8. ASSUME NEW n \in 1 .. Len(all)
      PROVE  \E p \in P, i \in 1 .. Replicas : Sorted(all)[n] = Point(hs, p, i)
  <2>1. PICK m \in 1 .. Len(all) : Sorted(all)[n] = all[m]
    BY <1>7, Zenon
  <2>2. CASE m \in 1 .. Len(keys)
    <3>1. \E p \in picker.peers, i \in 1 .. Replicas : keys[m] = Point(hs, p, i)
      BY <2>2, Zenon DEF RingOf, keys
    <3> QED BY <1>6, <2>1, <2>2, <3>1, Zenon
  <2>3. CASE m \notin 1 .. Len(keys)
    <3>1. m - Len(keys) \in 1 .. Replicas /\ m = Len(keys) + (m - Len(keys))
      BY <1>2, <1>6, <2>3
    <3> QED BY <1>6, <2>1, <3>1, Zenon
  <2> QED BY <2>2, <2>3, Zenon
<1>9. ASSUME NEW p \in P, NEW i \in 1 .. Replicas
      PROVE  \E n \in 1 .. Len(all) : Sorted(all)[n] = Point(hs, p, i)
  <2>1. \E m \in 1 .. Len(all) : all[m] = Point(hs, p, i)
    <3>1. CASE p \in picker.peers
      <4>1. PICK m \in 1 .. Len(keys) : keys[m] = Point(hs, p, i)
        BY <3>1, Zenon DEF RingOf, keys
      <4>2. m \in 1 .. Len(all)
        BY <1>2, <1>6
      <4> QED BY <1>6, <4>1, <4>2, Zenon
    <3>2. CASE p = client
      <4>1. Len(keys) + i \in 1 .. Len(all)
        BY <1>2, <1>6
      <4> QED BY <1>6, <3>2, <4>1, Zenon
    <3> QED BY <3>1, <3>2, Zenon
  <2> QED BY <1>7, <2>1, Zenon
<1>10. \A p \in P : p.addr \in Addrs
  BY Zenon DEF RingOf
<1> HIDE DEF P
<1>11. RingOf(hs, Add(hs, picker, client))
  <2> DEFINE sorted == Sorted(all)
             new == Add(hs, picker, client)
  <2>1. /\ \A n \in 1 .. Len(sorted) : \E p \in P, i \in 1 .. Replicas : sorted[n] = Point(hs, p, i)
        /\ \A p \in P, i \in 1 .. Replicas : \E n \in 1 .. Len(sorted) : sorted[n] = Point(hs, p, i)
    BY <1>7, <1>8, <1>9, ZenonT(30)
  <2>2. sorted \in Seq(Points(P)) /\ Ascending(sorted) /\ new.peers = P /\ new.peerKeys = sorted
    BY <1>1, <1>7, Zenon
  <2> HIDE DEF sorted, new
  <2>3. RingOf(hs, new)
    BY <1>10, <2>1, <2>2, ZenonT(30) DEF RingOf
  <2> QED BY <2>3, Zenon DEF new
<1> QED BY <1>1, <1>11, Zenon DEF P, Joins

\* The point of the peer p is at least as near, going up from h, as any other.
IsFirst(hs, peers, p, h) ==
    \E i \in 1 .. Replicas : \A q \in peers, j \in 1 .. Replicas :
        Distance(h, hs[<<p.addr, i>>]) <= Distance(h, hs[<<q.addr, j>>])

\* Get finds the peer with the first point.
LEMMA GetFirst ==
    ASSUME NEW hs \in HashFns, NEW picker, RingOf(hs, picker), picker.peers # {}, NEW h \in Hashes
    PROVE  Get(picker, h) \in picker.peers /\ IsFirst(hs, picker.peers, Get(picker, h), h)
<1> DEFINE keys == picker.peerKeys
           idx == search(keys, h)
           top == IF idx = Len(keys) THEN 1 ELSE idx + 1
<1>1. keys \in Seq(Points(picker.peers)) /\ Ascending(keys) /\ Len(keys) \in Nat
  BY ListFacts, Zenon DEF RingOf
<1>2. idx \in 0 .. Len(keys) /\ \A j \in 1 .. Len(keys) : keys[j].hash < h <=> j <= idx
  <2> HIDE DEF keys
  <2> QED BY <1>1, SearchFinds, Zenon
<1>3. Get(picker, h) = keys[top].peer
  BY Zenon DEF Get
<1>4. Replicas \in Nat \ {0} /\ HashSpace \in Nat /\ 1 \in 1 .. Replicas
  BY RingAssumption
<1>5. Len(keys) # 0
  <2>1. PICK p \in picker.peers : TRUE
    BY Zenon
  <2>2. PICK n \in 1 .. Len(keys) : keys[n] = Point(hs, p, 1)
    BY <1>4, Zenon DEF RingOf
  <2> QED BY <1>1, <2>2
<1>6. top \in 1 .. Len(keys)
  <2> HIDE DEF keys, idx
  <2> QED BY <1>1, <1>2, <1>5
<1> HIDE DEF top, idx
<1>7. PICK p \in picker.peers, i \in 1 .. Replicas : keys[top] = Point(hs, p, i)
  BY <1>6, Zenon DEF RingOf
<1>8. Get(picker, h) = p /\ keys[top].hash = hs[<<p.addr, i>>]
  BY <1>3, <1>7 DEF Point
<1>9. \A n \in 1 .. Len(keys) : keys[n].hash \in Hashes
  <2> HIDE DEF keys
  <2>1. \A x \in Points(picker.peers) : x.hash \in Hashes
    BY Zenon DEF Points
  <2> QED BY <1>1, <2>1, ListFacts, Zenon
<1>10. ASSUME NEW q \in picker.peers, NEW j \in 1 .. Replicas
       PROVE  Distance(h, hs[<<p.addr, i>>]) <= Distance(h, hs[<<q.addr, j>>])
  <2>1. PICK n \in 1 .. Len(keys) : keys[n] = Point(hs, q, j)
    BY Zenon DEF RingOf
  <2>2. keys[n].hash = hs[<<q.addr, j>>]
    BY <2>1 DEF Point
  <2>3. Distance(h, keys[top].hash) <= Distance(h, keys[n].hash)
    <3> DEFINE a == keys[top].hash
               b == keys[n].hash
    <3>1. a \in Nat /\ b \in Nat /\ h \in Nat /\ a < HashSpace /\ b < HashSpace /\ h < HashSpace
      BY <1>4, <1>6, <1>9 DEF Hashes
    <3>2. \/ a >= h /\ (b < h \/ a <= b)
          \/ a < h /\ b < h /\ a <= b
      <4>1. a < h <=> top <= idx
        BY <1>2, <1>6, Zenon
      <4>2. b < h <=> n <= idx
        BY <1>2, Zenon
      <4>3. top <= n => a <= b
        BY <1>1, <1>6, Zenon DEF Ascending
      <4> HIDE DEF a, b, keys
      <4> QED BY <1>1, <1>2, <1>5, <1>6, <3>1, <4>1, <4>2, <4>3 DEF top
    <3> HIDE DEF a, b
    <3>3. Distance(h, a) <= Distance(h, b)
      BY <1>4, <3>1, <3>2 DEF Distance
    <3> QED BY <3>3, Zenon DEF a, b
  <2> QED BY <1>8, <2>2, <2>3, Zenon
<1> QED BY <1>8, <1>10, Zenon DEF IsFirst

-----------------------------------------------------------------------------
(* The peers of a node.                                                    *)

USE PeerSetAssumption

Infos == [addr : Addrs, dc : DCs]
Client == [addr : Addrs, dc : DCs, gen : Nat \ {0}]

InRegions == RegionPeers(region)

\* Sets of clients: at most one per address; the same client for the same
\* address; of this data center, or of others.
OneEach(S) == \A p, q \in S : p.addr = q.addr => p = q
Shares(S, T) == \A p \in S, q \in T : p.addr = q.addr => p = q
AllHere(S) == \A p \in S : p.dc = Here
AllAway(S) == \A p \in S : p.dc # Here

AddrsOf(S) == {p.addr : p \in S}
HereIn(S) == {i \in S : i.dc = Here}
AwayIn(S) == {i \in S : i.dc # Here}

\* How many clients of a set an address has, and no client numbered higher.
Count(M, a) == Cardinality({q \in M : q.addr = a})
Numbered(M) == M \subseteq Client /\ IsFiniteSet(M) /\ \A p \in M : p.gen <= Count(M, p.addr)

\* One more client is one more address.
LEMMA AddrsAdd ==
    ASSUME NEW S, NEW x PROVE AddrsOf(S \cup {x}) = AddrsOf(S) \cup {x.addr}
BY DEF AddrsOf

-----------------------------------------------------------------------------
(* The pickers.                                                            *)

\* Adding a client with a new address adds just that client.
LEMMA AddPeers ==
    ASSUME NEW h, NEW picker, NEW client, \A p \in picker.peers : p.addr # client.addr
    PROVE  Joins(h, picker, client)
BY Zenon DEF Joins, Add, Keyed

\* An empty region picker has no clients, and neither has an empty picker.
LEMMA NoPeers == New.peers = {} /\ RegionPeers(NewRegion) = {}
BY Zenon DEF New, NewRegion, RegionPeers

\* The same for the region picker, whatever data center the client is of.
LEMMA RegionAddPeers ==
    ASSUME NEW h, NEW R, NEW client, \A p \in RegionPeers(R) : p.addr # client.addr
    PROVE  RegionJoins(h, R, client)
<1> DEFINE dc == client.dc
           picker == IF dc \in DOMAIN R THEN R[dc] ELSE New
           added == Add(h, picker, client)
           S == RegionAdd(h, R, client)
<1>1. picker.peers \subseteq RegionPeers(R)
  BY NoPeers DEF RegionPeers
<1>2. added.peers = picker.peers \cup {client}
  <2>1. \A p \in picker.peers : p.addr # client.addr
    BY <1>1, Zenon
  <2> HIDE DEF picker
  <2>2. Joins(h, picker, client)
    BY <2>1, AddPeers, Zenon
  <2> QED BY <2>2, Zenon DEF Joins
<1>3. /\ DOMAIN S = {dc} \cup DOMAIN R /\ S[dc] = added
      /\ \A d \in DOMAIN R \ {dc} : S[d] = R[d]
  <2> HIDE DEF added
  <2>1. S = [d \in DOMAIN R \cup {dc} |-> IF d = dc THEN added ELSE R[d]]
    BY Zenon DEF RegionAdd, added
  <2> QED
    BY <2>1, Zenon
<1>4. RegionPeers(S) = UNION {S[d].peers : d \in DOMAIN S}
  BY Zenon DEF RegionPeers
<1>5. RegionPeers(R) = UNION {R[d].peers : d \in DOMAIN R}
  BY Zenon DEF RegionPeers
<1>6. dc \in DOMAIN R => picker = R[dc]
  BY Zenon
<1>7. dc \notin DOMAIN R => picker.peers = {}
  BY NoPeers, Zenon
<1> HIDE DEF S, added, picker, dc
<1>8. ASSUME NEW p \in RegionPeers(S) PROVE p \in RegionPeers(R) \cup {client}
  <2>1. PICK d \in DOMAIN S : p \in S[d].peers
    BY <1>4, <1>8
  <2>2. CASE d = dc
    BY <1>1, <1>2, <1>3, <2>1, <2>2, Zenon
  <2>3. CASE d # dc
    BY <1>3, <1>5, <2>1, <2>3
  <2> QED BY <2>2, <2>3, Zenon
<1>9. ASSUME NEW p \in RegionPeers(R) PROVE p \in RegionPeers(S)
  <2>1. PICK d \in DOMAIN R : p \in R[d].peers
    BY <1>5, <1>9
  <2>2. CASE d = dc
    BY <1>2, <1>3, <1>4, <1>6, <2>1, <2>2
  <2>3. CASE d # dc
    BY <1>3, <1>4, <2>1, <2>3
  <2> QED BY <2>2, <2>3, Zenon
<1>10. client \in RegionPeers(S)
  BY <1>2, <1>3, <1>4
<1> QED
  BY <1>8, <1>9, <1>10 DEF S, RegionJoins

\* NewPeerClient returns a client that was not there before.
LEMMA NewClient ==
    ASSUME NEW M, Numbered(M), NEW info \in Infos,
           NEW x, x = [addr |-> info.addr, dc |-> info.dc, gen |-> Count(M, info.addr) + 1]
    PROVE  x \in Client \ M /\ Numbered(M \cup {x})
<1> DEFINE Of(a) == {q \in M : q.addr = a}
           OfNew(a) == {q \in M \cup {x} : q.addr = a}
<1>1. ASSUME NEW a
      PROVE  IsFiniteSet(Of(a)) /\ Count(M, a) = Cardinality(Of(a)) /\ Count(M, a) \in Nat
  <2>1. Of(a) \in SUBSET M /\ IsFiniteSet(M)
    BY Zenon DEF Numbered
  <2>2. IsFiniteSet(Of(a))
    BY <2>1, FS_Subset, Zenon
  <2> QED
    BY <2>2, FS_CardinalityType, Zenon DEF Count
<1>2. /\ x.addr = info.addr /\ x.dc = info.dc /\ x.gen = Count(M, x.addr) + 1
      /\ Count(M, x.addr) \in Nat /\ Count(M, info.addr) \in Nat
  BY <1>1, Zenon
<1>3. x \in Client
  BY <1>2 DEF Client, Infos
<1>4. x \notin M
  <2> SUFFICES ASSUME x \in M PROVE FALSE
    BY Zenon
  <2>1. x.gen <= Count(M, x.addr)
    BY Zenon DEF Numbered
  <2> QED BY <1>2, <2>1
<1>5. ASSUME NEW a
      PROVE  Count(M \cup {x}, a) \in Nat /\ Count(M, a) <= Count(M \cup {x}, a)
             /\ (a = x.addr => Count(M \cup {x}, a) = Count(M, a) + 1)
  <2>1. Count(M \cup {x}, a) = Cardinality(OfNew(a))
    BY Zenon DEF Count
  <2>2. CASE a = x.addr
    <3>1. OfNew(a) = Of(a) \cup {x} /\ x \notin Of(a)
      BY <1>4, <2>2, Zenon
    <3>2. Cardinality(Of(a) \cup {x}) = Cardinality(Of(a)) + 1
      <4>1. IsFiniteSet(Of(a))
        BY <1>1, Zenon
      <4> HIDE DEF Of
      <4> QED BY <3>1, <4>1, FS_AddElement, Zenon
    <3> HIDE DEF Of, OfNew
    <3> QED BY <1>1, <2>1, <3>1, <3>2
  <2>3. CASE a # x.addr
    <3>1. OfNew(a) = Of(a)
      BY <2>3, Zenon
    <3> HIDE DEF Of, OfNew
    <3> QED BY <1>1, <2>1, <2>3, <3>1
  <2> QED BY <2>2, <2>3, Zenon
<1>6. IsFiniteSet(M \cup {x})
  BY FS_AddElement, Zenon DEF Numbered
<1>7. ASSUME NEW p \in M \cup {x} PROVE p.gen <= Count(M \cup {x}, p.addr)
  <2>1. CASE p = x
    <3>1. Count(M \cup {x}, x.addr) = Count(M, x.addr) + 1
      BY <1>5, Zenon
    <3> QED BY <1>2, <2>1, <3>1
  <2>2. CASE p \in M
    <3>1. p.gen \in Nat /\ p.gen <= Count(M, p.addr)
      BY <2>2, Zenon DEF Numbered, Client
    <3>2. Count(M, p.addr) \in Nat /\ Count(M \cup {x}, p.addr) \in Nat
          /\ Count(M, p.addr) <= Count(M \cup {x}, p.addr)
      BY <1>1, <1>5, Zenon
    <3> QED BY <3>1, <3>2
  <2> QED BY <2>1, <2>2, Zenon
<1> QED
  BY <1>3, <1>4, <1>6, <1>7, Zenon DEF Numbered

-----------------------------------------------------------------------------
(* The invariant, for the caller pool.                                     *)

Shape(pool) ==
    /\ at \in [{pool} -> {"idle", "building", "swapped", "local", "found"}]
    /\ DOMAIN list = {pool} /\ DOMAIN todo = {pool}
    /\ DOMAIN newLocal = {pool} /\ DOMAIN newRegion = {pool}
    /\ DOMAIN old = {pool} /\ DOMAIN leaving = {pool}

\* The pickers in use have open clients, each where it belongs.
Serving ==
    /\ Numbered(made) /\ shut \subseteq made
    /\ local.peers \subseteq made \ shut /\ InRegions \subseteq made \ shut
    /\ AllHere(local.peers) /\ AllAway(InRegions)
    /\ OneEach(local.peers) /\ OneEach(InRegions)

\* The pickers being built have the part of the list that was handled, with
\* the clients in use for addresses that have one.
Built(infos, rest, L, R) ==
    /\ infos \in Lists /\ rest \subseteq infos
    /\ L \subseteq made \ shut /\ R \subseteq made \ shut
    /\ AllHere(L) /\ AllAway(R) /\ OneEach(L) /\ OneEach(R)
    /\ Shares(L, local.peers) /\ Shares(R, InRegions)
    /\ AddrsOf(L) = AddrsOf(HereIn(infos \ rest))
    /\ AddrsOf(R) = AddrsOf(AwayIn(infos \ rest))

Kept == local.peers \cup InRegions \cup shut \cup lost

\* Where the clients are at each stage of a call.
Stages(pool) ==
    /\ at[pool] # "building" => newLocal[pool].peers = {} /\ RegionPeers(newRegion[pool]) = {}
    /\ at[pool] \in {"idle", "building", "found"} => old[pool] = NoOld
    /\ at[pool] \in {"idle", "building", "swapped"} => leaving[pool] = {}
    /\ leaving[pool] \subseteq made \ (local.peers \cup InRegions)
    /\ at[pool] = "idle" => made \subseteq Kept
    /\ at[pool] = "building" =>
          /\ Built(list[pool], todo[pool], newLocal[pool].peers, RegionPeers(newRegion[pool]))
          /\ made \subseteq Kept \cup newLocal[pool].peers \cup RegionPeers(newRegion[pool])
    /\ at[pool] = "swapped" =>
          /\ old[pool].local \subseteq made /\ AllHere(old[pool].local)
          /\ Shares(old[pool].local, local.peers)
          /\ made \subseteq Kept \cup old[pool].local \cup old[pool].region
    /\ at[pool] \in {"swapped", "local"} =>
          /\ old[pool].region \subseteq made /\ AllAway(old[pool].region)
          /\ Shares(old[pool].region, InRegions)
    /\ at[pool] = "local" => made \subseteq Kept \cup leaving[pool] \cup old[pool].region
    /\ at[pool] = "found" => made \subseteq Kept \cup leaving[pool]

Inv(pool) == Shape(pool) /\ Serving /\ Stages(pool)

-----------------------------------------------------------------------------
(* The steps of a call.                                                    *)

\* A call starts with empty pickers.
LEMMA CallKeeps ==
    ASSUME NEW pool, Inv(pool), NEW infos \in Lists, Call(pool, infos)
    PROVE  Inv(pool)'
<1> USE DEF Inv
<1>1. /\ at' = [at EXCEPT ![pool] = "building"] /\ at[pool] = "idle"
      /\ list'[pool] = infos /\ todo'[pool] = infos
      /\ newLocal'[pool] = New /\ newRegion'[pool] = NewRegion
      /\ UNCHANGED <<local, region, made, shut, lost, old, leaving>>
  BY Zenon DEF Call, Shape
<1>2. Shape(pool)'
  BY <1>1, Zenon DEF Shape, Call
<1>3. Serving'
  BY <1>1, Zenon DEF Serving, InRegions
<1>4. at'[pool] = "building"
  BY <1>1, Zenon DEF Shape
<1>5. newLocal'[pool].peers = {} /\ RegionPeers(newRegion'[pool]) = {}
  BY <1>1, NoPeers, Zenon
<1>6. Built(infos, infos, {}, {})
  BY Zenon DEF Built, AllHere, AllAway, OneEach, Shares, AddrsOf, HereIn, AwayIn
<1>7. Built(infos, infos, {}, {})'
  BY <1>1, <1>6, Zenon DEF Built, InRegions
<1>8. Stages(pool)'
  <2>1. old'[pool] = NoOld /\ leaving'[pool] = {}
    BY <1>1, Zenon DEF Stages
  <2>2. made' \subseteq Kept'
    BY <1>1, Zenon DEF Stages, Kept, InRegions
  <2> QED
    BY <1>1, <1>4, <1>5, <1>7, <2>1, <2>2, Zenon DEF Stages
<1> QED
  BY <1>2, <1>3, <1>8, Zenon

\* A peer that cannot be dialled ends the call.
LEMMA FailKeeps ==
    ASSUME NEW pool, Inv(pool), NEW info, FailToConnect(pool, info)
    PROVE  Inv(pool)'
<1> USE DEF Inv
<1>1. /\ at[pool] = "building" /\ at'[pool] = "idle"
      /\ newLocal'[pool] = New /\ newRegion'[pool] = NewRegion
      /\ lost' = lost \cup (Building(pool) \ InUse)
      /\ UNCHANGED <<local, region, made, shut, old, leaving>>
  BY Zenon DEF FailToConnect, Shape
<1>2. Shape(pool)'
  BY <1>1, Zenon DEF Shape, FailToConnect
<1>3. Serving'
  BY <1>1, Zenon DEF Serving, InRegions
<1>4. newLocal'[pool].peers = {} /\ RegionPeers(newRegion'[pool]) = {}
  BY <1>1, NoPeers, Zenon
<1>5. made' \subseteq Kept'
  BY <1>1, Zenon DEF Stages, Kept, InRegions, Building, InUse
<1>6. old'[pool] = NoOld /\ leaving'[pool] = {}
  BY <1>1, Zenon DEF Stages
<1>7. Stages(pool)'
  BY <1>1, <1>4, <1>5, <1>6, Zenon DEF Stages
<1> QED
  BY <1>2, <1>3, <1>7, Zenon

\* The swap: what was built is in use, what was in use is old.
LEMMA SwapKeeps ==
    ASSUME NEW pool, Inv(pool), Swap(pool)
    PROVE  Inv(pool)'
<1> USE DEF Inv
<1>1. /\ at[pool] = "building" /\ at'[pool] = "swapped" /\ todo[pool] = {}
      /\ local' = newLocal[pool] /\ region' = newRegion[pool]
      /\ newLocal'[pool] = New /\ newRegion'[pool] = NewRegion
      /\ old'[pool].local = local.peers /\ old'[pool].region = InRegions
      /\ UNCHANGED <<made, shut, lost, leaving>>
  BY Zenon DEF Swap, Shape, InRegions
<1>2. Shape(pool)'
  BY <1>1, Zenon DEF Shape, Swap
<1>3. Built(list[pool], todo[pool], newLocal[pool].peers, RegionPeers(newRegion[pool]))
  BY <1>1, Zenon DEF Stages
<1>4. local'.peers = newLocal[pool].peers /\ InRegions' = RegionPeers(newRegion[pool])
  BY <1>1, Zenon DEF InRegions
<1>5. Serving'
  BY <1>1, <1>3, <1>4, Zenon DEF Serving, Built, OneEach, AllHere, AllAway
<1>6. newLocal'[pool].peers = {} /\ RegionPeers(newRegion'[pool]) = {}
  BY <1>1, NoPeers, Zenon
<1>7. Shares(old'[pool].local, local'.peers) /\ Shares(old'[pool].region, InRegions')
  BY <1>1, <1>3, <1>4, Zenon DEF Built, Shares
<1>8. made' \subseteq Kept' \cup old'[pool].local \cup old'[pool].region
  BY <1>1, <1>4, Zenon DEF Stages, Kept
<1>9. leaving'[pool] = {}
  BY <1>1, Zenon DEF Stages
<1>10. Stages(pool)'
  BY <1>1, <1>6, <1>7, <1>8, <1>9, Zenon DEF Stages, Serving, Shares, AllHere, AllAway
<1> QED
  BY <1>2, <1>5, <1>10, Zenon

\* Old clients leave when their address is not in use any more.
LEMMA FindKeeps ==
    ASSUME NEW pool, Inv(pool), FindOldLocal(pool) \/ FindOldRegion(pool)
    PROVE  Inv(pool)'
<1> USE DEF Inv
<1>1. UNCHANGED <<local, region, made, shut, lost, newLocal, newRegion>>
  BY Zenon DEF FindOldLocal, FindOldRegion
<1>2. Shape(pool)'
  BY Zenon DEF Shape, FindOldLocal, FindOldRegion
<1>3. Serving'
  BY <1>1, Zenon DEF Serving, InRegions
<1>4. CASE FindOldLocal(pool)
  <2>1. /\ at[pool] = "swapped" /\ at'[pool] = "local" /\ old' = old
        /\ leaving'[pool] = {p \in old[pool].local : GetByPeerInfo(local, p.addr) = {}}
    BY <1>4, Zenon DEF FindOldLocal, Shape
  <2>2. leaving'[pool] \subseteq made \ (local.peers \cup InRegions)
    BY <2>1, Zenon DEF GetByPeerInfo, Stages, AllHere, AllAway, Serving
  <2>3. old[pool].local \subseteq local.peers \cup leaving'[pool]
    <3>1. Shares(old[pool].local, local.peers)
      BY <2>1, Zenon DEF Stages
    <3> HIDE DEF Inv
    <3> QED
      BY <2>1, <3>1 DEF GetByPeerInfo, Shares
  <2>4. made \subseteq Kept \cup leaving'[pool] \cup old[pool].region
    BY <2>1, <2>3, Zenon DEF Stages, Kept
  <2> QED
    BY <1>1, <1>2, <1>3, <2>1, <2>2, <2>4, Zenon DEF Stages, Kept, InRegions
<1>5. CASE FindOldRegion(pool)
  <2>1. /\ at[pool] = "local" /\ at'[pool] = "found" /\ old'[pool] = NoOld
        /\ leaving'[pool] =
             leaving[pool] \cup {p \in old[pool].region : RegionByPeerInfo(region, p.addr) = {}}
    BY <1>5, Zenon DEF FindOldRegion, Shape
  <2>2. leaving'[pool] \subseteq made \ (local.peers \cup InRegions)
    BY <2>1, Zenon DEF RegionByPeerInfo, Stages, AllHere, AllAway, Serving, InRegions
  <2>3. old[pool].region \subseteq InRegions \cup leaving'[pool]
    <3>1. Shares(old[pool].region, InRegions)
      BY <2>1, Zenon DEF Stages
    <3> HIDE DEF Inv
    <3>2. ASSUME NEW p \in old[pool].region, p \notin InRegions PROVE p \in leaving'[pool]
      <4>1. \A q \in InRegions : q.addr # p.addr
        BY <3>1, <3>2, Zenon DEF Shares
      <4>2. RegionByPeerInfo(region, p.addr) = {}
        BY <4>1, Zenon DEF RegionByPeerInfo, InRegions
      <4> QED BY <2>1, <4>2, Zenon
    <3> QED BY <3>2, Zenon
  <2>4. made \subseteq Kept \cup leaving'[pool]
    BY <2>1, <2>3, Zenon DEF Stages, Kept
  <2> QED
    BY <1>1, <1>2, <1>3, <2>1, <2>2, <2>4, Zenon DEF Stages, Kept, InRegions
<1> QED
  BY <1>4, <1>5, Zenon

\* What is shut down is not in use.
LEMMA ShutdownKeeps ==
    ASSUME NEW pool, Inv(pool), ShutdownPeers(pool)
    PROVE  Inv(pool)'
<1> USE DEF Inv
<1>1. /\ at[pool] = "found" /\ at'[pool] = "idle" /\ leaving'[pool] = {}
      /\ shut' = shut \cup leaving[pool]
      /\ UNCHANGED <<local, region, made, lost, newLocal, newRegion, old>>
  BY Zenon DEF ShutdownPeers, Shape
<1>2. Shape(pool)'
  BY <1>1, Zenon DEF Shape, ShutdownPeers
<1>3. Serving'
  BY <1>1, Zenon DEF Serving, InRegions, Stages
<1>4. Stages(pool)'
  BY <1>1, Zenon DEF Stages, Kept, InRegions
<1> QED
  BY <1>2, <1>3, <1>4, Zenon

\* The client a peer is given: the one in use for its address, else a new one.
LEMMA PickedClient ==
    ASSUME NEW pool, Inv(pool), NEW info \in Infos,
           NEW client,
           Existing(info) # {} => client \in Existing(info),
           Existing(info) = {} => client = NewPeerClient(info)
    PROVE  /\ client.addr = info.addr /\ (client.dc = Here <=> info.dc = Here)
           /\ Numbered(made \cup {client}) /\ client \notin shut
           /\ info.dc = Here => Shares({client}, local.peers)
           /\ info.dc # Here => Shares({client}, InRegions)
<1> USE DEF Inv
<1>1. CASE Existing(info) # {}
  <2>1. /\ client \in made \ shut /\ client.addr = info.addr
        /\ IF info.dc # Here THEN client \in InRegions ELSE client \in local.peers
    BY <1>1, Zenon DEF Existing, RegionByPeerInfo, GetByPeerInfo, Serving, InRegions
  <2>2. made \cup {client} = made
    BY <2>1
  <2> QED
    BY <2>1, <2>2, Zenon DEF Serving, AllHere, AllAway, OneEach, Shares
<1>2. CASE Existing(info) = {}
  <2>1. client = [addr |-> info.addr, dc |-> info.dc, gen |-> Count(made, info.addr) + 1]
    BY <1>2, Zenon DEF NewPeerClient, Count
  <2>2. client.addr = info.addr /\ client.dc = info.dc
    BY <2>1, Zenon
  <2>3. client \in Client \ made /\ Numbered(made \cup {client})
    BY <2>1, NewClient DEF Serving
  <2>4. /\ info.dc = Here => Shares({client}, local.peers)
        /\ info.dc # Here => Shares({client}, InRegions)
    BY <1>2, <2>2, Zenon DEF Existing, RegionByPeerInfo, GetByPeerInfo, Shares, InRegions
  <2> QED
    BY <2>2, <2>3, <2>4, Zenon DEF Serving
<1> QED
  BY <1>1, <1>2, Zenon

\* One more peer of the list is in the pickers.
LEMMA AddKeeps ==
    ASSUME NEW pool, Inv(pool), NEW info \in todo[pool], AddPeer(pool, info)
    PROVE  Inv(pool)'
<1> USE DEF Inv
<1> DEFINE L == newLocal[pool].peers
           R == RegionPeers(newRegion[pool])
           rest == todo[pool] \ {info}
<1>1. /\ at[pool] = "building" /\ at'[pool] = "building"
      /\ todo'[pool] = rest
      /\ UNCHANGED <<local, region, shut, lost, list, old, leaving>>
  BY Zenon DEF AddPeer, Shape
<1>2. Shape(pool)'
  BY Zenon DEF Shape, AddPeer
<1>3. Built(list[pool], todo[pool], L, R) /\ made \subseteq Kept \cup L \cup R
  BY <1>1, Zenon DEF Stages
<1>4. info \in Infos /\ info \in list[pool]
  BY <1>3, Zenon DEF Built, Infos
<1>5. PICK client \in IF Existing(info) # {} THEN Existing(info) ELSE {NewPeerClient(info)} :
         /\ made' = made \cup {client}
         /\ IF info.dc # Here
            THEN /\ newRegion' = [newRegion EXCEPT ![pool] = RegionAdd(hash, @, client)]
                 /\ UNCHANGED newLocal
            ELSE /\ newLocal' = [newLocal EXCEPT ![pool] = Add(hash, @, client)]
                 /\ UNCHANGED newRegion
  BY Zenon DEF AddPeer
<1>6. /\ client.addr = info.addr /\ (client.dc = Here <=> info.dc = Here)
      /\ Numbered(made \cup {client}) /\ client \notin shut
      /\ info.dc = Here => Shares({client}, local.peers)
      /\ info.dc # Here => Shares({client}, InRegions)
  <2>1. /\ Existing(info) # {} => client \in Existing(info)
        /\ Existing(info) = {} => client = NewPeerClient(info)
    BY <1>5, Zenon
  <2> HIDE DEF Inv
  <2> QED
    BY <1>4, <2>1, PickedClient, Zenon
<1>7. Serving'
  BY <1>1, <1>5, <1>6, Zenon DEF Serving, InRegions
<1>8. \A j \in list[pool] : j.addr = info.addr => j = info
  BY <1>3, <1>4, Zenon DEF Built
<1>9. \A p \in L \cup R : p.addr # info.addr
  <2>1. info.addr \notin AddrsOf(list[pool] \ todo[pool])
    BY <1>8 DEF AddrsOf
  <2>2. AddrsOf(L) \cup AddrsOf(R) \subseteq AddrsOf(list[pool] \ todo[pool])
    BY <1>3, Zenon DEF Built, AddrsOf, HereIn, AwayIn
  <2> HIDE DEF L, R, Inv
  <2> QED
    BY <2>1, <2>2 DEF AddrsOf
<1>10. list[pool] \ rest = (list[pool] \ todo[pool]) \cup {info}
  BY <1>4
<1>11. CASE info.dc = Here
  <2>1. newLocal'[pool].peers = L \cup {client} /\ newRegion' = newRegion
    <3>1. newLocal'[pool] = Add(hash, newLocal[pool], client) /\ newRegion' = newRegion
      BY <1>5, <1>11, ZenonT(60) DEF Shape
    <3>2. \A p \in newLocal[pool].peers : p.addr # client.addr
      BY <1>6, <1>9, ZenonT(30)
    <3>3. Joins(hash, newLocal[pool], client)
      BY <3>2, AddPeers, Zenon
    <3> QED BY <3>1, <3>3, Zenon DEF Joins
  <2>2. /\ AddrsOf(L \cup {client}) = AddrsOf(HereIn(list[pool] \ rest))
        /\ AddrsOf(R) = AddrsOf(AwayIn(list[pool] \ rest))
    <3>1. /\ HereIn(list[pool] \ rest) = HereIn(list[pool] \ todo[pool]) \cup {info}
          /\ AwayIn(list[pool] \ rest) = AwayIn(list[pool] \ todo[pool])
      BY <1>10, <1>11, Zenon DEF HereIn, AwayIn
    <3>2. /\ AddrsOf(L \cup {client}) = AddrsOf(L) \cup {info.addr}
          /\ AddrsOf(HereIn(list[pool] \ todo[pool]) \cup {info})
                = AddrsOf(HereIn(list[pool] \ todo[pool])) \cup {info.addr}
      <4> HIDE DEF L, R
      <4> QED BY <1>6, AddrsAdd, Zenon
    <3> HIDE DEF L, R, rest
    <3> QED BY <1>3, <3>1, <3>2, Zenon DEF Built
  <2>3. Built(list[pool], todo[pool], newLocal[pool].peers, RegionPeers(newRegion[pool]))'
    <3>1. /\ OneEach(L \cup {client}) /\ AllHere(L \cup {client})
          /\ Shares(L \cup {client}, local.peers)
      BY <1>3, <1>6, <1>9, <1>11, Zenon DEF Built, OneEach, AllHere, Shares
    <3> QED
      BY <1>1, <1>3, <1>5, <1>6, <2>1, <2>2, <3>1, Zenon DEF Built, InRegions
  <2>4. (made \subseteq Kept \cup newLocal[pool].peers \cup RegionPeers(newRegion[pool]))'
    BY <1>1, <1>3, <1>5, <2>1, Zenon DEF Kept, InRegions
  <2>5. Stages(pool)'
    BY <1>1, <2>3, <2>4, Zenon DEF Stages
  <2> QED
    BY <1>2, <1>7, <2>5, Zenon
<1>12. CASE info.dc # Here
  <2>1. RegionPeers(newRegion'[pool]) = R \cup {client} /\ newLocal' = newLocal
    <3>1. newRegion'[pool] = RegionAdd(hash, newRegion[pool], client) /\ newLocal' = newLocal
      BY <1>5, <1>12, ZenonT(60) DEF Shape
    <3>2. \A p \in RegionPeers(newRegion[pool]) : p.addr # client.addr
      BY <1>6, <1>9, ZenonT(30)
    <3>3. RegionJoins(hash, newRegion[pool], client)
      BY <3>2, RegionAddPeers, Zenon
    <3> QED BY <3>1, <3>3, Zenon DEF RegionJoins
  <2>2. /\ AddrsOf(R \cup {client}) = AddrsOf(AwayIn(list[pool] \ rest))
        /\ AddrsOf(L) = AddrsOf(HereIn(list[pool] \ rest))
    <3>1. /\ AwayIn(list[pool] \ rest) = AwayIn(list[pool] \ todo[pool]) \cup {info}
          /\ HereIn(list[pool] \ rest) = HereIn(list[pool] \ todo[pool])
      BY <1>10, <1>12, Zenon DEF HereIn, AwayIn
    <3>2. /\ AddrsOf(R \cup {client}) = AddrsOf(R) \cup {info.addr}
          /\ AddrsOf(AwayIn(list[pool] \ todo[pool]) \cup {info})
                = AddrsOf(AwayIn(list[pool] \ todo[pool])) \cup {info.addr}
      <4> HIDE DEF L, R
      <4> QED BY <1>6, AddrsAdd, Zenon
    <3> HIDE DEF L, R, rest
    <3> QED BY <1>3, <3>1, <3>2, Zenon DEF Built
  <2>3. Built(list[pool], todo[pool], newLocal[pool].peers, RegionPeers(newRegion[pool]))'
    <3>1. /\ OneEach(R \cup {client}) /\ AllAway(R \cup {client})
          /\ Shares(R \cup {client}, InRegions)
      BY <1>3, <1>6, <1>9, <1>12, Zenon DEF Built, OneEach, AllAway, Shares
    <3> QED
      BY <1>1, <1>3, <1>5, <1>6, <2>1, <2>2, <3>1, ZenonT(60) DEF Built, InRegions
  <2>4. (made \subseteq Kept \cup newLocal[pool].peers \cup RegionPeers(newRegion[pool]))'
    BY <1>1, <1>3, <1>5, <2>1, Zenon DEF Kept, InRegions
  <2>5. Stages(pool)'
    BY <1>1, <2>3, <2>4, Zenon DEF Stages
  <2> QED
    BY <1>2, <1>7, <2>5, Zenon
<1> QED
  BY <1>11, <1>12, Zenon

-----------------------------------------------------------------------------
\* Every step of the one caller keeps the invariant.
LEMMA InvStep ==
    ASSUME NEW pool, Callers = {pool}, Inv(pool), [PeerSetNext]_peerVars
    PROVE  Inv(pool)'
<1>1. CASE PeerSetNext
  <2>1. CallStep(pool) \/ \E infos \in Lists : Call(pool, infos)
    BY <1>1 DEF PeerSetNext
  <2>2. ASSUME NEW infos \in Lists, Call(pool, infos) PROVE Inv(pool)'
    BY <2>2, CallKeeps, Zenon
  <2>3. ASSUME NEW info \in todo[pool], AddPeer(pool, info) PROVE Inv(pool)'
    BY <2>3, AddKeeps, Zenon
  <2>4. ASSUME NEW info \in todo[pool], FailToConnect(pool, info) PROVE Inv(pool)'
    BY <2>4, FailKeeps, Zenon
  <2>5. CASE Swap(pool)
    BY <2>5, SwapKeeps, Zenon
  <2>6. CASE FindOldLocal(pool) \/ FindOldRegion(pool)
    BY <2>6, FindKeeps, Zenon
  <2>7. CASE ShutdownPeers(pool)
    BY <2>7, ShutdownKeeps, Zenon
  <2> QED
    BY <2>1, <2>2, <2>3, <2>4, <2>5, <2>6, <2>7, Zenon DEF CallStep
<1>2. CASE UNCHANGED peerVars
  BY <1>2, ZenonT(60) DEF peerVars, callVars, Inv, Shape, Serving, Stages, Built, Kept, InRegions, AllHere,
              AllAway, OneEach, Shares
<1> QED
  BY <1>1, <1>2, Zenon

\* The invariant holds from the start, with one caller.
LEMMA InvHolds ==
    ASSUME NEW pool, Callers = {pool}
    PROVE  PeerSetSpec => []Inv(pool)
<1>1. PeerSetInit => Inv(pool)
  <2> SUFFICES ASSUME PeerSetInit PROVE Inv(pool)
    BY Zenon
  <2>1. local.peers = {} /\ InRegions = {} /\ made = {} /\ shut = {} /\ lost = {}
    BY NoPeers, Zenon DEF PeerSetInit, InRegions
  <2>2. Numbered(made)
    BY <2>1, FS_EmptySet, Zenon DEF Numbered
  <2>3. Serving
    BY <2>1, <2>2, Zenon DEF Serving, AllHere, AllAway, OneEach
  <2>4. Shape(pool)
    BY Zenon DEF PeerSetInit, Shape
  <2>5. Stages(pool)
    BY <2>1, NoPeers, Zenon DEF PeerSetInit, Stages, Kept
  <2> QED
    BY <2>3, <2>4, <2>5, Zenon DEF Inv
<1>2. Inv(pool) /\ [PeerSetNext]_peerVars => Inv(pool)'
  BY InvStep, Zenon
<1> QED
  BY <1>1, <1>2, PTL DEF PeerSetSpec

\* As long as calls of SetPeers do not overlap, every client in use is open and
\* no client is lost without being shut down, but for those of calls that could
\* not dial a client.
THEOREM OneCallerKeepsAccount ==
    ASSUME NEW pool, Callers = {pool}
    PROVE  PeerSetSpec => []ClientsAccounted
<1>1. Inv(pool) => ClientsAccounted
  <2> SUFFICES ASSUME Inv(pool) PROVE ClientsAccounted
    BY Zenon
  <2>1. RingIsOpen
    BY Zenon DEF Inv, Serving, RingIsOpen, InUse, InRegions
  <2>2. UNION {Handled(c) : c \in Callers} = Handled(pool)
    OBVIOUS
  <2>3. at[pool] \in {"idle", "building", "swapped", "local", "found"}
    BY Zenon DEF Inv, Shape
  <2>4. made \subseteq Kept \cup Handled(pool)
    BY <2>3, Zenon DEF Inv, Stages, Handled, Building
  <2>5. made \subseteq InUse \cup shut \cup lost \cup Handled(pool)
    BY <2>4, Zenon DEF Kept, InUse, InRegions
  <2> QED
    BY <2>1, <2>2, <2>5, Zenon DEF ClientsAccounted
<1> QED
  BY <1>1, InvHolds, PTL

\* A call that swaps its pickers in has the peers of its list in them, each in
\* the picker of its data center.
THEOREM PickersMatchList ==
    ASSUME NEW pool, Callers = {pool}
    PROVE  PeerSetSpec => PickersFollowList
<1>1. Inv(pool) /\ [PeerSetNext]_peerVars =>
        [\A c \in Callers : at[c] = "building" /\ at'[c] = "swapped" =>
           /\ {p.addr : p \in local'.peers} = {i.addr : i \in {i \in list[c] : i.dc = Here}}
           /\ {p.addr : p \in RegionPeers(region')} =
                 {i.addr : i \in {i \in list[c] : i.dc # Here}}]_peerVars
  <2> SUFFICES ASSUME Inv(pool), PeerSetNext, at[pool] = "building", at'[pool] = "swapped"
               PROVE  /\ AddrsOf(local'.peers) = AddrsOf(HereIn(list[pool]))
                      /\ AddrsOf(RegionPeers(region')) = AddrsOf(AwayIn(list[pool]))
    BY Zenon DEF AddrsOf, HereIn, AwayIn
  <2>1. CallStep(pool) \/ \E infos \in Lists : Call(pool, infos)
    BY ZenonT(30) DEF PeerSetNext
  <2>2. Swap(pool)
    BY <2>1, ZenonT(60) DEF CallStep, Call, AddPeer, FailToConnect, FindOldLocal, FindOldRegion,
                ShutdownPeers, Inv, Shape
  <2>3. todo[pool] = {} /\ local' = newLocal[pool] /\ region' = newRegion[pool]
    BY <2>2, Zenon DEF Swap
  <2>4. Built(list[pool], todo[pool], newLocal[pool].peers, RegionPeers(newRegion[pool]))
    BY Zenon DEF Inv, Stages
  <2>5. list[pool] \ todo[pool] = list[pool]
    BY <2>3, Zenon
  <2> QED
    BY <2>3, <2>4, <2>5, Zenon DEF Built
<1> QED
  BY <1>1, InvHolds, PTL DEF PeerSetSpec, PickersFollowList

-----------------------------------------------------------------------------
(* The rings, for any number of callers.                                   *)

\* Every region has a picker of its own, with peers of that region.
RegionsOf(hs, R) ==
    \A dc \in DOMAIN R : /\ RingOf(hs, R[dc]) /\ R[dc].peers # {}
                         /\ \A p \in R[dc].peers : p.dc = dc

LEMMA NewRegions == \A hs : RegionsOf(hs, NewRegion)
BY Zenon DEF RegionsOf, NewRegion

\* Adding a peer with a new address keeps the region picker so.
LEMMA RegionAddRings ==
    ASSUME NEW hs \in HashFns, NEW R, RegionsOf(hs, R), NEW client, client.addr \in Addrs,
           \A p \in RegionPeers(R) : p.addr # client.addr
    PROVE  RegionsOf(hs, RegionAdd(hs, R, client))
<1> DEFINE dc == client.dc
           picker == IF dc \in DOMAIN R THEN R[dc] ELSE New
           added == Add(hs, picker, client)
           S == RegionAdd(hs, R, client)
<1>1. /\ \A p \in picker.peers : p.addr # client.addr /\ p.dc = dc
      /\ RingOf(hs, picker)
  <2>1. CASE dc \in DOMAIN R
    <3>0. R[dc].peers \subseteq RegionPeers(R)
      BY <2>1 DEF RegionPeers
    <3>1. picker = R[dc] /\ R[dc].peers \subseteq RegionPeers(R)
      BY <2>1, <3>0, Zenon
    <3>2. RingOf(hs, R[dc]) /\ \A p \in R[dc].peers : p.dc = dc
      BY <2>1, Zenon DEF RegionsOf
    <3> HIDE DEF picker
    <3> QED BY <3>1, <3>2, Zenon
  <2>2. CASE dc \notin DOMAIN R
    BY <2>2, NoPeers, NewRing, Zenon
  <2> QED BY <2>1, <2>2, Zenon
<1>2. RingOf(hs, added) /\ added.peers = picker.peers \cup {client}
  <2>1. \A p \in picker.peers : p.addr # client.addr
    BY <1>1, Zenon
  <2> HIDE DEF picker
  <2>2. RingOf(hs, Add(hs, picker, client)) /\ Joins(hs, picker, client)
    BY <1>1, <2>1, AddRing, Zenon
  <2> QED BY <2>2, Zenon DEF Joins
<1>3. /\ DOMAIN S = {dc} \cup DOMAIN R /\ S[dc] = added
      /\ \A d \in DOMAIN R \ {dc} : S[d] = R[d]
  <2> HIDE DEF added
  <2>1. S = [d \in DOMAIN R \cup {dc} |-> IF d = dc THEN added ELSE R[d]]
    BY Zenon DEF RegionAdd, added
  <2> QED
    BY <2>1, Zenon
<1>4. added.peers # {} /\ \A p \in added.peers : p.dc = dc
  <2> HIDE DEF added, picker
  <2> QED BY <1>1, <1>2, Zenon
<1> HIDE DEF S, added, picker, dc
<1>5. RegionsOf(hs, S)
  BY <1>2, <1>3, <1>4, Zenon DEF RegionsOf
<1> QED BY <1>5, Zenon DEF S

\* The pickers in use and the ones being built are rings of their peers; a
\* call never adds an address twice.
RingInv ==
    /\ hash \in HashFns /\ RingOf(hash, local) /\ RegionsOf(hash, region)
    /\ DOMAIN newLocal = Callers /\ DOMAIN newRegion = Callers
    /\ \A c \in Callers :
          /\ RingOf(hash, newLocal[c]) /\ RegionsOf(hash, newRegion[c])
          /\ at[c] = "building" => list[c] \in Lists /\ todo[c] \subseteq list[c]
          /\ \A p \in Building(c), i \in todo[c] : p.addr # i.addr

\* The state is well formed, and the sets that are changed by EXCEPT are
\* functions of the callers.
Formed ==
    /\ TypeOK /\ IsFiniteSet(made)
    /\ DOMAIN old = Callers /\ DOMAIN leaving = Callers

\* What a call refers to has been made.
LEMMA HandledMade ==
    ASSUME TypeOK, NEW c \in Callers
    PROVE  /\ newLocal[c].peers \subseteq made /\ RegionPeers(newRegion[c]) \subseteq made
           /\ leaving[c] \subseteq made /\ old[c].local \subseteq made /\ old[c].region \subseteq made
BY Zenon DEF TypeOK, Handled, Building

\* The client of a peer has the address of the peer.
LEMMA ClientOf ==
    ASSUME Formed, NEW info \in Infos, NEW client,
           client \in IF Existing(info) # {} THEN Existing(info) ELSE {NewPeerClient(info)}
    PROVE  client.addr = info.addr /\ client \in [addr : Addrs, dc : DCs, gen : Nat \ {0}]
<1>1. CASE Existing(info) # {}
  <2>1. client \in InUse /\ client.addr = info.addr
    BY <1>1, Zenon DEF Existing, RegionByPeerInfo, GetByPeerInfo, InUse
  <2> QED BY <2>1, Zenon DEF Formed, TypeOK
<1>2. CASE Existing(info) = {}
  <2> DEFINE n == Cardinality({p \in made : p.addr = info.addr})
  <2>1. n \in Nat
    BY FS_Subset, FS_CardinalityType, Zenon DEF Formed
  <2>2. client = [addr |-> info.addr, dc |-> info.dc, gen |-> n + 1]
    BY <1>2, Zenon DEF NewPeerClient
  <2> HIDE DEF n
  <2> QED BY <2>1, <2>2 DEF Infos
<1> QED BY <1>1, <1>2, Zenon

\* The rings are kept by a step of a call that leaves the pickers in use alone
\* and takes one peer of its list into the ones it builds.
LEMMA AddKeepsRings ==
    ASSUME Formed, RingInv, NEW c \in Callers, NEW info \in todo[c], AddPeer(c, info)
    PROVE  RingInv'
<1>1. /\ at[c] = "building" /\ todo' = [todo EXCEPT ![c] = @ \ {info}]
      /\ UNCHANGED <<hash, local, region, at, list>>
  BY Zenon DEF AddPeer
<1>2. PICK client \in IF Existing(info) # {} THEN Existing(info) ELSE {NewPeerClient(info)} :
         IF info.dc # Here
         THEN /\ newRegion' = [newRegion EXCEPT ![c] = RegionAdd(hash, @, client)]
              /\ UNCHANGED newLocal
         ELSE /\ newLocal' = [newLocal EXCEPT ![c] = Add(hash, @, client)]
              /\ UNCHANGED newRegion
  BY Zenon DEF AddPeer
<1>3. list[c] \in Lists /\ todo[c] \subseteq list[c] /\ info \in Infos
  BY <1>1, Zenon DEF RingInv, Infos
<1>4. client.addr = info.addr /\ client.addr \in Addrs
  <2>1. client.addr = info.addr
    BY <1>3, ClientOf, Zenon
  <2> QED BY <1>3, <2>1, Zenon DEF Infos
<1>5. /\ \A p \in Building(c) : p.addr # client.addr
      /\ \A p \in newLocal[c].peers : p.addr # client.addr
      /\ \A p \in RegionPeers(newRegion[c]) : p.addr # client.addr
  BY <1>4, Zenon DEF RingInv, Building
<1>6. \A i \in todo[c] \ {info} : i.addr # client.addr
  BY <1>3, <1>4, Zenon
<1>7. DOMAIN todo = Callers
  BY Zenon DEF Formed, TypeOK
<1>8. /\ RingOf(hash, newLocal'[c]) /\ RegionsOf(hash, newRegion'[c])
      /\ Building(c)' \subseteq Building(c) \cup {client}
      /\ \A d \in Callers \ {c} : newLocal'[d] = newLocal[d] /\ newRegion'[d] = newRegion[d]
      /\ DOMAIN newLocal' = Callers /\ DOMAIN newRegion' = Callers
  <2>1. CASE info.dc # Here
    <3>1. /\ newRegion'[c] = RegionAdd(hash, newRegion[c], client) /\ newLocal' = newLocal
          /\ \A d \in Callers \ {c} : newRegion'[d] = newRegion[d]
          /\ DOMAIN newRegion' = Callers
      <4>1. newRegion' = [newRegion EXCEPT ![c] = RegionAdd(hash, @, client)] /\ newLocal' = newLocal
        BY <1>2, <2>1, Zenon
      <4>2. DOMAIN newRegion = Callers
        BY Zenon DEF RingInv
      <4> QED BY <4>1, <4>2, Zenon
    <3>2. RegionsOf(hash, RegionAdd(hash, newRegion[c], client))
      BY <1>4, <1>5, RegionAddRings, Zenon DEF RingInv
    <3>3. RegionJoins(hash, newRegion[c], client)
      BY <1>5, RegionAddPeers, Zenon
    <3>4. Building(c)' \subseteq Building(c) \cup {client}
      BY <3>1, <3>3, Zenon DEF Building, RegionJoins
    <3>5. RingOf(hash, newLocal[c]) /\ DOMAIN newLocal = Callers
      BY Zenon DEF RingInv
    <3>6. /\ newLocal'[c] = newLocal[c] /\ DOMAIN newLocal' = DOMAIN newLocal
          /\ \A d \in Callers : newLocal'[d] = newLocal[d]
      BY <3>1, Zenon
    <3>7. RingOf(hash, newLocal'[c]) /\ RegionsOf(hash, newRegion'[c])
      BY <3>1, <3>2, <3>5, <3>6, Zenon
    <3> QED BY <3>1, <3>4, <3>5, <3>6, <3>7, Zenon
  <2>2. CASE ~ (info.dc # Here)
    <3>1. /\ newLocal'[c] = Add(hash, newLocal[c], client) /\ newRegion' = newRegion
          /\ \A d \in Callers \ {c} : newLocal'[d] = newLocal[d]
          /\ DOMAIN newLocal' = Callers
      <4>1. newLocal' = [newLocal EXCEPT ![c] = Add(hash, @, client)] /\ newRegion' = newRegion
        BY <1>2, <2>2, Zenon
      <4>2. DOMAIN newLocal = Callers
        BY Zenon DEF RingInv
      <4> QED BY <4>1, <4>2, Zenon
    <3>2. RingOf(hash, Add(hash, newLocal[c], client)) /\ Joins(hash, newLocal[c], client)
      BY <1>4, <1>5, AddRing, Zenon DEF RingInv
    <3>3. Building(c)' \subseteq Building(c) \cup {client}
      BY <3>1, <3>2, Zenon DEF Building, Joins
    <3>4. RegionsOf(hash, newRegion[c]) /\ DOMAIN newRegion = Callers
      BY Zenon DEF RingInv
    <3>5. /\ newRegion'[c] = newRegion[c] /\ DOMAIN newRegion' = DOMAIN newRegion
          /\ \A d \in Callers : newRegion'[d] = newRegion[d]
      BY <3>1, Zenon
    <3>6. RingOf(hash, newLocal'[c]) /\ RegionsOf(hash, newRegion'[c])
      BY <3>1, <3>2, <3>4, <3>5, Zenon
    <3> QED BY <3>1, <3>3, <3>4, <3>5, <3>6, Zenon
  <2> QED BY <2>1, <2>2, Zenon
<1>9. ASSUME NEW d \in Callers
      PROVE  /\ RingOf(hash, newLocal[d])' /\ RegionsOf(hash, newRegion[d])'
             /\ (at[d] = "building" => list[d] \in Lists /\ todo[d] \subseteq list[d])'
             /\ (\A p \in Building(d), i \in todo[d] : p.addr # i.addr)'
  <2>1. CASE d = c
    <3>1. todo'[c] = todo[c] \ {info}
      BY <1>1, <1>7, Zenon
    <3>2. \A p \in Building(c)', i \in todo'[c] : p.addr # i.addr
      <4>1. \A p \in Building(c), i \in todo[c] : p.addr # i.addr
        BY Zenon DEF RingInv
      <4> HIDE DEF Building
      <4> QED BY <1>6, <1>8, <3>1, <4>1, Zenon
    <3> QED BY <1>1, <1>3, <1>8, <2>1, <3>1, <3>2, Zenon
  <2>2. CASE d # c
    <3>1. todo'[d] = todo[d] /\ newLocal'[d] = newLocal[d] /\ newRegion'[d] = newRegion[d]
      BY <1>1, <1>7, <1>8, <2>2, Zenon
    <3>2. Building(d)' = Building(d)
      BY <3>1, Zenon DEF Building
    <3>3. /\ RingOf(hash, newLocal[d]) /\ RegionsOf(hash, newRegion[d])
          /\ at[d] = "building" => list[d] \in Lists /\ todo[d] \subseteq list[d]
          /\ \A p \in Building(d), i \in todo[d] : p.addr # i.addr
      BY Zenon DEF RingInv
    <3>4. hash' = hash /\ at'[d] = at[d] /\ list'[d] = list[d]
      BY <1>1, Zenon
    <3>5. RingOf(hash', newLocal'[d]) /\ RegionsOf(hash', newRegion'[d])
      BY <3>1, <3>3, <3>4, Zenon
    <3>6. (at[d] = "building" => list[d] \in Lists /\ todo[d] \subseteq list[d])'
      BY <3>1, <3>3, <3>4, Zenon
    <3> QED BY <3>1, <3>2, <3>3, <3>5, <3>6, Zenon
  <2> QED BY <2>1, <2>2, Zenon
<1> QED BY <1>1, <1>8, <1>9, Zenon DEF RingInv

\* So are they by the other steps, which start with empty pickers, drop the
\* ones they built, or swap them in.
LEMMA StepKeepsRings ==
    ASSUME Formed, RingInv, NEW c \in Callers,
           \/ \E infos \in Lists : Call(c, infos)
           \/ \E info \in todo[c] : FailToConnect(c, info)
           \/ Swap(c) \/ FindOldLocal(c) \/ FindOldRegion(c) \/ ShutdownPeers(c)
    PROVE  RingInv'
<1>1. DOMAIN at = Callers /\ DOMAIN todo = Callers /\ DOMAIN list = Callers
  BY Zenon DEF Formed, TypeOK
<1>2. hash' = hash /\ \/ local' = local /\ region' = region
                      \/ local' = newLocal[c] /\ region' = newRegion[c]
  BY Zenon DEF Call, FailToConnect, Swap, FindOldLocal, FindOldRegion, ShutdownPeers
<1>3. RingOf(hash', local') /\ RegionsOf(hash', region') /\ hash' \in HashFns
  BY <1>2, ZenonT(30) DEF RingInv
<1>4. /\ DOMAIN newLocal' = Callers /\ DOMAIN newRegion' = Callers
      /\ \A d \in Callers \ {c} :
            /\ newLocal'[d] = newLocal[d] /\ newRegion'[d] = newRegion[d]
            /\ at'[d] = at[d] /\ list'[d] = list[d] /\ todo'[d] = todo[d]
      /\ \/ newLocal'[c] = newLocal[c] /\ newRegion'[c] = newRegion[c] /\ at'[c] # "building"
            /\ todo'[c] = todo[c]
         \/ newLocal'[c] = New /\ newRegion'[c] = NewRegion
            /\ (at'[c] = "building" => list'[c] \in Lists /\ todo'[c] \subseteq list'[c])
  <2>1. CASE \E infos \in Lists : Call(c, infos)
    <3>1. PICK infos \in Lists : Call(c, infos)
      BY <2>1, Zenon
    <3> QED BY <1>1, <3>1, Zenon DEF Call, RingInv
  <2>2. CASE \E info \in todo[c] : FailToConnect(c, info)
    <3>1. /\ newLocal' = [newLocal EXCEPT ![c] = New]
          /\ newRegion' = [newRegion EXCEPT ![c] = NewRegion]
          /\ at' = [at EXCEPT ![c] = "idle"]
          /\ list' = [list EXCEPT ![c] = {}] /\ todo' = [todo EXCEPT ![c] = {}]
      BY <2>2, Zenon DEF FailToConnect
    <3>2. at'[c] # "building"
      BY <1>1, <3>1
    <3>3. DOMAIN newLocal = Callers /\ DOMAIN newRegion = Callers
      BY Zenon DEF RingInv
    <3> HIDE DEF RingInv, Formed
    <3>4. newLocal'[c] = New /\ newRegion'[c] = NewRegion
      BY <3>1, <3>3, Zenon
    <3>5. /\ DOMAIN newLocal' = Callers /\ DOMAIN newRegion' = Callers
          /\ \A d \in Callers \ {c} :
                /\ newLocal'[d] = newLocal[d] /\ newRegion'[d] = newRegion[d]
                /\ at'[d] = at[d] /\ list'[d] = list[d] /\ todo'[d] = todo[d]
      BY <1>1, <3>1, <3>3, Zenon
    <3> QED BY <3>2, <3>4, <3>5, Zenon
  <2>3. CASE Swap(c)
    BY <1>1, <2>3, Zenon DEF Swap, RingInv
  <2>4. CASE FindOldLocal(c) \/ FindOldRegion(c) \/ ShutdownPeers(c)
    BY <1>1, <2>4, Zenon DEF FindOldLocal, FindOldRegion, ShutdownPeers, RingInv
  <2> QED BY <2>1, <2>2, <2>3, <2>4, Zenon
<1>5. ASSUME NEW d \in Callers
      PROVE  /\ RingOf(hash, newLocal[d])' /\ RegionsOf(hash, newRegion[d])'
             /\ (at[d] = "building" => list[d] \in Lists /\ todo[d] \subseteq list[d])'
             /\ (\A p \in Building(d), i \in todo[d] : p.addr # i.addr)'
  <2>1. CASE d # c \/ (newLocal'[c] = newLocal[c] /\ newRegion'[c] = newRegion[c]
                       /\ at'[c] # "building" /\ todo'[c] = todo[c])
    <3>1. Building(d)' = Building(d) /\ todo'[d] = todo[d]
      BY <1>4, <2>1, Zenon DEF Building
    <3>2. /\ RingOf(hash, newLocal[d]) /\ RegionsOf(hash, newRegion[d])
          /\ at[d] = "building" => list[d] \in Lists /\ todo[d] \subseteq list[d]
          /\ \A p \in Building(d), i \in todo[d] : p.addr # i.addr
      BY Zenon DEF RingInv
    <3>3. newLocal'[d] = newLocal[d] /\ newRegion'[d] = newRegion[d]
      BY <1>4, <2>1, Zenon
    <3>4. (at[d] = "building" => list[d] \in Lists /\ todo[d] \subseteq list[d])'
      BY <1>4, <2>1, <3>2, Zenon
    <3> QED BY <1>2, <3>1, <3>2, <3>3, <3>4, Zenon
  <2>2. CASE d = c /\ newLocal'[c] = New /\ newRegion'[c] = NewRegion
             /\ (at'[c] = "building" => list'[c] \in Lists /\ todo'[c] \subseteq list'[c])
    <3>1. Building(d)' = {}
      BY <2>2, NoPeers, Zenon DEF Building
    <3> QED BY <2>2, <3>1, NewRing, NewRegions, Zenon
  <2> QED BY <1>4, <2>1, <2>2, Zenon
<1> QED BY <1>3, <1>4, <1>5, Zenon DEF RingInv

\* The state stays well formed.
LEMMA StepKeepsFormed ==
    ASSUME Formed, RingInv, NEW c \in Callers, CallStep(c) \/ \E infos \in Lists : Call(c, infos)
    PROVE  Formed'
<1> DEFINE C == [addr : Addrs, dc : DCs, gen : Nat \ {0}]
           places == {"idle", "building", "swapped", "local", "found"}
<1>1. /\ made \subseteq C /\ shut \subseteq made /\ lost \subseteq made /\ InUse \subseteq made
      /\ at \in [Callers -> places] /\ list \in [Callers -> Lists \cup {{}}]
      /\ todo \in [Callers -> SUBSET Infos] /\ calls \in 0 .. MaxCalls
      /\ DOMAIN old = Callers /\ DOMAIN leaving = Callers
      /\ DOMAIN newLocal = Callers /\ DOMAIN newRegion = Callers
  BY Zenon DEF Formed, TypeOK, RingInv, Infos
<1>2. \A d \in Callers : /\ newLocal[d].peers \subseteq made /\ RegionPeers(newRegion[d]) \subseteq made
                         /\ leaving[d] \subseteq made /\ old[d].local \subseteq made
                         /\ old[d].region \subseteq made
  BY HandledMade, Zenon DEF Formed
<1>3. local.peers \subseteq made /\ RegionPeers(region) \subseteq made
  BY <1>1, Zenon DEF InUse
\* Only AddPeer makes a client.
<1>4. made \subseteq made' /\ made' \subseteq C /\ IsFiniteSet(made')
  <2>1. CASE \E info \in todo[c] : AddPeer(c, info)
    <3>1. PICK info \in todo[c] : AddPeer(c, info)
      BY <2>1, Zenon
    <3>2. PICK client \in IF Existing(info) # {} THEN Existing(info) ELSE {NewPeerClient(info)} :
             made' = made \cup {client}
      BY <3>1, Zenon DEF AddPeer
    <3>3. info \in Infos
      BY <1>1, Zenon
    <3>4. client \in C
      BY <3>2, <3>3, ClientOf, Zenon
    <3>5. IsFiniteSet(made \cup {client})
      BY FS_AddElement, Zenon DEF Formed
    <3> HIDE DEF C
    <3> QED BY <1>1, <3>2, <3>4, <3>5, Zenon
  <2>2. CASE ~ \E info \in todo[c] : AddPeer(c, info)
    <3>1. made' = made
      BY <2>2, Zenon DEF CallStep, Call, FailToConnect, Swap, FindOldLocal, FindOldRegion, ShutdownPeers
    <3> QED BY <1>1, <3>1, Zenon DEF Formed
  <2> QED BY <2>1, <2>2, Zenon
<1> HIDE DEF C
\* The rest moves clients about.
<1>5. /\ at' \in [Callers -> places] /\ list' \in [Callers -> Lists \cup {{}}]
      /\ todo' \in [Callers -> SUBSET Infos] /\ calls' \in 0 .. MaxCalls
      /\ DOMAIN old' = Callers /\ DOMAIN leaving' = Callers
  <2>1. CASE \E infos \in Lists : Call(c, infos)
    <3>0. PICK infos \in Lists : Call(c, infos)
      BY <2>1, Zenon
    <3>1. infos \subseteq Infos
      BY Zenon DEF Infos
    <3>2. calls < MaxCalls /\ calls' = calls + 1 /\ calls \in 0 .. MaxCalls
      BY <1>1, <3>0, Zenon DEF Call
    <3>3. calls' \in 0 .. MaxCalls
      BY <3>2
    <3> HIDE DEF Infos
    <3> QED BY <1>1, <3>0, <3>1, <3>3, Zenon DEF Call
  <2>2. CASE \E info \in todo[c] : AddPeer(c, info)
    <3>0. PICK info \in todo[c] : AddPeer(c, info)
      BY <2>2, Zenon
    <3>1. todo[c] \ {info} \subseteq Infos
      BY <1>1, Zenon
    <3> HIDE DEF Infos
    <3> QED BY <1>1, <3>0, <3>1, Zenon DEF AddPeer
  <2>3. CASE \E info \in todo[c] : FailToConnect(c, info)
    <3>1. {} \subseteq Infos
      BY Zenon
    <3> HIDE DEF Infos
    <3> QED BY <1>1, <2>3, <3>1, ZenonT(30) DEF FailToConnect
  <2>4. CASE Swap(c)
    BY <1>1, <2>4, Zenon DEF Swap
  <2>5. CASE FindOldLocal(c) \/ FindOldRegion(c) \/ ShutdownPeers(c)
    BY <1>1, <2>5, ZenonT(30) DEF FindOldLocal, FindOldRegion, ShutdownPeers
  <2> QED BY <2>1, <2>2, <2>3, <2>4, <2>5, Zenon DEF CallStep
<1>6. /\ shut' \subseteq made' /\ lost' \subseteq made'
      /\ local'.peers \subseteq made' /\ RegionPeers(region') \subseteq made'
      /\ \A d \in Callers : /\ newLocal'[d].peers \subseteq made'
                            /\ RegionPeers(newRegion'[d]) \subseteq made'
                            /\ leaving'[d] \subseteq made' /\ old'[d].local \subseteq made'
                            /\ old'[d].region \subseteq made'
  <2>1. CASE \E infos \in Lists : Call(c, infos)
    BY <1>1, <1>2, <1>3, <1>4, <2>1, NoPeers, Zenon DEF Call
  <2>2. CASE \E info \in todo[c] : AddPeer(c, info)
    <3>0. PICK info \in todo[c] : AddPeer(c, info)
      BY <2>2, Zenon
    <3>1. PICK client \in IF Existing(info) # {} THEN Existing(info) ELSE {NewPeerClient(info)} :
             /\ made' = made \cup {client} /\ UNCHANGED <<local, region, shut, lost, old, leaving>>
             /\ \/ /\ newRegion' = [newRegion EXCEPT ![c] = RegionAdd(hash, @, client)]
                   /\ newLocal' = newLocal
                \/ /\ newLocal' = [newLocal EXCEPT ![c] = Add(hash, @, client)]
                   /\ newRegion' = newRegion
      BY <3>0, Zenon DEF AddPeer
    <3>2. \A d \in Callers : /\ newLocal'[d].peers \subseteq newLocal[d].peers \cup {client}
                            /\ RegionPeers(newRegion'[d]) \subseteq RegionPeers(newRegion[d]) \cup {client}
      <4>0. /\ \A p \in newLocal[c].peers : p.addr # client.addr
            /\ \A p \in RegionPeers(newRegion[c]) : p.addr # client.addr
        <5>1. info \in Infos
          BY <1>1, Zenon
        <5>2. client.addr = info.addr
          BY <3>1, <5>1, ClientOf, Zenon
        <5> QED BY <5>2, Zenon DEF RingInv, Building
      <4>1. RegionJoins(hash, newRegion[c], client)
        BY <4>0, RegionAddPeers, Zenon
      <4>2. Joins(hash, newLocal[c], client)
        BY <4>0, AddPeers, Zenon
      <4> QED BY <1>1, <3>1, <4>1, <4>2, Zenon DEF Joins, RegionJoins
    <3> QED BY <1>1, <1>2, <1>3, <1>4, <3>1, <3>2, Zenon
  <2>3. CASE \E info \in todo[c] : FailToConnect(c, info)
    BY <1>1, <1>2, <1>3, <1>4, <2>3, NoPeers, Zenon DEF FailToConnect, Building
  <2>4. CASE Swap(c)
    BY <1>1, <1>2, <1>3, <1>4, <2>4, NoPeers, Zenon DEF Swap
  <2>5. CASE FindOldLocal(c)
    BY <1>1, <1>2, <1>3, <1>4, <2>5, Zenon DEF FindOldLocal
  <2>6. CASE FindOldRegion(c)
    BY <1>1, <1>2, <1>3, <1>4, <2>6, Zenon DEF FindOldRegion, NoOld
  <2>7. CASE ShutdownPeers(c)
    BY <1>1, <1>2, <1>3, <1>4, <2>7, Zenon DEF ShutdownPeers
  <2> QED BY <2>1, <2>2, <2>3, <2>4, <2>5, <2>6, <2>7, Zenon DEF CallStep
<1>7. InUse' \subseteq made' /\ \A d \in Callers : Handled(d)' \subseteq made'
  BY <1>6, Zenon DEF InUse, Handled, Building
<1> QED BY <1>4, <1>5, <1>6, <1>7, Zenon DEF Formed, TypeOK, Infos, C

\* Both hold of every reachable state, whatever calls overlap.
LEMMA RingsHold == PeerSetSpec => [](Formed /\ RingInv)
<1>1. PeerSetInit => Formed /\ RingInv
  <2> SUFFICES ASSUME PeerSetInit PROVE Formed /\ RingInv
    BY Zenon
  <2>1. RingInv
    <3>1. hash \in HashFns
      BY PeerSetAssumption, Zenon DEF PeerSetInit, HashFns
    <3>2. \A c \in Callers : /\ newLocal[c] = New /\ newRegion[c] = NewRegion /\ at[c] = "idle"
                             /\ todo[c] = {}
      BY Zenon DEF PeerSetInit
    <3>3. DOMAIN newLocal = Callers /\ DOMAIN newRegion = Callers
      BY Zenon DEF PeerSetInit
    <3>4. local = New /\ region = NewRegion
      BY Zenon DEF PeerSetInit
    <3>5. \A c \in Callers : at[c] # "building" /\ Building(c) = {}
      BY <3>2, NoPeers, Zenon DEF Building
    <3>6. RingOf(hash, New) /\ RegionsOf(hash, NewRegion)
      BY NewRing, NewRegions, Zenon
    <3>7. RingOf(hash, local) /\ RegionsOf(hash, region)
      BY <3>4, <3>6, Zenon
    <3>8. \A c \in Callers : RingOf(hash, newLocal[c]) /\ RegionsOf(hash, newRegion[c])
      BY <3>2, <3>6, Zenon
    <3> QED BY <3>1, <3>3, <3>5, <3>7, <3>8, Zenon DEF RingInv
  <2>2. Formed
    <3>1. InUse = {} /\ \A c \in Callers : Handled(c) = {}
      BY NoPeers, Zenon DEF PeerSetInit, InUse, Handled, Building, NoOld
    <3>2. IsFiniteSet(made)
      BY FS_EmptySet, Zenon DEF PeerSetInit
    <3>3. calls \in 0 .. MaxCalls
      BY PeerSetAssumption DEF PeerSetInit
    <3> QED BY <3>1, <3>2, <3>3, Zenon DEF PeerSetInit, Formed, TypeOK
  <2> QED BY <2>1, <2>2, Zenon
<1>2. Formed /\ RingInv /\ [PeerSetNext]_peerVars => (Formed /\ RingInv)'
  <2> SUFFICES ASSUME Formed, RingInv, [PeerSetNext]_peerVars PROVE (Formed /\ RingInv)'
    BY Zenon
  <2>1. CASE PeerSetNext
    <3>1. PICK c \in Callers : CallStep(c) \/ \E infos \in Lists : Call(c, infos)
      BY <2>1, Zenon DEF PeerSetNext
    <3>2. RingInv'
      BY <3>1, AddKeepsRings, StepKeepsRings, Zenon DEF CallStep
    <3>3. Formed'
      BY <3>1, StepKeepsFormed, Zenon
    <3> QED BY <3>2, <3>3, Zenon
  <2>2. CASE UNCHANGED peerVars
    <3>1. UNCHANGED <<hash, local, region, made, shut, lost, at, list, todo, newLocal, newRegion,
                      old, leaving, calls>>
      BY <2>2, Zenon DEF peerVars, callVars
    <3>2. RingInv'
      BY <3>1, ZenonT(30) DEF RingInv, Building
    <3>3. Formed'
      BY <3>1, Zenon DEF Formed, TypeOK, Handled, Building, InUse
    <3> QED BY <3>2, <3>3, Zenon
  <2> QED BY <2>1, <2>2, Zenon
<1> QED BY <1>1, <1>2, PTL DEF PeerSetSpec

\* OwnerIsFirstPoint: whatever the calls of SetPeers, overlapping or not, and
\* whatever the hash function, every picker in use gives a key to the peer with
\* the first point at or after its hash.
THEOREM KeysGoToFirstPoint == PeerSetSpec => []OwnerIsFirstPoint
<1>1. Formed /\ RingInv => OwnerIsFirstPoint
  <2> SUFFICES ASSUME Formed, RingInv, NEW h \in Hashes
               PROVE  /\ local.peers # {} => Get(local, h) \in FirstPeers(local.peers, h)
                      /\ \A dc \in DOMAIN region :
                            GetClients(region, h) \cap FirstPeers(region[dc].peers, h) # {}
                      /\ \A p \in GetClients(region, h) : p \in FirstPeers(region[p.dc].peers, h)
    BY Zenon DEF OwnerIsFirstPoint, Formed
  <2>1. ASSUME NEW picker, RingOf(hash, picker), picker.peers # {}
        PROVE  Get(picker, h) \in picker.peers /\ Get(picker, h) \in FirstPeers(picker.peers, h)
    <3>1. Get(picker, h) \in picker.peers /\ IsFirst(hash, picker.peers, Get(picker, h), h)
      BY <2>1, GetFirst, Zenon DEF RingInv
    <3> QED BY <3>1, Zenon DEF FirstPeers, IsFirst
  <2>2. \A dc \in DOMAIN region :
           /\ Get(region[dc], h) \in FirstPeers(region[dc].peers, h)
           /\ Get(region[dc], h).dc = dc
    BY <2>1, Zenon DEF RingInv, RegionsOf
  <2>3. \A dc \in DOMAIN region : Get(region[dc], h) \in GetClients(region, h)
    BY Zenon DEF GetClients
  <2>4. \A p \in GetClients(region, h) : \E dc \in DOMAIN region : p = Get(region[dc], h)
    BY Zenon DEF GetClients
  <2>5. local.peers # {} => Get(local, h) \in FirstPeers(local.peers, h)
    BY <2>1, Zenon DEF RingInv
  <2>6. \A p \in GetClients(region, h) : p \in FirstPeers(region[p.dc].peers, h)
    <3> SUFFICES ASSUME NEW p \in GetClients(region, h) PROVE p \in FirstPeers(region[p.dc].peers, h)
      BY Zenon
    <3>1. PICK dc \in DOMAIN region : p = Get(region[dc], h)
      BY <2>4, Zenon
    <3>2. p.dc = dc
      BY <2>2, <3>1, Zenon
    <3> QED BY <2>2, <3>1, <3>2, Zenon
  <2> QED BY <2>2, <2>3, <2>5, <2>6, Zenon
<1> QED BY <1>1, RingsHold, PTL

-----------------------------------------------------------------------------
(* The pickers implement PeerRing, with one caller.                        *)

\* No two addresses have a point in common.
Apart(hs) == \A x, y \in Addrs \X (1 .. Replicas) : hs[x] = hs[y] => x[1] = y[1]

\* Going up from a hash, different points are at different distances.
LEMMA DistanceApart ==
    ASSUME NEW h \in Hashes, NEW x \in Hashes, NEW y \in Hashes, Distance(h, x) = Distance(h, y)
    PROVE  x = y
BY RingAssumption DEF Hashes, Distance

\* A key with the owner o among the peers P and the owner n among the peers Q,
\* both in both sets, has not moved.
LEMMA KeyStays ==
    ASSUME NEW hs \in HashFns, Apart(hs), NEW h \in Hashes, NEW P, NEW Q, OneEach(Q),
           NEW o \in P, o \in Q, NEW n \in Q, n \in P, o.addr \in Addrs, n.addr \in Addrs,
           IsFirst(hs, P, o, h), IsFirst(hs, Q, n, h)
    PROVE  n = o
<1>1. PICK i \in 1 .. Replicas : \A q \in P, j \in 1 .. Replicas :
         Distance(h, hs[<<o.addr, i>>]) <= Distance(h, hs[<<q.addr, j>>])
  BY Zenon DEF IsFirst
<1>2. PICK k \in 1 .. Replicas : \A q \in Q, j \in 1 .. Replicas :
         Distance(h, hs[<<n.addr, k>>]) <= Distance(h, hs[<<q.addr, j>>])
  BY Zenon DEF IsFirst
<1> DEFINE x == hs[<<o.addr, i>>]
           y == hs[<<n.addr, k>>]
<1>3. x \in Hashes /\ y \in Hashes
  BY Zenon DEF HashFns
<1>4. Distance(h, x) <= Distance(h, y) /\ Distance(h, y) <= Distance(h, x)
  BY <1>1, <1>2, Zenon
<1> HIDE DEF x, y
<1>5. Distance(h, x) \in Nat /\ Distance(h, y) \in Nat
  BY <1>3, RingAssumption DEF Distance, Hashes
<1>6. Distance(h, x) = Distance(h, y)
  <2> HIDE DEF Distance
  <2> QED BY <1>4, <1>5
<1>7. x = y
  BY <1>3, <1>6, DistanceApart, Zenon
<1>8. o.addr = n.addr
  <2>1. <<o.addr, i>> \in Addrs \X (1 .. Replicas) /\ <<n.addr, k>> \in Addrs \X (1 .. Replicas)
    BY Zenon
  <2>2. <<o.addr, i>>[1] = <<n.addr, k>>[1]
    BY <1>7, <2>1, Zenon DEF Apart, x, y
  <2> QED BY <2>2, Zenon
<1> QED BY <1>8, Zenon DEF OneEach

\* The owner of a hash among the peers of a picker.
LEMMA OwnerFirst ==
    ASSUME RingInv, NEW h \in Hashes
    PROVE  /\ local.peers = {} => OwnerOf[h] = NoClient
           /\ local.peers # {} =>
                OwnerOf[h] \in local.peers /\ IsFirst(hash, local.peers, OwnerOf[h], h)
<1>1. OwnerOf[h] = IF local.peers = {} THEN NoClient ELSE Get(local, h)
  BY Zenon DEF OwnerOf
<1>2. ASSUME local.peers # {}
      PROVE  OwnerOf[h] \in local.peers /\ IsFirst(hash, local.peers, OwnerOf[h], h)
  <2>1. OwnerOf[h] = Get(local, h)
    BY <1>1, <1>2, Zenon
  <2>2. Get(local, h) \in local.peers /\ IsFirst(hash, local.peers, Get(local, h), h)
    BY <1>2, GetFirst, Zenon DEF RingInv
  <2> QED BY <2>1, <2>2, Zenon
<1> QED BY <1>1, <1>2, Zenon

\* What waits to be shut down, with one caller.
RetiredBy(pool) ==
    IF at[pool] = "swapped" THEN old[pool].local \ local.peers
    ELSE {p \in leaving[pool] : p.dc = Here}

LEMMA RetiredIs ==
    ASSUME NEW pool, Callers = {pool}
    PROVE  Retired = RetiredBy(pool) /\ Retired' = RetiredBy(pool)'
<1>1. Retired = UNION {RetiredBy(c) : c \in Callers}
  BY Zenon DEF Retired, RetiredBy
<1>2. Retired' = UNION {RetiredBy(c)' : c \in Callers}
  BY Zenon DEF Retired, RetiredBy
<1> HIDE DEF RetiredBy
<1>4. Retired = RetiredBy(pool)
  BY <1>1
<1>5. Retired' = RetiredBy(pool)'
  BY <1>2
<1> QED BY <1>4, <1>5, Zenon

\* Steps that leave the pickers in use alone do not change what is retired,
\* until it is shut down.
LEMMA RetiredStays ==
    ASSUME NEW pool, Callers = {pool}, Inv(pool),
           \/ \E infos \in Lists : Call(pool, infos)
           \/ \E info \in todo[pool] : AddPeer(pool, info) \/ FailToConnect(pool, info)
           \/ FindOldLocal(pool) \/ FindOldRegion(pool)
    PROVE  local' = local /\ shut' = shut /\ RetiredBy(pool)' = RetiredBy(pool)
<1> USE DEF Inv
<1>1. local' = local /\ shut' = shut
  BY Zenon DEF Call, AddPeer, FailToConnect, FindOldLocal, FindOldRegion
<1>2. CASE \/ \E infos \in Lists : Call(pool, infos)
           \/ \E info \in todo[pool] : AddPeer(pool, info) \/ FailToConnect(pool, info)
  <2>1. /\ at[pool] # "swapped" /\ at'[pool] # "swapped" /\ leaving' = leaving
    BY <1>2, ZenonT(30) DEF Call, AddPeer, FailToConnect, Shape
  <2> QED BY <1>1, <2>1, Zenon DEF RetiredBy
<1>3. CASE FindOldLocal(pool)
  <2>1. /\ at[pool] = "swapped" /\ at'[pool] = "local"
        /\ leaving'[pool] = {p \in old[pool].local : GetByPeerInfo(local, p.addr) = {}}
    BY <1>3, Zenon DEF FindOldLocal, Shape
  <2>2. Shares(old[pool].local, local.peers) /\ AllHere(old[pool].local)
    BY <2>1, Zenon DEF Stages
  <2>3. {p \in leaving'[pool] : p.dc = Here} = old[pool].local \ local.peers
    <3>1. ASSUME NEW p \in old[pool].local
          PROVE  GetByPeerInfo(local, p.addr) = {} <=> p \notin local.peers
      <4>1. CASE p \in local.peers
        <5>1. p \in GetByPeerInfo(local, p.addr)
          BY <4>1, Zenon DEF GetByPeerInfo
        <5> QED BY <4>1, <5>1, Zenon
      <4>2. CASE p \notin local.peers
        <5>1. \A q \in GetByPeerInfo(local, p.addr) : q \in local.peers /\ q.addr = p.addr
          BY Zenon DEF GetByPeerInfo
        <5>2. \A q : q \notin GetByPeerInfo(local, p.addr)
          BY <2>2, <4>2, <5>1, ZenonT(30) DEF Shares
        <5> QED BY <4>2, <5>2, Zenon
      <4> QED BY <4>1, <4>2, Zenon
    <3> QED BY <2>1, <2>2, <3>1, Zenon DEF AllHere
  <2>4. at'[pool] # "swapped"
    BY <2>1
  <2> QED BY <1>1, <2>1, <2>3, <2>4, Zenon DEF RetiredBy
<1>4. CASE FindOldRegion(pool)
  <2>1. /\ at[pool] = "local" /\ at'[pool] = "found"
        /\ leaving'[pool] =
             leaving[pool] \cup {p \in old[pool].region : RegionByPeerInfo(region, p.addr) = {}}
    BY <1>4, Zenon DEF FindOldRegion, Shape
  <2>2. AllAway(old[pool].region)
    BY <2>1, Zenon DEF Stages
  <2>3. {p \in leaving'[pool] : p.dc = Here} = {p \in leaving[pool] : p.dc = Here}
    BY <2>1, <2>2, Zenon DEF AllAway
  <2>4. at'[pool] # "swapped" /\ at[pool] # "swapped"
    BY <2>1, Zenon
  <2> QED BY <1>1, <2>3, <2>4, Zenon DEF RetiredBy
<1> QED BY <1>1, <1>2, <1>3, <1>4, Zenon

\* Swapping the pickers in changes the ring as PeerRing lets SetPeers do.
LEMMA SwapSets ==
    ASSUME NEW pool, Callers = {pool}, Apart(hash), Inv(pool), Inv(pool)', RingInv, RingInv', Swap(pool)
    PROVE  Ring!SetPeers
<1> DEFINE P == local.peers
           Q == local'.peers
<1>1. /\ at[pool] = "building" /\ at'[pool] = "swapped" /\ old'[pool].local = P
      /\ shut' = shut /\ hash' = hash /\ leaving' = leaving
  BY Zenon DEF Swap, Inv, Shape
<1>2. Retired = {}
  <2>1. leaving[pool] = {} /\ at[pool] # "swapped"
    BY <1>1, Zenon DEF Inv, Stages
  <2>2. RetiredBy(pool) = {}
    BY <2>1, Zenon DEF RetiredBy
  <2> QED BY <2>2, RetiredIs, Zenon
<1>3. Retired' = P \ Q
  <2>1. Retired' = RetiredBy(pool)'
    BY RetiredIs, Zenon
  <2> QED BY <1>1, <2>1, Zenon DEF RetiredBy
<1>4. Q \in SUBSET (HereClients \ {p \in shut : p.dc = Here})
  <2>1. \A p \in Q : p \in Client /\ p \notin shut /\ p.dc = Here
    BY <1>1, Zenon DEF Inv, Serving, AllHere, Numbered
  <2>2. ASSUME NEW p \in Client, p.dc = Here PROVE p \in HereClients
    <3>1. p = [addr |-> p.addr, dc |-> p.dc, gen |-> p.gen] /\ p.addr \in Addrs /\ p.gen \in Nat \ {0}
      BY Zenon DEF Client
    <3> QED BY <2>2, <3>1, Zenon DEF HereClients
  <2> QED BY <2>1, <2>2, Zenon
<1>5. /\ \A h \in Hashes : P = {} => OwnerOf[h] = NoClient
      /\ \A h \in Hashes : P # {} => OwnerOf[h] \in P /\ IsFirst(hash, P, OwnerOf[h], h)
  BY OwnerFirst, Zenon
<1>6. ASSUME NEW h \in Hashes
      PROVE  /\ Q = {} => OwnerOf'[h] = NoClient
             /\ Q # {} => OwnerOf'[h] \in Q /\ IsFirst(hash, Q, OwnerOf'[h], h)
  <2>1. OwnerOf'[h] = IF Q = {} THEN NoClient ELSE Get(local', h)
    BY Zenon DEF OwnerOf
  <2>2. ASSUME Q # {} PROVE OwnerOf'[h] \in Q /\ IsFirst(hash, Q, OwnerOf'[h], h)
    <3>1. OwnerOf'[h] = Get(local', h)
      BY <2>1, <2>2, Zenon
    <3>2. RingOf(hash, local') /\ hash \in HashFns
      BY <1>1, Zenon DEF RingInv
    <3>3. Get(local', h) \in Q /\ IsFirst(hash, Q, Get(local', h), h)
      BY <2>2, <3>2, GetFirst, Zenon
    <3> QED BY <3>1, <3>3, Zenon
  <2> QED BY <2>1, <2>2, Zenon
<1>7. OwnerOf' \in [Hashes -> Q \cup {NoClient}]
  <2>1. OwnerOf' = [h \in Hashes |-> IF Q = {} THEN NoClient ELSE Get(local', h)]
    BY Zenon DEF OwnerOf
  <2>2. \A h \in Hashes : OwnerOf'[h] \in Q \cup {NoClient}
    BY <1>6, Zenon
  <2> HIDE DEF Q
  <2> QED BY <2>1, <2>2, Zenon
<1>8. OneEach(Q) /\ \A p \in P \cup Q : p.addr \in Addrs
  BY Zenon DEF Inv, Serving, RingInv, RingOf
<1>9. ASSUME NEW h \in Hashes PROVE OwnerOf'[h] \in Ring!Owners(Q, h)
  <2> DEFINE o == OwnerOf[h]
             n == OwnerOf'[h]
  <2>1. CASE Q = {}
    BY <1>6, <2>1, Zenon DEF Ring!Owners
  <2>2. CASE Q # {} /\ ~ (o \in Q)
    BY <1>6, <2>2, Zenon DEF Ring!Owners
  <2>3. CASE Q # {} /\ o \in Q
    <3>1. n \in Q /\ IsFirst(hash, Q, n, h)
      BY <1>6, <2>3, Zenon
    <3>2. ASSUME n \in P PROVE n = o
      <4>1. o \in P /\ IsFirst(hash, P, o, h)
        BY <1>5, <3>2, Zenon
      <4>2. hash \in HashFns /\ o.addr \in Addrs /\ n.addr \in Addrs
        BY <1>8, <3>1, <4>1, Zenon DEF RingInv
      <4> HIDE DEF o, n, P, Q
      <4> QED BY <1>8, <2>3, <3>1, <3>2, <4>1, <4>2, KeyStays, Zenon
    <3>3. n \in {o} \cup (Q \ P)
      BY <3>1, <3>2, Zenon
    <3> QED BY <2>3, <3>3, Zenon DEF Ring!Owners
  <2> QED BY <2>1, <2>2, <2>3, Zenon
<1>10. {p \in shut : p.dc = Here}' = {p \in shut : p.dc = Here}
  BY <1>1, Zenon
<1> QED BY <1>2, <1>3, <1>4, <1>7, <1>9, <1>10, Zenon DEF Ring!SetPeers

\* Every step of the one caller is one of PeerRing, or changes nothing of it.
LEMMA RingStep ==
    ASSUME NEW pool, Callers = {pool}, Apart(hash), Inv(pool), Inv(pool)', RingInv, RingInv',
           [PeerSetNext]_peerVars
    PROVE  [Ring!RingNext]_(Ring!ringVars)
<1> DEFINE Closed == {p \in shut : p.dc = Here}
<1>1. ASSUME local' = local, shut' = shut, RetiredBy(pool)' = RetiredBy(pool)
      PROVE  UNCHANGED Ring!ringVars
  <2>1. Retired' = RetiredBy(pool)' /\ Retired = RetiredBy(pool)
    BY RetiredIs, Zenon
  <2>2. OwnerOf' = OwnerOf /\ Closed' = Closed /\ local'.peers = local.peers
    BY <1>1, Zenon DEF OwnerOf
  <2> QED BY <1>1, <2>1, <2>2, Zenon DEF Ring!ringVars
<1>2. CASE UNCHANGED peerVars
  <2>1. UNCHANGED <<local, shut, at, old, leaving>>
    BY <1>2, Zenon DEF peerVars, callVars
  <2> QED BY <1>1, <2>1, Zenon DEF RetiredBy
<1>3. CASE CallStep(pool) \/ \E infos \in Lists : Call(pool, infos)
  <2>1. CASE Swap(pool)
    BY <2>1, SwapSets, Zenon DEF Ring!RingNext
  <2>2. CASE ShutdownPeers(pool)
    <3>1. /\ at[pool] = "found" /\ at'[pool] = "idle" /\ leaving'[pool] = {}
          /\ shut' = shut \cup leaving[pool] /\ local' = local
      BY <2>2, Zenon DEF ShutdownPeers, Inv, Shape
    <3>2. Retired = {p \in leaving[pool] : p.dc = Here} /\ Retired' = {}
      <4>1. Retired' = RetiredBy(pool)' /\ Retired = RetiredBy(pool)
        BY RetiredIs, Zenon
      <4>2. at[pool] # "swapped" /\ at'[pool] # "swapped"
        BY <3>1, Zenon
      <4> QED BY <3>1, <4>1, <4>2, Zenon DEF RetiredBy
    <3>3. Closed' = Closed \cup Retired
      BY <3>1, <3>2, Zenon
    <3>4. OwnerOf' = OwnerOf /\ local'.peers = local.peers
      BY <3>1, Zenon DEF OwnerOf
    <3> QED BY <3>2, <3>3, <3>4, Zenon DEF Ring!RingNext, Ring!ShutdownOld
  <2>3. CASE ~ (Swap(pool) \/ ShutdownPeers(pool))
    <3>1. local' = local /\ shut' = shut /\ RetiredBy(pool)' = RetiredBy(pool)
      BY <1>3, <2>3, RetiredStays, Zenon DEF CallStep
    <3> QED BY <1>1, <3>1, Zenon
  <2> QED BY <2>1, <2>2, <2>3, Zenon
<1>4. PeerSetNext => CallStep(pool) \/ \E infos \in Lists : Call(pool, infos)
  BY DEF PeerSetNext
<1> QED BY <1>2, <1>3, <1>4, Zenon

\* ImplementsPeerRing: with one caller, and points of different addresses apart,
\* SetPeers does what PeerRing allows, for any lists, any hash function and any
\* number of calls.
THEOREM PickersImplementRing ==
    ASSUME NEW pool, Callers = {pool}, \A hs \in Hashings : Apart(hs)
    PROVE  PeerSetSpec => ImplementsPeerRing
<1>1. PeerSetInit => Ring!RingInit
  <2> SUFFICES ASSUME PeerSetInit PROVE Ring!RingInit
    BY Zenon
  <2>1. local.peers = {} /\ shut = {} /\ RetiredBy(pool) = {}
    <3>1. at[pool] = "idle" /\ leaving[pool] = {}
      BY Zenon DEF PeerSetInit
    <3>2. at[pool] # "swapped"
      BY <3>1
    <3> QED BY <3>1, <3>2, NoPeers, Zenon DEF PeerSetInit, RetiredBy
  <2>2. Retired = {}
    BY <2>1, RetiredIs, Zenon
  <2>3. OwnerOf = [h \in Hashes |-> NoClient]
    BY <2>1, Zenon DEF OwnerOf
  <2>4. OwnerOf \in [Hashes -> IF local.peers = {} THEN {NoClient} ELSE local.peers]
    BY <2>1, <2>3, Zenon
  <2>5. {p \in shut : p.dc = Here} = {}
    BY <2>1, Zenon
  <2> QED BY <2>1, <2>2, <2>4, <2>5, Zenon DEF Ring!RingInit
<1>2. PeerSetSpec => []Apart(hash)
  <2>1. PeerSetInit => Apart(hash)
    BY Zenon DEF PeerSetInit
  <2>2. Apart(hash) /\ [PeerSetNext]_peerVars => Apart(hash)'
    <3>1. [PeerSetNext]_peerVars => hash' = hash
      BY ZenonT(30) DEF PeerSetNext, CallStep, Call, AddPeer, FailToConnect, Swap, FindOldLocal,
                   FindOldRegion, ShutdownPeers, peerVars
    <3>2. Apart(hash)' <=> Apart(hash')
      BY Zenon DEF Apart
    <3> QED BY <3>1, <3>2, Zenon
  <2> QED BY <2>1, <2>2, PTL DEF PeerSetSpec
<1>3. Apart(hash) /\ Inv(pool) /\ Inv(pool)' /\ RingInv /\ RingInv' /\ [PeerSetNext]_peerVars
        => [Ring!RingNext]_(Ring!ringVars)
  BY RingStep, Zenon
<1> QED
  BY <1>1, <1>2, <1>3, InvHolds, RingsHold, PTL DEF PeerSetSpec, ImplementsPeerRing, Ring!RingSpec
=============================================================================
