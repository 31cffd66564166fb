---------------------------- MODULE GlobalProofs ----------------------------
(***************************************************************************)
(* Proofs about GlobalManager, for any keys, batch limit and number of     *)
(* queued requests, and about GlobalSync, for any peers, limit and         *)
(* requests.                                                               *)
(***************************************************************************)
EXTENDS GlobalManager, GlobalSync, FiniteSetTheorems, SequenceTheorems, TLAPS

-----------------------------------------------------------------------------
(* A batching loop of the globalManager.                                   *)

USE ManagerAssumption

\* The invariant: finitely many keys are collected, so counting them says
\* whether the batch is full and whether a key is the first.
Inv == CollectedWillTick /\ IsFiniteSet(KeysOf(hits))

\* Collecting a request adds its key; the first one makes a batch of one key.
LEMMA Collecting ==
    ASSUME NEW h \in [Keys -> Nat], NEW k \in Keys, IsFiniteSet(KeysOf(h))
    PROVE  LET g == [h EXCEPT ![k] = @ + 1]
           IN  /\ g \in [Keys -> Nat] /\ IsFiniteSet(KeysOf(g))
               /\ Cardinality(KeysOf(g)) \in Nat /\ Cardinality(KeysOf(h)) \in Nat
               /\ Cardinality(KeysOf(g)) <= Cardinality(KeysOf(h)) + 1
               /\ h = Nothing => Cardinality(KeysOf(g)) = 1
<1> DEFINE g == [h EXCEPT ![k] = @ + 1]
<1>1. g \in [Keys -> Nat] /\ KeysOf(g) = KeysOf(h) \cup {k}
  BY DEF KeysOf
<1>2. /\ IsFiniteSet(KeysOf(h) \cup {k})
      /\ Cardinality(KeysOf(h) \cup {k}) =
            IF k \in KeysOf(h) THEN Cardinality(KeysOf(h)) ELSE Cardinality(KeysOf(h)) + 1
  BY FS_AddElement, SMTT(60)
<1>3. Cardinality(KeysOf(h)) \in Nat
  BY FS_CardinalityType
<1>4. h = Nothing => KeysOf(h) = {}
  BY DEF KeysOf, Nothing
<1>5. h = Nothing => Cardinality(KeysOf(h) \cup {k}) = 1
  BY <1>2, <1>4, FS_EmptySet
<1>6. /\ IsFiniteSet(KeysOf(g))
      /\ Cardinality(KeysOf(g)) \in Nat
      /\ Cardinality(KeysOf(g)) <= Cardinality(KeysOf(h)) + 1
      /\ h = Nothing => Cardinality(KeysOf(g)) = 1
  <2> HIDE DEF g
  <2> QED BY <1>1, <1>2, <1>3, <1>5
<1> QED
  BY <1>1, <1>3, <1>6

\* A batch without keys is empty, and is below every limit.
LEMMA NothingCollected ==
    /\ Nothing \in [Keys -> Nat]
    /\ IsFiniteSet(KeysOf(Nothing)) /\ Cardinality(KeysOf(Nothing)) < BatchLimit
<1>1. Nothing \in [Keys -> Nat] /\ KeysOf(Nothing) = {}
  BY DEF KeysOf, Nothing
<1> QED
  BY <1>1, FS_EmptySet

\* Receiving a request keeps the invariant.
LEMMA CollectStep == Inv /\ Collect => Inv'
<1> SUFFICES ASSUME Inv, Collect PROVE Inv'
  OBVIOUS
<1> DEFINE k == Head(queue)
           h == [hits EXCEPT ![k] = @ + 1]
<1>1. TypeOK
  BY DEF Inv, CollectedWillTick
<1>2. k \in Keys /\ Tail(queue) \in Seq(Keys) /\ Len(Tail(queue)) <= BatchLimit
  BY <1>1 DEF TypeOK, Collect
<1>3. /\ h \in [Keys -> Nat] /\ IsFiniteSet(KeysOf(h))
      /\ Cardinality(KeysOf(h)) \in Nat /\ Cardinality(KeysOf(hits)) \in Nat
      /\ Cardinality(KeysOf(h)) <= Cardinality(KeysOf(hits)) + 1
      /\ hits = Nothing => Cardinality(KeysOf(h)) = 1
  <2> HIDE DEF k
  <2> QED BY <1>1, <1>2, Collecting, Zenon DEF Inv, TypeOK
<1>4. loop = "run" /\ queue' = Tail(queue) /\ UNCHANGED <<close, queued>>
  BY DEF Collect
<1>5. CASE Cardinality(KeysOf(h)) = BatchLimit
  <2>1. sending' = h /\ hits' = Nothing /\ loop' = "sending" /\ UNCHANGED intervalVars
    BY <1>5 DEF Collect
  <2> HIDE DEF h, k
  <2>2. TypeOK'
    BY <1>1, <1>2, <1>3, <1>4, <2>1, NothingCollected, Zenon DEF TypeOK, IntervalTypeOK, intervalVars
  <2> QED
    BY <2>1, <2>2, NothingCollected DEF Inv, CollectedWillTick
<1>6. CASE Cardinality(KeysOf(h)) # BatchLimit
  <2>1. /\ hits' = h /\ UNCHANGED <<sending, loop>>
        /\ IF Cardinality(KeysOf(h)) = 1 THEN NextTick ELSE UNCHANGED intervalVars
    BY <1>6 DEF Collect
  <2> HIDE DEF h, k
  <2>2. Cardinality(KeysOf(h)) < BatchLimit
    BY <1>1, <1>3, <1>6 DEF TypeOK
  <2>3. IntervalTypeOK'
    BY <1>1, <2>1, Zenon DEF TypeOK, IntervalTypeOK, NextTick, intervalVars
  <2>4. TypeOK'
    BY <1>1, <1>2, <1>3, <1>4, <2>1, <2>2, <2>3, SMTT(60) DEF TypeOK
  <2>5. TickComing'
    <3>1. CASE Cardinality(KeysOf(h)) = 1
      BY <2>1, <3>1 DEF NextTick, TickComing
    <3>2. CASE Cardinality(KeysOf(h)) # 1
      BY <1>3, <1>4, <2>1, <3>2 DEF Inv, CollectedWillTick, TickComing, intervalVars
    <3> QED BY <3>1, <3>2
  <2> QED
    BY <1>3, <2>1, <2>4, <2>5 DEF Inv, CollectedWillTick
<1> QED
  BY <1>5, <1>6

\* Every step keeps the invariant.
LEMMA InvStep == Inv /\ [Next]_vars => Inv'
<1> SUFFICES ASSUME Inv, [Next]_vars PROVE Inv'
  OBVIOUS
<1> USE DEF Inv, CollectedWillTick
<1>1. ASSUME NEW k \in Keys, QueueHit(k) PROVE Inv'
  BY <1>1 DEF QueueHit, TypeOK, IntervalTypeOK, intervalVars, TickComing
<1>2. CASE Collect
  BY <1>2, CollectStep
<1>3. CASE Tick
  BY <1>3, NothingCollected, Zenon DEF Tick, TakeTick, TypeOK, IntervalTypeOK, TickComing
<1>4. CASE Sent
  BY <1>4, NothingCollected DEF Sent, TypeOK, IntervalTypeOK, intervalVars, TickComing
<1>5. CASE Close \/ StopLoop \/ ExitLoop \/ CloseReturns
  BY <1>5, ZenonT(60) DEF Close, StopLoop, ExitLoop, CloseReturns, CloseDone, TypeOK, IntervalTypeOK,
              intervalVars, TickComing
<1>6. CASE Ticker
  BY <1>6, ZenonT(60) DEF Ticker, IntervalStep, StartSleep, WakeUp, Deliver, Quit, managerVars, TypeOK,
              IntervalTypeOK, TickComing
<1>7. CASE UNCHANGED vars
  BY <1>7 DEF vars, managerVars, intervalVars, TypeOK, IntervalTypeOK, TickComing
<1> QED
  BY <1>1, <1>2, <1>3, <1>4, <1>5, <1>6, <1>7 DEF Next

\* Collected hits and updates always have a tick coming, and never reach the
\* batch limit without being sent.
THEOREM CollectedNeverStranded == Spec => []CollectedWillTick
<1>1. Init => Inv
  <2> SUFFICES ASSUME Init PROVE Inv
    OBVIOUS
  <2>1. IntervalTypeOK
    BY Zenon DEF Init, IntervalInit, IntervalTypeOK
  <2> QED
    BY <2>1, NothingCollected DEF Init, Inv, CollectedWillTick, TypeOK
<1>2. Inv => CollectedWillTick
  BY DEF Inv
<1> QED
  BY <1>1, <1>2, InvStep, PTL DEF Spec

-----------------------------------------------------------------------------
(* A GLOBAL key on its owner and the other peers.                          *)

HIDE ManagerAssumption
USE GlobalAssumption

-----------------------------------------------------------------------------
(* Counting the single hits of a sequence of requests.                     *)

\* The block of one request has as many elements as it has hits.
LEMMA BlockSize ==
    ASSUME NEW i \in Nat, NEW n \in Nat
    PROVE  IsFiniteSet({i} \X (1 .. n)) /\ Cardinality({i} \X (1 .. n)) = n
<1>1. IsFiniteSet({i}) /\ Cardinality({i}) = 1
  BY FS_Singleton, Zenon
<1>2. IsFiniteSet(1 .. n) /\ Cardinality(1 .. n) = n
  BY FS_Interval
<1>3. IsFiniteSet({i} \X (1 .. n)) /\ Cardinality({i} \X (1 .. n)) = Cardinality({i}) * Cardinality(1 .. n)
  BY <1>1, <1>2, FS_Product, Zenon
<1> QED BY <1>1, <1>2, <1>3

LEMMA HitsOfFinite ==
    ASSUME NEW s \in Seq(Requests)
    PROVE  IsFiniteSet(HitsOf(s))
<1> DEFINE Blocks == {{i} \X (1 .. s[i].hits) : i \in 1 .. Len(s)}
<1>1. \A i \in 1 .. Len(s) : s[i].hits \in Nat
  <2> SUFFICES ASSUME NEW i \in 1 .. Len(s) PROVE s[i].hits \in Nat
    BY Zenon
  <2>1. s[i] \in Requests
    BY ElementOfSeq, Zenon
  <2> QED BY <2>1, Zenon DEF Requests
<1>2. \A b \in Blocks : IsFiniteSet(b)
  <2> SUFFICES ASSUME NEW i \in 1 .. Len(s) PROVE IsFiniteSet({i} \X (1 .. s[i].hits))
    BY Zenon
  <2>1. i \in Nat /\ s[i].hits \in Nat
    BY <1>1
  <2> QED BY <2>1, BlockSize, Zenon
<1>3. IsFiniteSet(Blocks)
  <2> DEFINE f == [i \in 1 .. Len(s) |-> {i} \X (1 .. s[i].hits)]
  <2>1. f \in Surjection(1 .. Len(s), Blocks)
    BY Zenon DEF Surjection
  <2>2. IsFiniteSet(1 .. Len(s))
    BY FS_Interval, LenProperties
  <2> HIDE DEF f, Blocks
  <2> QED BY <2>1, <2>2, FS_Surjection, Zenon
<1> HIDE DEF Blocks
<1>4. IsFiniteSet(UNION Blocks)
  BY <1>2, <1>3, FS_UNION, Zenon
<1> QED BY <1>4, Zenon DEF HitsOf, Blocks

\* A request put at the end adds its hits.
LEMMA HitsOfAppend ==
    ASSUME NEW s \in Seq(Requests), NEW r \in Requests
    PROVE  Cardinality(HitsOf(Append(s, r))) = Cardinality(HitsOf(s)) + r.hits
<1> DEFINE n == Len(s) + 1
           new == {n} \X (1 .. r.hits)
<1>0. Len(s) \in Nat /\ r.hits \in Nat
  BY LenProperties, Zenon DEF Requests
<1>1. /\ Append(s, r) \in Seq(Requests) /\ Len(Append(s, r)) = n /\ Append(s, r)[n] = r
      /\ \A i \in 1 .. Len(s) : Append(s, r)[i] = s[i]
  BY AppendProperties
<1>2. HitsOf(Append(s, r)) = HitsOf(s) \cup new
  <2>1. 1 .. Len(Append(s, r)) = (1 .. Len(s)) \cup {n}
    BY <1>0, <1>1
  <2> QED BY <1>1, <2>1 DEF HitsOf
<1>3. HitsOf(s) \cap new = {}
  BY <1>0 DEF HitsOf
<1>4. IsFiniteSet(HitsOf(s)) /\ IsFiniteSet(new) /\ Cardinality(new) = r.hits
  <2>1. n \in Nat
    BY <1>0
  <2> HIDE DEF n
  <2> QED BY <1>0, <2>1, HitsOfFinite, BlockSize, Zenon
<1> HIDE DEF new
<1>5. Cardinality(HitsOf(s) \cup new) = Cardinality(HitsOf(s)) + Cardinality(new) - Cardinality(HitsOf(s) \cap new)
  BY <1>4, FS_Union, Zenon
<1>6. Cardinality(HitsOf(s)) \in Nat /\ Cardinality(HitsOf(s) \cap new) = 0
  BY <1>3, <1>4, FS_EmptySet, FS_CardinalityType, Zenon
<1> QED BY <1>0, <1>2, <1>4, <1>5, <1>6

\* A request taken out of the sequence takes its hits with it.
LEMMA HitsOfRemoveAt ==
    ASSUME NEW s \in Seq(Requests), NEW k \in 1 .. Len(s)
    PROVE  /\ RemoveAt(s, k) \in Seq(Requests) /\ s[k] \in Requests
           /\ Cardinality(HitsOf(s)) = Cardinality(HitsOf(RemoveAt(s, k))) + s[k].hits
<1> DEFINE t == RemoveAt(s, k)
           block == {k} \X (1 .. s[k].hits)
           rest == HitsOf(s) \ block
           old(i) == IF i < k THEN i ELSE i + 1
           f == [u \in HitsOf(t) |-> <<old(u[1]), u[2]>>]
<1>0. Len(s) \in Nat /\ s[k] \in Requests /\ s[k].hits \in Nat
  <2>1. s[k] \in Requests
    BY ElementOfSeq, Zenon
  <2> QED BY <2>1, LenProperties, Zenon DEF Requests
<1>1. /\ t \in Seq(Requests) /\ Len(t) = Len(s) - 1
      /\ \A i \in 1 .. Len(s) - 1 : t[i] = s[old(i)]
  <2> DEFINE a == SubSeq(s, 1, k - 1)
             b == SubSeq(s, k + 1, Len(s))
  <2>0. \A i \in 1 .. Len(s) : s[i] \in Requests
    BY ElementOfSeq, Zenon
  <2>1. /\ a \in Seq(Requests) /\ Len(a) = k - 1
        /\ \A i \in 1 .. k - 1 : a[i] = s[i]
    BY <1>0, <2>0, SubSeqProperties
  <2>2. /\ b \in Seq(Requests) /\ Len(b) = Len(s) - k
        /\ \A i \in 1 .. Len(s) - k : b[i] = s[i + k]
    BY <1>0, <2>0, SubSeqProperties
  <2>3. /\ a \o b \in Seq(Requests) /\ Len(a \o b) = Len(a) + Len(b)
        /\ \A i \in 1 .. Len(a) + Len(b) : (a \o b)[i] = IF i <= Len(a) THEN a[i] ELSE b[i - Len(a)]
    BY <2>1, <2>2, ConcatProperties, ZenonT(30)
  <2>4. t = a \o b
    BY Zenon DEF RemoveAt
  <2> HIDE DEF a, b, t
  <2>5. t \in Seq(Requests) /\ Len(t) = Len(s) - 1
    BY <1>0, <2>1, <2>2, <2>3, <2>4
  <2>6. ASSUME NEW i \in 1 .. Len(s) - 1 PROVE t[i] = s[old(i)]
    <3>1. CASE i < k
      BY <1>0, <2>1, <2>2, <2>3, <2>4, <3>1
    <3>2. CASE i >= k
      <4>1. t[i] = b[i - (k - 1)] /\ i - (k - 1) \in 1 .. Len(s) - k
        BY <1>0, <2>1, <2>2, <2>3, <2>4, <3>2, SMTT(30)
      <4>2. b[i - (k - 1)] = s[(i - (k - 1)) + k] /\ (i - (k - 1)) + k = i + 1
        BY <1>0, <2>2, <4>1
      <4> QED BY <3>2, <4>1, <4>2
    <3> QED BY <3>1, <3>2
  <2> QED BY <2>5, <2>6, Zenon
<1> HIDE DEF t
<1>2. f \in Bijection(HitsOf(t), rest)
  <2>1. \A u \in HitsOf(t) : \E i \in 1 .. Len(s) - 1, j \in Nat : u = <<i, j>> /\ j \in 1 .. s[old(i)].hits
    <3> SUFFICES ASSUME NEW u \in HitsOf(t)
                 PROVE  \E i \in 1 .. Len(s) - 1, j \in Nat : u = <<i, j>> /\ j \in 1 .. s[old(i)].hits
      BY Zenon
    <3>1. PICK i \in 1 .. Len(t) : u \in {i} \X (1 .. t[i].hits)
      BY Zenon DEF HitsOf
    <3>2. PICK j \in 1 .. t[i].hits : u = <<i, j>>
      BY <3>1
    <3>3. i \in 1 .. Len(s) - 1 /\ t[i] = s[old(i)] /\ j \in Nat
      BY <1>1
    <3> QED BY <3>2, <3>3, Zenon
  <2>2. f \in [HitsOf(t) -> rest]
    <3> SUFFICES ASSUME NEW u \in HitsOf(t) PROVE <<old(u[1]), u[2]>> \in rest
      BY Zenon
    <3>1. PICK i \in 1 .. Len(s) - 1, j \in Nat : u = <<i, j>> /\ j \in 1 .. s[old(i)].hits
      BY <2>1, Zenon
    <3>2. old(i) \in 1 .. Len(s) /\ old(i) # k
      BY <1>0
    <3> QED BY <3>1, <3>2 DEF HitsOf
  <2>3. \A u, v \in HitsOf(t) : f[u] = f[v] => u = v
    BY <1>0, <2>1, SMTT(30)
  <2>4. \A v \in rest : \E u \in HitsOf(t) : f[u] = v
    <3> SUFFICES ASSUME NEW v \in rest PROVE \E u \in HitsOf(t) : f[u] = v
      BY Zenon
    <3>1. PICK i \in 1 .. Len(s) : \E j \in 1 .. s[i].hits : v = <<i, j>>
      BY DEF HitsOf
    <3>2. PICK j \in 1 .. s[i].hits : v = <<i, j>>
      BY <3>1, Zenon
    <3>3. i # k
      BY <3>2, Zenon
    <3>4. PICK m \in 1 .. Len(s) - 1 : old(m) = i
      <4>1. CASE i < k
        <5> i \in 1 .. Len(s) - 1 /\ old(i) = i
          BY <1>0, <4>1
        <5> QED BY Zenon
      <4>2. CASE i > k
        <5> i - 1 \in 1 .. Len(s) - 1 /\ old(i - 1) = i
          BY <1>0, <4>2
        <5> QED BY Zenon
      <4> QED BY <3>3, <4>1, <4>2
    <3>5. <<m, j>> \in HitsOf(t)
      BY <1>0, <1>1, <3>2, <3>4, SMTT(30) DEF HitsOf
    <3>6. f[<<m, j>>] = v
      BY <3>2, <3>4, <3>5, Zenon
    <3> QED BY <3>5, <3>6, Zenon
  <2> HIDE DEF f, rest
  <2> QED BY <2>2, <2>3, <2>4 DEF Bijection, Injection, Surjection, IsInjective
<1>3. IsFiniteSet(HitsOf(t)) /\ IsFiniteSet(HitsOf(s)) /\ IsFiniteSet(block) /\ Cardinality(block) = s[k].hits
  <2>1. k \in Nat
    OBVIOUS
  <2> QED BY <1>0, <1>1, <2>1, HitsOfFinite, BlockSize, Zenon
<1>4. Cardinality(rest) = Cardinality(HitsOf(t))
  <2>1. ExistsBijection(HitsOf(t), rest)
    BY <1>2, Zenon DEF ExistsBijection
  <2> HIDE DEF rest
  <2> QED BY <1>3, <2>1, FS_Bijection, Zenon
<1>5. block \subseteq HitsOf(s)
  BY <1>0, Zenon DEF HitsOf
<1>6. Cardinality(rest) = Cardinality(HitsOf(s)) - Cardinality(block)
  <2>1. HitsOf(s) \cap block = block
    BY <1>5, Zenon
  <2> HIDE DEF block
  <2> QED BY <1>3, <2>1, FS_Difference, Zenon
<1>7. Cardinality(HitsOf(s)) \in Nat
  BY <1>3, FS_CardinalityType, Zenon
<1> HIDE DEF rest, block
<1> QED BY <1>0, <1>1, <1>3, <1>4, <1>6, <1>7 DEF t

-----------------------------------------------------------------------------
(* The inductive invariant.                                                *)

\* A peer has answered for hits that the owner has not seen.
Unsettled(p) == answered[p] # <<>> \/ pending[p] # None \/ wire[p] # None

\* The owner has applied requests since the last broadcast read its state.
News == applied # <<>> \/ broadcastQueue # <<>> \/ update # None

\* Without news, the broadcast under way carries the owner's state, and a peer
\* that it has passed and that owes nothing has that state.
Informed ==
    ~failed /\ ~News =>
        /\ targets # {} => View(status) = View(owner)
        /\ \A p \in Peers : p \in targets \/ Unsettled(p) \/ View(cache[p]) = View(owner)

SyncInv == HitsConserved /\ Informed

-----------------------------------------------------------------------------
(* Lemmas about the operators.                                             *)

Balances == (0 .. Limit) \cup {NoItem}

\* A bucket stays within its limit.
LEMMA BucketTyped ==
    ASSUME NEW b \in Balances, NEW r \in Requests \cup {None}, NEW d \in BOOLEAN
    PROVE  tokenBucket(b, r, d) \in Balances
BY DEF tokenBucket, Balances, Requests, None

\* Reading the owner's state shows what the owner has afterwards.
LEMMA ReadShowsState ==
    ASSUME NEW b \in Balances, NEW u \in Requests \cup {None}
    PROVE  LET read == [u EXCEPT !.hits = 0]
           IN  /\ Copy(b, read) \in Balances /\ tokenBucket(b, read, FALSE) \in Balances
               /\ View(Copy(b, read)) = View(tokenBucket(b, read, FALSE))
BY DEF Copy, tokenBucket, View, Balances, Requests, None

\* A request is not nothing, and hits add up.
LEMMA AggregateTyped ==
    ASSUME NEW a \in Requests \cup {None}, NEW r \in Requests
    PROVE  /\ Aggregate(a, r) \in Requests /\ Aggregate(a, r) # None /\ r # None
           /\ Aggregate(a, r).hits = a.hits + r.hits
BY DEF Aggregate, Requests, None

LEMMA Typed ==
    ASSUME SyncTypeOK
    PROVE  /\ owner \in Balances /\ status \in Balances
           /\ \A p \in Peers : /\ cache[p] \in Balances /\ answered[p] \in Seq(Requests)
                               /\ pending[p] \in Requests \cup {None} /\ wire[p] \in Requests \cup {None}
                               /\ pending[p].hits \in Nat /\ wire[p].hits \in Nat
                               /\ asked[p] \in Nat /\ counted[p] \in Nat
                               /\ Cardinality(HitsOf(answered[p])) \in Nat
<1>1. /\ owner \in Balances /\ status \in Balances
      /\ \A p \in Peers : /\ cache[p] \in Balances /\ answered[p] \in Seq(Requests)
                          /\ pending[p] \in Requests \cup {None} /\ wire[p] \in Requests \cup {None}
                          /\ asked[p] \in Nat /\ counted[p] \in Nat
  BY Zenon DEF SyncTypeOK, Balances
<1>2. \A r \in Requests \cup {None} : r.hits \in Nat
  BY DEF Requests, None
<1>3. \A p \in Peers : Cardinality(HitsOf(answered[p])) \in Nat
  BY <1>1, HitsOfFinite, FS_CardinalityType, Zenon
<1> QED BY <1>1, <1>2, <1>3, Zenon

-----------------------------------------------------------------------------
(* Steps of the clients and of the peers.                                  *)

LEMMA GlobalRequestStep ==
    ASSUME SyncInv, NEW p \in Peers, NEW r \in Requests, getGlobalRateLimit(p, r)
    PROVE  SyncInv'
<1>0. SyncTypeOK /\ r.hits \in Nat \ {0}
  BY Zenon DEF SyncInv, HitsConserved, Requests
<1>1. SyncTypeOK'
  <2>1. tokenBucket(cache[p], r, FALSE) \in Balances
    BY <1>0, Typed, BucketTyped, Zenon
  <2>2. Append(answered[p], r) \in Seq(Requests)
    BY <1>0, Typed, AppendProperties, Zenon
  <2>3. cache' \in [Peers -> Balances]
    BY <1>0, <2>1, Zenon DEF getGlobalRateLimit, SyncTypeOK, Balances
  <2>4. answered' \in [Peers -> Seq(Requests)]
    BY <1>0, <2>2, Zenon DEF getGlobalRateLimit, SyncTypeOK
  <2>5. asked' \in [Peers -> Nat] /\ unsent' \in 0 .. MaxHits
    <3>1. asked \in [Peers -> Nat] /\ unsent \in 0 .. MaxHits
      BY <1>0, Zenon DEF SyncTypeOK
    <3>2. /\ asked' = [asked EXCEPT ![p] = @ + r.hits]
          /\ r.hits <= unsent /\ unsent' = unsent - r.hits
      BY Zenon DEF getGlobalRateLimit
    <3>3. asked[p] + r.hits \in Nat
      BY <1>0, <3>1
    <3>4. asked' \in [Peers -> Nat]
      BY <3>1, <3>2, <3>3, Zenon
    <3> QED BY <1>0, <3>1, <3>2, <3>4
  <2>6. UNCHANGED <<pending, wire, owner, applied, broadcastQueue, update, status, targets,
                    counted, failed>>
    BY Zenon DEF getGlobalRateLimit
  <2> QED BY <1>0, <2>3, <2>4, <2>5, <2>6, Zenon DEF SyncTypeOK, Balances
<1>2. ~failed' => \A q \in Peers :
         asked'[q] = Cardinality(HitsOf(answered'[q])) + pending'[q].hits + wire'[q].hits + counted'[q]
  <2> SUFFICES ASSUME ~failed, NEW q \in Peers
               PROVE  asked'[q] = Cardinality(HitsOf(answered'[q])) + pending'[q].hits
                                     + wire'[q].hits + counted'[q]
    BY Zenon DEF getGlobalRateLimit
  <2>1. asked[q] = Cardinality(HitsOf(answered[q])) + pending[q].hits + wire[q].hits + counted[q]
    BY Zenon DEF SyncInv, HitsConserved
  <2>2. pending' = pending /\ wire' = wire /\ counted' = counted
    BY Zenon DEF getGlobalRateLimit
  <2>3. CASE q = p
    <3>1. asked'[p] = asked[p] + r.hits /\ answered'[p] = Append(answered[p], r)
      BY <1>0, Zenon DEF getGlobalRateLimit, SyncTypeOK
    <3>2. Cardinality(HitsOf(Append(answered[p], r))) = Cardinality(HitsOf(answered[p])) + r.hits
      BY <1>0, Typed, HitsOfAppend, Zenon
    <3>3. asked[p] = Cardinality(HitsOf(answered[p])) + pending[p].hits + wire[p].hits + counted[p]
      BY <2>1, <2>3, Zenon
    <3>4. /\ asked[p] \in Nat /\ Cardinality(HitsOf(answered[p])) \in Nat /\ pending[p].hits \in Nat
          /\ wire[p].hits \in Nat /\ counted[p] \in Nat
      BY <1>0, Typed, Zenon
    <3>5. asked[p] + r.hits
            = Cardinality(HitsOf(answered[p])) + r.hits + pending[p].hits + wire[p].hits + counted[p]
      BY <1>0, <3>3, <3>4
    <3> QED BY <2>2, <2>3, <3>1, <3>2, <3>5, Zenon
  <2>4. CASE q # p
    BY <1>0, <2>1, <2>2, <2>4, Zenon DEF getGlobalRateLimit, SyncTypeOK
  <2> QED BY <2>3, <2>4, Zenon
<1>3. Informed'
  <2>1. answered'[p] # <<>>
    <3>1. answered'[p] = Append(answered[p], r)
      BY <1>0, Zenon DEF getGlobalRateLimit, SyncTypeOK
    <3> QED BY <1>0, <3>1, Typed, AppendProperties
  <2>2. \A q \in Peers : q # p => answered'[q] = answered[q] /\ cache'[q] = cache[q]
    BY <1>0, Zenon DEF getGlobalRateLimit, SyncTypeOK
  <2> QED BY <2>1, <2>2, Zenon DEF getGlobalRateLimit, SyncInv, Informed, News, Unsettled
<1> QED BY <1>1, <1>2, <1>3, Zenon DEF SyncInv, HitsConserved

LEMMA LocalRequestStep ==
    ASSUME SyncInv, NEW r \in Requests, getLocalRateLimit(r)
    PROVE  SyncInv'
<1>0. SyncTypeOK /\ r.hits \in Nat \ {0}
  BY Zenon DEF SyncInv, HitsConserved, Requests
<1>1. tokenBucket(owner, r, FALSE) \in Balances
  BY <1>0, Typed, BucketTyped, Zenon
<1>2. Append(applied, r) \in Seq(Requests) /\ Append(applied, r) # <<>>
  <2>1. applied \in Seq(Requests)
    BY <1>0, Zenon DEF SyncTypeOK
  <2> QED BY <2>1, AppendProperties
<1>3. SyncTypeOK'
  <2>1. unsent' \in 0 .. MaxHits
    BY <1>0, SMTT(30) DEF getLocalRateLimit, SyncTypeOK
  <2>2. /\ owner' = tokenBucket(owner, r, FALSE) /\ applied' = Append(applied, r)
        /\ UNCHANGED <<cache, answered, pending, wire, broadcastQueue, update, status,
                       targets, asked, counted, failed>>
    BY Zenon DEF getLocalRateLimit
  <2> QED BY <1>0, <1>1, <1>2, <2>1, <2>2, Zenon DEF SyncTypeOK, Balances
<1>4. HitsConserved'
  BY <1>3, Zenon DEF getLocalRateLimit, SyncInv, HitsConserved
<1>5. Informed'
  BY <1>2, Zenon DEF getLocalRateLimit, Informed, News
<1> QED BY <1>4, <1>5, Zenon DEF SyncInv

\* QueueHit.
LEMMA AggregateHitStep ==
    ASSUME SyncInv, NEW p \in Peers, AggregateHit(p)
    PROVE  SyncInv'
<1>0. SyncTypeOK
  BY Zenon DEF SyncInv, HitsConserved
<1>1. PICK i \in 1 .. Len(answered[p]) :
         /\ pending' = [pending EXCEPT ![p] = Aggregate(@, answered[p][i])]
         /\ answered' = [answered EXCEPT ![p] = RemoveAt(@, i)]
         /\ UNCHANGED <<cache, wire, owner, applied, broadcastQueue, update, status, targets,
                        asked, counted, failed, unsent>>
  BY Zenon DEF AggregateHit
<1> DEFINE s == answered[p]
           r == s[i]
           h == Aggregate(pending[p], r)
<1>2. s \in Seq(Requests) /\ pending[p] \in Requests \cup {None}
  BY <1>0, Typed, Zenon
<1>3. /\ RemoveAt(s, i) \in Seq(Requests) /\ r \in Requests
      /\ Cardinality(HitsOf(s)) = Cardinality(HitsOf(RemoveAt(s, i))) + r.hits
  BY <1>2, HitsOfRemoveAt, Zenon
<1>4. h \in Requests /\ h # None /\ h.hits = pending[p].hits + r.hits
  BY <1>2, <1>3, AggregateTyped, Zenon
<1>5. /\ pending'[p] = h /\ answered'[p] = RemoveAt(s, i)
      /\ \A q \in Peers : q # p => pending'[q] = pending[q] /\ answered'[q] = answered[q]
  BY <1>0, <1>1, Zenon DEF SyncTypeOK
<1>6. SyncTypeOK'
  <2>1. pending' \in [Peers -> Requests \cup {None}]
    BY <1>0, <1>1, <1>4, Zenon DEF SyncTypeOK
  <2>2. answered' \in [Peers -> Seq(Requests)]
    BY <1>0, <1>1, <1>3, Zenon DEF SyncTypeOK
  <2> QED BY <1>0, <1>1, <2>1, <2>2, Zenon DEF SyncTypeOK
<1> HIDE DEF h, s, r
<1>7. HitsConserved'
  <2> SUFFICES ASSUME ~failed, NEW q \in Peers
               PROVE  asked'[q] = Cardinality(HitsOf(answered'[q])) + pending'[q].hits
                                     + wire'[q].hits + counted'[q]
    BY <1>1, <1>6, Zenon DEF HitsConserved
  <2>1. asked[q] = Cardinality(HitsOf(answered[q])) + pending[q].hits + wire[q].hits + counted[q]
    BY Zenon DEF SyncInv, HitsConserved
  <2>2. CASE q # p
    BY <1>1, <1>5, <2>1, <2>2, Zenon
  <2>3. CASE q = p
    <3>1. Cardinality(HitsOf(RemoveAt(s, i))) \in Nat /\ r.hits \in Nat
      BY <1>3, HitsOfFinite, FS_CardinalityType, Zenon DEF Requests
    <3>2. pending[q].hits \in Nat /\ wire[q].hits \in Nat /\ counted[q] \in Nat
      BY <1>0, Typed, Zenon
    <3> QED BY <1>1, <1>3, <1>4, <1>5, <2>1, <2>3, <3>1, <3>2, SMTT(30) DEF s
  <2> QED BY <2>2, <2>3, Zenon
<1>8. Informed'
  BY <1>1, <1>4, <1>5, Zenon DEF SyncInv, Informed, News, Unsettled
<1> QED BY <1>7, <1>8, Zenon DEF SyncInv

LEMMA SendHitsStep ==
    ASSUME SyncInv, NEW p \in Peers, sendHits(p)
    PROVE  SyncInv'
<1>0. SyncTypeOK
  BY Zenon DEF SyncInv, HitsConserved
<1>1. /\ wire[p] = None /\ pending[p] # None
      /\ wire' = [wire EXCEPT ![p] = pending[p]] /\ pending' = [pending EXCEPT ![p] = None]
      /\ UNCHANGED <<cache, answered, owner, applied, broadcastQueue, update, status, targets,
                     asked, counted, failed, unsent>>
  BY Zenon DEF sendHits
<1>2. /\ pending'[p] = None /\ wire'[p] = pending[p]
      /\ \A q \in Peers : q # p => pending'[q] = pending[q] /\ wire'[q] = wire[q]
  BY <1>0, <1>1, Zenon DEF SyncTypeOK
<1>3. SyncTypeOK'
  <2>1. pending' \in [Peers -> Requests \cup {None}] /\ wire' \in [Peers -> Requests \cup {None}]
    BY <1>0, <1>1, Zenon DEF SyncTypeOK
  <2> QED BY <1>0, <1>1, <2>1, Zenon DEF SyncTypeOK
<1>4. HitsConserved'
  <2> SUFFICES ASSUME ~failed, NEW q \in Peers
               PROVE  asked'[q] = Cardinality(HitsOf(answered'[q])) + pending'[q].hits
                                     + wire'[q].hits + counted'[q]
    BY <1>1, <1>3, Zenon DEF HitsConserved
  <2>1. asked[q] = Cardinality(HitsOf(answered[q])) + pending[q].hits + wire[q].hits + counted[q]
    BY Zenon DEF SyncInv, HitsConserved
  <2>2. /\ pending[q].hits \in Nat /\ wire[q].hits \in Nat /\ counted[q] \in Nat
        /\ Cardinality(HitsOf(answered[q])) \in Nat /\ None.hits = 0
    BY <1>0, Typed, Zenon DEF None
  <2>3. CASE q # p
    BY <1>1, <1>2, <2>1, <2>3, Zenon
  <2>4. CASE q = p
    BY <1>1, <1>2, <2>1, <2>2, <2>4
  <2> QED BY <2>3, <2>4, Zenon
<1>5. Informed'
  BY <1>1, <1>2, Zenon DEF SyncInv, Informed, News, Unsettled
<1> QED BY <1>4, <1>5, Zenon DEF SyncInv

LEMMA PeerRateLimitsStep ==
    ASSUME SyncInv, NEW p \in Peers, NEW lost \in BOOLEAN, GetPeerRateLimits(p, lost)
    PROVE  SyncInv'
<1>0. SyncTypeOK
  BY Zenon DEF SyncInv, HitsConserved
<1>1. /\ wire[p] # None /\ owner' = tokenBucket(owner, wire[p], TRUE)
      /\ applied' = Append(applied, wire[p])
      /\ counted' = [counted EXCEPT ![p] = @ + wire[p].hits]
      /\ wire' = [wire EXCEPT ![p] = None] /\ failed' = (failed \/ lost)
      /\ UNCHANGED <<cache, answered, pending, broadcastQueue, update, status, targets,
                     asked, unsent>>
  BY Zenon DEF GetPeerRateLimits
<1>2. wire[p] \in Requests /\ wire[p].hits \in Nat /\ applied \in Seq(Requests) /\ owner \in Balances
  BY <1>0, <1>1, Typed, Zenon DEF SyncTypeOK
<1>3. tokenBucket(owner, wire[p], TRUE) \in Balances
  BY <1>2, BucketTyped, Zenon
<1>4. Append(applied, wire[p]) \in Seq(Requests) /\ Append(applied, wire[p]) # <<>>
  <2>1. applied \in Seq(Requests) /\ wire[p] \in Requests
    BY <1>2, Zenon
  <2> QED BY <2>1, AppendProperties
<1>5. /\ wire'[p] = None /\ counted'[p] = counted[p] + wire[p].hits
      /\ \A q \in Peers : q # p => wire'[q] = wire[q] /\ counted'[q] = counted[q]
  BY <1>0, <1>1, Zenon DEF SyncTypeOK
<1>6. SyncTypeOK'
  <2>1. wire' \in [Peers -> Requests \cup {None}] /\ counted' \in [Peers -> Nat]
    BY <1>0, <1>1, <1>2, SMTT(30) DEF SyncTypeOK
  <2>2. failed' \in BOOLEAN
    BY <1>1, Zenon
  <2> QED BY <1>0, <1>1, <1>3, <1>4, <2>1, <2>2, Zenon DEF SyncTypeOK, Balances
<1>7. HitsConserved'
  <2> SUFFICES ASSUME ~failed', NEW q \in Peers
               PROVE  asked'[q] = Cardinality(HitsOf(answered'[q])) + pending'[q].hits
                                     + wire'[q].hits + counted'[q]
    BY <1>6, Zenon DEF HitsConserved
  <2>1. asked[q] = Cardinality(HitsOf(answered[q])) + pending[q].hits + wire[q].hits + counted[q]
    BY <1>1, Zenon DEF SyncInv, HitsConserved
  <2>2. /\ pending[q].hits \in Nat /\ wire[q].hits \in Nat /\ counted[q] \in Nat
        /\ Cardinality(HitsOf(answered[q])) \in Nat /\ None.hits = 0
    BY <1>0, Typed, Zenon DEF None
  <2>3. CASE q # p
    BY <1>1, <1>5, <2>1, <2>3, Zenon
  <2>4. CASE q = p
    BY <1>1, <1>5, <2>1, <2>2, <2>4, SMTT(30)
  <2> QED BY <2>3, <2>4, Zenon
<1>8. Informed'
  BY <1>1, <1>4, Zenon DEF Informed, News
<1> QED BY <1>7, <1>8, Zenon DEF SyncInv

LEMMA LoseHitsStep ==
    ASSUME SyncInv, NEW p \in Peers, LoseHits(p)
    PROVE  SyncInv'
<1>0. SyncTypeOK
  BY Zenon DEF SyncInv, HitsConserved
<1>1. /\ wire' = [wire EXCEPT ![p] = None] /\ failed' = TRUE
      /\ UNCHANGED <<cache, answered, pending, owner, applied, broadcastQueue, update,
                     status, targets, asked, counted, unsent>>
  BY Zenon DEF LoseHits
<1>2. wire' \in [Peers -> Requests \cup {None}]
  BY <1>0, <1>1, Zenon DEF SyncTypeOK
<1>3. SyncTypeOK'
  BY <1>0, <1>1, <1>2, Zenon DEF SyncTypeOK
<1> QED BY <1>1, <1>3, Zenon DEF SyncInv, HitsConserved, Informed


-----------------------------------------------------------------------------
(* Steps of the owner's broadcasts.                                        *)

LEMMA QueueUpdateStep ==
    ASSUME SyncInv, QueueUpdate
    PROVE  SyncInv'
<1>0. SyncTypeOK
  BY Zenon DEF SyncInv, HitsConserved
<1>1. PICK i \in 1 .. Len(applied) :
         /\ broadcastQueue' = Append(broadcastQueue, applied[i]) /\ applied' = RemoveAt(applied, i)
         /\ UNCHANGED <<cache, answered, pending, wire, owner, update, status, targets,
                        asked, counted, failed, unsent>>
  BY Zenon DEF QueueUpdate
<1>2. applied \in Seq(Requests) /\ broadcastQueue \in Seq(Requests)
  BY <1>0, Zenon DEF SyncTypeOK
<1>3. RemoveAt(applied, i) \in Seq(Requests) /\ applied[i] \in Requests
  BY <1>2, HitsOfRemoveAt, Zenon
<1>4. Append(broadcastQueue, applied[i]) \in Seq(Requests) /\ Append(broadcastQueue, applied[i]) # <<>>
  BY <1>2, <1>3, AppendProperties
<1>5. SyncTypeOK'
  BY <1>0, <1>1, <1>3, <1>4, Zenon DEF SyncTypeOK
<1>6. HitsConserved'
  BY <1>1, <1>5, Zenon DEF SyncInv, HitsConserved
<1>7. Informed'
  BY <1>1, <1>4, Zenon DEF Informed, News
<1> QED BY <1>6, <1>7, Zenon DEF SyncInv

LEMMA CollectUpdateStep ==
    ASSUME SyncInv, CollectUpdate
    PROVE  SyncInv'
<1>0. SyncTypeOK
  BY Zenon DEF SyncInv, HitsConserved
<1>1. /\ broadcastQueue # <<>> /\ update' = Head(broadcastQueue) /\ broadcastQueue' = Tail(broadcastQueue)
      /\ UNCHANGED <<cache, answered, pending, wire, owner, applied, status, targets,
                     asked, counted, failed, unsent>>
  BY Zenon DEF CollectUpdate
<1>2. broadcastQueue \in Seq(Requests)
  BY <1>0, Zenon DEF SyncTypeOK
<1>3. Head(broadcastQueue) \in Requests /\ Tail(broadcastQueue) \in Seq(Requests)
  BY <1>1, <1>2, HeadTailProperties, Zenon
<1>4. Head(broadcastQueue) # None
  BY <1>3 DEF Requests, None
<1>5. SyncTypeOK'
  BY <1>0, <1>1, <1>3, Zenon DEF SyncTypeOK
<1>6. HitsConserved'
  BY <1>1, <1>5, Zenon DEF SyncInv, HitsConserved
<1>7. Informed'
  BY <1>1, <1>4, Zenon DEF Informed, News
<1> QED BY <1>6, <1>7, Zenon DEF SyncInv

LEMMA BroadcastStep ==
    ASSUME SyncInv, broadcastPeers
    PROVE  SyncInv'
<1> DEFINE read == [update EXCEPT !.hits = 0]
<1>0. SyncTypeOK
  BY Zenon DEF SyncInv, HitsConserved
<1>1. /\ status' = Copy(owner, read) /\ owner' = tokenBucket(owner, read, FALSE)
      /\ targets' = Peers /\ update' = None
      /\ UNCHANGED <<cache, answered, pending, wire, applied, broadcastQueue, asked, counted,
                     failed, unsent>>
  BY Zenon DEF broadcastPeers
<1>2. owner \in Balances /\ update \in Requests \cup {None}
  BY <1>0, Zenon DEF SyncTypeOK, Balances
<1>3. /\ Copy(owner, read) \in Balances /\ tokenBucket(owner, read, FALSE) \in Balances
      /\ View(Copy(owner, read)) = View(tokenBucket(owner, read, FALSE))
  BY <1>2, ReadShowsState, Zenon
<1> HIDE DEF read
<1>4. SyncTypeOK'
  <2>1. None \in Requests \cup {None} /\ Peers \subseteq Peers
    BY Zenon
  <2> QED BY <1>0, <1>1, <1>3, <2>1, Zenon DEF SyncTypeOK, Balances
<1>5. HitsConserved'
  BY <1>1, <1>4, Zenon DEF SyncInv, HitsConserved
<1>6. View(status') = View(owner')
  BY <1>1, <1>3, Zenon
<1>7. View(status)' = View(owner)'
  BY <1>6, Zenon DEF View
<1>8. Informed'
  BY <1>1, <1>7, Zenon DEF Informed
<1> QED BY <1>5, <1>8, Zenon DEF SyncInv

LEMMA UpdatePeerStep ==
    ASSUME SyncInv, NEW p \in Peers, NEW lost \in BOOLEAN, UpdatePeerGlobals(p, lost)
    PROVE  SyncInv'
<1>0. SyncTypeOK
  BY Zenon DEF SyncInv, HitsConserved
<1>1. /\ p \in targets /\ cache' = [cache EXCEPT ![p] = status]
      /\ targets' = targets \ {p} /\ failed' = (failed \/ lost)
      /\ UNCHANGED <<answered, pending, wire, owner, applied, broadcastQueue, update, status,
                     asked, counted, unsent>>
  BY Zenon DEF UpdatePeerGlobals
<1>2. /\ cache'[p] = status
      /\ \A q \in Peers : q # p => cache'[q] = cache[q]
  BY <1>0, <1>1, Zenon DEF SyncTypeOK
<1>3. SyncTypeOK'
  <2>1. cache' \in [Peers -> 0 .. Limit \cup {NoItem}]
    BY <1>0, <1>1, Zenon DEF SyncTypeOK
  <2>2. targets' \subseteq Peers /\ failed' \in BOOLEAN
    BY <1>0, <1>1, Zenon DEF SyncTypeOK
  <2> QED BY <1>0, <1>1, <2>1, <2>2, Zenon DEF SyncTypeOK
<1>4. HitsConserved'
  BY <1>1, <1>3, Zenon DEF SyncInv, HitsConserved
<1>5. Informed'
  BY <1>1, <1>2, Zenon DEF SyncInv, Informed, News, Unsettled, View
<1> QED BY <1>4, <1>5, Zenon DEF SyncInv

LEMMA LoseUpdateStep ==
    ASSUME SyncInv, NEW p \in Peers, LoseUpdate(p)
    PROVE  SyncInv'
<1>0. SyncTypeOK
  BY Zenon DEF SyncInv, HitsConserved
<1>1. /\ targets' = targets \ {p} /\ failed' = TRUE
      /\ UNCHANGED <<cache, answered, pending, wire, owner, applied, broadcastQueue, update,
                     status, asked, counted, unsent>>
  BY Zenon DEF LoseUpdate
<1>2. targets' \subseteq Peers
  BY <1>0, <1>1, Zenon DEF SyncTypeOK
<1>3. SyncTypeOK'
  BY <1>0, <1>1, <1>2, Zenon DEF SyncTypeOK
<1> QED BY <1>1, <1>3, Zenon DEF SyncInv, HitsConserved, Informed

-----------------------------------------------------------------------------
LEMMA SyncInitInv ==
    SyncInit => SyncInv
<1> SUFFICES ASSUME SyncInit PROVE SyncInv
  BY Zenon
<1>1. SyncTypeOK
  <2>1. <<>> \in Seq(Requests)
    BY EmptySeq, Zenon
  <2>2. /\ cache \in [Peers -> 0 .. Limit \cup {NoItem}]
        /\ owner \in 0 .. Limit \cup {NoItem} /\ status \in 0 .. Limit \cup {NoItem}
    BY Zenon DEF SyncInit
  <2>3. answered \in [Peers -> Seq(Requests)] /\ applied \in Seq(Requests) /\ broadcastQueue \in Seq(Requests)
    BY <2>1, Zenon DEF SyncInit
  <2>4. /\ pending \in [Peers -> Requests \cup {None}] /\ wire \in [Peers -> Requests \cup {None}]
        /\ update \in Requests \cup {None} /\ targets \subseteq Peers
    <3>1. None \in Requests \cup {None}
      BY Zenon
    <3> QED BY <3>1, Zenon DEF SyncInit
  <2>5. asked \in [Peers -> Nat] /\ counted \in [Peers -> Nat] /\ failed \in BOOLEAN /\ unsent \in 0 .. MaxHits
    <3>1. 0 \in Nat /\ MaxHits \in 0 .. MaxHits
      OBVIOUS
    <3> QED BY <3>1, Zenon DEF SyncInit
  <2> QED BY <2>2, <2>3, <2>4, <2>5, Zenon DEF SyncTypeOK
<1>2. HitsOf(<<>>) = {} /\ Cardinality({}) = 0 /\ None.hits = 0
  BY FS_EmptySet DEF HitsOf, None
<1>3. \A p \in Peers : asked[p] = Cardinality(HitsOf(answered[p])) + pending[p].hits + wire[p].hits + counted[p]
  <2> SUFFICES ASSUME NEW p \in Peers
               PROVE  asked[p] = Cardinality(HitsOf(answered[p])) + pending[p].hits + wire[p].hits + counted[p]
    BY Zenon
  <2>1. answered[p] = <<>> /\ pending[p] = None /\ wire[p] = None
    BY Zenon DEF SyncInit
  <2>2. asked[p] = 0 /\ counted[p] = 0
    BY Zenon DEF SyncInit
  <2>3. Cardinality(HitsOf(answered[p])) = 0
    BY <1>2, <2>1, Zenon
  <2> QED BY <1>2, <2>1, <2>2, <2>3
<1>4. Informed
  BY Zenon DEF SyncInit, Informed, View
<1> QED BY <1>1, <1>3, <1>4, Zenon DEF SyncInv, HitsConserved

LEMMA SyncInvStep ==
    SyncInv /\ [SyncNext]_syncVars => SyncInv'
<1> SUFFICES ASSUME SyncInv, [SyncNext]_syncVars PROVE SyncInv'
  BY Zenon
<1>1. CASE Client
  <2>1. PICK n \in Hits, reset \in Resets :
           \/ getLocalRateLimit(Request(n, reset))
           \/ \E p \in Peers : getGlobalRateLimit(p, Request(n, reset))
    BY <1>1, Zenon DEF Client
  <2>2. Request(n, reset) \in Requests
    BY Zenon DEF Request, Requests
  <2> QED BY <2>1, <2>2, LocalRequestStep, GlobalRequestStep, Zenon
<1>2. ASSUME NEW p \in Peers, PeerCall(p) PROVE SyncInv'
  <2>1. PICK lost \in MayFail :
           \/ GetPeerRateLimits(p, lost) \/ UpdatePeerGlobals(p, lost)
           \/ lost /\ (LoseHits(p) \/ LoseUpdate(p))
    BY <1>2, Zenon DEF PeerCall
  <2>2. lost \in BOOLEAN
    BY Zenon
  <2> QED BY <2>1, <2>2, PeerRateLimitsStep, UpdatePeerStep, LoseHitsStep, LoseUpdateStep, Zenon
<1>3. CASE UNCHANGED syncVars
  BY <1>3, Zenon DEF syncVars, SyncInv, HitsConserved, SyncTypeOK, Informed, News, Unsettled
<1> QED
  BY <1>1, <1>2, <1>3, AggregateHitStep, SendHitsStep, QueueUpdateStep, CollectUpdateStep, BroadcastStep, Zenon
     DEF SyncNext

\* While no peer call has failed, each hit that a peer took from a client is
\* in exactly one place on its way to the owner: to be queued, aggregated by
\* QueueHit, inside a GetPeerRateLimits call, or counted by the owner.
THEOREM HitsReachOwner ==
    SyncSpec => []HitsConserved
<1>1. SyncInv => HitsConserved
  BY Zenon DEF SyncInv
<1> QED BY <1>1, SyncInitInv, SyncInvStep, PTL DEF SyncSpec

\* Once the traffic has settled and no peer call has failed, every peer shows
\* what the owner has: runBroadcasts never leaves an older state behind.
THEOREM SettledCopiesAgree ==
    SyncSpec => []QuietAgrees
<1>1. SyncInv => QuietAgrees
  BY Zenon DEF SyncInv, Informed, News, Unsettled, Quiet, QuietAgrees
<1> QED BY <1>1, SyncInitInv, SyncInvStep, PTL DEF SyncSpec
=============================================================================
