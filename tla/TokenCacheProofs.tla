-------------------------- MODULE TokenCacheProofs --------------------------
(***************************************************************************)
(* Proofs about TokenBucket for any limits, durations, hits, behaviors and *)
(* client clocks, and without its bound on the time; and about LRUCache,   *)
(* which holds the items, for any keys, sizes, lifetimes and balances.     *)
(***************************************************************************)
EXTENDS TokenBucket, LRUCache, FiniteSetTheorems, TLAPS

-----------------------------------------------------------------------------
(* The token bucket.                                                       *)

USE GregorianAssumption, RequestAssumption, NoItemAssumption

\* A request as the owner's worker gets it.
Reqs == [limit : Nat, duration : Nat, hits : Int, behavior : Behaviors, createdAt : Int]

TokenItems == {i \in Item : i.alg = "TOKEN"}

-----------------------------------------------------------------------------
(* The operators the handler is built from.                                *)

\* Every calendar interval ends at some millisecond.
LEMMA GregorianExpirationType ==
    ASSUME NEW t \in Nat PROVE GregorianExpiration(t) \in Int
<1>1. t \div GregorianLength \in Int
  OBVIOUS
<1>2. ((t \div GregorianLength) + 1) * GregorianLength \in Int
  BY <1>1
<1> QED
  BY <1>2 DEF GregorianExpiration

\* What callers send is a request.
LEMMA RequestType ==
    ASSUME NEW c \in Configs, NEW hits \in Hits, NEW b \in Behaviors, NEW skew \in Skews,
           now \in Nat
    PROVE  Request(c, hits, b, skew) \in Reqs
BY DEF Request, Reqs

\* A changed limit keeps the item an item, its status and its expiry, and moves
\* the balance no further than the limit.
LEMMA RelimitedItem ==
    ASSUME NEW i \in TokenItems, NEW r \in Reqs
    PROVE  LET t == Relimited(i, r)
           IN  /\ t \in TokenItems
               /\ t.limit = r.limit
               /\ t.status = i.status /\ t.expireAt = i.expireAt
               /\ \A n \in Int : n + i.rem <= i.limit =>
                     Smaller(n, t.limit) + t.rem <= t.limit
<1> USE DEF Relimited, TokenItems, Item, Reqs, Larger, Smaller
<1>1. CASE i.limit = r.limit
  BY <1>1
<1>2. CASE i.limit # r.limit
  <2> DEFINE rem == Larger(0, i.rem + r.limit - i.limit)
             t == [i EXCEPT !.rem = rem, !.limit = r.limit]
  <2>1. Relimited(i, r) = t
    BY <1>2
  <2>2. rem \in Nat
    OBVIOUS
  <2>3. /\ t \in TokenItems /\ t.limit = r.limit /\ t.rem = rem
        /\ t.status = i.status /\ t.expireAt = i.expireAt
    <3> HIDE DEF rem
    <3> QED BY <2>2, Zenon
  <2> HIDE DEF t
  <2>4. ASSUME NEW n \in Int, n + i.rem <= i.limit
        PROVE  Smaller(n, t.limit) + t.rem <= t.limit
    BY <2>3, <2>4
  <2> QED
    BY <2>1, <2>3, <2>4
<1> QED
  BY <1>1, <1>2

\* A changed duration keeps the item an item and its status; a renewed one is
\* full, any other keeps its balance.
LEMMA RetimedItem ==
    ASSUME NEW t \in TokenItems, NEW r \in Reqs, now \in Nat
    PROVE  LET u == Retimed(t, r)
           IN  /\ u \in TokenItems
               /\ u.limit = t.limit /\ u.status = t.status
               /\ u.rem = IF Renews(t, r) THEN t.limit ELSE t.rem
<1>1. NewExpiry(t, r) \in Int
  BY GregorianExpirationType DEF NewExpiry, Reqs, TokenItems, Item
<1>2. CASE t.duration = r.duration
  BY <1>2 DEF Retimed, Renews
<1>3. CASE t.duration # r.duration /\ ~Renews(t, r)
  <2> DEFINE later == [t EXCEPT !.expireAt = NewExpiry(t, r)]
             u == [later EXCEPT !.duration = r.duration]
  <2>1. later \in TokenItems /\ later.limit = t.limit /\ later.status = t.status
        /\ later.rem = t.rem
    BY <1>1 DEF TokenItems, Item
  <2>2. Retimed(t, r) = u
    BY <1>3 DEF Retimed
  <2> HIDE DEF later
  <2>3. u \in TokenItems /\ u.limit = t.limit /\ u.status = t.status /\ u.rem = t.rem
    BY <2>1 DEF TokenItems, Item, Reqs
  <2> QED
    BY <1>3, <2>2, <2>3
<1>4. CASE t.duration # r.duration /\ Renews(t, r)
  <2> DEFINE a == [t EXCEPT !.expireAt = r.createdAt + r.duration]
             b == [a EXCEPT !.createdAt = r.createdAt]
             c == [b EXCEPT !.rem = t.limit]
             u == [c EXCEPT !.duration = r.duration]
  <2>1. Retimed(t, r) = u
    BY <1>4 DEF Retimed
  <2>2. a \in TokenItems /\ a.limit = t.limit /\ a.status = t.status
    BY DEF TokenItems, Item, Reqs
  <2> HIDE DEF a
  <2>3. b \in TokenItems /\ b.limit = t.limit /\ b.status = t.status
    BY <2>2 DEF TokenItems, Item, Reqs
  <2> HIDE DEF b
  <2>4. c \in TokenItems /\ c.limit = t.limit /\ c.status = t.status /\ c.rem = t.limit
    BY <2>3 DEF TokenItems, Item
  <2> HIDE DEF c
  <2>5. u \in TokenItems /\ u.limit = t.limit /\ u.status = t.status /\ u.rem = t.limit
    BY <2>4 DEF TokenItems, Item, Reqs
  <2> QED
    BY <1>4, <2>1, <2>5
<1> QED
  BY <1>2, <1>3, <1>4 DEF Renews

\* Hits and drains come out of the balance; a refusal is noted only in an empty
\* bucket, and any other request with hits clears it.
LEMMA ChargedItem ==
    ASSUME NEW u \in TokenItems, NEW r \in Reqs
    PROVE  LET out == Charge(u, r)
           IN  /\ out.item \in TokenItems
               /\ out.status \in {"UNDER_LIMIT", "OVER_LIMIT"}
               /\ out.item.limit = u.limit
               /\ out.item.rem + Taken(u.rem, r, out.status) = u.rem
               /\ out.item.status = "OVER_LIMIT" =>
                     IF r.hits = 0 THEN u.status = "OVER_LIMIT" ELSE out.status = "OVER_LIMIT"
<1> DEFINE cleared == [u EXCEPT !.status = "UNDER_LIMIT"]
           noted == [u EXCEPT !.status = "OVER_LIMIT"]
<1>1. /\ cleared \in TokenItems /\ cleared.limit = u.limit /\ cleared.rem = u.rem
      /\ cleared.status = "UNDER_LIMIT"
      /\ noted \in TokenItems /\ noted.limit = u.limit /\ noted.rem = u.rem
  BY DEF TokenItems, Item
<1>2. u.rem \in Nat /\ r.hits \in Int /\ u.status \in {"UNDER_LIMIT", "OVER_LIMIT"}
  BY DEF TokenItems, Item, Reqs
<1>3. CASE r.hits = 0 /\ u.rem = 0
  <2>1. Charge(u, r) = Outcome(u, u.status)
    BY <1>3 DEF Charge
  <2> QED
    BY <1>2, <1>3, <2>1 DEF Outcome, Taken
<1>4. CASE r.hits = 0 /\ u.rem # 0
  <2>1. Charge(u, r) = Outcome(cleared, "UNDER_LIMIT")
    BY <1>4 DEF Charge
  <2> HIDE DEF cleared
  <2> QED
    BY <1>1, <1>2, <1>4, <2>1 DEF Outcome, Taken
<1>5. CASE r.hits > 0 /\ u.rem = 0
  <2>1. Charge(u, r) = Outcome(noted, "OVER_LIMIT")
    BY <1>2, <1>5 DEF Charge
  <2> HIDE DEF noted
  <2> QED
    BY <1>1, <1>2, <1>5, <2>1 DEF Outcome, Taken
<1>6. CASE r.hits # 0 /\ ~(r.hits > 0 /\ u.rem = 0) /\ r.hits <= u.rem
  <2> DEFINE item == [cleared EXCEPT !.rem = u.rem - r.hits]
  <2>1. Charge(u, r) = Outcome(item, "UNDER_LIMIT")
    BY <1>2, <1>6 DEF Charge
  <2> HIDE DEF cleared
  <2>2. item \in TokenItems /\ item.limit = u.limit /\ item.rem = u.rem - r.hits
        /\ item.status = "UNDER_LIMIT"
    BY <1>1, <1>2, <1>6 DEF TokenItems, Item
  <2> HIDE DEF item
  <2> QED
    BY <1>2, <1>6, <2>1, <2>2 DEF Outcome, Taken
<1>7. CASE ~(r.hits <= u.rem) /\ u.rem # 0 /\ HasBehavior(r, "DRAIN_OVER_LIMIT")
  <2> DEFINE item == [cleared EXCEPT !.rem = 0]
  <2>1. Charge(u, r) = Outcome(item, "OVER_LIMIT")
    BY <1>2, <1>7 DEF Charge
  <2> HIDE DEF cleared
  <2>2. item \in TokenItems /\ item.limit = u.limit /\ item.rem = 0
        /\ item.status = "UNDER_LIMIT"
    BY <1>1 DEF TokenItems, Item
  <2> HIDE DEF item
  <2> QED
    BY <1>2, <1>7, <2>1, <2>2 DEF Outcome, Taken
<1>8. CASE ~(r.hits <= u.rem) /\ u.rem # 0 /\ ~HasBehavior(r, "DRAIN_OVER_LIMIT")
  <2>1. Charge(u, r) = Outcome(cleared, "OVER_LIMIT")
    BY <1>2, <1>8 DEF Charge
  <2> HIDE DEF cleared
  <2> QED
    BY <1>1, <1>2, <1>8, <2>1 DEF Outcome, Taken
<1> QED
  BY <1>2, <1>3, <1>4, <1>5, <1>6, <1>7, <1>8

\* A first request starts a window with what it leaves of the limit.
LEMMA NewItemItem ==
    ASSUME NEW r \in Reqs, now \in Nat
    PROVE  LET out == NewItem(r)
           IN  /\ out.item \in TokenItems
               /\ out.status \in {"UNDER_LIMIT", "OVER_LIMIT"}
               /\ out.item.status = "UNDER_LIMIT"
               /\ (IF out.status = "UNDER_LIMIT" THEN r.hits ELSE 0) + out.item.rem
                     = out.item.limit
<1>1. GregorianExpiration(now) \in Int
  BY GregorianExpirationType
<1>2. CASE r.hits > r.limit
  BY <1>1, <1>2 DEF NewItem, Outcome, TokenItems, Item, Reqs
<1>3. CASE ~(r.hits > r.limit)
  BY <1>1, <1>3 DEF NewItem, Outcome, TokenItems, Item, Reqs
<1> QED
  BY <1>2, <1>3

-----------------------------------------------------------------------------
(* The invariant.  What the run checks of the item a request would find    *)
(* holds of both copies, so that it survives the loss of the cached one.   *)

Live(i) == i \in TokenItems /\ i.expireAt >= now

Copy(i) ==
    /\ Live(i) => spent + i.rem <= i.limit
    /\ Live(i) /\ i.status = "OVER_LIMIT" => decision = "OVER_LIMIT"

Copies == Copy(cached) /\ Copy(store)

Inv == StoreMirrorsCache /\ Copies

\* The item a request finds is one of the copies.
LEMMA FoundIsACopy ==
    ASSUME Inv, Found # NoItem, Found.alg = "TOKEN"
    PROVE  Found \in {cached, store} /\ Live(Found) /\ Copy(Found)
BY DEF Inv, Copies, StoreMirrorsCache, TypeOK, Found, IsLive, Live, TokenItems

\* When both copies are the same item it is enough to look at that one.
LEMMA SameCopy ==
    ASSUME now' \in Nat, cached' \in Item, store' = cached',
           resp' \in {"NONE", "ERROR", "UNDER_LIMIT", "OVER_LIMIT"},
           spent' \in Int, decision' \in {"UNDER_LIMIT", "OVER_LIMIT"}, unsaved' \in BOOLEAN,
           cached' \in TokenItems =>
              /\ spent' + cached'.rem <= cached'.limit
              /\ cached'.status = "OVER_LIMIT" => decision' = "OVER_LIMIT"
    PROVE  Inv'
BY DEF Inv, Copies, Copy, Live, StoreMirrorsCache, TypeOK

\* A request that finds a token bucket and succeeds.
LEMMA ExistingStep ==
    ASSUME Inv, NEW r \in Reqs, tokenBucketExisting(r)
    PROVE  Inv'
<1> DEFINE t == Relimited(Found, r)
           u == Retimed(t, r)
           out == Charge(u, r)
           used == IF Renews(t, r) THEN 0 ELSE Smaller(spent, t.limit)
<1>1. now \in Nat /\ spent \in Int /\ decision \in {"UNDER_LIMIT", "OVER_LIMIT"}
  BY DEF Inv, StoreMirrorsCache, TypeOK
<1>2. Live(Found) /\ Copy(Found) /\ Found \in TokenItems
  BY FoundIsACopy DEF tokenBucketExisting, Live
<1>3. /\ t \in TokenItems /\ t.status = Found.status
      /\ Smaller(spent, t.limit) + t.rem <= t.limit
  BY <1>1, <1>2, RelimitedItem DEF Copy
<1>4. /\ u \in TokenItems /\ u.limit = t.limit /\ u.status = t.status
      /\ u.rem = IF Renews(t, r) THEN t.limit ELSE t.rem
  <2> HIDE DEF t
  <2> QED BY <1>1, <1>3, RetimedItem
<1>5. /\ out.item \in TokenItems /\ out.status \in {"UNDER_LIMIT", "OVER_LIMIT"}
      /\ out.item.limit = u.limit
      /\ out.item.rem + Taken(u.rem, r, out.status) = u.rem
      /\ out.item.status = "OVER_LIMIT" =>
            IF r.hits = 0 THEN u.status = "OVER_LIMIT" ELSE out.status = "OVER_LIMIT"
  <2> HIDE DEF t, u
  <2> QED BY <1>4, ChargedItem
<1>6. /\ cached' = out.item /\ store' = out.item /\ resp' = out.status
      /\ spent' = used + Taken(u.rem, r, out.status)
      /\ decision' = Decided(r, out.status, decision)
      /\ unsaved' = FALSE /\ now' = now
  BY DEF tokenBucketExisting
<1> HIDE DEF t, u, out
<1>7. used \in Int /\ used + u.rem <= u.limit
  BY <1>1, <1>3, <1>4 DEF TokenItems, Item, Smaller
<1> HIDE DEF used
<1>8. Taken(u.rem, r, out.status) \in Int
  BY <1>4 DEF Taken, TokenItems, Item, Reqs
<1>9. spent' \in Int /\ spent' + cached'.rem <= cached'.limit
  <2>1. u.rem \in Int /\ u.limit \in Int /\ out.item.rem \in Int
    BY <1>4, <1>5 DEF TokenItems, Item
  <2> QED BY <1>5, <1>6, <1>7, <1>8, <2>1
<1>10. decision' \in {"UNDER_LIMIT", "OVER_LIMIT"}
       /\ (cached'.status = "OVER_LIMIT" => decision' = "OVER_LIMIT")
  BY <1>1, <1>2, <1>3, <1>4, <1>5, <1>6 DEF Decided, Copy
<1> QED
  BY <1>1, <1>5, <1>6, <1>9, <1>10, SameCopy, Zenon DEF TokenItems

\* A request that changes the limit of the cached item and then fails.
LEMMA FailStep ==
    ASSUME Inv, NEW r \in Reqs, FailExisting(r)
    PROVE  Inv'
<1> DEFINE t == Relimited(Found, r)
<1>1. /\ cached' = t /\ resp' = "ERROR" /\ spent' = Smaller(spent, t.limit)
      /\ unsaved' = (unsaved \/ t # Found)
      /\ now' = now /\ store' = store /\ decision' = decision
  BY DEF FailExisting
<1>2. TypeOK /\ spent \in Int
  BY DEF Inv, StoreMirrorsCache, TypeOK
<1>3. Found \in {cached, store} /\ Live(Found) /\ Copy(Found) /\ Found \in TokenItems
  BY FoundIsACopy DEF FailExisting, Live
<1>4. /\ t \in TokenItems /\ t.status = Found.status
      /\ Smaller(spent, t.limit) + t.rem <= t.limit
  BY <1>2, <1>3, RelimitedItem DEF Copy
<1> HIDE DEF t
<1>5. t.limit \in Nat /\ t \in Item
  BY <1>4 DEF TokenItems, Item
<1>6. spent' \in Int /\ spent' <= spent
  BY <1>1, <1>2, <1>5 DEF Smaller
<1>7. TypeOK'
  BY <1>1, <1>2, <1>5, <1>6 DEF TypeOK
<1>8. IsLive(cached') /\ ~unsaved' => store' = cached'
  BY <1>1, <1>3, Zenon DEF Inv, StoreMirrorsCache, Live, IsLive, Found
<1>9. Copy(cached)'
  BY <1>1, <1>3, <1>4 DEF Copy, Live
<1>10. Copy(store)'
  <2> SUFFICES ASSUME Live(store)' PROVE spent' + store.rem <= store.limit
               /\ (store.status = "OVER_LIMIT" => decision = "OVER_LIMIT")
    BY <1>1 DEF Copy
  <2>1. Live(store) /\ store.rem \in Nat /\ store.limit \in Nat
    BY <1>1 DEF Live, TokenItems, Item
  <2>2. spent + store.rem <= store.limit
    BY <2>1 DEF Inv, Copies, Copy
  <2> QED BY <1>2, <1>6, <2>1, <2>2 DEF Inv, Copies, Copy
<1> QED
  BY <1>1, <1>7, <1>8, <1>9, <1>10 DEF Inv, Copies, StoreMirrorsCache, IsLive

\* A request that finds no token bucket.
LEMMA NewItemStep ==
    ASSUME Inv, NEW r \in Reqs, tokenBucketNewItem(r)
    PROVE  Inv'
<1> DEFINE out == NewItem(r)
<1>1. TypeOK /\ now \in Nat
  BY DEF Inv, StoreMirrorsCache, TypeOK
<1>2. CASE GregorianError(r)
  <2>1. /\ cached' = NoItem /\ store' \in {store, NoItem} /\ resp' = "ERROR"
        /\ spent' = spent /\ decision' = decision /\ unsaved' = FALSE /\ now' = now
    BY <1>2 DEF tokenBucketNewItem
  <2> QED
    BY <1>1, <2>1, Zenon DEF Inv, Copies, Copy, Live, StoreMirrorsCache, TypeOK, IsLive, TokenItems
<1>3. CASE ~GregorianError(r)
  <2>1. /\ cached' = out.item /\ store' = out.item /\ resp' = out.status
        /\ spent' = (IF out.status = "UNDER_LIMIT" THEN r.hits ELSE 0)
        /\ decision' = Decided(r, out.status, "UNDER_LIMIT")
        /\ unsaved' = FALSE /\ now' = now
    BY <1>3 DEF tokenBucketNewItem
  <2>2. /\ out.item \in TokenItems /\ out.status \in {"UNDER_LIMIT", "OVER_LIMIT"}
        /\ out.item.status = "UNDER_LIMIT"
        /\ (IF out.status = "UNDER_LIMIT" THEN r.hits ELSE 0) + out.item.rem = out.item.limit
    BY <1>1, NewItemItem
  <2> HIDE DEF out
  <2>3. spent' \in Int /\ spent' + cached'.rem <= cached'.limit
    BY <2>1, <2>2 DEF TokenItems, Item, Reqs
  <2>4. decision' \in {"UNDER_LIMIT", "OVER_LIMIT"}
    BY <2>1, <2>2 DEF Decided
  <2> QED
    BY <1>1, <2>1, <2>2, <2>3, <2>4, SameCopy, Zenon DEF TokenItems
<1> QED
  BY <1>2, <1>3

\* Every step keeps the invariant.
LEMMA InvStep == Inv /\ [Next]_vars => Inv'
<1> SUFFICES ASSUME Inv, [Next]_vars PROVE Inv'
  OBVIOUS
<1> TypeOK
  BY DEF Inv, StoreMirrorsCache
<1>1. CASE Tick
  BY <1>1 DEF Tick, Inv, Copies, Copy, Live, StoreMirrorsCache, TypeOK, IsLive, TokenItems, Item
<1>2. CASE LoseItem
  BY <1>2, Zenon DEF LoseItem, Inv, Copies, Copy, Live, StoreMirrorsCache, TypeOK, IsLive, TokenItems
<1>3. ASSUME NEW c \in Configs, SwitchToLeaky(c)
      PROVE  Inv'
  <2> DEFINE i == [alg |-> "LEAKY", limit |-> c.limit, duration |-> c.duration, rem |-> 0,
                   createdAt |-> now, status |-> "UNDER_LIMIT", expireAt |-> now + c.duration]
  <2>1. /\ cached' = i /\ store' = i /\ resp' = "NONE" /\ spent' = 0
        /\ decision' = "UNDER_LIMIT" /\ unsaved' = FALSE /\ now' = now
    BY <1>3 DEF SwitchToLeaky
  <2>2. i \in Item /\ i \notin TokenItems
    BY DEF TypeOK, Item, TokenItems
  <2> HIDE DEF i
  <2>3. now' \in Nat /\ unsaved' \in BOOLEAN
    BY <2>1, Zenon DEF TypeOK
  <2> QED
    BY <2>1, <2>2, <2>3, SameCopy
<1>4. ASSUME NEW c \in Configs, NEW hits \in Hits, NEW behavior \in Behaviors, NEW skew \in Skews,
             tokenBucket(Request(c, hits, behavior, skew))
      PROVE  Inv'
  <2> DEFINE r == Request(c, hits, behavior, skew)
  <2>1. r \in Reqs
    BY RequestType DEF TypeOK
  <2> HIDE DEF r
  <2>2. CASE Reset(r)
    <3>1. now' \in Nat /\ cached' = NoItem /\ store' = NoItem
      BY <2>2 DEF Reset, TypeOK
    <3>2. TypeOK'
      <4>1. unsaved' \in BOOLEAN
        BY <2>2, Zenon DEF Reset
      <4> QED
        BY <2>2, <3>1, <4>1 DEF Reset, TypeOK
    <3> QED
      BY <3>1, <3>2 DEF Inv, Copies, Copy, Live, StoreMirrorsCache, IsLive, TokenItems
  <2>3. CASE tokenBucketNewItem(r)
    BY <2>1, <2>3, NewItemStep
  <2>4. CASE tokenBucketExisting(r)
    BY <2>1, <2>4, ExistingStep
  <2>5. CASE FailExisting(r)
    BY <2>1, <2>5, FailStep
  <2> QED
    BY <1>4, <2>2, <2>3, <2>4, <2>5 DEF tokenBucket, r
<1>5. CASE UNCHANGED vars
  BY <1>5 DEF vars, Inv, Copies, Copy, Live, StoreMirrorsCache, TypeOK, IsLive
<1> QED
  BY <1>1, <1>2, <1>3, <1>4, <1>5 DEF Next

\* The invariant holds in every reachable state.
LEMMA InvHolds == Spec => []Inv
<1>1. Init => Inv
  <2> SUFFICES ASSUME Init PROVE Inv
    OBVIOUS
  <2>1. TypeOK
    <3>1. unsaved \in BOOLEAN
      BY Zenon DEF Init
    <3> QED
      BY <3>1 DEF Init, TypeOK
  <2> QED
    BY <2>1 DEF Init, Inv, Copies, Copy, Live, StoreMirrorsCache, IsLive, TokenItems
<1> QED
  BY <1>1, InvStep, PTL DEF Spec

\* The Store has the state of the cached item, so that losing the cache loses
\* no admitted hit, except after a request that failed half-way.
THEOREM StoreIsCurrent == Spec => []StoreMirrorsCache
<1>1. Inv => StoreMirrorsCache
  BY DEF Inv
<1> QED
  BY <1>1, InvHolds, PTL

\* No window admits more than its limit, whatever requests change.
THEOREM WindowsKeepBudget == Spec => []WindowBudget
<1>1. Inv => WindowBudget
  BY FoundIsACopy DEF WindowBudget, Copy
<1> QED
  BY <1>1, InvHolds, PTL

\* A query is answered OVER_LIMIT only when the last decision was.
THEOREM RefusalsDoNotResurface == Spec => []NoStaleRefusal
<1>1. Inv => NoStaleRefusal
  BY FoundIsACopy DEF NoStaleRefusal, Copy
<1> QED
  BY <1>1, InvHolds, PTL

HIDE GregorianAssumption
HIDE RequestAssumption
HIDE NoItemAssumption
USE CacheAssumption

-----------------------------------------------------------------------------
(* Lists in which every key is once.                                       *)

\* The entries of a list, and when there are any.
LEMMA ListFacts ==
    ASSUME NEW S, NEW s \in Seq(S)
    PROVE  /\ Len(s) \in Nat /\ DOMAIN s = 1 .. Len(s) /\ s \in [1 .. Len(s) -> S]
           /\ \A i \in 1 .. Len(s) : s[i] \in S
OBVIOUS

LEMMA NotEmpty ==
    ASSUME NEW S, NEW s \in Seq(S), s # << >>
    PROVE  Len(s) \in Nat \ {0}
OBVIOUS

\* Lists put together, and a part of one.
LEMMA ConcatFacts ==
    ASSUME NEW S, NEW a \in Seq(S), NEW b \in Seq(S)
    PROVE  /\ a \o b \in Seq(S) /\ Len(a \o b) = Len(a) + Len(b)
           /\ \A i \in 1 .. Len(a) + Len(b) :
                 (a \o b)[i] = IF i <= Len(a) THEN a[i] ELSE b[i - Len(a)]
OBVIOUS

LEMMA PartFacts ==
    ASSUME NEW S, NEW s \in Seq(S), NEW m \in 1 .. Len(s) + 1, NEW n \in 0 .. Len(s), m <= n + 1
    PROVE  /\ SubSeq(s, m, n) \in Seq(S) /\ Len(SubSeq(s, m, n)) = n - m + 1
           /\ \A i \in 1 .. n - m + 1 : SubSeq(s, m, n)[i] = s[m + i - 1]
OBVIOUS

\* What taking an element out of a sequence leaves.
LEMMA RemoveAtIs ==
    ASSUME NEW S, NEW s \in Seq(S), NEW k \in 1 .. Len(s)
    PROVE  /\ RemoveAt(s, k) \in Seq(S) /\ Len(RemoveAt(s, k)) = Len(s) - 1
           /\ \A i \in 1 .. Len(s) - 1 : RemoveAt(s, k)[i] = s[IF i < k THEN i ELSE i + 1]
<1> DEFINE t == RemoveAt(s, k)
           a == SubSeq(s, 1, k - 1)
           b == SubSeq(s, k + 1, Len(s))
<1>0. Len(s) \in Nat /\ \A i \in 1 .. Len(s) : s[i] \in S
  BY ListFacts, Zenon
<1>1. /\ a \in Seq(S) /\ Len(a) = k - 1
      /\ \A i \in 1 .. k - 1 : a[i] = s[i]
  BY <1>0, PartFacts
<1>2. /\ b \in Seq(S) /\ Len(b) = Len(s) - k
      /\ \A i \in 1 .. Len(s) - k : b[i] = s[i + k]
  BY <1>0, PartFacts
<1>3. /\ a \o b \in Seq(S) /\ Len(a \o b) = Len(a) + Len(b)
      /\ \A i \in 1 .. Len(a) + Len(b) : (a \o b)[i] = IF i <= Len(a) THEN a[i] ELSE b[i - Len(a)]
  BY <1>1, <1>2, ConcatFacts, ZenonT(30)
<1>4. t = a \o b
  BY Zenon DEF RemoveAt
<1> HIDE DEF a, b, t
<1>5. t \in Seq(S) /\ Len(t) = Len(s) - 1
  BY <1>0, <1>1, <1>2, <1>3, <1>4
<1>6. ASSUME NEW i \in 1 .. Len(s) - 1 PROVE t[i] = s[IF i < k THEN i ELSE i + 1]
  <2>1. CASE i < k
    BY <1>0, <1>1, <1>2, <1>3, <1>4, <2>1
  <2>2. CASE i >= k
    <3>1. t[i] = b[i - (k - 1)] /\ i - (k - 1) \in 1 .. Len(s) - k
      BY <1>0, <1>1, <1>2, <1>3, <1>4, <2>2, SMTT(30)
    <3>2. b[i - (k - 1)] = s[(i - (k - 1)) + k] /\ (i - (k - 1)) + k = i + 1
      BY <1>0, <1>2, <3>1
    <3> QED BY <2>2, <3>1, <3>2
  <2> QED BY <2>1, <2>2
<1> QED BY <1>5, <1>6, Zenon DEF t

\* In such a list the key to remove has one place.
LEMMA RemoveFirstIs ==
    ASSUME NEW S, NEW s \in Seq(S), IsInjective(s), NEW i \in 1 .. Len(s)
    PROVE  RemoveFirst(s, s[i]) = RemoveAt(s, i)
<1> DEFINE I == {j \in 1 .. Len(s) : s[j] = s[i]}
<1>1. I = {i}
  BY DEF IsInjective
<1>2. Min({i}) = i
  BY DEF Min
<1>3. SelectInSeq(s, LAMBDA v : v = s[i]) = Min(I)
  BY <1>1, Zenon DEF SelectInSeq
<1> QED BY <1>1, <1>2, <1>3, Zenon DEF RemoveFirst

\* A key that is taken out leaves the others in their order.
LEMMA RemovedList ==
    ASSUME NEW s \in Seq(ItemKeys), IsInjective(s), NEW k
    PROVE  LET t == RemoveFirst(s, k)
           IN  /\ t \in Seq(ItemKeys) /\ IsInjective(t) /\ ToSet(t) = ToSet(s) \ {k}
               /\ Len(t) = IF k \in ToSet(s) THEN Len(s) - 1 ELSE Len(s)
               /\ \A a, b : Before(t, a, b) <=> a # k /\ b # k /\ Before(s, a, b)
<1> DEFINE t == RemoveFirst(s, k)
<1>0. Len(s) \in Nat /\ DOMAIN s = 1 .. Len(s)
  BY ListFacts, Zenon
<1>1. CASE k \notin ToSet(s)
  <2>1. t = s
    BY <1>0, <1>1, Zenon DEF RemoveFirst, ToSet
  <2>2. \A a, b : Before(s, a, b) => a # k /\ b # k
    BY <1>0, <1>1, Zenon DEF Before, ToSet
  <2> HIDE DEF t
  <2>3. ToSet(t) = ToSet(s) \ {k}
    BY <1>1, <2>1, Zenon
  <2> QED BY <1>1, <2>1, <2>2, <2>3, Zenon DEF t
<1>2. CASE k \in ToSet(s)
  <2>1. PICK i \in 1 .. Len(s) : s[i] = k
    BY <1>0, <1>2, Zenon DEF ToSet
  <2>2. t = RemoveAt(s, i)
    BY <2>1, RemoveFirstIs, Zenon
  <2> HIDE DEF t
  <2> DEFINE old(j) == IF j < i THEN j ELSE j + 1
  <2>3. /\ t \in Seq(ItemKeys) /\ Len(t) = Len(s) - 1
        /\ \A j \in 1 .. Len(s) - 1 : t[j] = s[old(j)]
    BY <2>2, RemoveAtIs, Zenon
  <2>4. DOMAIN t = 1 .. Len(s) - 1
    BY <2>3, ListFacts, Zenon
  <2>5. \A j \in 1 .. Len(s) - 1 : old(j) \in 1 .. Len(s) /\ old(j) # i
    BY <1>0
  <2>6. \A m \in 1 .. Len(s) : m # i => \E j \in 1 .. Len(s) - 1 : old(j) = m
    <3> SUFFICES ASSUME NEW m \in 1 .. Len(s), m # i PROVE \E j \in 1 .. Len(s) - 1 : old(j) = m
      BY Zenon
    <3>1. CASE m < i
      <4>1. m \in 1 .. Len(s) - 1 /\ old(m) = m
        BY <1>0, <3>1
      <4> QED BY <4>1, Zenon
    <3>2. CASE m > i
      <4>1. m - 1 \in 1 .. Len(s) - 1 /\ old(m - 1) = m
        BY <1>0, <3>2
      <4> QED BY <4>1, Zenon
    <3> QED BY <1>0, <3>1, <3>2
  <2>7. \A j, m \in 1 .. Len(s) - 1 :
           /\ j < m => old(j) < old(m)
           /\ old(j) < old(m) => j < m
           /\ old(j) = old(m) => j = m
    <3> TAKE j, m \in 1 .. Len(s) - 1
    <3>0. j \in Int /\ m \in Int /\ i \in Int
      BY <1>0
    <3>1. ASSUME j < m PROVE old(j) < old(m)
      BY <3>0, <3>1
    <3>2. ASSUME old(j) < old(m) PROVE j < m
      BY <3>0, <3>2
    <3>3. ASSUME old(j) = old(m) PROVE j = m
      BY <3>0, <3>3
    <3> QED BY <3>1, <3>2, <3>3, Zenon
  <2>8. \A m \in 1 .. Len(s) : s[m] = k <=> m = i
    BY <1>0, <2>1, Zenon DEF IsInjective
  <2> HIDE DEF old
  <2>9. IsInjective(t)
    BY <1>0, <2>3, <2>4, <2>5, <2>7, Zenon DEF IsInjective
  <2>10. ToSet(t) = ToSet(s) \ {k}
    <3>1. ASSUME NEW x \in ToSet(t) PROVE x \in ToSet(s) \ {k}
      BY <1>0, <2>3, <2>4, <2>5, <2>8, <3>1, Zenon DEF ToSet
    <3>2. ASSUME NEW x \in ToSet(s), x # k PROVE x \in ToSet(t)
      <4>1. PICK m \in 1 .. Len(s) : s[m] = x
        BY <1>0, Zenon DEF ToSet
      <4>2. PICK j \in 1 .. Len(s) - 1 : old(j) = m
        BY <2>6, <2>8, <3>2, <4>1, Zenon
      <4> QED BY <2>3, <2>4, <4>1, <4>2, Zenon DEF ToSet
    <3> QED BY <3>1, <3>2, Zenon
  <2>11. ASSUME NEW a, NEW b PROVE Before(t, a, b) <=> a # k /\ b # k /\ Before(s, a, b)
    <3>1. ASSUME Before(t, a, b) PROVE a # k /\ b # k /\ Before(s, a, b)
      BY <2>3, <2>5, <2>7, <2>8, <3>1, SMTT(30) DEF Before
    <3>2. ASSUME a # k, b # k, Before(s, a, b) PROVE Before(t, a, b)
      <4>1. PICK m, n \in 1 .. Len(s) : m < n /\ s[m] = a /\ s[n] = b
        BY <3>2, Zenon DEF Before
      <4>2. PICK j \in 1 .. Len(s) - 1 : old(j) = m
        BY <2>6, <2>8, <3>2, <4>1, Zenon
      <4>3. PICK h \in 1 .. Len(s) - 1 : old(h) = n
        BY <2>6, <2>8, <3>2, <4>1, Zenon
      <4> QED BY <2>3, <2>7, <4>1, <4>2, <4>3, Zenon DEF Before
    <3> QED BY <3>1, <3>2, Zenon
  <2> QED BY <1>2, <2>3, <2>9, <2>10, <2>11, Zenon DEF t
<1> QED BY <1>1, <1>2, Zenon

\* A new key goes before all the others.
LEMMA PushedList ==
    ASSUME NEW s \in Seq(ItemKeys), IsInjective(s), NEW k \in ItemKeys, k \notin ToSet(s)
    PROVE  LET t == <<k>> \o s
           IN  /\ t \in Seq(ItemKeys) /\ IsInjective(t) /\ ToSet(t) = ToSet(s) \cup {k}
               /\ Len(t) = Len(s) + 1
               /\ \A a, b : Before(t, a, b) <=> (a = k /\ b \in ToSet(s)) \/ Before(s, a, b)
<1> DEFINE t == <<k>> \o s
<1>0. Len(s) \in Nat /\ DOMAIN s = 1 .. Len(s)
  BY ListFacts, Zenon
<1>1. <<k>> \in Seq(ItemKeys) /\ Len(<<k>>) = 1 /\ <<k>>[1] = k
  OBVIOUS
<1>2. /\ t \in Seq(ItemKeys) /\ Len(t) = Len(s) + 1 /\ t[1] = k
      /\ \A i \in 1 .. Len(s) + 1 : i > 1 => t[i] = s[i - 1]
  BY <1>0, <1>1, ConcatFacts
<1> HIDE DEF t
<1>3. DOMAIN t = 1 .. Len(s) + 1
  BY <1>2, ListFacts, Zenon
<1>4. \A i \in 1 .. Len(s) : t[i + 1] = s[i] /\ s[i] # k
  BY <1>0, <1>2 DEF ToSet
<1>5. IsInjective(t)
  <2> SUFFICES ASSUME NEW i \in 1 .. Len(s) + 1, NEW j \in 1 .. Len(s) + 1, t[i] = t[j] PROVE i = j
    BY <1>3, Zenon DEF IsInjective
  <2>1. CASE i > 1 /\ j > 1
    <3>1. i - 1 \in 1 .. Len(s) /\ j - 1 \in 1 .. Len(s) /\ s[i - 1] = s[j - 1]
      BY <1>0, <1>2, <2>1
    <3>2. i - 1 = j - 1
      BY <1>0, <3>1, Zenon DEF IsInjective
    <3> QED BY <1>0, <3>2
  <2>2. CASE i = 1 \/ j = 1
    <3>1. \A m \in 1 .. Len(s) + 1 : m > 1 => t[m] # k
      <4> SUFFICES ASSUME NEW m \in 1 .. Len(s) + 1, m > 1 PROVE t[m] # k
        BY Zenon
      <4>1. m - 1 \in 1 .. Len(s)
        BY <1>0
      <4> QED BY <1>2, <1>4, <4>1, Zenon
    <3> QED BY <1>0, <1>2, <2>2, <3>1
  <2> QED BY <1>0, <2>1, <2>2
<1>6. ToSet(t) = ToSet(s) \cup {k}
  <2>1. \A x \in ToSet(t) : x \in ToSet(s) \cup {k}
    <3> SUFFICES ASSUME NEW i \in 1 .. Len(s) + 1 PROVE t[i] \in ToSet(s) \cup {k}
      BY <1>3, Zenon DEF ToSet
    <3>1. CASE i > 1
      <4>1. i - 1 \in 1 .. Len(s)
        BY <1>0, <3>1
      <4> QED BY <1>0, <1>2, <3>1, <4>1, Zenon DEF ToSet
    <3> QED BY <1>0, <1>2, <3>1
  <2>2. \A x \in ToSet(s) : x \in ToSet(t)
    <3> SUFFICES ASSUME NEW i \in 1 .. Len(s) PROVE s[i] \in ToSet(t)
      BY <1>0, Zenon DEF ToSet
    <3>1. i + 1 \in 1 .. Len(s) + 1
      BY <1>0
    <3> QED BY <1>3, <1>4, <3>1, Zenon DEF ToSet
  <2>3. k \in ToSet(t)
    <3>1. 1 \in 1 .. Len(s) + 1
      BY <1>0
    <3> QED BY <1>2, <1>3, <3>1, Zenon DEF ToSet
  <2> QED BY <2>1, <2>2, <2>3, Zenon
<1>7. ASSUME NEW a, NEW b PROVE Before(t, a, b) <=> (a = k /\ b \in ToSet(s)) \/ Before(s, a, b)
  <2>1. ASSUME Before(t, a, b) PROVE (a = k /\ b \in ToSet(s)) \/ Before(s, a, b)
    <3>1. PICK m, n \in 1 .. Len(s) + 1 : m < n /\ t[m] = a /\ t[n] = b
      BY <1>2, <2>1, Zenon DEF Before
    <3>2. n - 1 \in 1 .. Len(s) /\ b = s[n - 1]
      BY <1>0, <1>2, <3>1
    <3>3. CASE m = 1
      BY <1>0, <1>2, <3>1, <3>2, <3>3, Zenon DEF ToSet
    <3>4. CASE m > 1
      <4>1. m - 1 \in 1 .. Len(s) /\ a = s[m - 1] /\ m - 1 < n - 1
        BY <1>0, <1>2, <3>1, <3>4
      <4> QED BY <3>2, <4>1, Zenon DEF Before
    <3> QED BY <1>0, <3>3, <3>4
  <2>2. ASSUME a = k, b \in ToSet(s) PROVE Before(t, a, b)
    <3>1. PICK n \in 1 .. Len(s) : s[n] = b
      BY <1>0, <2>2, Zenon DEF ToSet
    <3>2. 1 \in 1 .. Len(t) /\ n + 1 \in 1 .. Len(t) /\ 1 < n + 1
      BY <1>0, <1>2
    <3> QED BY <1>2, <1>4, <2>2, <3>1, <3>2, Zenon DEF Before
  <2>3. ASSUME Before(s, a, b) PROVE Before(t, a, b)
    <3>1. PICK m, n \in 1 .. Len(s) : m < n /\ s[m] = a /\ s[n] = b
      BY <2>3, Zenon DEF Before
    <3>2. m + 1 \in 1 .. Len(t) /\ n + 1 \in 1 .. Len(t) /\ m + 1 < n + 1
      BY <1>0, <1>2, <3>1
    <3> QED BY <1>4, <3>1, <3>2, Zenon DEF Before
  <2> QED BY <2>1, <2>2, <2>3, Zenon
<1> QED BY <1>2, <1>5, <1>6, <1>7, Zenon DEF t

\* A key that is used goes before all the others and leaves them in order.
LEMMA MovedList ==
    ASSUME NEW s \in Seq(ItemKeys), IsInjective(s), NEW k \in ItemKeys
    PROVE  LET t == MoveToFront(s, k)
           IN  /\ t \in Seq(ItemKeys) /\ IsInjective(t) /\ ToSet(t) = ToSet(s) \cup {k}
               /\ Len(t) = IF k \in ToSet(s) THEN Len(s) ELSE Len(s) + 1
               /\ \A a, b : Before(t, a, b) <=> \/ a = k /\ b \in ToSet(s) \ {k}
                                                \/ a # k /\ b # k /\ Before(s, a, b)
<1> DEFINE r == RemoveFirst(s, k)
           t == <<k>> \o r
<1>0. Len(s) \in Nat
  BY ListFacts, Zenon
<1>1. /\ r \in Seq(ItemKeys) /\ IsInjective(r) /\ ToSet(r) = ToSet(s) \ {k}
      /\ Len(r) = IF k \in ToSet(s) THEN Len(s) - 1 ELSE Len(s)
      /\ \A a, b : Before(r, a, b) <=> a # k /\ b # k /\ Before(s, a, b)
  BY RemovedList, Zenon
<1> HIDE DEF r
<1>2. k \notin ToSet(r)
  BY <1>1, Zenon
<1>3. /\ t \in Seq(ItemKeys) /\ IsInjective(t) /\ ToSet(t) = ToSet(r) \cup {k}
      /\ Len(t) = Len(r) + 1
      /\ \A a, b : Before(t, a, b) <=> (a = k /\ b \in ToSet(r)) \/ Before(r, a, b)
  BY <1>1, <1>2, PushedList, Zenon
<1>4. MoveToFront(s, k) = t
  BY Zenon DEF MoveToFront, r
<1> HIDE DEF t
<1>5. ToSet(t) = ToSet(s) \cup {k}
  BY <1>1, <1>3, Zenon
<1>6. Len(t) = IF k \in ToSet(s) THEN Len(s) ELSE Len(s) + 1
  BY <1>0, <1>1, <1>3
<1>7. \A a, b : Before(t, a, b) <=> \/ a = k /\ b \in ToSet(s) \ {k}
                                    \/ a # k /\ b # k /\ Before(s, a, b)
  BY <1>1, <1>3, Zenon
<1> QED BY <1>3, <1>4, <1>5, <1>6, <1>7, Zenon

\* The key at the back is after all the others.
LEMMA FrontList ==
    ASSUME NEW s \in Seq(ItemKeys), IsInjective(s), s # <<>>
    PROVE  LET t == Front(s)
           IN  /\ t \in Seq(ItemKeys) /\ IsInjective(t) /\ Len(t) = Len(s) - 1
               /\ Last(s) \in ToSet(s) /\ ToSet(t) = ToSet(s) \ {Last(s)}
               /\ \A a, b : Before(t, a, b) => Before(s, a, b)
               /\ \A a \in ToSet(t) : Before(s, a, Last(s))
<1> DEFINE t == Front(s)
           n == Len(s)
<1>0. n \in Nat \ {0} /\ DOMAIN s = 1 .. n /\ \A i \in 1 .. n : s[i] \in ItemKeys
  BY ListFacts, NotEmpty, Zenon
<1>1. t \in Seq(ItemKeys) /\ Len(t) = n - 1 /\ \A i \in 1 .. n - 1 : t[i] = s[i]
  BY <1>0, PartFacts DEF Front
<1> HIDE DEF t, n
<1>2. DOMAIN t = 1 .. n - 1
  BY <1>1, ListFacts, Zenon
<1>3. IsInjective(t)
  BY <1>0, <1>1, <1>2 DEF IsInjective
<1>4. Last(s) = s[n] /\ n \in 1 .. n
  BY <1>0 DEF Last, n
<1>5. \A i \in 1 .. n : s[i] = Last(s) <=> i = n
  BY <1>0, <1>4, Zenon DEF IsInjective
<1>6. Last(s) \in ToSet(s)
  BY <1>0, <1>4, Zenon DEF ToSet
<1>7. ToSet(t) = ToSet(s) \ {Last(s)}
  <2>1. \A x \in ToSet(t) : x \in ToSet(s) /\ x # Last(s)
    <3> SUFFICES ASSUME NEW i \in 1 .. n - 1 PROVE t[i] \in ToSet(s) /\ t[i] # Last(s)
      BY <1>2, Zenon DEF ToSet
    <3>1. i \in 1 .. n /\ i # n
      BY <1>0
    <3>2. s[i] # Last(s)
      BY <1>5, <3>1, Zenon
    <3> QED BY <1>0, <1>1, <3>1, <3>2, Zenon DEF ToSet
  <2>2. ASSUME NEW x \in ToSet(s), x # Last(s) PROVE x \in ToSet(t)
    <3>1. PICK i \in 1 .. n : s[i] = x
      BY <1>0, Zenon DEF ToSet
    <3>2. i \in 1 .. n - 1
      <4>1. i # n
        BY <1>5, <2>2, <3>1, Zenon
      <4> QED BY <1>0, <4>1
    <3> QED BY <1>1, <1>2, <3>1, <3>2, Zenon DEF ToSet
  <2> QED BY <2>1, <2>2, Zenon
<1>8. \A a, b : Before(t, a, b) => Before(s, a, b)
  BY <1>0, <1>1 DEF Before, n
<1>9. \A a \in ToSet(t) : Before(s, a, Last(s))
  BY <1>0, <1>1, <1>2, <1>4 DEF ToSet, Before, n
<1> QED BY <1>1, <1>3, <1>6, <1>7, <1>8, <1>9, Zenon DEF t, n

\* Such a list has as many keys as places.
LEMMA ListCount ==
    ASSUME NEW s \in Seq(ItemKeys), IsInjective(s)
    PROVE  IsFiniteSet(ToSet(s)) /\ Cardinality(ToSet(s)) = Len(s)
<1>1. Len(s) \in Nat /\ DOMAIN s = 1 .. Len(s) /\ s \in [1 .. Len(s) -> ItemKeys]
  BY ListFacts, Zenon
<1>2. s \in Bijection(1 .. Len(s), ToSet(s))
  BY <1>1, Zenon DEF Bijection, Injection, Surjection, IsInjective, ToSet
<1>3. IsFiniteSet(1 .. Len(s)) /\ Cardinality(1 .. Len(s)) = Len(s)
  <2> DEFINE n == Len(s)
  <2>1. n \in Nat
    BY <1>1, Zenon
  <2> HIDE DEF n
  <2>2. IsFiniteSet(1 .. n) /\ Cardinality(1 .. n) = n
    BY <2>1, FS_Interval
  <2> QED BY <2>2, Zenon DEF n
<1>4. ExistsBijection(1 .. Len(s), ToSet(s))
  BY <1>2, Zenon DEF ExistsBijection
<1> QED BY <1>3, <1>4, FS_Bijection, Zenon


-----------------------------------------------------------------------------
(* The debt of a map of items.                                             *)

LEMMA DebtTyped ==
    ASSUME NEW item \in Items
    PROVE  evictedDebt(item) \in Nat
<1>1. item.balance \in Int
  BY Zenon DEF Items
<1> QED BY <1>1 DEF evictedDebt

\* The debt of one item has as many tokens as it owes.
LEMMA BlockSize ==
    ASSUME NEW k, NEW n \in Nat
    PROVE  IsFiniteSet({k} \X (1 .. n)) /\ Cardinality({k} \X (1 .. n)) = n
<1>1. IsFiniteSet({k}) /\ Cardinality({k}) = 1
  BY FS_Singleton, Zenon
<1>2. IsFiniteSet(1 .. n) /\ Cardinality(1 .. n) = n
  BY FS_Interval
<1>3. IsFiniteSet({k} \X (1 .. n)) /\ Cardinality({k} \X (1 .. n)) = Cardinality({k}) * Cardinality(1 .. n)
  BY <1>1, <1>2, FS_Product, Zenon
<1> QED BY <1>1, <1>2, <1>3

LEMMA DebtsFinite ==
    ASSUME NEW D, IsFiniteSet(D), NEW f \in [D -> Items]
    PROVE  IsFiniteSet(Debts(f)) /\ Cardinality(Debts(f)) \in Nat
<1> DEFINE Blocks == {{k} \X (1 .. evictedDebt(f[k])) : k \in D}
           g == [k \in D |-> {k} \X (1 .. evictedDebt(f[k]))]
<1>1. \A b \in Blocks : IsFiniteSet(b)
  <2> SUFFICES ASSUME NEW k \in D PROVE IsFiniteSet({k} \X (1 .. evictedDebt(f[k])))
    BY Zenon
  <2>1. evictedDebt(f[k]) \in Nat
    BY DebtTyped, Zenon
  <2> QED BY <2>1, BlockSize, Zenon
<1>2. g \in Surjection(D, Blocks)
  BY Zenon DEF Surjection
<1>3. Debts(f) = UNION Blocks
  BY Zenon DEF Debts
<1> HIDE DEF g, Blocks
<1>4. IsFiniteSet(Blocks)
  BY <1>2, FS_Surjection, Zenon
<1>5. IsFiniteSet(UNION Blocks)
  BY <1>1, <1>4, FS_UNION, Zenon
<1> QED BY <1>3, <1>5, FS_CardinalityType, Zenon

\* An item takes its own debt with it.
LEMMA DebtsWithout ==
    ASSUME NEW D, IsFiniteSet(D), NEW f \in [D -> Items], NEW k \in D
    PROVE  /\ Without(f, k) \in [D \ {k} -> Items]
           /\ Cardinality(Debts(Without(f, k))) \in Nat
           /\ Cardinality(Debts(f)) = Cardinality(Debts(Without(f, k))) + evictedDebt(f[k])
<1> DEFINE g == Without(f, k)
           block == {k} \X (1 .. evictedDebt(f[k]))
<1>1. g \in [D \ {k} -> Items] /\ \A x \in D \ {k} : g[x] = f[x]
  BY Zenon DEF Without
<1>2. IsFiniteSet(D \ {k})
  BY FS_Subset, Zenon
<1>3. f[k] \in Items /\ evictedDebt(f[k]) \in Nat
  BY DebtTyped, Zenon
<1>4. IsFiniteSet(block) /\ Cardinality(block) = evictedDebt(f[k])
  BY <1>3, BlockSize, Zenon
<1>5. DOMAIN f = (DOMAIN g) \cup {k} /\ DOMAIN g = D \ {k}
  BY <1>1, Zenon
<1> HIDE DEF g
<1>6. IsFiniteSet(Debts(g)) /\ Cardinality(Debts(g)) \in Nat
  BY <1>1, <1>2, DebtsFinite, Zenon
<1>7. Debts(f) = Debts(g) \cup block
  BY <1>1, <1>5 DEF Debts
<1>8. Debts(g) \cap block = {}
  BY <1>5 DEF Debts
<1> HIDE DEF block
<1>9. Cardinality(Debts(g) \cup block) =
         Cardinality(Debts(g)) + Cardinality(block) - Cardinality(Debts(g) \cap block)
  BY <1>4, <1>6, FS_Union, Zenon
<1>10. Cardinality(Debts(g) \cap block) = 0
  BY <1>8, FS_EmptySet, Zenon
<1> QED BY <1>1, <1>3, <1>4, <1>6, <1>7, <1>9, <1>10 DEF g

-----------------------------------------------------------------------------
(* The inductive invariant.                                                *)

\* The list has keys of the history only, in the same order.
Agree(s, t) ==
    /\ IsInjective(t) /\ ToSet(s) \subseteq ToSet(t)
    /\ \A a, b : Before(s, a, b) => Before(t, a, b)

CacheInv ==
    /\ MapMatchesList /\ DebtAccounted
    /\ cacheLen = Len(ll) /\ Agree(ll, recent)

\* Using a key in both lists keeps them in agreement.
LEMMA MovedAgree ==
    ASSUME NEW s \in Seq(ItemKeys), NEW t \in Seq(ItemKeys), IsInjective(s), Agree(s, t),
           NEW k \in ItemKeys
    PROVE  Agree(MoveToFront(s, k), MoveToFront(t, k))
<1> DEFINE u == MoveToFront(s, k)
           v == MoveToFront(t, k)
<1>1. /\ ToSet(u) = ToSet(s) \cup {k}
      /\ \A a, b : Before(u, a, b) <=> \/ a = k /\ b \in ToSet(s) \ {k}
                                       \/ a # k /\ b # k /\ Before(s, a, b)
  BY MovedList, Zenon
<1>2. /\ IsInjective(v) /\ ToSet(v) = ToSet(t) \cup {k}
      /\ \A a, b : Before(v, a, b) <=> \/ a = k /\ b \in ToSet(t) \ {k}
                                       \/ a # k /\ b # k /\ Before(t, a, b)
  BY MovedList, Zenon DEF Agree
<1> HIDE DEF u, v
<1>3. ToSet(u) \subseteq ToSet(v)
  BY <1>1, <1>2, Zenon DEF Agree
<1>4. ASSUME NEW a, NEW b, Before(u, a, b) PROVE Before(v, a, b)
  BY <1>1, <1>2, <1>4, Zenon DEF Agree
<1> QED BY <1>2, <1>3, <1>4, Zenon DEF Agree, u, v

\* Removing a key from both lists keeps them in agreement.
LEMMA RemovedAgree ==
    ASSUME NEW s \in Seq(ItemKeys), NEW t \in Seq(ItemKeys), IsInjective(s), Agree(s, t), NEW k
    PROVE  Agree(RemoveFirst(s, k), RemoveFirst(t, k))
<1> DEFINE u == RemoveFirst(s, k)
           v == RemoveFirst(t, k)
<1>1. /\ ToSet(u) = ToSet(s) \ {k}
      /\ \A a, b : Before(u, a, b) <=> a # k /\ b # k /\ Before(s, a, b)
  BY RemovedList, Zenon
<1>2. /\ IsInjective(v) /\ ToSet(v) = ToSet(t) \ {k}
      /\ \A a, b : Before(v, a, b) <=> a # k /\ b # k /\ Before(t, a, b)
  BY RemovedList, Zenon DEF Agree
<1> HIDE DEF u, v
<1>3. ToSet(u) \subseteq ToSet(v)
  BY <1>1, <1>2, Zenon DEF Agree
<1>4. ASSUME NEW a, NEW b, Before(u, a, b) PROVE Before(v, a, b)
  BY <1>1, <1>2, <1>4, Zenon DEF Agree
<1> QED BY <1>2, <1>3, <1>4, Zenon DEF Agree, u, v


-----------------------------------------------------------------------------
(* Steps.                                                                  *)

LEMMA SizeIsPositive == workerCacheSize \in Nat \ {0}
<1>1. CacheSize \div Workers \in Nat
  OBVIOUS
<1> QED BY <1>1, Zenon DEF workerCacheSize

\* What the invariant says of the lists and the map.
LEMMA Lists ==
    ASSUME CacheInv
    PROVE  /\ ll \in Seq(ItemKeys) /\ IsInjective(ll) /\ ToSet(ll) = DOMAIN cache /\ Len(ll) \in Nat
           /\ recent \in Seq(ItemKeys) /\ Agree(ll, recent)
           /\ cache \in [DOMAIN cache -> Items] /\ DOMAIN cache \subseteq ItemKeys
           /\ IsFiniteSet(DOMAIN cache) /\ Cardinality(Debts(cache)) \in Nat
<1>1. /\ ll \in Seq(ItemKeys) /\ IsInjective(ll) /\ ToSet(ll) = DOMAIN cache
      /\ recent \in Seq(ItemKeys) /\ Agree(ll, recent)
      /\ cache \in [DOMAIN cache -> Items] /\ DOMAIN cache \subseteq ItemKeys
  BY Zenon DEF CacheInv, MapMatchesList, CacheTypeOK
<1>2. IsFiniteSet(DOMAIN cache)
  BY <1>1, ListCount, Zenon
<1>3. Cardinality(Debts(cache)) \in Nat
  BY <1>1, <1>2, DebtsFinite, Zenon
<1> QED BY <1>1, <1>2, <1>3, ListFacts, Zenon

\* The counter behind Size() counts the items when it has the list's length.
LEMMA CountMatches ==
    ASSUME NEW D, NEW s \in Seq(ItemKeys), IsInjective(s), ToSet(s) = D
    PROVE  Len(s) \in Nat /\ Len(s) = Cardinality(D)
BY ListCount, ListFacts, Zenon

\* removeElement.
LEMMA RemoveStep ==
    ASSUME CacheInv, NEW k \in DOMAIN cache, removeElement(k)
    PROVE  CacheInv' /\ k \notin ToSet(recent') /\ DOMAIN cache' = DOMAIN cache \ {k}
<1>1. /\ cache' = Without(cache, k) /\ ll' = RemoveFirst(ll, k) /\ cacheLen' = Len(ll')
      /\ recent' = RemoveFirst(recent, k) /\ debtBooked' = debtBooked - DebtOf(k)
      /\ UNCHANGED <<clock, evictions, debtLost>>
  BY Zenon DEF removeElement
<1>2. /\ Without(cache, k) \in [DOMAIN cache \ {k} -> Items]
      /\ Cardinality(Debts(Without(cache, k))) \in Nat
      /\ Cardinality(Debts(cache)) = Cardinality(Debts(Without(cache, k))) + evictedDebt(cache[k])
  <2> DEFINE D == DOMAIN cache
  <2>1. IsFiniteSet(D) /\ cache \in [D -> Items] /\ k \in D
    BY Lists, Zenon
  <2> HIDE DEF D
  <2>2. /\ Without(cache, k) \in [D \ {k} -> Items]
        /\ Cardinality(Debts(Without(cache, k))) \in Nat
        /\ Cardinality(Debts(cache)) = Cardinality(Debts(Without(cache, k))) + evictedDebt(cache[k])
    BY <2>1, DebtsWithout, Zenon
  <2> QED BY <2>2, Zenon DEF D
<1>3. DOMAIN cache' = DOMAIN cache \ {k} /\ \A x \in DOMAIN cache' : cache'[x] = cache[x]
  BY <1>1, Zenon DEF Without
<1>4. /\ ll' \in Seq(ItemKeys) /\ IsInjective(ll') /\ ToSet(ll') = DOMAIN cache \ {k}
  BY <1>1, Lists, RemovedList, Zenon
<1>5. recent' \in Seq(ItemKeys) /\ ToSet(recent') = ToSet(recent) \ {k} /\ Agree(ll', recent')
  BY <1>1, Lists, RemovedList, RemovedAgree, Zenon DEF Agree
<1>6. cacheLen' \in Nat /\ cacheLen' = Cardinality(DOMAIN cache')
  BY <1>1, <1>3, <1>4, CountMatches, Zenon
<1>7. evictedDebt(cache[k]) \in Nat /\ DebtOf(k) = evictedDebt(cache[k])
  BY Lists, DebtTyped, Zenon DEF DebtOf
<1>8. clock \in 1 .. MaxClock /\ evictions \in Nat /\ debtLost \in Nat /\ debtBooked \in Int
  BY Zenon DEF CacheInv, MapMatchesList, CacheTypeOK
<1>9. DebtAccounted' /\ debtBooked' \in Int
  <2>1. debtBooked = debtLost + Cardinality(Debts(cache))
    BY Zenon DEF CacheInv, DebtAccounted
  <2>2. debtBooked' = debtLost' + Cardinality(Debts(cache'))
    BY <1>1, <1>2, <1>7, <1>8, <2>1
  <2>3. DebtAccounted'
    BY <2>2, Zenon DEF DebtAccounted, Debts, evictedDebt
  <2> QED BY <1>1, <1>7, <1>8, <2>3
<1>10. CacheTypeOK'
  <2>1. DOMAIN cache' \subseteq ItemKeys /\ cache' \in [DOMAIN cache' -> Items]
    BY <1>1, <1>2, <1>3, Lists, Zenon
  <2>2. \A x \in DOMAIN cache' : cache'[x].key = x
    BY <1>3, Zenon DEF CacheInv, MapMatchesList, CacheTypeOK
  <2> QED BY <1>1, <1>4, <1>5, <1>6, <1>8, <1>9, <2>1, <2>2, Zenon DEF CacheTypeOK
<1>11. MapMatchesList'
  BY <1>3, <1>4, <1>6, <1>10, Zenon DEF MapMatchesList
<1> QED BY <1>1, <1>3, <1>5, <1>9, <1>11, Zenon DEF CacheInv

\* GetItem of an item that has not expired.
LEMMA UseStep ==
    ASSUME CacheInv, NEW k \in DOMAIN cache,
           ll' = MoveToFront(ll, k), recent' = MoveToFront(recent, k),
           UNCHANGED <<clock, cache, cacheLen, evictions, debtLost, debtBooked>>
    PROVE  CacheInv'
<1>1. k \in ItemKeys /\ k \in ToSet(ll)
  BY Lists, Zenon
<1>2. /\ ll' \in Seq(ItemKeys) /\ IsInjective(ll') /\ ToSet(ll') = ToSet(ll) \cup {k}
      /\ Len(ll') = Len(ll)
  BY <1>1, Lists, MovedList, Zenon
<1>3. recent' \in Seq(ItemKeys) /\ Agree(ll', recent')
  BY <1>1, Lists, MovedList, MovedAgree, ZenonT(30) DEF Agree
<1>4. ToSet(ll') = DOMAIN cache
  BY <1>1, <1>2, Lists, Zenon
<1>5. CacheTypeOK'
  BY <1>2, <1>3, Zenon DEF CacheInv, MapMatchesList, CacheTypeOK
<1>6. MapMatchesList'
  BY <1>2, <1>4, <1>5, Zenon DEF CacheInv, MapMatchesList
<1>7. DebtAccounted'
  BY Zenon DEF CacheInv, DebtAccounted, Debts, evictedDebt
<1>8. cacheLen' = Len(ll')
  BY <1>2, Zenon DEF CacheInv
<1> QED BY <1>3, <1>6, <1>7, <1>8, Zenon DEF CacheInv

LEMMA UpdateExpirationStep ==
    ASSUME CacheInv, NEW k \in ItemKeys, NEW e \in Nat, UpdateExpiration(k, e)
    PROVE  CacheInv' /\ DOMAIN cache' = DOMAIN cache
<1>1. /\ k \in DOMAIN cache /\ cache' = [cache EXCEPT ![k].expireAt = e]
      /\ UNCHANGED <<clock, ll, cacheLen, evictions, debtLost, recent, debtBooked>>
  BY Zenon DEF UpdateExpiration
<1>2. /\ DOMAIN cache' = DOMAIN cache
      /\ \A x \in DOMAIN cache : cache'[x] = IF x = k THEN [cache[k] EXCEPT !.expireAt = e] ELSE cache[x]
  BY <1>1, Lists, Zenon
<1>3. \A x \in DOMAIN cache : /\ cache'[x] \in Items /\ cache'[x].key = cache[x].key
                              /\ cache'[x].balance = cache[x].balance
  <2>1. \A i \in Items : /\ [i EXCEPT !.expireAt = e] \in Items /\ [i EXCEPT !.expireAt = e].key = i.key
                         /\ [i EXCEPT !.expireAt = e].balance = i.balance
    BY Zenon DEF Items
  <2> QED BY <1>2, <2>1, Lists, ZenonT(30)
<1>4. CacheTypeOK'
  <2>1. cache' \in [DOMAIN cache' -> Items]
    BY <1>1, <1>2, <1>3, Lists, Zenon
  <2>2. \A x \in DOMAIN cache' : cache'[x].key = x
    BY <1>2, <1>3, Zenon DEF CacheInv, MapMatchesList, CacheTypeOK
  <2> QED BY <1>1, <1>2, <2>1, <2>2, Zenon DEF CacheInv, MapMatchesList, CacheTypeOK
<1>5. MapMatchesList'
  BY <1>1, <1>2, <1>4, Zenon DEF CacheInv, MapMatchesList
<1>6. \A x \in DOMAIN cache : evictedDebt(cache'[x]) = evictedDebt(cache[x])
  BY <1>3, Zenon DEF evictedDebt
<1>7. Debts(cache') = Debts(cache)
  BY <1>2, <1>6, Zenon DEF Debts
<1>8. debtBooked' = debtLost' + Cardinality(Debts(cache'))
  BY <1>1, <1>7, Zenon DEF CacheInv, DebtAccounted
<1>9. DebtAccounted'
  BY <1>8, Zenon DEF DebtAccounted, Debts, evictedDebt
<1> QED BY <1>1, <1>2, <1>5, <1>9, Zenon DEF CacheInv


\* Add of a key that is cached.
LEMMA ReplaceStep ==
    ASSUME CacheInv, NEW item \in Items, Replace(item),
           recent' = MoveToFront(recent, item.key),
           debtBooked' = debtBooked + evictedDebt(item) - DebtOf(item.key), clock' = clock
    PROVE  CacheInv' /\ DOMAIN cache' = DOMAIN cache
<1> DEFINE k == item.key
           D == DOMAIN cache
<1>1. /\ k \in D /\ cache' = [cache EXCEPT ![k] = item] /\ ll' = MoveToFront(ll, k)
      /\ UNCHANGED <<clock, cacheLen, evictions, debtLost>>
  BY Zenon DEF Replace
<1>2. IsFiniteSet(D) /\ cache \in [D -> Items] /\ D \subseteq ItemKeys /\ ToSet(ll) = D
  BY Lists, Zenon
<1>3. DOMAIN cache' = D /\ cache' \in [D -> Items] /\ cache'[k] = item
      /\ \A x \in D : x # k => cache'[x] = cache[x]
  BY <1>1, <1>2, Zenon
<1>4. Without(cache', k) = Without(cache, k)
  BY <1>3, Zenon DEF Without
<1>5. \A x \in D : cache'[x].key = x
  BY <1>3, Zenon DEF CacheInv, MapMatchesList, CacheTypeOK
<1>6. k \in ItemKeys /\ k \in ToSet(ll) /\ DebtOf(k) = evictedDebt(cache[k])
  BY <1>1, <1>2, Zenon DEF DebtOf
<1> HIDE DEF D, k
<1>7. /\ ll' \in Seq(ItemKeys) /\ IsInjective(ll') /\ ToSet(ll') = ToSet(ll) \cup {k}
      /\ Len(ll') = Len(ll)
  BY <1>1, <1>6, Lists, MovedList, Zenon
<1>8. recent' \in Seq(ItemKeys) /\ Agree(ll', recent')
  <2>1. recent' = MoveToFront(recent, k)
    BY Zenon DEF k
  <2>2. /\ IsInjective(recent) /\ recent \in Seq(ItemKeys)
        /\ ll \in Seq(ItemKeys) /\ IsInjective(ll) /\ Agree(ll, recent)
    BY Lists, Zenon DEF Agree
  <2>3. recent' \in Seq(ItemKeys)
    <3>1. MoveToFront(recent, k) \in Seq(ItemKeys)
      BY <1>6, <2>2, MovedList, Zenon
    <3> QED BY <2>1, <3>1, Zenon
  <2>4. Agree(ll', recent')
    BY <1>1, <1>6, <2>1, <2>2, MovedAgree, Zenon
  <2> QED BY <2>3, <2>4, Zenon
<1>9. ToSet(ll') = D
  BY <1>2, <1>6, <1>7, Zenon
<1>10. /\ Cardinality(Debts(Without(cache, k))) \in Nat
       /\ Cardinality(Debts(cache)) = Cardinality(Debts(Without(cache, k))) + evictedDebt(cache[k])
  <2>1. IsFiniteSet(D) /\ cache \in [D -> Items] /\ k \in D
    BY <1>1, <1>2, Zenon
  <2> QED BY <2>1, DebtsWithout, Zenon
<1>11. Cardinality(Debts(cache')) = Cardinality(Debts(Without(cache, k))) + evictedDebt(item)
  <2>1. IsFiniteSet(D) /\ cache' \in [D -> Items] /\ k \in D
    BY <1>1, <1>2, <1>3, Zenon
  <2>2. Cardinality(Debts(cache')) = Cardinality(Debts(Without(cache', k))) + evictedDebt(cache'[k])
    BY <2>1, DebtsWithout, ZenonT(30)
  <2> QED BY <1>3, <1>4, <2>2, Zenon
<1>12. debtBooked' = debtLost' + Cardinality(Debts(cache')) /\ debtBooked' \in Int
  <2>1. debtBooked = debtLost + Cardinality(Debts(cache))
    BY Zenon DEF CacheInv, DebtAccounted
  <2>2. debtLost \in Nat /\ debtBooked \in Int
    BY Zenon DEF CacheInv, MapMatchesList, CacheTypeOK
  <2>3. evictedDebt(item) \in Nat /\ evictedDebt(cache[k]) \in Nat
    BY <1>1, <1>2, DebtTyped, Zenon
  <2>4. debtBooked' = debtBooked + evictedDebt(item) - evictedDebt(cache[k])
    BY <1>6, Zenon DEF k
  <2> QED BY <1>1, <1>10, <1>11, <2>1, <2>2, <2>3, <2>4
<1>13. DebtAccounted'
  BY <1>12, Zenon DEF DebtAccounted, Debts, evictedDebt
<1>14. CacheTypeOK'
  BY <1>1, <1>2, <1>3, <1>5, <1>7, <1>8, <1>12, ZenonT(30) DEF CacheInv, MapMatchesList, CacheTypeOK
<1>15. MapMatchesList'
  BY <1>1, <1>3, <1>7, <1>9, <1>14, Zenon DEF CacheInv, MapMatchesList, D
<1>16. cacheLen' = Len(ll')
  BY <1>1, <1>7, Zenon DEF CacheInv
<1> QED BY <1>3, <1>8, <1>13, <1>15, <1>16, Zenon DEF CacheInv, D

\* Add of a new key: what it drops past the size limit is the last in use.
LEMMA PushStep ==
    ASSUME CacheInv, NEW item \in Items, item.key \notin DOMAIN cache, PushFront(item),
           recent' = MoveToFront(recent, item.key),
           debtBooked' = debtBooked + evictedDebt(item) - DebtOf(item.key), clock' = clock
    PROVE  /\ CacheInv'
           /\ \A x \in DOMAIN cache \ DOMAIN cache' : \A kept \in DOMAIN cache' : Before(recent', kept, x)
<1> DEFINE k == item.key
           D == DOMAIN cache
           pushed == <<k>> \o ll
           oldest == Last(pushed)
           over == Len(pushed) > workerCacheSize
           all == [x \in D \cup {k} |-> IF x = k THEN item ELSE cache[x]]
<1>1. /\ cache' = IF over THEN Without(all, oldest) ELSE all
      /\ ll' = IF over THEN Front(pushed) ELSE pushed
      /\ cacheLen' = Len(ll')
      /\ evictions' = IF over /\ clock < all[oldest].expireAt THEN evictions + 1 ELSE evictions
      /\ debtLost' = IF over THEN debtLost + evictedDebt(all[oldest]) ELSE debtLost
  BY Zenon DEF PushFront
<1>2. IsFiniteSet(D) /\ cache \in [D -> Items] /\ D \subseteq ItemKeys /\ ToSet(ll) = D
  BY Lists, Zenon
<1>3. k \in ItemKeys /\ k \notin D
  BY Zenon DEF Items
<1>4. /\ DOMAIN all = D \cup {k} /\ all \in [D \cup {k} -> Items] /\ all[k] = item
      /\ \A x \in D : all[x] = cache[x]
  BY <1>2, <1>3, Zenon
<1>5. Without(all, k) = cache
  BY <1>2, <1>3, <1>4, Zenon DEF Without
<1>6. \A x \in D \cup {k} : all[x].key = x
  BY <1>4, Zenon DEF CacheInv, MapMatchesList, CacheTypeOK
<1>7. IsFiniteSet(D \cup {k})
  BY <1>2, FS_AddElement, Zenon
<1> HIDE DEF all, D, k
<1>8. Cardinality(Debts(all)) = Cardinality(Debts(cache)) + evictedDebt(item)
  <2>1. k \in D \cup {k}
    BY Zenon
  <2> DEFINE E == D \cup {k}
  <2>2. IsFiniteSet(E) /\ all \in [E -> Items] /\ k \in E
    BY <1>4, <1>7, <2>1, Zenon
  <2> HIDE DEF E
  <2>3. Cardinality(Debts(all)) = Cardinality(Debts(Without(all, k))) + evictedDebt(all[k])
    BY <2>2, DebtsWithout, Zenon
  <2> QED BY <1>4, <1>5, <2>3, Zenon
<1>9. pushed = MoveToFront(ll, k)
  <2>1. DOMAIN ll = 1 .. Len(ll)
    BY Lists, ListFacts, Zenon
  <2> QED BY <1>2, <1>3, <2>1, Zenon DEF MoveToFront, RemoveFirst, ToSet
<1>10. /\ pushed \in Seq(ItemKeys) /\ IsInjective(pushed) /\ ToSet(pushed) = D \cup {k}
       /\ Len(pushed) = Len(ll) + 1
  BY <1>2, <1>3, Lists, PushedList, Zenon
<1>11. recent' \in Seq(ItemKeys) /\ Agree(pushed, recent')
  <2>1. recent' = MoveToFront(recent, k)
    BY Zenon DEF k
  <2>2. /\ IsInjective(recent) /\ recent \in Seq(ItemKeys)
        /\ ll \in Seq(ItemKeys) /\ IsInjective(ll) /\ Agree(ll, recent)
    BY Lists, Zenon DEF Agree
  <2>3. recent' \in Seq(ItemKeys)
    <3>1. MoveToFront(recent, k) \in Seq(ItemKeys)
      BY <1>3, <2>2, MovedList, Zenon
    <3> QED BY <2>1, <3>1, Zenon
  <2>4. Agree(pushed, recent')
    BY <1>3, <1>9, <2>1, <2>2, MovedAgree, Zenon
  <2> QED BY <2>3, <2>4, Zenon
<1> HIDE DEF pushed
<1>12. debtBooked' = debtLost + Cardinality(Debts(all)) /\ debtLost \in Nat /\ debtBooked' \in Int
  <2>1. debtBooked = debtLost + Cardinality(Debts(cache)) /\ debtLost \in Nat
    BY Zenon DEF CacheInv, DebtAccounted, MapMatchesList, CacheTypeOK
  <2>2. evictedDebt(item) \in Nat /\ DebtOf(k) = 0 /\ Cardinality(Debts(cache)) \in Nat
    BY <1>3, DebtTyped, Lists, Zenon DEF DebtOf, D
  <2>3. debtBooked' = debtBooked + evictedDebt(item) - DebtOf(k)
    BY Zenon DEF k
  <2> QED BY <1>8, <2>1, <2>2, <2>3
<1>13. clock' \in 1 .. MaxClock /\ evictions \in Nat
  BY Zenon DEF CacheInv, MapMatchesList, CacheTypeOK
<1>14. CASE ~over
  <2>1. cache' = all /\ ll' = pushed /\ evictions' = evictions /\ debtLost' = debtLost
    BY <1>1, <1>14, Zenon
  <2>2. cacheLen' \in Nat /\ cacheLen' = Cardinality(D \cup {k})
    BY <1>1, <1>10, <2>1, CountMatches, Zenon
  <2>3. CacheTypeOK'
    <3>1. D \cup {k} \subseteq ItemKeys
      BY <1>2, <1>3, Zenon
    <3> QED BY <1>4, <1>6, <1>10, <1>11, <1>12, <1>13, <2>1, <2>2, <3>1, Zenon DEF CacheTypeOK
  <2>4. MapMatchesList'
    BY <1>4, <1>10, <2>1, <2>2, <2>3, Zenon DEF MapMatchesList
  <2>5. debtBooked' = debtLost' + Cardinality(Debts(cache'))
    BY <1>12, <2>1, Zenon
  <2>6. DebtAccounted'
    BY <2>5, Zenon DEF DebtAccounted, Debts, evictedDebt
  <2>7. DOMAIN cache \ DOMAIN cache' = {}
    BY <1>4, <2>1, Zenon DEF D
  <2> QED BY <1>1, <1>11, <2>1, <2>4, <2>6, <2>7, Zenon DEF CacheInv
<1>15. CASE over
  <2>1. /\ cache' = Without(all, oldest) /\ ll' = Front(pushed)
        /\ debtLost' = debtLost + evictedDebt(all[oldest])
    BY <1>1, <1>15, Zenon
  <2>2. pushed # <<>>
    BY <1>10, Lists
  <2>3. /\ ll' \in Seq(ItemKeys) /\ IsInjective(ll')
        /\ oldest \in ToSet(pushed) /\ ToSet(ll') = ToSet(pushed) \ {oldest}
        /\ \A a, b : Before(ll', a, b) => Before(pushed, a, b)
        /\ \A a \in ToSet(ll') : Before(pushed, a, oldest)
    BY <1>10, <2>1, <2>2, FrontList, Zenon
  <2> HIDE DEF oldest
  <2>4. /\ Without(all, oldest) \in [(D \cup {k}) \ {oldest} -> Items]
        /\ Cardinality(Debts(Without(all, oldest))) \in Nat
        /\ Cardinality(Debts(all)) = Cardinality(Debts(Without(all, oldest))) + evictedDebt(all[oldest])
    <3> DEFINE E == D \cup {k}
    <3>1. IsFiniteSet(E) /\ all \in [E -> Items] /\ oldest \in E
      BY <1>4, <1>7, <1>10, <2>3, Zenon
    <3> HIDE DEF E
    <3>2. /\ Without(all, oldest) \in [E \ {oldest} -> Items]
          /\ Cardinality(Debts(Without(all, oldest))) \in Nat
          /\ Cardinality(Debts(all)) = Cardinality(Debts(Without(all, oldest))) + evictedDebt(all[oldest])
      BY <3>1, DebtsWithout, Zenon
    <3> QED BY <3>2, Zenon DEF E
  <2>5. /\ DOMAIN cache' = (D \cup {k}) \ {oldest}
        /\ \A x \in DOMAIN cache' : cache'[x] = all[x]
    BY <1>4, <2>1, Zenon DEF Without
  <2>6. cacheLen' \in Nat /\ cacheLen' = Cardinality(DOMAIN cache')
    BY <1>1, <1>10, <2>3, <2>5, CountMatches, Zenon
  <2>7. evictedDebt(all[oldest]) \in Nat
    BY <1>4, <1>10, <2>3, DebtTyped, Zenon
  <2>8. debtLost' \in Nat /\ evictions' \in Nat
    BY <1>1, <1>12, <1>13, <2>1, <2>7
  <2>9. CacheTypeOK'
    <3>1. DOMAIN cache' \subseteq ItemKeys /\ cache' \in [DOMAIN cache' -> Items]
      BY <1>2, <1>3, <2>1, <2>4, <2>5, Zenon
    <3>2. \A x \in DOMAIN cache' : cache'[x].key = x
      BY <1>6, <2>5, Zenon
    <3> QED BY <1>11, <1>12, <1>13, <2>3, <2>6, <2>8, <3>1, <3>2, Zenon DEF CacheTypeOK
  <2>10. MapMatchesList'
    <3>1. ToSet(ll') = DOMAIN cache'
      BY <1>10, <2>3, <2>5, Zenon
    <3> QED BY <2>3, <2>6, <2>9, <3>1, Zenon DEF MapMatchesList
  <2>11. debtBooked' = debtLost' + Cardinality(Debts(cache'))
    BY <1>12, <2>1, <2>4, <2>7
  <2>12. DebtAccounted'
    BY <2>11, Zenon DEF DebtAccounted, Debts, evictedDebt
  <2>13. Agree(ll', recent')
    BY <1>11, <2>3, Zenon DEF Agree
  <2>14. ASSUME NEW x \in DOMAIN cache \ DOMAIN cache', NEW kept \in DOMAIN cache'
         PROVE  Before(recent', kept, x)
    <3>1. x = oldest
      BY <2>5, Zenon DEF D
    <3>2. Before(pushed, kept, oldest)
      BY <1>10, <2>3, <2>5, Zenon
    <3> QED BY <1>11, <3>1, <3>2, Zenon DEF Agree
  <2> QED BY <1>1, <2>10, <2>12, <2>13, <2>14, Zenon DEF CacheInv
<1> QED BY <1>14, <1>15, Zenon


-----------------------------------------------------------------------------
LEMMA CacheInitInv == CacheInit => CacheInv
<1> SUFFICES ASSUME CacheInit PROVE CacheInv
  BY Zenon
<1>1. /\ clock = 1 /\ cache = <<>> /\ ll = <<>> /\ cacheLen = 0 /\ recent = <<>>
      /\ evictions = 0 /\ debtLost = 0 /\ debtBooked = 0
  BY Zenon DEF CacheInit
<1>2. DOMAIN <<>> = {} /\ <<>> \in [{} -> Items] /\ Len(<<>>) = 0 /\ <<>> \in Seq(ItemKeys)
  OBVIOUS
<1>3. Cardinality({}) = 0
  BY FS_EmptySet, Zenon
<1>4. ToSet(<<>>) = {} /\ IsInjective(<<>>) /\ Debts(<<>>) = {}
  BY <1>2, Zenon DEF ToSet, IsInjective, Debts
<1>5. \A a, b : ~Before(<<>>, a, b)
  BY <1>2 DEF Before
<1>6. MapMatchesList
  BY <1>1, <1>2, <1>3, <1>4 DEF MapMatchesList, CacheTypeOK
<1>7. DebtAccounted
  BY <1>1, <1>3, <1>4 DEF DebtAccounted
<1> QED BY <1>1, <1>2, <1>4, <1>5, <1>6, <1>7, Zenon DEF CacheInv, Agree

\* Every step keeps the invariant and drops no key but the last in use.
LEMMA CacheStep ==
    ASSUME CacheInv, [CacheNext]_cacheVars
    PROVE  /\ CacheInv'
           /\ \A k \in (DOMAIN cache \ DOMAIN cache') \cap ToSet(recent') :
                 \A kept \in DOMAIN cache' : Before(recent', kept, k)
<1> DEFINE Goal == /\ CacheInv'
                   /\ \A k \in (DOMAIN cache \ DOMAIN cache') \cap ToSet(recent') :
                         \A kept \in DOMAIN cache' : Before(recent', kept, k)
<1>1. CASE ClockTick
  <2>1. /\ clock < MaxClock /\ clock' = clock + 1
        /\ UNCHANGED <<cache, ll, cacheLen, evictions, debtLost, recent, debtBooked>>
    BY <1>1, Zenon DEF ClockTick
  <2>2. clock' \in 1 .. MaxClock
    BY <2>1, SMTT(30) DEF CacheInv, MapMatchesList, CacheTypeOK
  <2>3. CacheTypeOK'
    BY <2>1, <2>2, Zenon DEF CacheInv, MapMatchesList, CacheTypeOK
  <2>4. CacheInv'
    BY <2>1, <2>3, Zenon DEF CacheInv, MapMatchesList, DebtAccounted, Debts, evictedDebt
  <2> QED BY <2>1, <2>4, Zenon
<1>2. ASSUME NEW k \in ItemKeys, NEW t \in Expiries, NEW i \in Expiries \cup {0}, NEW b \in Balances,
             Add([key |-> k, expireAt |-> clock + t, balance |-> b,
                  invalidAt |-> IF i = 0 THEN 0 ELSE clock + i])
      PROVE  Goal
  <2> DEFINE item == [key |-> k, expireAt |-> clock + t, balance |-> b,
                      invalidAt |-> IF i = 0 THEN 0 ELSE clock + i]
  <2>1. clock \in Nat
    BY DEF CacheInv, MapMatchesList, CacheTypeOK
  <2>2. item \in Items
    <3>1. clock + t \in Nat /\ (IF i = 0 THEN 0 ELSE clock + i) \in Nat
      BY <2>1
    <3> QED BY <3>1, Zenon DEF Items
  <2> HIDE DEF item
  <2>3. /\ Replace(item) \/ (item.key \notin DOMAIN cache /\ PushFront(item))
        /\ recent' = MoveToFront(recent, item.key)
        /\ debtBooked' = debtBooked + evictedDebt(item) - DebtOf(item.key) /\ clock' = clock
    BY <1>2, Zenon DEF Add, item
  <2>4. CASE Replace(item)
    BY <2>2, <2>3, <2>4, ReplaceStep, Zenon
  <2>5. CASE item.key \notin DOMAIN cache /\ PushFront(item)
    BY <2>2, <2>3, <2>5, PushStep, Zenon
  <2> QED BY <2>3, <2>4, <2>5, Zenon
<1>3. ASSUME NEW k \in DOMAIN cache, removeElement(k) PROVE Goal
  BY <1>3, RemoveStep, Zenon
<1>4. ASSUME NEW k \in ItemKeys, GetItem(k) PROVE Goal
  <2>1. k \in DOMAIN cache
    BY <1>4, Zenon DEF GetItem
  <2>2. CASE IsExpired(cache[k])
    BY <1>3, <1>4, <2>1, <2>2, Zenon DEF GetItem
  <2>3. CASE ~IsExpired(cache[k])
    <3>1. /\ ll' = MoveToFront(ll, k) /\ recent' = MoveToFront(recent, k)
          /\ UNCHANGED <<clock, cache, cacheLen, evictions, debtLost, debtBooked>>
      BY <1>4, <2>3, Zenon DEF GetItem
    <3>2. CacheInv'
      BY <2>1, <3>1, UseStep, Zenon
    <3> QED BY <3>1, <3>2, Zenon
  <2> QED BY <2>2, <2>3, Zenon
<1>5. ASSUME NEW k \in ItemKeys, RemoveKey(k) PROVE Goal
  BY <1>3, <1>5, Zenon DEF RemoveKey
<1>6. ASSUME NEW k \in ItemKeys, NEW t \in Expiries, UpdateExpiration(k, clock + t) PROVE Goal
  <2>1. clock + t \in Nat
    BY SMTT(30) DEF CacheInv, MapMatchesList, CacheTypeOK
  <2> QED BY <1>6, <2>1, UpdateExpirationStep, Zenon
<1>7. CASE UNCHANGED cacheVars
  BY <1>7 DEF cacheVars, CacheInv, MapMatchesList, CacheTypeOK, DebtAccounted, Debts, evictedDebt
<1> HIDE DEF Goal
<1>8. Goal
  BY <1>1, <1>2, <1>4, <1>5, <1>6, <1>7, Zenon DEF CacheNext, Goal
<1> QED BY <1>8, Zenon DEF Goal

\* Map, list and size counter of a worker's cache always describe the same
\* items, however Add, GetItem, Remove and UpdateExpiration alternate.
THEOREM CacheStaysConsistent == CacheSpec => []MapMatchesList
<1>1. CacheInv => MapMatchesList
  BY Zenon DEF CacheInv
<1>2. CacheInv /\ [CacheNext]_cacheVars => CacheInv'
  BY CacheStep, Zenon
<1> QED BY <1>1, <1>2, CacheInitInv, PTL DEF CacheSpec

\* The debt booked in a worker's cache is in it or was counted when the cache
\* evicted it.
THEOREM EvictedDebtIsCounted == CacheSpec => []DebtAccounted
<1>1. CacheInv => DebtAccounted
  BY Zenon DEF CacheInv
<1>2. CacheInv /\ [CacheNext]_cacheVars => CacheInv'
  BY CacheStep, Zenon
<1> QED BY <1>1, <1>2, CacheInitInv, PTL DEF CacheSpec

\* removeOldest takes the item that was least recently added or read.
THEOREM EvictionIsLeastRecent == CacheSpec => EvictsLeastRecent
<1>1. CacheInv /\ [CacheNext]_cacheVars => CacheInv'
  BY CacheStep, Zenon
<1>2. CacheInv /\ [CacheNext]_cacheVars =>
         [\A k \in (DOMAIN cache \ DOMAIN cache') \cap ToSet(recent') :
             \A kept \in DOMAIN cache' : Before(recent', kept, k)]_cacheVars
  BY CacheStep, Zenon
<1> QED BY <1>1, <1>2, CacheInitInv, PTL DEF CacheSpec, EvictsLeastRecent
=============================================================================
