------------------------------ MODULE LRUCache ------------------------------
(***************************************************************************)
(* The cache of one worker (lrucache.go): a map and a recency list with a  *)
(* size limit, items that expire or are invalidated, and the counters of   *)
(* what eviction takes away.  The worker calls one method at a time.       *)
(***************************************************************************)
EXTENDS Integers, Sequences, SequencesExt, FiniteSets

CONSTANTS
    ItemKeys,
    CacheSize,     \* Config.CacheSize
    Workers,       \* Config.Workers
    DefaultSize,   \* what a size of zero stands for (50,000)
    Expiries,      \* lifetimes of the items callers add
    Balances,      \* balances of the items callers add, below zero is debt
    MaxClock,      \* bound: the clock stops here
    MaxEvictions   \* bound: evictions and lost debt counted

ASSUME CacheAssumption ==
    /\ CacheSize \in Nat \ {0} /\ Workers \in Nat \ {0} /\ DefaultSize \in Nat \ {0}
    /\ Expiries \subseteq Nat /\ Balances \subseteq Int
    /\ MaxClock \in Nat \ {0} /\ MaxEvictions \in Nat

VARIABLES
    clock,
    cache,        \* the map, from the keys it holds to their items
    ll,           \* the recency list, most recent first
    cacheLen,     \* the atomic counter behind Size()
    evictions,    \* gubernator_unexpired_evictions_count
    debtLost,     \* gubernator_scheduled_debt_lost_tokens
    recent,       \* history: keys added and not removed, by last use
    debtBooked    \* history: debt added less debt taken out by anything but eviction

cacheVars == <<clock, cache, ll, cacheLen, evictions, debtLost, recent, debtBooked>>

\* A worker's share of the cache, where zero asks for the default.
workerCacheSize ==
    LET share == CacheSize \div Workers
    IN  IF share = 0 THEN DefaultSize ELSE share

\* Expired or, if the store said so, invalidated.
IsExpired(item) ==
    \/ item.invalidAt # 0 /\ item.invalidAt < clock
    \/ item.expireAt < clock

MoveToFront(s, k) == <<k>> \o RemoveFirst(s, k)

Without(f, k) == [x \in DOMAIN f \ {k} |-> f[x]]

\* The debt an item holds.  Its balance is the one credited with the leak so
\* far (LeakyAlgorithm), taken here as fixed while the item is cached.
evictedDebt(item) == IF item.balance < 0 THEN -item.balance ELSE 0

\* The tokens of debt in a map of items.
Debts(items) == UNION {{k} \X (1 .. evictedDebt(items[k])) : k \in DOMAIN items}

DebtOf(k) == IF k \in DOMAIN cache THEN evictedDebt(cache[k]) ELSE 0

CacheInit ==
    /\ clock = 1
    /\ cache = <<>>
    /\ ll = <<>> /\ cacheLen = 0 /\ recent = <<>>
    /\ evictions = 0 /\ debtLost = 0 /\ debtBooked = 0

ClockTick ==
    /\ clock < MaxClock
    /\ clock' = clock + 1
    /\ UNCHANGED <<cache, ll, cacheLen, evictions, debtLost, recent, debtBooked>>

-----------------------------------------------------------------------------
\* Faulty: counts the debt of unexpired items only.
pushUncounted(item) ==
    LET k == item.key
        pushed == <<k>> \o ll
        oldest == Last(pushed)
        over == Len(pushed) > workerCacheSize
        all == [x \in DOMAIN cache \cup {k} |-> IF x = k THEN item ELSE cache[x]]
    IN  /\ cache' = IF over THEN Without(all, oldest) ELSE all
        /\ ll' = IF over THEN Front(pushed) ELSE pushed
        /\ cacheLen' = Len(ll')
        /\ evictions' = IF over /\ clock < all[oldest].expireAt THEN evictions + 1 ELSE evictions
        /\ debtLost' = IF over /\ clock < all[oldest].expireAt THEN debtLost + evictedDebt(all[oldest]) ELSE debtLost

\* Put a new key in front and, past the size limit, drop the last one with
\* its debt.
PushFront(item) ==
    LET k == item.key
        pushed == <<k>> \o ll
        oldest == Last(pushed)
        over == Len(pushed) > workerCacheSize
        all == [x \in DOMAIN cache \cup {k} |-> IF x = k THEN item ELSE cache[x]]
    IN  /\ cache' = IF over THEN Without(all, oldest) ELSE all
        /\ ll' = IF over THEN Front(pushed) ELSE pushed
        /\ cacheLen' = Len(ll')
        /\ evictions' = IF over /\ clock < all[oldest].expireAt THEN evictions + 1 ELSE evictions
        /\ debtLost' = IF over THEN debtLost + evictedDebt(all[oldest]) ELSE debtLost

\* Faulty: replaces the value and leaves the key where it was.
replaceInPlace(item) ==
    LET k == item.key
    IN  /\ k \in DOMAIN cache
        /\ cache' = [cache EXCEPT ![k] = item]
        /\ UNCHANGED <<ll, cacheLen, evictions, debtLost>>

\* A key already cached takes the new value and moves to the front.
Replace(item) ==
    LET k == item.key
    IN  /\ k \in DOMAIN cache
        /\ cache' = [cache EXCEPT ![k] = item]
        /\ ll' = MoveToFront(ll, k)
        /\ UNCHANGED <<cacheLen, evictions, debtLost>>

Add(item) ==
    /\ evictions < MaxEvictions /\ debtLost < MaxEvictions
    /\ Replace(item) \/ (item.key \notin DOMAIN cache /\ PushFront(item))
    /\ recent' = MoveToFront(recent, item.key)
    /\ debtBooked' = debtBooked + evictedDebt(item) - DebtOf(item.key)
    /\ UNCHANGED clock

\* Faulty: the element leaves the list and stays in the map.
forgetElement(k) ==
    /\ cache' = cache
    /\ ll' = RemoveFirst(ll, k)
    /\ cacheLen' = Len(ll')
    /\ recent' = RemoveFirst(recent, k)
    /\ debtBooked' = debtBooked - DebtOf(k)
    /\ UNCHANGED <<clock, evictions, debtLost>>

removeElement(k) ==
    /\ cache' = Without(cache, k)
    /\ ll' = RemoveFirst(ll, k)
    /\ cacheLen' = Len(ll')
    /\ recent' = RemoveFirst(recent, k)
    /\ debtBooked' = debtBooked - DebtOf(k)
    /\ UNCHANGED <<clock, evictions, debtLost>>

\* An expired item is removed and reported as a miss.
GetItem(k) ==
    /\ k \in DOMAIN cache
    /\ IF IsExpired(cache[k]) THEN removeElement(k)
       ELSE /\ ll' = MoveToFront(ll, k)
            /\ recent' = MoveToFront(recent, k)
            /\ UNCHANGED <<clock, cache, cacheLen, evictions, debtLost, debtBooked>>

RemoveKey(k) == k \in DOMAIN cache /\ removeElement(k)

UpdateExpiration(k, expireAt) ==
    /\ k \in DOMAIN cache
    /\ cache' = [cache EXCEPT ![k].expireAt = expireAt]
    /\ UNCHANGED <<clock, ll, cacheLen, evictions, debtLost, recent, debtBooked>>

CacheNext ==
    \/ ClockTick
    \/ \E k \in ItemKeys, t \in Expiries, i \in Expiries \cup {0}, b \in Balances :
          Add([key |-> k, expireAt |-> clock + t, balance |-> b,
               invalidAt |-> IF i = 0 THEN 0 ELSE clock + i])
    \/ \E k \in ItemKeys : GetItem(k) \/ RemoveKey(k)
    \/ \E k \in ItemKeys, t \in Expiries : UpdateExpiration(k, clock + t)

CacheSpec == CacheInit /\ [][CacheNext]_cacheVars

-----------------------------------------------------------------------------
\* One key is in front of another in a list.
Before(s, j, k) == \E m, n \in 1 .. Len(s) : m < n /\ s[m] = j /\ s[n] = k

Items == [key : ItemKeys, expireAt : Nat, balance : Balances, invalidAt : Nat]

\* The variables hold items by key, a list of keys and counters.
CacheTypeOK ==
    /\ clock \in 1 .. MaxClock
    /\ DOMAIN cache \subseteq ItemKeys /\ cache \in [DOMAIN cache -> Items]
    /\ \A k \in DOMAIN cache : cache[k].key = k
    /\ ll \in Seq(ItemKeys) /\ recent \in Seq(ItemKeys)
    /\ cacheLen \in Nat /\ evictions \in Nat /\ debtLost \in Nat /\ debtBooked \in Int

\* Map, list and counter describe one set of items: each key is listed once,
\* Each() and eviction walk over the same items and Size() counts them.  The
\* state is well formed.
MapMatchesList ==
    /\ CacheTypeOK
    /\ ToSet(ll) = DOMAIN cache
    /\ IsInjective(ll)
    /\ cacheLen = Cardinality(DOMAIN cache)

\* Eviction takes the least recently used item: every key that stays was
\* added or read after the evicted one.
EvictsLeastRecent ==
    [][\A k \in (DOMAIN cache \ DOMAIN cache') \cap ToSet(recent') :
          \A kept \in DOMAIN cache' : Before(recent', kept, k)]_cacheVars

\* Debt does not vanish unseen: what was booked in the cache is still there
\* or counted as lost by an eviction.
DebtAccounted ==
    debtBooked = debtLost + Cardinality(Debts(cache))
=============================================================================
