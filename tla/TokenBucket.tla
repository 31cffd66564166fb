---------------------------- MODULE TokenBucket -----------------------------
(***************************************************************************)
(* One token bucket key on its owner, with a Store behind the cache: the   *)
(* worker applies one request after another, the cache may drop the item   *)
(* at any time (eviction, InvalidAt, restart), and a leaky bucket caller   *)
(* may take the key over.  The Store is external: it keeps a copy of what  *)
(* OnChange hands it and does not return expired items, as store.go asks.  *)
(***************************************************************************)
EXTENDS RateLimitReq

CONSTANTS
    Configs,     \* the [limit, duration] callers send
    Hits,        \* hits values, negative ones are refunds
    Behaviors,   \* sets of behavior flags callers combine
    Skews,       \* how far a client's created_at is off the owner's clock
    MaxTime,     \* bound: the clock stops here
    MaxRemaining,\* bound: refunds stop here
    NoItem       \* no item for the key

ASSUME RequestAssumption ==
    /\ \A c \in Configs : c.limit \in Nat /\ c.duration \in Nat
    /\ Hits \subseteq Int /\ Skews \subseteq Int /\ MaxTime \in Nat

VARIABLES
    now,        \* the owner's clock in milliseconds
    cached,     \* the item in the cache, or NoItem
    store,      \* the Store's copy, or NoItem
    resp,       \* the answer to the last step's request, if it was one
    spent,      \* history: tokens taken in the current window, as the limit counts them
    decision,   \* history: the answer to the bucket's last request that carried hits
    unsaved     \* history: a failed request changed the item and the Store was not told

vars == <<now, cached, store, resp, spent, decision, unsaved>>

Item == [alg : {"TOKEN", "LEAKY"}, limit : Nat, duration : Nat, rem : Nat,
         createdAt : Int, status : {"UNDER_LIMIT", "OVER_LIMIT"}, expireAt : Int]

ASSUME NoItemAssumption == NoItem \notin Item

Request(c, hits, behavior, skew) ==
    [limit |-> c.limit, duration |-> c.duration, hits |-> hits,
     behavior |-> behavior, createdAt |-> now + skew]

-----------------------------------------------------------------------------
(* The algorithm on one item.                                              *)

\* Faulty: never notes the limit it moved to.
RelimitedAgain(t, r) == [t EXCEPT !.rem = Larger(0, @ + r.limit - t.limit)]

\* A changed limit moves the balance by the difference, not below zero.
Relimited(t, r) ==
    IF t.limit = r.limit THEN t
    ELSE [t EXCEPT !.rem = Larger(0, @ + r.limit - t.limit), !.limit = r.limit]

\* A changed duration moves the expiry, which needs a known calendar interval.
NewExpiry(t, r) == IF Gregorian(r) THEN GregorianExpiration(now) ELSE t.createdAt + r.duration

GregorianFails(t, r) == t.duration # r.duration /\ GregorianError(r)

\* The item is over under its new duration: it starts a new window.
Renews(t, r) == t.duration # r.duration /\ NewExpiry(t, r) <= r.createdAt

Retimed(t, r) ==
    IF t.duration = r.duration THEN t
    ELSE IF Renews(t, r)
    THEN [t EXCEPT !.expireAt = r.createdAt + r.duration, !.createdAt = r.createdAt,
                   !.rem = t.limit, !.duration = r.duration]
    ELSE [t EXCEPT !.expireAt = NewExpiry(t, r), !.duration = r.duration]

Outcome(t, status) == [item |-> t, status |-> status]

\* Faulty: a query leaves a stale refusal in a bucket that has tokens again.
KeepsStatus(t, r) ==
    IF r.hits = 0 THEN Outcome(t, IF t.rem = 0 THEN t.status ELSE "UNDER_LIMIT")
    ELSE IF t.rem = 0 /\ r.hits > 0 THEN Outcome([t EXCEPT !.status = "OVER_LIMIT"], "OVER_LIMIT")
    ELSE IF r.hits > t.rem THEN Outcome(t, "OVER_LIMIT")
    ELSE Outcome([t EXCEPT !.rem = t.rem - r.hits], "UNDER_LIMIT")

Charge(t, r) ==
    LET cleared == [t EXCEPT !.status = "UNDER_LIMIT"]
    IN  IF r.hits = 0
        THEN IF t.rem = 0 THEN Outcome(t, t.status) ELSE Outcome(cleared, "UNDER_LIMIT")
        ELSE IF t.rem = 0 /\ r.hits > 0
        THEN Outcome([t EXCEPT !.status = "OVER_LIMIT"], "OVER_LIMIT")
        ELSE IF r.hits <= t.rem
        THEN Outcome([cleared EXCEPT !.rem = t.rem - r.hits], "UNDER_LIMIT")
        ELSE IF HasBehavior(r, "DRAIN_OVER_LIMIT")
        THEN Outcome([cleared EXCEPT !.rem = 0], "OVER_LIMIT")
        ELSE Outcome(cleared, "OVER_LIMIT")

\* A first request beyond the limit is refused and leaves a full bucket.
NewItem(r) ==
    LET over == r.hits > r.limit
    IN  Outcome([alg |-> "TOKEN", limit |-> r.limit, duration |-> r.duration,
                 rem |-> IF over THEN r.limit ELSE r.limit - r.hits,
                 createdAt |-> r.createdAt, status |-> "UNDER_LIMIT",
                 expireAt |-> IF Gregorian(r) THEN GregorianExpiration(now)
                                              ELSE r.createdAt + r.duration],
                IF over THEN "OVER_LIMIT" ELSE "UNDER_LIMIT")

-----------------------------------------------------------------------------
(* The handler: find the item, apply the request, tell the Store.          *)

IsLive(i) == i # NoItem /\ i.expireAt >= now

\* GetItem drops an expired entry; on a miss the Store is asked.
Found == IF IsLive(cached) THEN cached ELSE IF IsLive(store) THEN store ELSE NoItem

\* Tokens a request takes out of a balance: the hits admitted, or what a drain discards.
Taken(rem, r, status) ==
    IF status = "UNDER_LIMIT" THEN r.hits
    ELSE IF HasBehavior(r, "DRAIN_OVER_LIMIT") THEN rem ELSE 0

Decided(r, status, before) == IF r.hits = 0 THEN before ELSE status

Init ==
    /\ now = 0
    /\ cached = NoItem /\ store = NoItem
    /\ resp = "NONE"
    /\ spent = 0 /\ decision = "UNDER_LIMIT" /\ unsaved = FALSE

Tick ==
    /\ now < MaxTime
    /\ now' = now + 1
    /\ resp' = "NONE"
    /\ UNCHANGED <<cached, store, spent, decision, unsaved>>

\* A documented reset removes the item everywhere and answers UNDER_LIMIT.
Reset(r) ==
    /\ Found # NoItem /\ HasBehavior(r, "RESET_REMAINING")
    /\ cached' = NoItem /\ store' = NoItem
    /\ resp' = "UNDER_LIMIT"
    /\ spent' = 0 /\ decision' = "UNDER_LIMIT" /\ unsaved' = FALSE
    /\ UNCHANGED now

\* No item, or one of the other algorithm, which is removed everywhere first.
tokenBucketNewItem(r) ==
    LET out == NewItem(r)
        switched == Found # NoItem
    IN  /\ Found # NoItem => Found.alg = "LEAKY" /\ ~HasBehavior(r, "RESET_REMAINING")
        /\ IF GregorianError(r)
           THEN /\ cached' = NoItem
                /\ store' = IF switched THEN NoItem ELSE store
                /\ resp' = "ERROR"
                /\ UNCHANGED <<spent, decision>>
           ELSE /\ cached' = out.item /\ store' = out.item
                /\ resp' = out.status
                /\ spent' = IF out.status = "UNDER_LIMIT" THEN r.hits ELSE 0
                /\ decision' = Decided(r, out.status, "UNDER_LIMIT")
        /\ unsaved' = FALSE
        /\ UNCHANGED now

\* Faulty: a refusal or a query returns before the Store is told.
tellOnAdmission(r) ==
    LET out == Charge(Retimed(Relimited(Found, r), r), r)
    IN  /\ Found # NoItem /\ Found.alg = "TOKEN" /\ ~HasBehavior(r, "RESET_REMAINING")
        /\ ~GregorianFails(Relimited(Found, r), r)
        /\ cached' = out.item
        /\ store' = IF out.status = "UNDER_LIMIT" THEN out.item ELSE store
        /\ resp' = out.status
        /\ unsaved' = FALSE
        /\ UNCHANGED <<now, spent, decision>>

\* A token bucket item: limit, duration, hits, then OnChange.
tokenBucketExisting(r) ==
    LET t == Relimited(Found, r)
        u == Retimed(t, r)
        out == Charge(u, r)
        used == IF Renews(t, r) THEN 0 ELSE Smaller(spent, t.limit)
    IN  /\ Found # NoItem /\ Found.alg = "TOKEN" /\ ~HasBehavior(r, "RESET_REMAINING")
        /\ ~GregorianFails(t, r)
        /\ out.item.rem <= MaxRemaining
        /\ cached' = out.item /\ store' = out.item
        /\ resp' = out.status
        /\ spent' = used + Taken(u.rem, r, out.status)
        /\ decision' = Decided(r, out.status, decision)
        /\ unsaved' = FALSE
        /\ UNCHANGED now

\* An unknown calendar interval ends the request after the limit was applied
\* to the cached item and before the Store is told.
FailExisting(r) ==
    LET t == Relimited(Found, r)
    IN  /\ Found # NoItem /\ Found.alg = "TOKEN" /\ ~HasBehavior(r, "RESET_REMAINING")
        /\ GregorianFails(t, r)
        /\ cached' = t
        /\ resp' = "ERROR"
        /\ spent' = Smaller(spent, t.limit)
        /\ unsaved' = (unsaved \/ t # Found)
        /\ UNCHANGED <<now, store, decision>>

\* A leaky bucket request finds no item of its algorithm: it removes what is
\* there and adds its own.
SwitchToLeaky(c) ==
    LET i == [alg |-> "LEAKY", limit |-> c.limit, duration |-> c.duration, rem |-> 0,
              createdAt |-> now, status |-> "UNDER_LIMIT", expireAt |-> now + c.duration]
    IN  /\ Found # NoItem => Found.alg = "TOKEN"
        /\ cached' = i /\ store' = i
        /\ resp' = "NONE"
        /\ spent' = 0 /\ decision' = "UNDER_LIMIT" /\ unsaved' = FALSE
        /\ UNCHANGED now

\* Eviction, an InvalidAt set by the Store, or a restart.
LoseItem ==
    /\ cached # NoItem
    /\ cached' = NoItem
    /\ resp' = "NONE"
    /\ unsaved' = FALSE
    /\ UNCHANGED <<now, store, spent, decision>>

tokenBucket(r) ==
    Reset(r) \/ tokenBucketNewItem(r) \/ tokenBucketExisting(r) \/ FailExisting(r)

Next ==
    \/ Tick
    \/ LoseItem
    \/ \E c \in Configs : SwitchToLeaky(c)
    \/ \E c \in Configs, hits \in Hits, behavior \in Behaviors, skew \in Skews :
          tokenBucket(Request(c, hits, behavior, skew))

Spec == Init /\ [][Next]_vars

-----------------------------------------------------------------------------
\* The variables hold a clock, well-formed items and answers; a balance is
\* never negative (the floor at zero when a limit is lowered).
TypeOK ==
    /\ now \in Nat
    /\ cached \in Item \cup {NoItem} /\ store \in Item \cup {NoItem}
    /\ resp \in {"NONE", "ERROR", "UNDER_LIMIT", "OVER_LIMIT"}
    /\ spent \in Int /\ decision \in {"UNDER_LIMIT", "OVER_LIMIT"}
    /\ unsaved \in BOOLEAN

\* The Store holds the current state of every cached item (store.go: OnChange
\* is called after a rate limit item is updated): losing the cache at any
\* moment loses no admitted hit.  The one exception is a limit change applied
\* by a request that then fails, until the next request tells the Store.  The
\* state is well formed.
StoreMirrorsCache == TypeOK /\ (IsLive(cached) /\ ~unsaved => store = cached)

\* A window never admits more than its limit, across limit and duration
\* changes, drains, refunds, renewals, evictions and reloads from the Store.
WindowBudget == Found # NoItem /\ Found.alg = "TOKEN" => spent + Found.rem <= Found.limit

\* A query answers OVER_LIMIT only while the last request that carried hits
\* was refused: a refusal never resurfaces after a limit increase, a renewal
\* or an admission (algorithms.go, "clear it or it resurfaces").
NoStaleRefusal ==
    Found # NoItem /\ Found.alg = "TOKEN" /\ Found.status = "OVER_LIMIT" /\ Found.rem = 0
    => decision = "OVER_LIMIT"
=============================================================================
