---------------------------- MODULE LeakyBucket -----------------------------
(***************************************************************************)
(* One leaky bucket key on its owner: the worker applies one request after *)
(* another (workers.go dispatch), plain and max_wait callers share the     *)
(* key, the clock advances, and the item may be lost to eviction or an     *)
(* algorithm switch.                                                       *)
(***************************************************************************)
EXTENDS LeakyAlgorithm

CONSTANTS
    Requests,   \* what callers send: limit, duration, burst, hits (negative ones are
                \* refunds), maxWait (0 is plain), behavior flags, and skew, how far the
                \* client's created_at is off the owner's clock
    MaxTime,    \* bound: the clock stops here
    NoItem      \* no bucket is cached for the key

\* A usable rate leaks at least one unit per millisecond.
WellFormed(r) ==
    /\ r.limit \in Nat /\ r.burst \in Nat /\ r.duration \in Nat \ {0}
    /\ r.hits \in Int /\ r.maxWait \in Int /\ r.skew \in Int
    /\ r.limit > 0 => Speed(r.limit, r.duration) >= 1

ASSUME RequestAssumption == MaxTime \in Nat /\ \A r \in Requests : WellFormed(r)

VARIABLES
    now,       \* the owner's clock in milliseconds
    item,      \* the cached bucket, or NoItem
    resp,      \* the answer to the last step's request, if it was one
    frontier   \* history: the latest slot granted and not forgotten

vars == <<now, item, resp, frontier>>

Bucket == [limit : Int, duration : Int, burst : Int,
           rem : Int, updatedAt : Int, expireAt : Int]

ASSUME NoItemAssumption == NoItem \notin Bucket

NoResp == [status |-> "NONE", retryAfter |-> 0, forgave |-> FALSE]

Failed == [NoResp EXCEPT !.status = "ERROR"]

Statuses == {"NONE", "ERROR", "UNDER_LIMIT", "OVER_LIMIT", "SCHEDULED", "NEVER_FITS"}

\* A request as it reaches the owner, stamped by its client.
Request(q) ==
    [limit |-> q.limit, duration |-> q.duration, burst |-> q.burst, hits |-> q.hits,
     maxWait |-> q.maxWait, behavior |-> q.behavior, createdAt |-> now + q.skew]

-----------------------------------------------------------------------------
Init ==
    /\ now = 0
    /\ item = NoItem
    /\ resp = NoResp
    /\ frontier = 0

Tick ==
    /\ now < MaxTime
    /\ now' = now + 1
    /\ resp' = NoResp
    /\ UNCHANGED <<item, frontier>>

\* GetItem drops an expired item before the algorithm sees it.
Cached == item # NoItem /\ item.expireAt >= now

\* Where the answer puts the caller: at its slot, now, or nowhere.  A reset
\* forgets the slots granted so far.
Advance(r, ans, wasCached) ==
    IF wasCached /\ HasBehavior(r, "RESET_REMAINING") THEN 0
    ELSE IF ans.status = "SCHEDULED" THEN now + ans.retryAfter
    ELSE IF ans.status = "UNDER_LIMIT" /\ r.hits > 0 THEN now
    ELSE frontier

\* A request the owner rejects before any bucket is read.
Reject(r) ==
    /\ ~validateMaxWait(r)
    /\ resp' = Failed
    /\ UNCHANGED <<now, item, frontier>>

\* An unknown calendar interval: looked up, dropped if expired, not applied.
FailGregorian(r) ==
    /\ validateMaxWait(r) /\ GregorianError(r)
    /\ item' = IF Cached THEN item ELSE NoItem
    /\ resp' = Failed
    /\ UNCHANGED <<now, frontier>>

\* What the algorithm makes of a request, on the cached bucket or on none.
Applied(q) ==
    IF Cached THEN OnExisting(item, q, now) ELSE leakyBucketNewItem(NoItem, q, now)

leakyBucket(r) ==
    /\ validateMaxWait(r) /\ ~GregorianError(r)
    /\ \E q \in {DefaultBurst(r)} : \E ans \in {Applied(q)} :
        /\ item' = ans.bucket
        /\ resp' = [status |-> ans.status, retryAfter |-> ans.retryAfter,
                    forgave |-> ans.forgave]
        /\ frontier' = Advance(q, ans, Cached)
    /\ UNCHANGED now

\* Eviction by the LRU, a restart, or a token bucket request on the key.
LoseItem ==
    /\ item # NoItem
    /\ item' = NoItem
    /\ resp' = NoResp
    /\ frontier' = 0
    /\ UNCHANGED now

Next ==
    \/ Tick
    \/ LoseItem
    \/ \E q \in Requests :
          Reject(Request(q)) \/ FailGregorian(Request(q)) \/ leakyBucket(Request(q))

Spec == Init /\ [][Next]_vars

-----------------------------------------------------------------------------
\* The millisecond in which the balance of a bucket in debt is back at zero.
ClearAt(b) == b.updatedAt + CeilDiv(-b.rem, StoredSpeed(b))

InDebt == item # NoItem /\ item.rem < 0

\* The variables hold a clock, a well-formed bucket or none, and an answer;
\* a balance never exceeds the burst (algorithms.go, "Clamp after the leak").
TypeOK ==
    /\ now \in Nat
    /\ item \in Bucket \cup {NoItem}
    /\ item # NoItem => item.burst >= 0 /\ item.rem <= Unit * item.burst
    /\ resp \in [status : Statuses, retryAfter : Nat, forgave : BOOLEAN]
    /\ frontier \in Int

\* An item in debt outlives its debt: the cache never expires a bucket below
\* zero before its balance would be back at burst, whatever configs, bursts,
\* refunds, drains and calendar requests hit the key meanwhile.
DebtOutlived == InDebt => item.expireAt >= fullAt(item, StoredSpeed(item))

\* Debt is bounded by the ceiling: booked debt is always owed at a usable
\* rate and clears within one wait ceiling of the present.  The state is well
\* formed.
DebtWithinCeiling ==
    /\ TypeOK
    /\ InDebt => ~unusableRate(StoredSpeed(item)) /\ ClearAt(item) <= now + Ceiling

\* Every granted slot the bucket still knows lies inside its debt, and
\* without debt no granted slot lies ahead: the balance below zero is the
\* whole queue of bookings.
DebtIsTheQueue ==
    IF InDebt THEN frontier <= ClearAt(item) ELSE frontier <= now

\* The owner keeps the promise of SlotQueue: slots in processing order, none
\* before the present or past the ceiling, none forgotten by expiry or credit.
SQ == INSTANCE SlotQueue WITH Ceiling <- Ceiling, now <- now, frontier <- frontier
SlotOrder == SQ!Spec

\* Only leak, a counted reset or a state loss raise a negative balance: a
\* request that does not count as forgiving the debt never moves the moment
\* it clears to an earlier one.
DebtOnlyPaidByLeak ==
    [][ InDebt /\ ClearAt(item) > now /\ resp'.status # "NONE" /\ ~resp'.forgave
        => item' # NoItem /\ item'.rem < 0 /\ ClearAt(item') >= ClearAt(item) ]_vars

\* A refusal never charges: OVER_LIMIT and NEVER_FITS to a max_wait request
\* leave the moment the debt clears where it was, also when the request
\* changes limit, duration or burst.
RefusalChargesNothing ==
    [][ InDebt /\ ClearAt(item) > now
        /\ (resp'.status = "NEVER_FITS" \/ resp'.retryAfter > 0)
        /\ resp'.status # "SCHEDULED"
        => item' # NoItem /\ item'.rem < 0 /\ ClearAt(item') = ClearAt(item) ]_vars
=============================================================================
