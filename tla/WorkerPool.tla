----------------------------- MODULE WorkerPool -----------------------------
(***************************************************************************)
(* The worker pool of workers.go over the life of a node: keys are sharded *)
(* over workers by their hash, each worker serves one command at a time    *)
(* from unbuffered channels, Close() hands every cache to Loader.Save, and *)
(* a restart, possibly with another number of workers, loads it again.     *)
(* What a cache holds for a key is the number of hits applied to it;       *)
(* TokenBucket and LeakyBucket have the algorithms, LRUCache the eviction. *)
(***************************************************************************)
EXTENDS Integers, Sequences, FiniteSets

CONSTANTS
    Keys,
    HashSpace,      \* hashes are 0 .. HashSpace - 1 (2^63 in the code)
    WorkerCounts,   \* the numbers of workers a node may be started with
    Hitters,        \* callers of GetRateLimit
    Adders,         \* callers of AddCacheItem
    KeyOf,          \* the key each caller asks for
    OutSize,        \* capacity of Store's out channel
    MaxRestarts     \* bound

ASSUME PoolAssumption ==
    /\ HashSpace \in Nat \ {0} /\ OutSize \in Nat \ {0} /\ MaxRestarts \in Nat
    /\ WorkerCounts \subseteq 1 .. HashSpace
    /\ IsFiniteSet(Hitters) /\ Hitters \cap Adders = {}
    /\ KeyOf \in [Hitters \cup Adders -> Keys]
    /\ {"idle", "load", "store", "exited"} \cap (Hitters \cup Adders) = {}

Callers == Hitters \cup Adders

\* A value of a caller's own that AddCacheItem stores.
Added == 10

VARIABLES
    hash,      \* the hash of each key
    workers,   \* how many workers the pool has
    caches,    \* each worker's cache: hits per key, 0 is no item
    state,     \* each worker: "idle", a caller it serves, "load", "store", "exited"
    stored,    \* workers whose cache Store has taken
    unsent,    \* keys each storing worker has still to send
    out,       \* Store's out channel
    saved,     \* what Loader.Save has read
    stream,    \* keys Loader.Load has still to deliver
    phase,     \* "load", "run", "store", "closed"
    restarts,
    pc,        \* each caller: "new", "offer", "wait", "ok", "error"
    left,      \* callers whose context is done
    resp,      \* callers whose response channel is filled
    applied    \* history: hits applied to each key

callerVars == <<pc, left, resp>>
storeVars == <<stored, unsent, out, saved, stream, phase, restarts>>
vars == <<hash, workers, caches, state, storeVars, callerVars, applied>>

Empty == [k \in Keys |-> 0]
Indices == UNION {0 .. n - 1 : n \in WorkerCounts}

\* Equal ranges of the hash space; the division leaves a rest.
hashRingStep == HashSpace \div workers
getWorker(k) == hash[k] \div hashRingStep

\* The index a request finds is one of the pool's workers.
InRange(k) == getWorker(k) < workers

Init ==
    /\ hash \in [Keys -> 0 .. HashSpace - 1]
    /\ workers \in WorkerCounts
    /\ caches = [w \in Indices |-> Empty]
    /\ state = [w \in Indices |-> "idle"]
    /\ stored = {} /\ unsent = [w \in Indices |-> {}] /\ out = <<>>
    /\ saved = Empty /\ stream = {} /\ phase = "run" /\ restarts = 0
    /\ pc = [c \in Callers |-> "new"] /\ left = {} /\ resp = {}
    /\ applied = Empty

-----------------------------------------------------------------------------
(* Callers: send the command or leave, await the response or leave.        *)

Goto(c, l) == pc' = [pc EXCEPT ![c] = l]

Call(c) ==
    /\ pc[c] = "new" /\ InRange(KeyOf[c]) /\ phase = "run"
    /\ Goto(c, "offer")
    /\ UNCHANGED <<hash, workers, caches, state, storeVars, left, resp, applied>>

Leave(c) ==
    /\ c \notin left /\ pc[c] \in {"offer", "wait"}
    /\ left' = left \cup {c}
    /\ UNCHANGED <<hash, workers, caches, state, storeVars, pc, resp, applied>>

\* The worker takes the command from its channel.
Take(c) ==
    /\ pc[c] = "offer" /\ state[getWorker(KeyOf[c])] = "idle"
    /\ state' = [state EXCEPT ![getWorker(KeyOf[c])] = c]
    /\ Goto(c, "wait")
    /\ UNCHANGED <<hash, workers, caches, storeVars, left, resp, applied>>

GiveUp(c) ==
    /\ c \in left /\ pc[c] \in {"offer", "wait"}
    /\ Goto(c, "error")
    /\ UNCHANGED <<hash, workers, caches, state, storeVars, left, resp, applied>>

\* GetRateLimit's response channel is buffered.
Answer(c) ==
    /\ c \in Hitters /\ pc[c] = "wait" /\ c \in resp
    /\ Goto(c, "ok")
    /\ UNCHANGED <<hash, workers, caches, state, storeVars, left, resp, applied>>

\* Faulty: a request whose caller left is handled twice.
handleAgain(w, c) ==
    LET k == KeyOf[c]
        n == IF c \in left THEN 2 ELSE 1
    IN  /\ state[w] = c /\ c \in Hitters
        /\ caches' = [caches EXCEPT ![w][k] = @ + n]
        /\ applied' = [applied EXCEPT ![k] = @ + n]
        /\ resp' = resp \cup {c}
        /\ state' = [state EXCEPT ![w] = "idle"]
        /\ UNCHANGED <<hash, workers, storeVars, pc, left>>

\* The algorithm runs whether or not the caller still waits.
handleGetRateLimit(w, c) ==
    LET k == KeyOf[c]
    IN  /\ state[w] = c /\ c \in Hitters
        /\ caches' = [caches EXCEPT ![w][k] = @ + 1]
        /\ applied' = [applied EXCEPT ![k] = @ + 1]
        /\ resp' = resp \cup {c}
        /\ state' = [state EXCEPT ![w] = "idle"]
        /\ UNCHANGED <<hash, workers, storeVars, pc, left>>

\* Faulty: waits for the caller alone.
addAndWait(w, c) ==
    LET k == KeyOf[c]
    IN  /\ state[w] = c /\ c \in Adders
        /\ pc[c] = "wait"
        /\ caches' = [caches EXCEPT ![w][k] = Added]
        /\ applied' = [applied EXCEPT ![k] = Added]
        /\ Goto(c, "ok")
        /\ state' = [state EXCEPT ![w] = "idle"]
        /\ UNCHANGED <<hash, workers, storeVars, left, resp>>

\* The response channel is not: the worker waits for the caller to take the
\* response or to leave.
handleAddCacheItem(w, c) ==
    LET k == KeyOf[c]
    IN  /\ state[w] = c /\ c \in Adders
        /\ caches' = [caches EXCEPT ![w][k] = Added]
        /\ applied' = [applied EXCEPT ![k] = Added]
        /\ \/ pc[c] = "wait" /\ Goto(c, "ok")
           \/ c \in left /\ UNCHANGED pc
        /\ state' = [state EXCEPT ![w] = "idle"]
        /\ UNCHANGED <<hash, workers, storeVars, left, resp>>

-----------------------------------------------------------------------------
(* Store: every worker sends its cache, Loader.Save reads it.              *)

frame == <<hash, workers, callerVars, applied>>

\* Daemon.Close has stopped the servers, and so waited for their handlers; a
\* worker may still be busy with a request whose caller left.
Close ==
    /\ phase = "run"
    /\ \A c \in Callers : pc[c] \notin {"offer", "wait"}
    /\ phase' = "store"
    /\ saved' = Empty
    /\ UNCHANGED <<caches, state, stored, unsent, out, stream, restarts, frame>>

StartStore(w) ==
    /\ phase = "store" /\ w < workers /\ w \notin stored /\ state[w] = "idle"
    /\ state' = [state EXCEPT ![w] = "store"]
    /\ unsent' = [unsent EXCEPT ![w] = {k \in Keys : caches[w][k] > 0}]
    /\ UNCHANGED <<caches, stored, out, saved, stream, phase, restarts, frame>>

SendItem(w, k) ==
    /\ state[w] = "store" /\ k \in unsent[w] /\ Len(out) < OutSize
    /\ out' = Append(out, [key |-> k, hits |-> caches[w][k]])
    /\ unsent' = [unsent EXCEPT ![w] = @ \ {k}]
    /\ UNCHANGED <<caches, state, stored, saved, stream, phase, restarts, frame>>

EndStore(w) ==
    /\ state[w] = "store" /\ unsent[w] = {}
    /\ state' = [state EXCEPT ![w] = "idle"]
    /\ stored' = stored \cup {w}
    /\ UNCHANGED <<caches, unsent, out, saved, stream, phase, restarts, frame>>

\* External: Save keeps what it reads.  Items are sent by reference: a change
\* made meanwhile may or may not be seen.
SaveItem ==
    /\ phase = "store" /\ out # <<>>
    /\ LET item == Head(out)
       IN  \E hits \in {item.hits, caches[getWorker(item.key)][item.key]} :
              saved' = [saved EXCEPT ![item.key] = hits]
    /\ out' = Tail(out)
    /\ UNCHANGED <<caches, state, stored, unsent, stream, phase, restarts, frame>>

\* Faulty: the out channel is closed when the first worker is done.
SaveFirst ==
    /\ phase = "store" /\ out = <<>> /\ stored # {}
    /\ phase' = "closed"
    /\ UNCHANGED <<caches, state, stored, unsent, out, saved, stream, restarts, frame>>

\* Every worker is done, out is closed and read: Save returns, and the pool
\* closes its done channel.
SaveAll ==
    /\ phase = "store" /\ out = <<>> /\ \A w \in 0 .. workers - 1 : w \in stored
    /\ phase' = "closed"
    /\ UNCHANGED <<caches, state, stored, unsent, out, saved, stream, restarts, frame>>

\* An idle worker notices that done is closed.
ExitWorker(w) ==
    /\ phase = "closed" /\ w < workers /\ state[w] = "idle"
    /\ state' = [state EXCEPT ![w] = "exited"]
    /\ UNCHANGED <<caches, storeVars, frame>>

-----------------------------------------------------------------------------
(* Restart and Load.                                                       *)

Restart(n) ==
    /\ phase = "closed" /\ restarts < MaxRestarts
    /\ restarts' = restarts + 1
    /\ workers' = n
    /\ phase' = "load"
    /\ caches' = [w \in Indices |-> Empty]
    /\ state' = [w \in Indices |-> "idle"]
    /\ stored' = {} /\ unsent' = [w \in Indices |-> {}]
    /\ stream' = {k \in Keys : saved[k] > 0}
    /\ UNCHANGED <<hash, out, saved, callerVars, applied>>

\* The first item for a worker ties it up.
TieWorker(k) ==
    /\ phase = "load" /\ k \in stream /\ InRange(k) /\ state[getWorker(k)] = "idle"
    /\ state' = [state EXCEPT ![getWorker(k)] = "load"]
    /\ UNCHANGED <<caches, storeVars, frame>>

\* Faulty: items go back to where the old pool had them.
loadAnywhere(k) ==
    /\ phase = "load" /\ k \in stream
    /\ \E w \in 0 .. workers - 1 :
          /\ state[w] = "load"
          /\ caches' = [caches EXCEPT ![w][k] = saved[k]]
    /\ stream' = stream \ {k}
    /\ UNCHANGED <<state, stored, unsent, out, saved, phase, restarts, frame>>

handleLoad(k) ==
    /\ phase = "load" /\ k \in stream /\ InRange(k) /\ state[getWorker(k)] = "load"
    /\ caches' = [caches EXCEPT ![getWorker(k)][k] = saved[k]]
    /\ stream' = stream \ {k}
    /\ UNCHANGED <<state, stored, unsent, out, saved, phase, restarts, frame>>

\* The load channels are closed and every tied worker has responded.
Loaded ==
    /\ phase = "load" /\ stream = {}
    /\ phase' = "run"
    /\ state' = [w \in Indices |-> "idle"]
    /\ UNCHANGED <<caches, stored, unsent, out, saved, stream, restarts, frame>>

-----------------------------------------------------------------------------
CallerStep(c) == Take(c) \/ GiveUp(c) \/ Answer(c)

WorkerStep(w) ==
    \/ \E c \in Callers : handleGetRateLimit(w, c) \/ handleAddCacheItem(w, c)
    \/ \E k \in Keys : SendItem(w, k)
    \/ StartStore(w) \/ EndStore(w)

Saving == SaveItem \/ SaveAll

Next ==
    \/ \E c \in Callers : Call(c) \/ Leave(c) \/ CallerStep(c)
    \/ \E w \in Indices : WorkerStep(w) \/ ExitWorker(w)
    \/ Close \/ Saving
    \/ \E n \in WorkerCounts : Restart(n)
    \/ \E k \in Keys : TieWorker(k) \/ handleLoad(k)
    \/ Loaded

\* Callers and workers run, Loader reads.  Offers need no stronger fairness:
\* each caller makes one, so a worker is not kept busy for ever.
Fairness ==
    /\ \A c \in Callers : WF_vars(CallerStep(c))
    /\ \A w \in Indices : WF_vars(WorkerStep(w))
    /\ WF_vars(Saving)

Spec == Init /\ [][Next]_vars /\ Fairness

-----------------------------------------------------------------------------
Answers(k) == {c \in Hitters : KeyOf[c] = k /\ pc[c] = "ok"}
HittersOf(k) == {c \in Hitters : KeyOf[c] = k}

\* The variables hold caches, worker and caller states and a channel within
\* its capacity.
TypeOK ==
    /\ hash \in [Keys -> 0 .. HashSpace - 1] /\ workers \in WorkerCounts
    /\ caches \in [Indices -> [Keys -> Nat]]
    /\ state \in [Indices -> Callers \cup {"idle", "load", "store", "exited"}]
    /\ stored \subseteq Indices /\ unsent \in [Indices -> SUBSET Keys]
    /\ out \in Seq([key : Keys, hits : Nat]) /\ Len(out) <= OutSize
    /\ saved \in [Keys -> Nat] /\ stream \subseteq Keys
    /\ phase \in {"load", "run", "store", "closed"}
    /\ pc \in [Callers -> {"new", "offer", "wait", "ok", "error"}]
    /\ resp \subseteq Hitters /\ applied \in [Keys -> Nat]

\* A key lives in the cache of the worker its requests go to and nowhere
\* else, also after a restart with another number of workers.  The state is
\* well formed.
KeyAtItsWorker ==
    /\ TypeOK
    /\ \A w \in Indices, k \in Keys : caches[w][k] > 0 => w = getWorker(k)

\* A request counts once: every answered one has been applied, and one whose
\* caller left no more often than once.
CountedOnce ==
    \A k \in Keys : (\A c \in Adders : KeyOf[c] # k) =>
        /\ Cardinality(Answers(k)) <= applied[k]
        /\ applied[k] <= Cardinality(HittersOf(k))

\* Hits survive a stop and restart: the worker that the requests for a key go
\* to holds all that was ever applied to it.
HitsSurvive ==
    phase = "run" => \A k \in Keys :
        IF InRange(k) THEN caches[getWorker(k)][k] = applied[k] ELSE applied[k] = 0

\* A caller of a running node gets its response or notices that its context
\* is done, so no worker waits for a caller that waits for it; and Close ends.
CallersAndCloseReturn ==
    /\ \A c \in Callers : pc[c] \in {"offer", "wait"} ~> pc[c] \in {"ok", "error"}
    /\ phase = "store" ~> phase = "closed"
=============================================================================
