-------------------------- MODULE WorkerPoolProofs --------------------------
(***************************************************************************)
(* Proofs about WorkerPool for any keys, hashes, numbers of workers before *)
(* and after a restart, callers and channel capacity.                      *)
(***************************************************************************)
EXTENDS WorkerPool, FiniteSetTheorems, SequenceTheorems, TLAPS

USE PoolAssumption

-----------------------------------------------------------------------------
(* The inductive invariant.                                                *)

\* A key is served by one of the pool's workers, or by none.
Home(w, k) == w = getWorker(k) /\ InRange(k)

\* Nobody calls a pool that does not run.  A worker serves a caller only while
\* the pool runs or its cache has not been stored, and has not answered it.
Serving ==
    /\ \A c \in Callers : pc[c] \in {"offer", "wait"} => phase = "run" /\ InRange(KeyOf[c])
    /\ \A w \in Indices, c \in Callers : state[w] = c =>
          /\ phase \in {"run", "store"} /\ w \notin stored
          /\ Home(w, KeyOf[c])
          /\ pc[c] \in {"wait", "error"} /\ c \notin resp

\* What workers, Store and Load do in each phase.
Phases ==
    /\ \A w \in Indices :
          /\ state[w] = "store" => phase = "store" /\ w \notin stored /\ w < workers
          /\ state[w] = "load" => phase = "load"
    /\ phase \in {"run", "load"} => stored = {}
    /\ phase # "store" => out = <<>>

\* A caller that has a response has been applied: the hits of a key nobody
\* adds are the responses made.
Applied(k) == {c \in Hitters : KeyOf[c] = k /\ c \in resp}
Counted ==
    /\ \A c \in Hitters : /\ pc[c] \in {"new", "offer"} => c \notin resp
                          /\ pc[c] = "ok" => c \in resp
    /\ \A k \in Keys : (\A c \in Adders : KeyOf[c] # k) => applied[k] = Cardinality(Applied(k))

Located == \A w \in Indices, k \in Keys : caches[w][k] > 0 => Home(w, k)

\* The worker of a key holds what was applied to it; while loading, once the
\* key has been delivered.
Held(k) == IF InRange(k) THEN caches[getWorker(k)][k] = applied[k] ELSE applied[k] = 0
Kept == \A k \in Keys : (phase = "load" /\ k \in stream) \/ Held(k)

\* The worker has handed over its item for the key.
Sent(k) ==
    LET w == getWorker(k)
    IN  w \in stored \/ (state[w] = "store" /\ k \notin unsent[w])

\* What has been handed over is on its way or saved, at its final value; what
\* was never applied is not saved.
Saved ==
    /\ phase = "store" =>
          /\ \A w \in Indices : state[w] = "store" => \A k \in unsent[w] : caches[w][k] > 0
          /\ \A i \in 1 .. Len(out) : LET k == out[i].key
                                      IN  InRange(k) /\ Sent(k) /\ out[i].hits = applied[k]
          /\ \A k \in Keys : /\ applied[k] = 0 => saved[k] = 0
                             /\ applied[k] > 0 /\ Sent(k) =>
                                   \/ \E i \in 1 .. Len(out) : out[i].key = k
                                   \/ saved[k] = applied[k]
    /\ phase \in {"closed", "load"} => saved = applied

Inv == TypeOK /\ Serving /\ Phases /\ Counted /\ Located /\ Kept /\ Saved

-----------------------------------------------------------------------------
(* Workers and keys.                                                       *)

\* The index of a key is natural: there are at least as many hashes as
\* workers.
LEMMA IndexOf ==
    ASSUME NEW h \in Nat, NEW n \in WorkerCounts
    PROVE  h \div (HashSpace \div n) \in Nat
<1>1. n \in 1 .. HashSpace
  BY Zenon
<1>2. HashSpace \div n \in Nat \ {0}
  BY <1>1, Z3
<1> QED BY <1>2

LEMMA WorkerIndex ==
    ASSUME TypeOK, NEW k \in Keys
    PROVE  /\ getWorker(k) \in Nat
           /\ InRange(k) => getWorker(k) \in Indices
<1>1. hash[k] \in Nat /\ workers \in WorkerCounts /\ workers \in 1 .. HashSpace
  BY DEF TypeOK
<1>3. getWorker(k) \in Nat
  BY <1>1, IndexOf, Zenon DEF getWorker, hashRingStep
<1>4. InRange(k) => getWorker(k) \in 0 .. workers - 1
  BY <1>1, <1>3 DEF InRange
<1> QED BY <1>1, <1>3, <1>4, Zenon DEF Indices

\* Where a key goes changes only with the number of workers.
LEMMA SamePlace ==
    ASSUME UNCHANGED <<hash, workers>>
    PROVE  \A k \in Keys : /\ getWorker(k)' = getWorker(k) /\ InRange(k)' = InRange(k)
                           /\ \A w : Home(w, k)' = Home(w, k)
BY Zenon DEF getWorker, InRange, hashRingStep, Home

\* The channel holds items of keys.
LEMMA OutKeys ==
    ASSUME NEW s \in Seq([key : Keys, hits : Nat])
    PROVE  \A i \in 1 .. Len(s) : s[i].key \in Keys
<1> SUFFICES ASSUME NEW i \in 1 .. Len(s)
             PROVE  s[i].key \in Keys
  BY Zenon
<1>1. s[i] \in [key : Keys, hits : Nat]
  BY ElementOfSeq, Zenon
<1> QED BY <1>1, Zenon

\* Hits and responses are unchanged, and only a caller with a response
\* returns it.
LEMMA CountsUntouched ==
    ASSUME Counted, UNCHANGED <<resp, applied>>,
           \A c \in Hitters : /\ pc'[c] \in {"new", "offer"} => pc[c] \in {"new", "offer"}
                              /\ pc'[c] = "ok" => pc[c] = "ok" \/ c \in resp
    PROVE  Counted'
<1>1. \A k \in Keys : Applied(k)' = Applied(k)
  BY Zenon DEF Applied
<1> QED BY <1>1, Zenon DEF Counted

\* A step that leaves the caches and the store alone, and no worker begins or
\* ends storing.
LEMMA StoreUntouched ==
    ASSUME Inv, UNCHANGED <<hash, workers, caches, applied, storeVars>>,
           state' \in [Indices -> Callers \cup {"idle", "load", "store", "exited"}],
           \A w \in Indices : state'[w] = "store" <=> state[w] = "store"
    PROVE  Located' /\ Kept' /\ Saved'
<1>1. Located' /\ Kept'
  BY SamePlace, Zenon DEF Inv, Located, Kept, Held, storeVars
<1>2. \A k \in Keys : InRange(k) => Sent(k)' = Sent(k)
  BY SamePlace, WorkerIndex, Zenon DEF Inv, TypeOK, Sent, storeVars
<1>3. \A k \in Keys : applied[k] > 0 => InRange(k) \/ phase = "load"
  BY DEF Inv, Kept, Held
<1>4. \A i \in 1 .. Len(out) : out[i].key \in Keys
  BY OutKeys, Zenon DEF Inv, TypeOK
<1>5. Saved'
  <2>1. /\ phase' = phase /\ out' = out /\ saved' = saved /\ unsent' = unsent
        /\ applied' = applied /\ caches' = caches
    BY Zenon DEF storeVars
  <2>2. \A k \in Keys : InRange(k)' = InRange(k)
    BY SamePlace, Zenon
  <2> QED BY <1>2, <1>3, <1>4, <2>1, <2>2, Zenon DEF Inv, Saved
<1> QED BY <1>1, <1>5, Zenon

-----------------------------------------------------------------------------
(* Steps of the callers.                                                   *)

LEMMA CallStep == ASSUME Inv, NEW c \in Callers, Call(c) PROVE Inv'
<1> USE DEF Call, Goto
<1>1. TypeOK'
  BY Zenon DEF Inv, TypeOK, storeVars
<1>2. Serving' /\ Phases'
  BY SamePlace DEF Inv, TypeOK, Serving, Phases, storeVars, Callers
<1>4. Counted'
  BY CountsUntouched, Zenon DEF Inv, TypeOK, Callers
<1>3. Located' /\ Kept' /\ Saved'
  BY StoreUntouched, Zenon DEF Inv, TypeOK
<1> QED BY <1>1, <1>2, <1>3, <1>4, Zenon DEF Inv

LEMMA LeaveStep == ASSUME Inv, NEW c \in Callers, Leave(c) PROVE Inv'
<1> USE DEF Leave
<1>1. TypeOK'
  BY Zenon DEF Inv, TypeOK, storeVars
<1>2. Serving' /\ Phases'
  BY SamePlace DEF Inv, TypeOK, Serving, Phases, storeVars, Callers
<1>4. Counted'
  BY CountsUntouched, Zenon DEF Inv, TypeOK, Callers
<1>3. Located' /\ Kept' /\ Saved'
  BY StoreUntouched, Zenon DEF Inv, TypeOK
<1> QED BY <1>1, <1>2, <1>3, <1>4, Zenon DEF Inv

LEMMA TakeStep == ASSUME Inv, NEW c \in Callers, Take(c) PROVE Inv'
<1> DEFINE w == getWorker(KeyOf[c])
<1>0. KeyOf[c] \in Keys /\ phase = "run" /\ InRange(KeyOf[c]) /\ w \in Indices
  BY WorkerIndex, Zenon DEF Inv, Serving, Take, Callers
<1>1. TypeOK'
  BY <1>0, Zenon DEF Inv, TypeOK, storeVars, Take, Goto
<1>2. Serving'
  BY <1>0, SamePlace, SMTT(30) DEF Inv, TypeOK, Serving, Phases, Counted, Home, storeVars, Take, Goto, Callers
<1>3. Phases' /\ Counted'
  <2>1. Phases'
    BY <1>0, Zenon DEF Inv, TypeOK, Phases, storeVars, Take, Callers
  <2>2. Counted'
    BY CountsUntouched, Zenon DEF Inv, TypeOK, Take, Goto, Callers
  <2> QED BY <2>1, <2>2, Zenon
<1>4. Located' /\ Kept' /\ Saved'
  BY <1>0, <1>1, StoreUntouched, Zenon DEF Inv, TypeOK, Take, Callers
<1> QED BY <1>1, <1>2, <1>3, <1>4, Zenon DEF Inv

LEMMA GiveUpStep == ASSUME Inv, NEW c \in Callers, GiveUp(c) PROVE Inv'
<1> USE DEF GiveUp, Goto
<1>1. TypeOK'
  BY Zenon DEF Inv, TypeOK, storeVars
<1>2. Serving' /\ Phases'
  BY SamePlace DEF Inv, TypeOK, Serving, Phases, storeVars, Callers
<1>4. Counted'
  BY CountsUntouched, Zenon DEF Inv, TypeOK, Callers
<1>3. Located' /\ Kept' /\ Saved'
  BY StoreUntouched, Zenon DEF Inv, TypeOK
<1> QED BY <1>1, <1>2, <1>3, <1>4, Zenon DEF Inv

LEMMA AnswerStep == ASSUME Inv, NEW c \in Callers, Answer(c) PROVE Inv'
<1> USE DEF Answer, Goto
<1>1. TypeOK'
  BY Zenon DEF Inv, TypeOK, storeVars
<1>2. Serving' /\ Phases'
  BY SamePlace DEF Inv, TypeOK, Serving, Phases, storeVars, Callers
<1>4. Counted'
  BY CountsUntouched, Zenon DEF Inv, TypeOK, Callers
<1>3. Located' /\ Kept' /\ Saved'
  BY StoreUntouched, Zenon DEF Inv, TypeOK
<1> QED BY <1>1, <1>2, <1>3, <1>4, Zenon DEF Inv

-----------------------------------------------------------------------------
(* Steps of the workers.                                                   *)

\* Where a worker that serves a caller is.
LEMMA Serves ==
    ASSUME Inv, NEW w \in Indices, NEW c \in Callers, state[w] = c
    PROVE  /\ phase \in {"run", "store"} /\ w \notin stored /\ w = getWorker(KeyOf[c])
           /\ InRange(KeyOf[c]) /\ pc[c] \in {"wait", "error"} /\ c \notin resp
           /\ KeyOf[c] \in Keys /\ caches[w][KeyOf[c]] = applied[KeyOf[c]]
           /\ state[w] \notin {"idle", "load", "store", "exited"}
<1>1. /\ phase \in {"run", "store"} /\ w \notin stored /\ w = getWorker(KeyOf[c])
      /\ InRange(KeyOf[c]) /\ pc[c] \in {"wait", "error"} /\ c \notin resp
  BY Zenon DEF Inv, Serving, Home
<1>2. KeyOf[c] \in Keys /\ state[w] \notin {"idle", "load", "store", "exited"}
  BY Zenon DEF Callers
<1>3. Held(KeyOf[c])
  BY <1>1, <1>2, Zenon DEF Inv, Kept
<1> QED BY <1>1, <1>2, <1>3, Zenon DEF Held

\* A worker that serves a request writes the item of the request's key, which
\* it has not handed to Store.
LEMMA Served ==
    ASSUME Inv, NEW w \in Indices, NEW c \in Callers, state[w] = c, NEW n \in Nat \ {0},
           caches' = [caches EXCEPT ![w][KeyOf[c]] = n], applied' = [applied EXCEPT ![KeyOf[c]] = n],
           state' = [state EXCEPT ![w] = "idle"], UNCHANGED <<hash, workers, storeVars>>
    PROVE  Phases' /\ Located' /\ Kept' /\ Saved'
<1> DEFINE key == KeyOf[c]
<1>1. /\ phase \in {"run", "store"} /\ w \notin stored /\ w = getWorker(key)
      /\ InRange(key) /\ key \in Keys /\ state[w] \notin {"idle", "load", "store", "exited"}
  BY Serves, Zenon
<1>2. /\ phase' = phase /\ out' = out /\ saved' = saved /\ unsent' = unsent
      /\ stored' = stored /\ stream' = stream
  BY Zenon DEF storeVars
<1>3. \A k \in Keys : /\ getWorker(k)' = getWorker(k) /\ InRange(k)' = InRange(k)
                      /\ \A v : Home(v, k)' = Home(v, k)
  BY SamePlace, Zenon
<1>4. \A v \in Indices, k \in Keys :
         caches'[v][k] = IF v = w /\ k = key THEN n ELSE caches[v][k]
  BY <1>1, Zenon DEF Inv, TypeOK
<1>5. \A k \in Keys : applied'[k] = IF k = key THEN n ELSE applied[k]
  BY <1>1, Zenon DEF Inv, TypeOK
<1>6. \A v \in Indices : state'[v] = IF v = w THEN "idle" ELSE state[v]
  BY Zenon DEF Inv, TypeOK
<1> HIDE DEF key
<1>7. Phases'
  BY <1>2, <1>6 DEF Inv, Phases
<1>8. Located'
  BY <1>1, <1>3, <1>4 DEF Inv, Located, Home
<1>9. Kept'
  <2> SUFFICES ASSUME NEW k \in Keys PROVE Held(k)'
    BY Zenon DEF Kept
  <2>1. Held(k) /\ (InRange(k) => getWorker(k) \in Indices)
    BY <1>1, WorkerIndex, Zenon DEF Inv, Kept
  <2> QED BY <1>1, <1>3, <1>4, <1>5, <2>1 DEF Held
<1>10. \A k \in Keys : InRange(k) => Sent(k)' = Sent(k) /\ (Sent(k) => k # key)
  BY <1>1, <1>2, <1>3, <1>6, WorkerIndex DEF Inv, Sent
<1>11. Saved'
  <2>1. \A i \in 1 .. Len(out) : out[i].key \in Keys
    BY OutKeys, Zenon DEF Inv, TypeOK
  <2>2. \A k \in Keys : applied[k] > 0 => InRange(k)
    BY <1>1 DEF Inv, Kept, Held
  <2>3. phase = "store" => \A v \in Indices : state'[v] = "store" => \A k \in unsent'[v] : caches'[v][k] > 0
    BY <1>2, <1>4, <1>6, Zenon DEF Inv, TypeOK, Saved
  <2>4. phase = "store" => \A i \in 1 .. Len(out), k \in Keys : out[i].key = k =>
           InRange(k)' /\ Sent(k)' /\ out[i].hits = applied'[k]
    BY <1>3, <1>5, <1>10 DEF Inv, Saved
  <2>5. phase = "store" => \A k \in Keys :
           /\ applied'[k] = 0 => saved[k] = 0
           /\ applied'[k] > 0 /\ Sent(k)' => (\E i \in 1 .. Len(out) : out[i].key = k) \/ saved[k] = applied'[k]
    BY <1>1, <1>5, <1>10, <2>2, Zenon DEF Inv, Saved
  <2> QED BY <1>1, <1>2, <2>1, <2>3, <2>4, <2>5 DEF Saved
<1> QED BY <1>7, <1>8, <1>9, <1>11, Zenon

\* A worker becomes free, and only its caller is answered.
LEMMA ServingKept ==
    ASSUME Inv, NEW w \in Indices, NEW c \in Callers, state[w] = c,
           state' = [state EXCEPT ![w] = "idle"], resp' \in {resp, resp \cup {c}},
           pc' \in {pc, [pc EXCEPT ![c] = "ok"]},
           UNCHANGED <<hash, workers, phase, stored>>
    PROVE  Serving'
<1>1. \A k \in Keys : InRange(k)' = InRange(k) /\ \A v : Home(v, k)' = Home(v, k)
  BY SamePlace, Zenon
<1>2. \A a \in Callers : KeyOf[a] \in Keys /\ a # "idle"
  BY Zenon DEF Callers
<1>3. \A v \in Indices : state'[v] = IF v = w THEN "idle" ELSE state[v]
  BY Zenon DEF Inv, TypeOK
<1>4. \A v \in Indices : state[v] = c => v = w
  BY Serves
<1>5. \A a \in Callers : /\ a # c => pc'[a] = pc[a] /\ (a \in resp' <=> a \in resp)
                         /\ pc'[a] \in {"offer", "wait"} => pc[a] \in {"offer", "wait"}
  BY Zenon DEF Inv, TypeOK
<1>6. \A a \in Callers : pc'[a] \in {"offer", "wait"} => phase' = "run" /\ InRange(KeyOf[a])'
  BY <1>1, <1>2, <1>5, Zenon DEF Inv, Serving
<1>7. ASSUME NEW v \in Indices, NEW a \in Callers, state'[v] = a
      PROVE  /\ phase' \in {"run", "store"} /\ v \notin stored' /\ Home(v, KeyOf[a])'
             /\ pc'[a] \in {"wait", "error"} /\ a \notin resp'
  <2>1. v # w /\ state[v] = a /\ a # c
    BY <1>2, <1>3, <1>4, <1>7, Zenon
  <2>2. /\ phase \in {"run", "store"} /\ v \notin stored /\ Home(v, KeyOf[a])
        /\ pc[a] \in {"wait", "error"} /\ a \notin resp
    BY <2>1, Zenon DEF Inv, Serving
  <2> QED BY <1>1, <1>2, <1>5, <2>1, <2>2, Zenon
<1> QED BY <1>6, <1>7, Zenon DEF Serving

LEMMA GetRateLimitStep ==
    ASSUME Inv, NEW w \in Indices, NEW c \in Callers, handleGetRateLimit(w, c) PROVE Inv'
<1> DEFINE key == KeyOf[c]
<1>1. /\ state[w] = c /\ c \in Hitters /\ resp' = resp \cup {c}
      /\ caches' = [caches EXCEPT ![w][key] = @ + 1] /\ applied' = [applied EXCEPT ![key] = @ + 1]
      /\ state' = [state EXCEPT ![w] = "idle"] /\ UNCHANGED <<hash, workers, storeVars, pc, left>>
  BY Zenon DEF handleGetRateLimit
<1>2. /\ w = getWorker(key) /\ pc[c] \in {"wait", "error"} /\ c \notin resp /\ key \in Keys
      /\ caches[w][key] = applied[key] /\ applied[key] \in Nat
  BY <1>1, Serves, Zenon DEF Inv, TypeOK
<1>3. TypeOK'
  BY <1>1, <1>2 DEF Inv, TypeOK, storeVars
<1>4. Serving'
  BY <1>1, ServingKept, Zenon DEF Inv, TypeOK, Callers, storeVars
<1>5. Phases' /\ Located' /\ Kept' /\ Saved'
  <2>1. applied[key] + 1 \in Nat \ {0} /\ caches' = [caches EXCEPT ![w][key] = applied[key] + 1]
    BY <1>1, <1>2
  <2> QED BY <1>1, <2>1, Served, Zenon
<1>6. Counted'
  <2>1. \A k \in Keys : Applied(k)' = IF k = key THEN Applied(k) \cup {c} ELSE Applied(k)
    BY <1>1, Zenon DEF Applied
  <2>2. IsFiniteSet(Applied(key)) /\ c \notin Applied(key)
    BY <1>2, FS_Subset, Zenon DEF Applied
  <2>3. Cardinality(Applied(key) \cup {c}) = Cardinality(Applied(key)) + 1
    BY <2>2, FS_AddElement, Zenon
  <2>4. \A k \in Keys : (\A a \in Adders : KeyOf[a] # k) => applied'[k] = Cardinality(Applied(k)')
    BY <1>1, <1>2, <2>1, <2>3, ZenonT(30) DEF Inv, TypeOK, Counted
  <2>5. \A h \in Hitters : /\ pc'[h] \in {"new", "offer"} => h \notin resp'
                           /\ pc'[h] = "ok" => h \in resp'
    BY <1>1, <1>2, Zenon DEF Inv, Counted
  <2> QED BY <2>4, <2>5, Zenon DEF Counted
<1> QED BY <1>3, <1>4, <1>5, <1>6, Zenon DEF Inv

LEMMA AddCacheItemStep ==
    ASSUME Inv, NEW w \in Indices, NEW c \in Callers, handleAddCacheItem(w, c) PROVE Inv'
<1> DEFINE key == KeyOf[c]
<1>1. /\ state[w] = c /\ c \in Adders /\ pc' \in {pc, [pc EXCEPT ![c] = "ok"]}
      /\ caches' = [caches EXCEPT ![w][key] = Added] /\ applied' = [applied EXCEPT ![key] = Added]
      /\ state' = [state EXCEPT ![w] = "idle"] /\ UNCHANGED <<hash, workers, storeVars, resp, left>>
  BY Zenon DEF handleAddCacheItem, Goto
<1>2. /\ w = getWorker(key) /\ key \in Keys /\ Added \in Nat \ {0}
  BY <1>1, Serves DEF Added
<1>3. TypeOK'
  BY <1>1, <1>2, Zenon DEF Inv, TypeOK, storeVars
<1>4. Serving'
  BY <1>1, ServingKept, Zenon DEF Inv, TypeOK, Callers, storeVars
<1>5. Phases' /\ Located' /\ Kept' /\ Saved'
  BY <1>1, <1>2, Served, Zenon
<1>6. Counted'
  <2>1. \A k \in Keys : Applied(k)' = Applied(k)
    BY <1>1, Zenon DEF Applied
  <2>2. \A k \in Keys : k # key => applied'[k] = applied[k]
    BY <1>1, Zenon DEF Inv, TypeOK
  <2>3. \A h \in Hitters : pc'[h] = pc[h]
    BY <1>1 DEF Inv, TypeOK, Callers
  <2> QED BY <1>1, <2>1, <2>2, <2>3, Zenon DEF Inv, Counted
<1> QED BY <1>3, <1>4, <1>5, <1>6, Zenon DEF Inv

-----------------------------------------------------------------------------
(* Steps of Store.                                                         *)

\* Steps that leave callers, hashes and hits alone.
LEMMA CallersUntouched ==
    ASSUME Inv, UNCHANGED frame, UNCHANGED stored,
           phase' = phase \/ (\A c \in Callers : pc[c] \notin {"offer", "wait"}),
           \A w \in Indices, c \in Callers :
               state'[w] = c => state[w] = c /\ phase' \in {"run", "store"}
    PROVE  Serving' /\ Counted'
<1>1. \A k \in Keys : InRange(k)' = InRange(k) /\ \A v : Home(v, k)' = Home(v, k)
  BY SamePlace, Zenon DEF frame
<1>2. \A a \in Callers : KeyOf[a] \in Keys
  BY Zenon DEF Callers
<1>3. Serving'
  BY <1>1, <1>2 DEF Inv, Serving, frame, callerVars
<1>4. Counted'
  BY CountsUntouched, Zenon DEF Inv, frame, callerVars
<1> QED BY <1>3, <1>4, Zenon

LEMMA CloseStep == ASSUME Inv, Close PROVE Inv'
<1> USE DEF Close
<1>1. TypeOK'
  BY Zenon DEF Inv, TypeOK, frame, callerVars, Empty
<1>2. Serving' /\ Counted'
  BY CallersUntouched, Zenon DEF Inv, Serving
<1>3. Phases'
  BY Zenon DEF Inv, Phases
<1>4. Located' /\ Kept'
  BY SamePlace, Zenon DEF Inv, Located, Kept, Held, frame
<1>5. Saved'
  <2>1. \A k \in Keys : InRange(k) => ~ Sent(k)'
    BY SamePlace, WorkerIndex, Zenon DEF Inv, Phases, Sent, frame
  <2>2. \A k \in Keys : applied[k] > 0 => InRange(k)
    BY DEF Inv, Kept, Held
  <2>3. out = <<>> /\ Len(out) = 0 /\ \A w \in Indices : state[w] # "store"
    BY EmptySeq, Zenon DEF Inv, Phases
  <2> QED BY <2>1, <2>2, <2>3 DEF Inv, TypeOK, Saved, frame, Empty
<1> QED BY <1>1, <1>2, <1>3, <1>4, <1>5, Zenon DEF Inv

LEMMA StartStoreStep == ASSUME Inv, NEW w \in Indices, StartStore(w) PROVE Inv'
<1>0. /\ phase = "store" /\ w \notin stored /\ state[w] = "idle"
      /\ UNCHANGED <<caches, stored, out, saved, stream, phase, restarts, frame>>
  BY Zenon DEF StartStore
<1>1. TypeOK'
  BY Zenon DEF StartStore, Inv, TypeOK, frame, callerVars
<1>2. Serving' /\ Counted'
  BY CallersUntouched, Zenon DEF StartStore, Inv, TypeOK, Callers
<1>3. Phases'
  BY Zenon DEF StartStore, Inv, TypeOK, Phases, frame
<1>4. Located' /\ Kept'
  BY <1>0, SamePlace, Zenon DEF Inv, Located, Kept, Held, frame
<1>5. Saved'
  <2>1. \A k \in Keys : getWorker(k)' = getWorker(k) /\ InRange(k)' = InRange(k)
    BY <1>0, SamePlace, Zenon DEF frame
  <2>2. \A k \in Keys : /\ applied[k] \in Nat /\ (applied[k] > 0 => InRange(k))
                        /\ InRange(k) => caches[getWorker(k)][k] = applied[k] /\ getWorker(k) \in Indices
    BY <1>0, WorkerIndex DEF Inv, TypeOK, Kept, Held
  <2>3. /\ state'[w] = "store" /\ unsent'[w] = {k \in Keys : caches[w][k] > 0}
        /\ \A v \in Indices : v # w => state'[v] = state[v] /\ unsent'[v] = unsent[v]
    BY Zenon DEF StartStore, Inv, TypeOK
  <2>4. \A k \in Keys : InRange(k) => (Sent(k) => Sent(k)') /\ (Sent(k)' /\ applied[k] > 0 => Sent(k))
    <3> SUFFICES ASSUME NEW k \in Keys, InRange(k)
                 PROVE  (Sent(k) => Sent(k)') /\ (Sent(k)' /\ applied[k] > 0 => Sent(k))
      BY Zenon
    <3>1. CASE getWorker(k) = w
      <4>1. ~ Sent(k) /\ w \notin stored' /\ (k \in unsent'[w] <=> caches[w][k] > 0)
        BY <1>0, <2>3, <3>1, Zenon DEF Sent
      <4> QED BY <2>1, <2>2, <3>1, <4>1, Zenon DEF Sent
    <3>2. CASE getWorker(k) # w
      BY <1>0, <2>1, <2>2, <2>3, <3>2, Zenon DEF Sent
    <3> QED BY <3>1, <3>2, Zenon
  <2>5. \A i \in 1 .. Len(out) : out[i].key \in Keys
    BY OutKeys, Zenon DEF Inv, TypeOK
  <2>6. \A i \in 1 .. Len(out), k \in Keys : out[i].key = k => InRange(k) /\ Sent(k)' /\ out[i].hits = applied[k]
    BY <1>0, <2>4, Zenon DEF Inv, Saved
  <2>7. \A v \in Indices : state'[v] = "store" => \A k \in unsent'[v] : caches[v][k] > 0
    <3>1. \A v \in Indices : state[v] = "store" => \A k \in unsent[v] : caches[v][k] > 0
      BY <1>0, Zenon DEF Inv, Saved
    <3> QED BY <2>3, <3>1, Zenon
  <2> QED BY <1>0, <2>1, <2>2, <2>4, <2>5, <2>6, <2>7, Zenon DEF Inv, Saved, frame
<1> QED BY <1>1, <1>2, <1>3, <1>4, <1>5, Zenon DEF Inv

LEMMA SendItemStep == ASSUME Inv, NEW w \in Indices, NEW k \in Keys, SendItem(w, k) PROVE Inv'
<1> DEFINE item == [key |-> k, hits |-> caches[w][k]]
<1>1. /\ phase = "store" /\ w \notin stored /\ state[w] = "store" /\ k \in unsent[w]
      /\ w = getWorker(k) /\ InRange(k) /\ caches[w][k] = applied[k] /\ applied[k] \in Nat
  BY DEF SendItem, Inv, TypeOK, Phases, Saved, Located, Home, Kept, Held
<1>2. /\ out' = Append(out, item) /\ unsent' = [unsent EXCEPT ![w] = @ \ {k}]
      /\ UNCHANGED <<caches, state, stored, saved, stream, phase, restarts, frame>> /\ Len(out) < OutSize
  BY Zenon DEF SendItem
<1>3. /\ out' \in Seq([key : Keys, hits : Nat]) /\ Len(out') = Len(out) + 1 /\ Len(out) \in Nat
      /\ \A i \in 1 .. Len(out) : out'[i] = out[i]
      /\ out'[Len(out) + 1].key = k /\ out'[Len(out) + 1].hits = applied[k]
  <2>1. item \in [key : Keys, hits : Nat] /\ out \in Seq([key : Keys, hits : Nat])
    BY <1>1, Zenon DEF Inv, TypeOK
  <2>2. item.key = k /\ item.hits = applied[k]
    BY <1>1, Zenon
  <2> HIDE DEF item
  <2>3. /\ Append(out, item) \in Seq([key : Keys, hits : Nat])
        /\ Len(Append(out, item)) = Len(out) + 1
        /\ \A i \in 1 .. Len(out) : Append(out, item)[i] = out[i]
        /\ Append(out, item)[Len(out) + 1] = item
    BY <2>1, AppendProperties
  <2>4. Len(out) \in Nat
    BY <2>1, LenProperties, Zenon
  <2> QED BY <1>2, <2>2, <2>3, <2>4, Zenon
<1>4. TypeOK'
  BY <1>1, <1>2, <1>3 DEF Inv, TypeOK, frame, callerVars
<1>5. Serving' /\ Counted' /\ Phases'
  BY <1>1, <1>2, CallersUntouched DEF Inv, Serving, Phases, frame
<1>6. Located' /\ Kept'
  BY <1>2, SamePlace DEF Inv, Located, Kept, Held, frame
<1>7. Saved'
  <2>1. \A j \in Keys : getWorker(j)' = getWorker(j) /\ InRange(j)' = InRange(j)
    BY <1>2, SamePlace, Zenon DEF frame
  <2>2. \A v \in Indices : unsent'[v] = IF v = w THEN unsent[w] \ {k} ELSE unsent[v]
    BY <1>2, Zenon DEF Inv, TypeOK
  <2>3. \A j \in Keys : InRange(j) => (Sent(j) => Sent(j)') /\ (Sent(j)' => Sent(j) \/ j = k)
    BY <1>2, <2>1, <2>2, WorkerIndex DEF Inv, Sent
  <2>4. Sent(k)'
    BY <1>1, <1>2, <2>1, <2>2 DEF Sent
  <2>5. \A j \in Keys : applied[j] > 0 => InRange(j)
    BY <1>1 DEF Inv, Kept, Held
  <2>6. \A i \in 1 .. Len(out') : \A j \in Keys :
           out'[i].key = j => InRange(j) /\ Sent(j)' /\ out'[i].hits = applied[j]
    <3> SUFFICES ASSUME NEW i \in 1 .. Len(out'), NEW j \in Keys, out'[i].key = j
                 PROVE  InRange(j) /\ Sent(j)' /\ out'[i].hits = applied[j]
      BY Zenon
    <3>1. CASE i \in 1 .. Len(out)
      BY <1>1, <1>3, <2>3, <3>1, Zenon DEF Inv, Saved
    <3>2. CASE i = Len(out) + 1
      BY <1>1, <1>3, <2>4, <3>2, Zenon
    <3> QED BY <1>3, <3>1, <3>2
  <2>7. \A j \in Keys : applied[j] > 0 /\ Sent(j)' =>
           (\E i \in 1 .. Len(out') : out'[i].key = j) \/ saved[j] = applied[j]
    <3> SUFFICES ASSUME NEW j \in Keys, applied[j] > 0, Sent(j)', saved[j] # applied[j]
                 PROVE  \E i \in 1 .. Len(out') : out'[i].key = j
      BY Zenon
    <3>1. CASE j = k
      <4> Len(out) + 1 \in 1 .. Len(out')
        BY <1>3
      <4> QED BY <1>3, <3>1, Zenon
    <3>2. CASE j # k
      <4>1. PICK i \in 1 .. Len(out) : out[i].key = j
        BY <1>1, <2>3, <2>5, <3>2, Zenon DEF Inv, Saved
      <4>2. i \in 1 .. Len(out') /\ out'[i] = out[i]
        BY <1>3
      <4> QED BY <4>1, <4>2, Zenon
    <3> QED BY <3>1, <3>2, Zenon
  <2>8. \A v \in Indices : state'[v] = "store" => \A j \in unsent'[v] : caches'[v][j] > 0
    BY <1>1, <1>2, <2>2 DEF Inv, Saved
  <2>9. \A i \in 1 .. Len(out') : out'[i].key \in Keys
    BY <1>3, OutKeys, Zenon
  <2>10. \A j \in Keys : applied[j] = 0 => saved[j] = 0
    BY <1>1, Zenon DEF Inv, Saved
  <2>11. phase' = "store" /\ applied' = applied /\ saved' = saved
    BY <1>1, <1>2, Zenon DEF frame
  <2> QED BY <2>1, <2>6, <2>7, <2>8, <2>9, <2>10, <2>11, Zenon DEF Saved
<1> QED BY <1>4, <1>5, <1>6, <1>7, Zenon DEF Inv

LEMMA EndStoreStep == ASSUME Inv, NEW w \in Indices, EndStore(w) PROVE Inv'
<1>1. /\ state[w] = "store" /\ unsent[w] = {} /\ state' = [state EXCEPT ![w] = "idle"]
      /\ stored' = stored \cup {w}
      /\ UNCHANGED <<caches, unsent, out, saved, stream, phase, restarts, frame>>
  BY Zenon DEF EndStore
<1>2. phase = "store" /\ w \notin stored
  BY <1>1, Zenon DEF Inv, Phases
<1>3. TypeOK'
  BY <1>1, Zenon DEF Inv, TypeOK, frame, callerVars
<1>4. Serving'
  <2>1. \A k \in Keys : InRange(k)' = InRange(k) /\ \A v : Home(v, k)' = Home(v, k)
    BY <1>1, SamePlace DEF frame
  <2>2. \A a \in Callers : KeyOf[a] \in Keys /\ a # "idle" /\ a # "store"
    BY Zenon DEF Callers
  <2>3. \A v \in Indices, a \in Callers : state'[v] = a => state[v] = a /\ v # w
    BY <1>1, <2>2, Zenon DEF Inv, TypeOK
  <2> QED BY <1>1, <2>1, <2>2, <2>3 DEF Inv, Serving, frame, callerVars
<1>5. Counted'
  BY <1>1, CountsUntouched, Zenon DEF Inv, frame, callerVars
<1>6. Phases'
  BY <1>1, <1>2, Zenon DEF Inv, TypeOK, Phases, frame
<1>7. Located' /\ Kept'
  BY <1>1, SamePlace, Zenon DEF Inv, Located, Kept, Held, frame
<1>8. Saved'
  <2>1. \A k \in Keys : getWorker(k)' = getWorker(k) /\ InRange(k)' = InRange(k)
    BY <1>1, SamePlace, Zenon DEF frame
  <2>2. \A v \in Indices : v # w => state'[v] = state[v] /\ (v \in stored' <=> v \in stored)
    BY <1>1, Zenon DEF Inv, TypeOK
  <2>3. state'[w] = "idle" /\ w \in stored' /\ unsent' = unsent
    BY <1>1, Zenon DEF Inv, TypeOK
  <2>4. \A k \in Keys : InRange(k) => Sent(k)' = Sent(k)
    <3> SUFFICES ASSUME NEW k \in Keys, InRange(k) PROVE Sent(k)' = Sent(k)
      BY Zenon
    <3>1. getWorker(k) \in Indices
      BY WorkerIndex, Zenon DEF Inv
    <3>2. CASE getWorker(k) = w
      BY <1>1, <2>1, <2>3, <3>2, Zenon DEF Sent
    <3>3. CASE getWorker(k) # w
      BY <2>1, <2>2, <2>3, <3>1, <3>3, Zenon DEF Sent
    <3> QED BY <3>2, <3>3, Zenon
  <2>5. \A k \in Keys : applied[k] > 0 => InRange(k)
    BY <1>2 DEF Inv, Kept, Held
  <2>6. \A i \in 1 .. Len(out) : out[i].key \in Keys
    BY OutKeys, Zenon DEF Inv, TypeOK
  <2>7. \A v \in Indices : state'[v] = "store" => \A k \in unsent[v] : caches[v][k] > 0
    BY <1>2, <2>2, <2>3 DEF Inv, Saved
  <2>8. \A i \in 1 .. Len(out), k \in Keys : out[i].key = k => InRange(k) /\ Sent(k)' /\ out[i].hits = applied[k]
    BY <1>2, <2>4, Zenon DEF Inv, Saved
  <2>9. \A k \in Keys : /\ applied[k] = 0 => saved[k] = 0
                        /\ applied[k] > 0 /\ Sent(k)' =>
                              (\E i \in 1 .. Len(out) : out[i].key = k) \/ saved[k] = applied[k]
    BY <1>2, <2>4, <2>5, Zenon DEF Inv, Saved
  <2> QED BY <1>1, <1>2, <2>1, <2>6, <2>7, <2>8, <2>9, ZenonT(30) DEF Saved, frame
<1> QED BY <1>3, <1>4, <1>5, <1>6, <1>7, <1>8, Zenon DEF Inv

LEMMA SaveItemStep == ASSUME Inv, SaveItem PROVE Inv'
<1> DEFINE k == Head(out).key
<1>1. /\ phase = "store" /\ out # <<>> /\ out' = Tail(out)
      /\ UNCHANGED <<caches, state, stored, unsent, stream, phase, restarts, frame>>
  BY Zenon DEF SaveItem
<1>2. /\ Tail(out) \in Seq([key : Keys, hits : Nat]) /\ Len(Tail(out)) = Len(out) - 1
      /\ \A i \in 1 .. Len(Tail(out)) : Tail(out)[i] = out[i + 1]
      /\ Head(out) = out[1] /\ Head(out) \in [key : Keys, hits : Nat]
      /\ Len(out) \in Nat \ {0}
  <2>1. out \in Seq([key : Keys, hits : Nat]) /\ out # <<>>
    BY <1>1, Zenon DEF Inv, TypeOK
  <2>2. /\ Tail(out) \in Seq([key : Keys, hits : Nat]) /\ Len(Tail(out)) = Len(out) - 1
        /\ \A i \in 1 .. Len(Tail(out)) : Tail(out)[i] = out[i + 1]
        /\ Head(out) \in [key : Keys, hits : Nat]
    <3> DEFINE Items == [key : Keys, hits : Nat]
    <3>1. out \in Seq(Items)
      BY <2>1, Zenon
    <3> HIDE DEF Items
    <3>2. /\ Head(out) \in Items /\ Tail(out) \in Seq(Items) /\ Len(Tail(out)) = Len(out) - 1
          /\ \A i \in 1 .. Len(Tail(out)) : Tail(out)[i] = out[i + 1]
      BY <2>1, <3>1, HeadTailProperties, Zenon
    <3> QED BY <3>2, Zenon DEF Items
  <2>3. Head(out) = out[1] /\ Len(out) \in Nat \ {0}
    BY <2>1, EmptySeq
  <2> QED BY <2>2, <2>3, Zenon
<1>3. k \in Keys /\ InRange(k) /\ out[1].key = k /\ out[1].hits = applied[k]
  <2>1. 1 \in 1 .. Len(out)
    BY <1>2
  <2>2. InRange(out[1].key) /\ out[1].hits = applied[out[1].key]
    BY <1>1, <2>1, Zenon DEF Inv, Saved
  <2> QED BY <1>2, <2>2, Zenon
<1>4. saved' = [saved EXCEPT ![k] = applied[k]]
  <2>1. caches[getWorker(k)][k] = applied[k]
    BY <1>1, <1>3, Zenon DEF Inv, Kept, Held
  <2> QED BY <1>2, <1>3, <2>1, Zenon DEF SaveItem
<1> HIDE DEF k
<1>5. TypeOK'
  BY <1>1, <1>2, <1>3, <1>4, SMTT(30) DEF Inv, TypeOK, frame, callerVars
<1>6. Serving' /\ Counted' /\ Phases'
  BY <1>1, CallersUntouched, Zenon DEF Inv, Serving, Phases, frame
<1>7. Located' /\ Kept'
  BY <1>1, SamePlace DEF Inv, Located, Kept, Held, frame
<1>8. Saved'
  <2>1. \A j \in Keys : getWorker(j)' = getWorker(j) /\ InRange(j)' = InRange(j) /\ Sent(j)' = Sent(j)
    BY <1>1, SamePlace, Zenon DEF frame, Sent
  <2>2. \A j \in Keys : saved'[j] = IF j = k THEN applied[k] ELSE saved[j]
    BY <1>3, <1>4, Zenon DEF Inv, TypeOK
  <2>3. \A i \in 1 .. Len(out') : i + 1 \in 1 .. Len(out) /\ out'[i] = out[i + 1]
    BY <1>1, <1>2
  <2>4. \A i \in 1 .. Len(out') : out'[i].key \in Keys
    BY <1>1, <1>2, OutKeys, Zenon
  <2>5. \A i \in 1 .. Len(out'), j \in Keys : out'[i].key = j => InRange(j) /\ Sent(j) /\ out'[i].hits = applied[j]
    BY <1>1, <2>3 DEF Inv, Saved
  <2>6. \A j \in Keys : applied[j] > 0 /\ Sent(j) =>
           (\E i \in 1 .. Len(out') : out'[i].key = j) \/ saved'[j] = applied[j]
    <3> SUFFICES ASSUME NEW j \in Keys, applied[j] > 0, Sent(j), saved'[j] # applied[j]
                 PROVE  \E i \in 1 .. Len(out') : out'[i].key = j
      BY Zenon
    <3>1. j # k /\ saved[j] # applied[j]
      BY <2>2
    <3>2. PICK i \in 1 .. Len(out) : out[i].key = j
      BY <1>1, <3>1, Zenon DEF Inv, Saved
    <3>3. i - 1 \in 1 .. Len(out') /\ (i - 1) + 1 = i
      BY <1>1, <1>2, <1>3, <3>1, <3>2
    <3>4. out'[i - 1].key = j
      BY <2>3, <3>2, <3>3, Zenon
    <3> QED BY <3>3, <3>4, Zenon
  <2>7. \A j \in Keys : applied[j] = 0 => saved'[j] = 0
    BY <1>1, <2>2, Zenon DEF Inv, Saved
  <2>8. \A v \in Indices : state[v] = "store" => \A j \in unsent[v] : caches[v][j] > 0
    BY <1>1, Zenon DEF Inv, Saved
  <2> QED BY <1>1, <2>1, <2>4, <2>5, <2>6, <2>7, <2>8 DEF Saved, frame
<1> QED BY <1>5, <1>6, <1>7, <1>8, Zenon DEF Inv

LEMMA SaveAllStep == ASSUME Inv, SaveAll PROVE Inv'
<1>1. /\ phase = "store" /\ out = <<>> /\ \A w \in 0 .. workers - 1 : w \in stored
      /\ phase' = "closed" /\ UNCHANGED <<caches, state, stored, unsent, out, saved, stream, restarts, frame>>
  BY Zenon DEF SaveAll
<1>2. \A w \in Indices, c \in Callers : state[w] # c
  <2> SUFFICES ASSUME NEW w \in Indices, NEW c \in Callers, state[w] = c PROVE FALSE
    BY Zenon
  <2>1. w \notin stored /\ w = getWorker(KeyOf[c]) /\ InRange(KeyOf[c]) /\ KeyOf[c] \in Keys
    BY Serves, Zenon
  <2>2. w \in Nat /\ w < workers /\ workers \in Nat
    BY <2>1, WorkerIndex DEF InRange, Inv, TypeOK
  <2> QED BY <1>1, <2>1, <2>2
<1>3. \A w \in Indices : state[w] # "store"
  <2> SUFFICES ASSUME NEW w \in Indices, state[w] = "store" PROVE FALSE
    BY Zenon
  <2>1. w \notin stored /\ w < workers
    BY Zenon DEF Inv, Phases
  <2>2. w \in Nat /\ workers \in Nat
    BY DEF Inv, TypeOK, Indices
  <2> QED BY <1>1, <2>1, <2>2
<1>4. saved = applied
  <2>1. \A k \in Keys : InRange(k) => Sent(k)
    BY <1>1, WorkerIndex DEF Sent, InRange, Inv, TypeOK
  <2>2. \A k \in Keys : applied[k] \in Nat /\ (applied[k] > 0 => InRange(k))
    BY <1>1 DEF Inv, TypeOK, Kept, Held
  <2>3. \A k \in Keys : saved[k] = applied[k]
    BY <1>1, <2>1, <2>2, EmptySeq DEF Inv, Saved
  <2> QED BY <2>3 DEF Inv, TypeOK
<1>5. TypeOK'
  BY <1>1, Zenon DEF Inv, TypeOK, frame, callerVars
<1>6. Serving' /\ Counted'
  BY <1>1, <1>2, CallersUntouched, Zenon DEF Inv, Serving
<1>7. Phases' /\ Saved'
  BY <1>1, <1>3, <1>4, Zenon DEF Inv, Phases, Saved, frame
<1>8. Located' /\ Kept'
  BY <1>1, SamePlace DEF Inv, Located, Kept, Held, frame
<1> QED BY <1>5, <1>6, <1>7, <1>8, Zenon DEF Inv

LEMMA ExitWorkerStep == ASSUME Inv, NEW w \in Indices, ExitWorker(w) PROVE Inv'
<1>1. /\ phase = "closed" /\ state[w] = "idle" /\ state' = [state EXCEPT ![w] = "exited"]
      /\ UNCHANGED <<caches, storeVars, frame>>
  BY Zenon DEF ExitWorker
<1>2. TypeOK'
  BY <1>1, Zenon DEF Inv, TypeOK, storeVars, frame, callerVars
<1>3. \A v \in Indices : state'[v] = state[v] \/ state'[v] = "exited"
  BY <1>1, Zenon DEF Inv, TypeOK
<1>4. Serving' /\ Counted'
  <2>1. \A a \in Callers : a # "exited"
    BY Zenon DEF Callers
  <2>2. \A v \in Indices, a \in Callers : state[v] # a
    BY <1>1, Zenon DEF Inv, Serving
  <2> QED BY <1>1, <1>3, <2>1, <2>2, CallersUntouched, Zenon DEF storeVars
<1>5. Phases'
  BY <1>1, <1>3, Zenon DEF Inv, Phases, storeVars
<1>6. Located' /\ Kept' /\ Saved'
  BY <1>1, <1>2, <1>3, StoreUntouched DEF TypeOK, frame, Inv
<1> QED BY <1>2, <1>4, <1>5, <1>6, Zenon DEF Inv

-----------------------------------------------------------------------------
(* Steps of a restart and of Load.                                         *)

LEMMA RestartStep == ASSUME Inv, NEW n \in WorkerCounts, Restart(n) PROVE Inv'
<1>1. /\ phase = "closed" /\ restarts < MaxRestarts /\ restarts' = restarts + 1
      /\ workers' = n /\ phase' = "load" /\ caches' = [w \in Indices |-> Empty]
      /\ state' = [w \in Indices |-> "idle"] /\ stored' = {} /\ unsent' = [w \in Indices |-> {}]
      /\ stream' = {k \in Keys : saved[k] > 0}
      /\ UNCHANGED <<hash, out, saved, callerVars, applied>>
  BY Zenon DEF Restart
<1>2. saved = applied /\ out = <<>>
  BY <1>1, Zenon DEF Inv, Phases, Saved
<1>3. TypeOK'
  BY <1>1, Zenon DEF Inv, TypeOK, callerVars, Empty
<1>4. Serving'
  <2>1. \A c \in Callers : pc'[c] \notin {"offer", "wait"} /\ c # "idle"
    BY <1>1, Zenon DEF Inv, Serving, callerVars, Callers
  <2> QED BY <1>1, <2>1, Zenon DEF Serving
<1>5. Counted'
  BY <1>1, CountsUntouched, Zenon DEF Inv, callerVars
<1>6. Phases' /\ Saved'
  BY <1>1, <1>2, Zenon DEF Phases, Saved
<1>7. \A w \in Indices, k \in Keys : caches'[w][k] = 0
  BY <1>1, Zenon DEF Empty
<1>8. Located'
  BY <1>7 DEF Located
<1>9. Kept'
  <2> SUFFICES ASSUME NEW k \in Keys, k \notin stream' PROVE Held(k)'
    BY <1>1, Zenon DEF Kept
  <2>1. applied'[k] = 0
    BY <1>1, <1>2 DEF Inv, TypeOK
  <2>2. InRange(k)' => getWorker(k)' \in Indices
    <3>1. getWorker(k)' \in Nat /\ n \in Nat
      BY <1>1, <1>3, IndexOf DEF TypeOK, getWorker, hashRingStep
    <3> QED BY <1>1, <3>1 DEF InRange, Indices
  <2> QED BY <1>7, <2>1, <2>2, Zenon DEF Held
<1> QED BY <1>3, <1>4, <1>5, <1>6, <1>8, <1>9, Zenon DEF Inv

LEMMA TieWorkerStep == ASSUME Inv, NEW k \in Keys, TieWorker(k) PROVE Inv'
<1> DEFINE w == getWorker(k)
<1>1. /\ phase = "load" /\ w \in Indices /\ state' = [state EXCEPT ![w] = "load"]
      /\ state[w] = "idle" /\ UNCHANGED <<caches, storeVars, frame>>
  BY WorkerIndex, Zenon DEF TieWorker, Inv
<1> HIDE DEF w
<1>2. TypeOK'
  BY <1>1, Zenon DEF Inv, TypeOK, storeVars, frame, callerVars
<1>3. \A v \in Indices : state'[v] = state[v] \/ (state'[v] = "load" /\ state[v] = "idle")
  BY <1>1, Zenon DEF Inv, TypeOK
<1>4. Serving' /\ Counted'
  <2>1. \A a \in Callers : a # "load"
    BY Zenon DEF Callers
  <2>2. \A v \in Indices, a \in Callers : state[v] # a
    BY <1>1, Zenon DEF Inv, Serving
  <2> QED BY <1>1, <1>3, <2>1, <2>2, CallersUntouched, Zenon DEF storeVars
<1>5. Phases'
  BY <1>1, <1>3, Zenon DEF Inv, Phases, storeVars
<1>6. Located' /\ Kept' /\ Saved'
  BY <1>1, <1>2, <1>3, StoreUntouched, SMTT(30) DEF TypeOK, frame, Inv
<1> QED BY <1>2, <1>4, <1>5, <1>6, Zenon DEF Inv

LEMMA LoadStep == ASSUME Inv, NEW k \in Keys, handleLoad(k) PROVE Inv'
<1> DEFINE w == getWorker(k)
<1>1. /\ phase = "load" /\ k \in stream /\ InRange(k) /\ w \in Indices
      /\ caches' = [caches EXCEPT ![w][k] = saved[k]] /\ stream' = stream \ {k}
      /\ UNCHANGED <<state, stored, unsent, out, saved, phase, restarts, frame>>
  BY WorkerIndex, Zenon DEF handleLoad, Inv
<1>2. saved = applied
  BY <1>1, Zenon DEF Inv, Saved
<1>3. TypeOK'
  BY <1>1, Zenon DEF Inv, TypeOK, frame, callerVars
<1>4. Serving' /\ Counted'
  BY <1>1, CallersUntouched, Zenon DEF Inv, Serving
<1>5. Phases' /\ Saved'
  BY <1>1, <1>2, Zenon DEF Inv, Phases, Saved, frame
<1>6. \A v \in Indices, j \in Keys : caches'[v][j] = IF v = w /\ j = k THEN applied[k] ELSE caches[v][j]
  BY <1>1, <1>2, Zenon DEF Inv, TypeOK
<1>7. \A j \in Keys : /\ getWorker(j)' = getWorker(j) /\ InRange(j)' = InRange(j)
                      /\ \A v : Home(v, j)' = Home(v, j)
  BY <1>1, SamePlace, Zenon DEF frame
<1>8. Located'
  BY <1>1, <1>6, <1>7 DEF Inv, Located, Home
<1>9. Kept'
  <2> SUFFICES ASSUME NEW j \in Keys, j \notin stream' PROVE Held(j)'
    BY <1>1, Zenon DEF Kept
  <2>1. InRange(j) => getWorker(j) \in Indices
    BY WorkerIndex, Zenon DEF Inv
  <2>2. applied' = applied /\ (j = k \/ Held(j))
    BY <1>1, Zenon DEF Inv, Kept, frame
  <2> QED BY <1>1, <1>6, <1>7, <2>1, <2>2 DEF Held
<1> QED BY <1>3, <1>4, <1>5, <1>8, <1>9, Zenon DEF Inv

LEMMA LoadedStep == ASSUME Inv, Loaded PROVE Inv'
<1>1. /\ phase = "load" /\ stream = {} /\ phase' = "run" /\ state' = [w \in Indices |-> "idle"]
      /\ UNCHANGED <<caches, stored, unsent, out, saved, stream, restarts, frame>>
  BY Zenon DEF Loaded
<1>2. TypeOK'
  BY <1>1, Zenon DEF Inv, TypeOK, frame, callerVars
<1>3. Serving' /\ Counted'
  <2>1. \A c \in Callers : c # "idle" /\ pc[c] \notin {"offer", "wait"}
    BY <1>1, Zenon DEF Callers, Inv, Serving
  <2> QED BY <1>1, <2>1, CallersUntouched, Zenon
<1>4. Phases' /\ Saved'
  BY <1>1, Zenon DEF Inv, Phases, Saved
<1>5. Located' /\ Kept'
  BY <1>1, SamePlace DEF Inv, Located, Kept, Held, frame
<1> QED BY <1>2, <1>3, <1>4, <1>5, Zenon DEF Inv

-----------------------------------------------------------------------------
(* Theorems.                                                               *)

LEMMA InitInv == Init => Inv
<1> SUFFICES ASSUME Init PROVE Inv
  BY Zenon
<1>1. TypeOK
  BY EmptySeq DEF Init, TypeOK, Empty
<1>2. Serving /\ Phases
  BY Zenon DEF Init, Serving, Phases, Callers
<1>3. Counted
  <2>1. \A k \in Keys : Applied(k) = {} /\ applied[k] = 0
    BY Zenon DEF Init, Applied, Empty
  <2> QED BY <2>1, FS_EmptySet, Zenon DEF Init, Counted, Callers
<1>4. Located /\ Kept
  BY <1>1, WorkerIndex DEF Init, Located, Kept, Held, Empty
<1>5. Saved
  BY Zenon DEF Init, Saved
<1> QED BY <1>1, <1>2, <1>3, <1>4, <1>5, Zenon DEF Inv

LEMMA InvNext == Inv /\ [Next]_vars => Inv'
<1> SUFFICES ASSUME Inv, [Next]_vars PROVE Inv'
  BY Zenon
<1>1. ASSUME NEW c \in Callers, Call(c) \/ Leave(c) \/ CallerStep(c) PROVE Inv'
  BY <1>1, CallStep, LeaveStep, TakeStep, GiveUpStep, AnswerStep, Zenon DEF CallerStep
<1>2. ASSUME NEW w \in Indices, WorkerStep(w) \/ ExitWorker(w) PROVE Inv'
  BY <1>2, GetRateLimitStep, AddCacheItemStep, SendItemStep, StartStoreStep, EndStoreStep,
     ExitWorkerStep, Zenon DEF WorkerStep
<1>3. CASE Close \/ Saving
  BY <1>3, CloseStep, SaveItemStep, SaveAllStep, Zenon DEF Saving
<1>4. ASSUME NEW n \in WorkerCounts, Restart(n) PROVE Inv'
  BY <1>4, RestartStep, Zenon
<1>5. ASSUME NEW k \in Keys, TieWorker(k) \/ handleLoad(k) PROVE Inv'
  BY <1>5, TieWorkerStep, LoadStep, Zenon
<1>6. CASE Loaded
  BY <1>6, LoadedStep, Zenon
<1>7. CASE UNCHANGED vars
  <2>1. TypeOK'
    BY <1>7, Zenon DEF Inv, TypeOK, vars, storeVars, callerVars
  <2>2. Serving' /\ Phases'
    BY <1>7, SamePlace DEF Inv, Serving, Phases, vars, storeVars, callerVars, Callers
  <2>3. Counted'
    BY <1>7, CountsUntouched, Zenon DEF Inv, vars, callerVars
  <2>4. Located' /\ Kept' /\ Saved'
    BY <1>7, StoreUntouched, Zenon DEF Inv, TypeOK, vars
  <2> QED BY <2>1, <2>2, <2>3, <2>4, Zenon DEF Inv
<1> QED BY <1>1, <1>2, <1>3, <1>4, <1>5, <1>6, <1>7, Zenon DEF Next

LEMMA PoolInv == Spec => []Inv
BY InitInv, InvNext, PTL DEF Spec

\* A key is only ever in the cache of the worker its requests go to, also
\* after a restart with another number of workers (KeyAtItsWorker).
THEOREM OneWorkerPerKey == Spec => []KeyAtItsWorker
<1>1. Inv => KeyAtItsWorker
  BY Zenon DEF Inv, Located, Home, KeyAtItsWorker
<1> QED BY <1>1, PoolInv, PTL

\* A request counts once, answered or abandoned (CountedOnce).
THEOREM RequestsCountOnce == Spec => []CountedOnce
<1>1. Inv => CountedOnce
  <2> SUFFICES ASSUME Inv, NEW k \in Keys, \A c \in Adders : KeyOf[c] # k
               PROVE  /\ Cardinality(Answers(k)) <= applied[k]
                      /\ applied[k] <= Cardinality(HittersOf(k))
    BY Zenon DEF CountedOnce
  <2>1. applied[k] = Cardinality(Applied(k))
    BY Zenon DEF Inv, Counted
  <2>2. IsFiniteSet(HittersOf(k)) /\ Applied(k) \in SUBSET HittersOf(k) /\ Answers(k) \in SUBSET Applied(k)
    <3>1. HittersOf(k) \in SUBSET Hitters /\ Applied(k) \in SUBSET HittersOf(k)
      BY Zenon DEF HittersOf, Applied
    <3>2. Answers(k) \in SUBSET Applied(k)
      BY Zenon DEF Inv, Counted, Answers, Applied
    <3> QED BY <3>1, <3>2, FS_Subset, Zenon
  <2>3. IsFiniteSet(Applied(k)) /\ Cardinality(Applied(k)) <= Cardinality(HittersOf(k))
    BY <2>2, FS_Subset, Zenon
  <2>4. Cardinality(Answers(k)) <= Cardinality(Applied(k))
    BY <2>2, <2>3, FS_Subset, Zenon
  <2> QED BY <2>1, <2>3, <2>4, Zenon
<1> QED BY <1>1, PoolInv, PTL

\* The hits of every key survive Close, Save, a restart and Load
\* (HitsSurvive).
THEOREM HitsOutliveRestarts == Spec => []HitsSurvive
<1>1. Inv => HitsSurvive
  BY Zenon DEF Inv, Kept, Held, HitsSurvive
<1> QED BY <1>1, PoolInv, PTL
=============================================================================
