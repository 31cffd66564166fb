-------------------------- MODULE PeerClientProofs --------------------------
(***************************************************************************)
(* Proofs about PeerClient for any sets of callers, any BatchLimit and any *)
(* QueueSize.                                                              *)
(***************************************************************************)
EXTENDS PeerClient, FiniteSetTheorems, TLAPS

USE LimitAssumption

\* The type invariant in three parts: flags, control state and batches, with
\* the finiteness the cardinalities rest on.
Flags ==
    /\ in \in BOOLEAN /\ tick \in BOOLEAN /\ stop \in BOOLEAN
    /\ closed \in BOOLEAN /\ conn \in BOOLEAN /\ panicked \in BOOLEAN

Control ==
    /\ timer \in {"idle", "sleeping", "sending", "stopped"}
    /\ pc \in [Callers -> {"idle", "locking", "entered", "ready", "waiting", "done"}]
    /\ left \subseteq Callers
    /\ resp \in [Callers -> {"none", "ok", "error"}]
    /\ loop \in {"run", "flushing", "stopping", "exited"}
    /\ shut \in {"no", "waiting", "returned"}
    /\ drain \in {"off", "locking", "holding", "drained", "done"}
    /\ sends \in [Callers -> Nat]

IsBatch(b) == b \subseteq Callers /\ IsFiniteSet(b) /\ Cardinality(b) <= BatchLimit

Batches ==
    /\ queue \in Seq(Batching) /\ Len(queue) <= QueueSize
    /\ batch \subseteq Batching /\ IsFiniteSet(batch) /\ Cardinality(batch) < BatchLimit
    /\ \A b \in spawned : IsBatch(b)
    /\ \A b \in wire : IsBatch(b)

-----------------------------------------------------------------------------
\* A batch with one more request is finite and one larger at most.
LEMMA OneMore ==
    ASSUME NEW S, IsFiniteSet(S), NEW x
    PROVE  /\ IsFiniteSet(S \cup {x})
           /\ Cardinality(S \cup {x}) \in Nat
           /\ Cardinality(S \cup {x}) <= Cardinality(S) + 1
           /\ x \notin S => Cardinality(S \cup {x}) = Cardinality(S) + 1
           /\ x \in S => S \cup {x} = S
<1>1. IsFiniteSet(S \cup {x}) /\ Cardinality(S \cup {x}) \in Nat /\ Cardinality(S) \in Nat
  BY FS_AddElement, FS_CardinalityType
<1>2. CASE x \in S
  <2>1. S \cup {x} = S
    BY <1>2
  <2>2. Cardinality(S \cup {x}) <= Cardinality(S) + 1
    BY <1>1, <2>1
  <2> QED
    BY <1>1, <1>2, <2>1, <2>2
<1>3. CASE x \notin S
  BY <1>1, <1>3, FS_AddElement
<1> QED
  BY <1>2, <1>3

\* No requests fit any batch.
LEMMA NoRequests == IsFiniteSet({}) /\ Cardinality({}) < BatchLimit
BY FS_EmptySet

\* What a batch of the loop may be when it is handed to sendBatch.
LEMMA BatchSizes ==
    /\ \A c \in Callers : IsBatch({c})
    /\ \A b, S : IsBatch(b) => IsBatch(b \ S)
<1>1. ASSUME NEW c \in Callers PROVE IsBatch({c})
  BY FS_Singleton DEF IsBatch
<1>2. ASSUME NEW b, NEW S, IsBatch(b) PROVE IsBatch(b \ S)
  <2>1. IsFiniteSet(b) /\ b \ S \subseteq b
    BY <1>2 DEF IsBatch
  <2>2. IsFiniteSet(b \ S) /\ Cardinality(b \ S) <= Cardinality(b)
    BY <2>1, FS_Subset
  <2>3. Cardinality(b \ S) \in Nat /\ Cardinality(b) \in Nat
    BY <2>1, <2>2, FS_CardinalityType
  <2> QED
    BY <1>2, <2>2, <2>3 DEF IsBatch
<1> QED
  BY <1>1, <1>2

\* Every step keeps the control state well typed.
LEMMA ControlStep == Control /\ [Next]_vars => Control'
<1> SUFFICES ASSUME Control, [Next]_vars PROVE Control'
  OBVIOUS
<1> USE DEF Control
<1>1. ASSUME NEW c \in Callers, Call(c) \/ Leave(c) \/ CallerStep(c)
      PROVE  Control'
  BY <1>1 DEF CallerStep, Call, Leave, Enter, Check, Enqueue, SendSingle, CallDirect,
              GiveUp, awaitResponse, Goto, callerFrame, intervalVars
<1>2. CASE LoopStep \/ ReceiveTick
  BY <1>2 DEF LoopStep, ReceiveRequest, ReceiveTick, ReceiveClosed, Flushed, Exit,
              NextTick, TakeTick, CloseDone, loopFrame, intervalVars
<1>3. CASE SendStep
  BY <1>3 DEF SendStep, StartSend, EndSend, sendFrame, intervalVars
<1>4. CASE Ticker
  BY <1>4 DEF Ticker, IntervalStep, StartSleep, WakeUp, Deliver, Quit, clientVars
<1>5. CASE Shutdown \/ LockDrain \/ WaitCallers \/ CloseQueue \/ ReturnShutdown
  BY <1>5 DEF Shutdown, LockDrain, WaitCallers, CloseQueue, ReturnShutdown,
              shutFrame, intervalVars
<1>6. CASE UNCHANGED vars
  BY <1>6 DEF vars, clientVars, intervalVars
<1> QED
  BY <1>1, <1>2, <1>3, <1>4, <1>5, <1>6 DEF Next

\* Every step keeps the queue and the batches within their limits.
LEMMA BatchesStep == Batches /\ [Next]_vars => Batches'
<1> SUFFICES ASSUME Batches, [Next]_vars PROVE Batches'
  OBVIOUS
<1> USE DEF Batches
<1>1. ASSUME NEW c \in Callers, Enqueue(c)
      PROVE  Batches'
  BY <1>1 DEF Enqueue, callerFrame
<1>2. ASSUME NEW c \in Callers, SendSingle(c)
      PROVE  Batches'
  BY <1>2, BatchSizes DEF SendSingle, callerFrame
<1>3. ASSUME NEW c \in Callers, Call(c) \/ Leave(c) \/ Enter(c) \/ Check(c) \/ CallDirect(c)
                                \/ GiveUp(c) \/ awaitResponse(c)
      PROVE  Batches'
  BY <1>3 DEF Call, Leave, Enter, Check, CallDirect, GiveUp, awaitResponse, callerFrame
<1>4. CASE ReceiveRequest
  <2> DEFINE b == batch \cup {Head(queue)}
  <2>1. Head(queue) \in Batching /\ Tail(queue) \in Seq(Batching) /\ Len(Tail(queue)) <= QueueSize
    BY <1>4 DEF ReceiveRequest
  <2>2. Cardinality(batch) \in Nat
    BY FS_CardinalityType
  <2>3. /\ IsFiniteSet(b) /\ Cardinality(b) \in Nat
        /\ Cardinality(b) <= Cardinality(batch) + 1
    BY OneMore, Zenon
  <2>4. b \subseteq Batching /\ IsBatch(b)
    BY <2>1, <2>2, <2>3 DEF IsBatch, Callers
  <2>5. wire' = wire
    BY <1>4 DEF ReceiveRequest, loopFrame
  <2>6. CASE Cardinality(b) >= BatchLimit
    <3>1. queue' = Tail(queue) /\ batch' = {} /\ spawned' = spawned \cup {b}
      BY <1>4, <2>6 DEF ReceiveRequest
    <3>2. batch' \subseteq Batching /\ IsFiniteSet(batch') /\ Cardinality(batch') < BatchLimit
      BY <3>1, NoRequests
    <3> QED
      BY <2>1, <2>4, <2>5, <3>1, <3>2, Zenon
  <2>7. CASE ~(Cardinality(b) >= BatchLimit)
    <3>1. queue' = Tail(queue) /\ batch' = b /\ spawned' = spawned
      BY <1>4, <2>7 DEF ReceiveRequest
    <3> QED
      BY <2>1, <2>3, <2>4, <2>5, <2>7, <3>1
  <2> QED
    BY <2>6, <2>7
<1>5. CASE ReceiveTick \/ ReceiveClosed \/ Flushed \/ Exit
  <2>1. queue' = queue /\ wire' = wire /\ batch' \in {batch, {}}
    BY <1>5 DEF ReceiveTick, ReceiveClosed, Flushed, Exit, loopFrame
  <2>2. spawned' \in {spawned, spawned \cup {batch}}
    BY <1>5 DEF ReceiveTick, ReceiveClosed, Flushed, Exit, loopFrame
  <2>3. IsBatch(batch)
    BY FS_CardinalityType DEF IsBatch, Callers
  <2>4. batch' \subseteq Batching /\ IsFiniteSet(batch') /\ Cardinality(batch') < BatchLimit
    BY <2>1, NoRequests
  <2>5. \A b \in spawned' : IsBatch(b)
    BY <2>2, <2>3
  <2> QED
    BY <2>1, <2>4, <2>5
<1>6. ASSUME NEW b, StartSend(b) \/ EndSend(b)
      PROVE  Batches'
  <2>1. CASE StartSend(b)
    <3>1. b \in spawned /\ IsBatch(b \ left)
      BY <2>1, BatchSizes, Zenon DEF StartSend
    <3> QED
      BY <2>1, <3>1, Zenon DEF StartSend, sendFrame
  <2>2. CASE EndSend(b)
    BY <2>2 DEF EndSend, sendFrame
  <2> QED
    BY <1>6, <2>1, <2>2
<1>7. CASE Ticker
  BY <1>7 DEF Ticker, clientVars
<1>8. CASE Shutdown \/ LockDrain \/ WaitCallers \/ CloseQueue \/ ReturnShutdown
  BY <1>8 DEF Shutdown, LockDrain, WaitCallers, CloseQueue, ReturnShutdown, shutFrame
<1>9. CASE UNCHANGED vars
  BY <1>9 DEF vars, clientVars
<1> QED
  BY <1>1, <1>2, <1>3, <1>4, <1>5, <1>6, <1>7, <1>8, <1>9
     DEF Next, CallerStep, LoopStep, SendStep

\* The flags stay flags.
LEMMA FlagsStep == Flags /\ [Next]_vars => Flags'
<1> SUFFICES ASSUME Flags, [Next]_vars PROVE Flags'
  OBVIOUS
<1> USE DEF Flags
<1>1. ASSUME NEW c \in Callers, Call(c) \/ Leave(c) \/ CallerStep(c)
      PROVE  Flags'
  BY <1>1, Zenon DEF CallerStep, Call, Leave, Enter, Check, Enqueue, SendSingle, CallDirect,
                     GiveUp, awaitResponse, callerFrame, intervalVars
<1>2. CASE LoopStep \/ ReceiveTick
  BY <1>2, Zenon DEF LoopStep, ReceiveRequest, ReceiveTick, ReceiveClosed, Flushed, Exit,
                     NextTick, TakeTick, CloseDone, loopFrame, intervalVars
<1>3. CASE SendStep
  BY <1>3, Zenon DEF SendStep, StartSend, EndSend, sendFrame, intervalVars
<1>4. CASE Ticker
  BY <1>4, Zenon DEF Ticker, IntervalStep, StartSleep, WakeUp, Deliver, Quit, clientVars
<1>5. CASE Shutdown \/ LockDrain \/ WaitCallers \/ CloseQueue \/ ReturnShutdown
  BY <1>5, Zenon DEF Shutdown, LockDrain, WaitCallers, CloseQueue, ReturnShutdown,
                     shutFrame, intervalVars
<1>6. CASE UNCHANGED vars
  BY <1>6, Zenon DEF vars, clientVars, intervalVars
<1> QED
  BY <1>1, <1>2, <1>3, <1>4, <1>5, <1>6 DEF Next

\* The queue and every batch stay within their limits: no batch outgrows
\* BatchLimit, beyond which GetPeerRateLimits refuses it whole.
THEOREM PeerClientTyped == Spec => []TypeOK
<1>1. Init => Flags
  BY Zenon DEF Init, IntervalInit, Flags
<1>2. Init => Control
  BY DEF Init, IntervalInit, Control
<1>3. Init => Batches
  BY NoRequests DEF Init, Batches
<1>4. Flags /\ Control /\ Batches => TypeOK
  BY DEF Flags, Control, Batches, IsBatch, TypeOK, IntervalTypeOK
<1> QED
  BY <1>1, <1>2, <1>3, <1>4, FlagsStep, ControlStep, BatchesStep, PTL DEF Spec

-----------------------------------------------------------------------------
(* Shutdown and the callers: nobody holds a ready request once the drain   *)
(* goroutine has waited, and whoever enters later finds the queue closed.  *)

Gate ==
    /\ shut = "no" => drain = "off"
    /\ closed => drain = "done"
    /\ drain = "done" => closed
    /\ drain = "drained" => \A c \in Callers : pc[c] \notin {"entered", "ready", "waiting"}
    /\ drain = "done" => \A c \in Callers : pc[c] \notin {"ready", "waiting"}
    /\ loop # "run" => closed
    /\ ~panicked

\* Every step keeps the gate between the callers and Shutdown.
LEMMA GateStep == Control /\ Gate /\ [Next]_vars => Gate'
<1> SUFFICES ASSUME Control, Gate, [Next]_vars PROVE Gate'
  OBVIOUS
<1> USE DEF Control, Gate
<1>1. ASSUME NEW c \in Callers, Call(c) \/ Leave(c)
      PROVE  Gate'
  BY <1>1 DEF Call, Leave, Goto, callerFrame
<1>2. ASSUME NEW c \in Callers, CallerStep(c)
      PROVE  Gate'
  BY <1>2 DEF CallerStep, Enter, Check, Enqueue, SendSingle, CallDirect,
              GiveUp, awaitResponse, Goto, callerFrame
<1>3. CASE LoopStep \/ ReceiveTick
  BY <1>3 DEF LoopStep, ReceiveRequest, ReceiveTick, ReceiveClosed, Flushed, Exit, loopFrame
<1>4. CASE SendStep
  BY <1>4 DEF SendStep, StartSend, EndSend, sendFrame
<1>5. CASE Ticker
  BY <1>5 DEF Ticker, clientVars
<1>6. CASE Shutdown \/ LockDrain \/ WaitCallers \/ CloseQueue \/ ReturnShutdown
  <2>1. CASE Shutdown \/ LockDrain \/ ReturnShutdown
    BY <2>1 DEF Shutdown, LockDrain, ReturnShutdown, shutFrame
  <2>2. CASE WaitCallers
    <3>1. \A c \in Callers : pc[c] \notin {"entered", "ready", "waiting"}
      BY <2>2 DEF WaitCallers, InFlight
    <3> QED
      BY <2>2, <3>1 DEF WaitCallers, shutFrame
  <2>3. CASE CloseQueue
    BY <2>3 DEF CloseQueue, shutFrame
  <2> QED
    BY <1>6, <2>1, <2>2, <2>3
<1>7. CASE UNCHANGED vars
  BY <1>7 DEF vars, clientVars
<1> QED
  BY <1>1, <1>2, <1>3, <1>4, <1>5, <1>6, <1>7 DEF Next

\* The control state and the gate hold in every reachable state.
LEMMA GateHolds == Spec => [](Control /\ Gate)
<1>1. Init => Control /\ Gate
  BY DEF Init, IntervalInit, Control, Gate
<1> QED
  BY <1>1, ControlStep, GateStep, PTL DEF Spec

\* No interleaving of callers with Shutdown sends on the closed queue, which
\* would panic the process.
THEOREM NeverSendsOnClosedQueue == Spec => []NoSendOnClosedQueue
<1>1. Gate => NoSendOnClosedQueue
  BY DEF Gate, NoSendOnClosedQueue
<1> QED
  BY <1>1, GateHolds, PTL

-----------------------------------------------------------------------------
\* A collected batch always has a tick coming: Next() is called for the first
\* request of a batch, and one dropped by Next() is already on its way.
THEOREM BatchNeverWaitsForever == Spec => []TickPending
<1>1. Init => TickPending
  BY DEF Init, TickPending
<1>2. TickPending /\ [Next]_vars => TickPending'
  <2> SUFFICES ASSUME TickPending, [Next]_vars PROVE TickPending'
    OBVIOUS
  <2> USE DEF TickPending, TickComing
  <2>1. ASSUME NEW c \in Callers, Call(c) \/ Leave(c) \/ CallerStep(c)
        PROVE  TickPending'
    BY <2>1, Zenon DEF CallerStep, Call, Leave, Enter, Check, Enqueue, SendSingle, CallDirect,
                GiveUp, awaitResponse, callerFrame, intervalVars
  <2>2. CASE ReceiveRequest
    <3> DEFINE b == batch \cup {Head(queue)}
    <3>1. batch = {} => Cardinality(b) = 1
      <4> SUFFICES ASSUME batch = {} PROVE Cardinality({Head(queue)}) = 1
        OBVIOUS
      <4> QED
        BY FS_Singleton, Zenon
    <3>2. CASE Cardinality(b) >= BatchLimit
      BY <2>2, <3>2 DEF ReceiveRequest
    <3>3. CASE ~(Cardinality(b) >= BatchLimit) /\ Cardinality(b) = 1
      BY <2>2, <3>3 DEF ReceiveRequest, NextTick
    <3>4. CASE ~(Cardinality(b) >= BatchLimit) /\ Cardinality(b) # 1
      BY <2>2, <3>1, <3>4 DEF ReceiveRequest, intervalVars
    <3> QED
      BY <3>2, <3>3, <3>4
  <2>3. CASE ReceiveTick \/ ReceiveClosed \/ Flushed \/ Exit
    BY <2>3 DEF ReceiveTick, ReceiveClosed, Flushed, Exit
  <2>4. CASE SendStep
    BY <2>4 DEF SendStep, StartSend, EndSend, sendFrame, intervalVars
  <2>5. CASE Ticker
    BY <2>5 DEF Ticker, IntervalStep, StartSleep, WakeUp, Deliver, Quit, clientVars
  <2>6. CASE Shutdown \/ LockDrain \/ WaitCallers \/ CloseQueue \/ ReturnShutdown
    BY <2>6 DEF Shutdown, LockDrain, WaitCallers, CloseQueue, ReturnShutdown,
                shutFrame, intervalVars
  <2>7. CASE UNCHANGED vars
    BY <2>7 DEF vars, clientVars, intervalVars
  <2> QED
    BY <2>1, <2>2, <2>3, <2>4, <2>5, <2>6, <2>7 DEF Next, LoopStep
<1> QED
  BY <1>1, <1>2, PTL DEF Spec

-----------------------------------------------------------------------------
(* Where a request is: in the queue, in the batch, in one batch handed to  *)
(* sendBatch or on the wire, and nowhere twice.                            *)

\* Not handed over yet; handed over and not put on the wire.
Fresh(c) == pc[c] \in {"idle", "locking", "entered", "ready"}
Unsent(c) == sends[c] = 0 /\ resp[c] = "none"
Apart(c) == \A b \in spawned \cup wire : c \notin b
Held(c) == c \in Members(queue) \cup batch \/ ~Apart(c)

Distinct(q) == \A i, j \in 1 .. Len(q) : q[i] = q[j] => i = j

SentAtMostOnce == \A c \in Callers : sends[c] <= 1
FreshNowhere == \A c \in Callers : Fresh(c) => Unsent(c) /\ ~Held(c)
QueueApart == Distinct(queue) /\ \A c \in Members(queue) : Unsent(c) /\ c \notin batch /\ Apart(c)
BatchApart == loop = "run" => \A c \in batch : Unsent(c) /\ Apart(c)
SpawnedApart ==
    /\ \A b \in spawned : \A c \in b : Unsent(c)
    /\ \A b, d \in spawned : \A c \in b : c \in d => b = d
WireApart ==
    /\ \A b \in wire : \A c \in b : resp[c] = "none"
    /\ \A b, d \in wire : \A c \in b : c \in d => b = d
    /\ \A b \in spawned, d \in wire : \A c \in b : c \notin d

Placement ==
    /\ SentAtMostOnce /\ FreshNowhere
    /\ QueueApart /\ BatchApart /\ SpawnedApart /\ WireApart

\* A request that is held has a caller waiting for it or gone.
Awaited == \A c \in Callers : Held(c) => pc[c] = "waiting" \/ c \in left

\* Appending a new request keeps the queue free of duplicates.
LEMMA QueueAppend ==
    ASSUME NEW S, NEW q \in Seq(S), NEW c \in S, Distinct(q), c \notin Members(q)
    PROVE  Members(Append(q, c)) = Members(q) \cup {c} /\ Distinct(Append(q, c))
<1>1. /\ Len(Append(q, c)) = Len(q) + 1
      /\ \A i \in 1 .. Len(q) : Append(q, c)[i] = q[i]
      /\ Append(q, c)[Len(q) + 1] = c
  OBVIOUS
<1>2. Members(Append(q, c)) = Members(q) \cup {c}
  BY <1>1 DEF Members
<1>3. Distinct(Append(q, c))
  BY <1>1 DEF Members, Distinct
<1> QED
  BY <1>2, <1>3

\* The head of the queue occurs nowhere behind it.
LEMMA QueueTail ==
    ASSUME NEW S, NEW q \in Seq(S), q # <<>>, Distinct(q)
    PROVE  /\ Members(q) = Members(Tail(q)) \cup {Head(q)}
           /\ Head(q) \notin Members(Tail(q))
           /\ Distinct(Tail(q))
<1>1. /\ Len(q) \in Nat /\ Len(q) > 0 /\ Len(Tail(q)) = Len(q) - 1
      /\ Head(q) = q[1]
      /\ \A i \in 1 .. Len(q) - 1 : Tail(q)[i] = q[i + 1]
  OBVIOUS
<1>2. Members(Tail(q)) \subseteq Members(q) /\ Head(q) \in Members(q)
  BY <1>1 DEF Members
<1>3. ASSUME NEW x \in Members(q), x # Head(q) PROVE x \in Members(Tail(q))
  <2>1. PICK i \in 1 .. Len(q) : q[i] = x
    BY DEF Members
  <2>2. i - 1 \in 1 .. Len(q) - 1 /\ Tail(q)[i - 1] = q[i]
    BY <1>1, <1>3, <2>1
  <2>3. i - 1 \in 1 .. Len(Tail(q)) /\ x = Tail(q)[i - 1]
    BY <1>1, <2>1, <2>2
  <2>4. \E k \in 1 .. Len(Tail(q)) : x = Tail(q)[k]
    BY <2>3
  <2> QED
    BY <2>4 DEF Members
<1>4. Head(q) \notin Members(Tail(q)) /\ Distinct(Tail(q))
  BY <1>1 DEF Members, Distinct
<1> QED
  BY <1>2, <1>3, <1>4

\* Every step keeps each request in one place.
LEMMA PlacementStep ==
    Control /\ Batches /\ Gate /\ Placement /\ [Next]_vars => Placement'
<1> SUFFICES ASSUME Control, Batches, Gate, Placement, [Next]_vars PROVE Placement'
  OBVIOUS
<1> USE DEF Control, Placement, SentAtMostOnce, FreshNowhere, QueueApart, BatchApart,
            SpawnedApart, WireApart, Fresh, Unsent, Apart, Held
<1>0. \A c \in Members(queue) \cup batch : c \in Callers
  BY DEF Batches, Members, Callers
<1>00. \A d \in spawned \cup wire : d \subseteq Callers
  BY DEF Batches, IsBatch
<1>1. ASSUME NEW c \in Callers, Call(c) \/ Leave(c) \/ Enter(c) \/ Check(c)
                                \/ GiveUp(c) \/ awaitResponse(c)
      PROVE  Placement'
  <2>1. CASE Call(c) \/ Leave(c) \/ Enter(c)
    BY <2>1 DEF Call, Leave, Enter, Goto, callerFrame
  <2>2. CASE Check(c) \/ GiveUp(c) \/ awaitResponse(c)
    BY <2>2 DEF Check, GiveUp, awaitResponse, Goto, callerFrame
  <2> QED
    BY <1>1, <2>1, <2>2, Zenon
<1>2. ASSUME NEW c \in Callers, CallDirect(c)
      PROVE  Placement'
  BY <1>2 DEF CallDirect, Goto, callerFrame
<1>3. ASSUME NEW c \in Callers, SendSingle(c)
      PROVE  Placement'
  <2>1. /\ spawned' = spawned \cup {{c}} /\ pc' = [pc EXCEPT ![c] = "waiting"] /\ Fresh(c)
        /\ UNCHANGED <<queue, batch, wire, resp, sends, loop>>
    BY <1>3 DEF SendSingle, Goto, callerFrame
  <2>2. Unsent(c) /\ c \notin Members(queue) /\ c \notin batch /\ Apart(c)
    BY <2>1
  <2>3. \A d \in Callers : Fresh(d)' => Fresh(d) /\ d # c
    BY <2>1
  <2>4. \A d \in spawned' : d = {c} \/ d \in spawned
    BY <2>1
  <2>5. SentAtMostOnce'
    BY <2>1, <2>2, <2>3, <2>4
  <2>6. FreshNowhere'
    BY <2>1, <2>2, <2>3, <2>4
  <2>7. QueueApart'
    BY <2>1, <2>2, <2>3, <2>4
  <2>8. BatchApart'
    BY <2>1, <2>2, <2>3, <2>4
  <2>9. SpawnedApart'
    <3>1. \A d \in spawned' : \A e \in d : Unsent(e)'
      BY <2>1, <2>2, <2>4
    <3>2. \A d \in spawned : c \notin d
      BY <2>2
    <3>3. ASSUME NEW d \in spawned', NEW e \in spawned', NEW x \in d, x \in e PROVE d = e
      <4>1. CASE x = c
        BY <2>4, <3>2, <3>3, <4>1, Zenon
      <4>2. CASE x # c
        <5>1. d \in spawned /\ e \in spawned
          BY <2>4, <3>3, <4>2
        <5> QED
          BY <3>3, <5>1
      <4> QED
        BY <4>1, <4>2
    <3> QED
      BY <3>1, <3>3
  <2>10. WireApart'
    BY <2>1, <2>2, <2>3, <2>4
  <2> QED
    BY <2>5, <2>6, <2>7, <2>8, <2>9, <2>10, Zenon
<1>4. ASSUME NEW c \in Callers, Enqueue(c)
      PROVE  Placement'
  <2>1. ~closed /\ queue' = Append(queue, c) /\ c \in Batching /\ Fresh(c)
    BY <1>4 DEF Enqueue, Gate
  <2>2. Members(queue') = Members(queue) \cup {c} /\ Distinct(queue')
    BY <2>1, QueueAppend DEF Batches
  <2> QED
    BY <1>4, <2>1, <2>2 DEF Enqueue, Goto, callerFrame
<1>5. CASE ReceiveRequest
  <2> DEFINE b == batch \cup {Head(queue)}
  <2>1. /\ Members(queue) = Members(queue') \cup {Head(queue)}
        /\ Head(queue) \notin Members(queue') /\ Distinct(queue')
    BY <1>5, QueueTail DEF ReceiveRequest, Batches
  <2>2. \A c \in b : Unsent(c) /\ Apart(c) /\ c \notin Members(queue')
    BY <1>5, <2>1 DEF ReceiveRequest
  <2>3. CASE Cardinality(b) >= BatchLimit
    <3>1. /\ batch' = {} /\ spawned' = spawned \cup {b}
          /\ UNCHANGED <<pc, wire, resp, sends, loop>>
      BY <1>5, <2>3 DEF ReceiveRequest, loopFrame
    <3>2. \A c \in b : c \in Members(queue) \/ c \in batch
      BY <2>1
    <3> HIDE DEF b
    <3>3. \A d \in spawned' : d = b \/ d \in spawned
      BY <3>1
    <3> QED
      BY <2>1, <2>2, <3>1, <3>2, <3>3
  <2>4. CASE ~(Cardinality(b) >= BatchLimit)
    BY <1>5, <2>1, <2>2, <2>4 DEF ReceiveRequest, loopFrame
  <2> QED
    BY <2>3, <2>4, Zenon
<1>6. CASE ReceiveTick \/ ReceiveClosed \/ Flushed \/ Exit
  <2>1. CASE ReceiveTick \/ ReceiveClosed
    BY <2>1 DEF ReceiveTick, ReceiveClosed, loopFrame
  <2>2. CASE Flushed \/ Exit
    BY <2>2 DEF Flushed, Exit, loopFrame
  <2> QED
    BY <1>6, <2>1, <2>2, Zenon
<1>7. ASSUME NEW b, StartSend(b)
      PROVE  Placement'
  <2>1. /\ b \in spawned /\ spawned' = spawned \ {b}
        /\ wire' = IF b \ left = {} THEN wire ELSE wire \cup {b \ left}
        /\ UNCHANGED <<pc, queue, batch, loop>>
    BY <1>7 DEF StartSend, sendFrame
  <2>2. \A c \in Callers : /\ c \notin b => resp'[c] = resp[c] /\ sends'[c] = sends[c]
                           /\ c \in b /\ c \notin left => resp'[c] = "none" /\ sends'[c] = 1
                           /\ c \in b /\ c \in left => sends'[c] = 0
    BY <1>7, <2>1 DEF StartSend
  <2>3. b \subseteq Callers
    BY <2>1 DEF Batches, IsBatch
  <2>4. \A d \in wire' : d \in wire \/ (d = b \ left /\ \A c \in d : c \in b /\ c \notin left)
    BY <2>1
  <2>5. \A d \in spawned' : d \in spawned /\ \A c \in d : c \notin b
    BY <2>1
  <2>6. SentAtMostOnce'
    BY <1>0, <1>00, <2>1, <2>2, <2>3, <2>4, <2>5
  <2>7. FreshNowhere'
    BY <1>0, <1>00, <2>1, <2>2, <2>3, <2>4, <2>5, ZenonT(60)
  <2>8. QueueApart'
    BY <2>1, <2>2, <2>3, <2>4, <2>5, <1>0, <1>00, ZenonT(60)
  <2>9. BatchApart'
    BY <1>0, <1>00, <2>1, <2>2, <2>3, <2>4, <2>5, ZenonT(60)
  <2>10. SpawnedApart'
    BY <1>0, <1>00, <2>1, <2>2, <2>3, <2>4, <2>5
  <2>11. WireApart'
    <3>1. \A d \in wire : \A c \in d : c \notin b
      BY <2>1
    <3>2. \A d \in wire' : \A c \in d : resp'[c] = "none"
      BY <1>00, <2>2, <2>3, <2>4, <3>1, ZenonT(60)
    <3>3. ASSUME NEW d \in wire', NEW e \in wire', NEW x \in d, x \in e PROVE d = e
      <4>1. CASE x \in b
        <5>1. d \notin wire /\ e \notin wire
          BY <3>1, <3>3, <4>1
        <5> QED
          BY <2>4, <5>1, Zenon
      <4>2. CASE x \notin b
        <5>1. d \in wire /\ e \in wire
          BY <2>4, <3>3, <4>2
        <5> QED
          BY <3>3, <5>1
      <4> QED
        BY <4>1, <4>2
    <3>4. \A d \in spawned', e \in wire' : \A c \in d : c \notin e
      BY <2>4, <2>5
    <3> QED
      BY <3>2, <3>3, <3>4
  <2> QED
    BY <2>6, <2>7, <2>8, <2>9, <2>10, <2>11, Zenon
<1>8. ASSUME NEW b, EndSend(b)
      PROVE  Placement'
  <2>1. /\ b \in wire /\ wire' = wire \ {b}
        /\ UNCHANGED <<pc, queue, batch, loop, spawned, sends>>
    BY <1>8 DEF EndSend, sendFrame
  <2>2. \A c \in Callers : c \notin b => resp'[c] = resp[c]
    BY <1>8, <2>1 DEF EndSend
  <2>3. b \subseteq Callers
    BY <2>1 DEF Batches, IsBatch
  <2>4. \A d \in wire' \cup spawned' : \A c \in d : c \notin b
    BY <2>1
  <2>5. SentAtMostOnce'
    BY <1>0, <1>00, <2>1, <2>2, <2>3, <2>4, Zenon
  <2>6. FreshNowhere'
    BY <1>0, <1>00, <2>1, <2>2, <2>3, <2>4, ZenonT(60)
  <2>7. QueueApart'
    BY <1>0, <1>00, <2>1, <2>2, <2>3, <2>4, ZenonT(60)
  <2>8. BatchApart'
    BY <1>0, <1>00, <2>1, <2>2, <2>3, <2>4, ZenonT(60)
  <2>9. SpawnedApart'
    BY <1>0, <1>00, <2>1, <2>2, <2>3, <2>4, ZenonT(60)
  <2>10. WireApart'
    BY <1>0, <1>00, <2>1, <2>2, <2>3, <2>4, ZenonT(60)
  <2> QED
    BY <2>5, <2>6, <2>7, <2>8, <2>9, <2>10
<1>9. CASE Ticker
  BY <1>9 DEF Ticker, clientVars
<1>10. CASE Shutdown \/ LockDrain \/ WaitCallers \/ CloseQueue \/ ReturnShutdown
  <2>1. CASE Shutdown \/ LockDrain
    BY <2>1 DEF Shutdown, LockDrain, shutFrame
  <2>2. CASE WaitCallers \/ CloseQueue \/ ReturnShutdown
    BY <2>2 DEF WaitCallers, CloseQueue, ReturnShutdown, shutFrame
  <2> QED
    BY <1>10, <2>1, <2>2, Zenon
<1>11. CASE UNCHANGED vars
  BY <1>11, ZenonT(60) DEF vars, clientVars
<1> QED
  BY <1>1, <1>2, <1>3, <1>4, <1>5, <1>6, <1>7, <1>8, <1>9, <1>10, <1>11, Zenon
     DEF Next, CallerStep, LoopStep, SendStep

\* Every step keeps a held request awaited: awaitResponse returns only what
\* sendBatch has answered, and after the flush nobody waits.
LEMMA AwaitedStep ==
    Control /\ Batches /\ Gate /\ Placement /\ Awaited /\ [Next]_vars => Awaited'
<1> SUFFICES ASSUME Control, Batches, Gate, Placement, Awaited, [Next]_vars PROVE Awaited'
  OBVIOUS
<1> USE DEF Control, Awaited, Held, Apart
<1>1. ASSUME NEW c \in Callers, Call(c) \/ Leave(c) \/ Enter(c) \/ Check(c)
                                \/ CallDirect(c) \/ GiveUp(c)
      PROVE  Awaited'
  BY <1>1, Zenon DEF Call, Leave, Enter, Check, CallDirect, GiveUp, Goto, callerFrame
<1>2. ASSUME NEW c \in Callers, awaitResponse(c)
      PROVE  Awaited'
  <2>1. ~Held(c)
    BY <1>2 DEF awaitResponse, Gate, Placement, QueueApart, BatchApart, SpawnedApart, WireApart,
                Unsent
  <2> QED
    BY <1>2, <2>1 DEF awaitResponse, Goto, callerFrame
<1>3. ASSUME NEW c \in Callers, SendSingle(c)
      PROVE  Awaited'
  BY <1>3 DEF SendSingle, Goto, callerFrame
<1>4. ASSUME NEW c \in Callers, Enqueue(c)
      PROVE  Awaited'
  <2>1. ~closed /\ queue' = Append(queue, c) /\ c \in Batching /\ Fresh(c)
    BY <1>4 DEF Enqueue, Gate, Fresh
  <2>2. Members(queue') = Members(queue) \cup {c}
    BY <2>1, QueueAppend DEF Batches, Placement, QueueApart, FreshNowhere
  <2> QED
    BY <1>4, <2>1, <2>2 DEF Enqueue, Goto, callerFrame
<1>5. CASE ReceiveRequest
  <2> DEFINE b == batch \cup {Head(queue)}
  <2>1. Members(queue) = Members(queue') \cup {Head(queue)}
    BY <1>5, QueueTail DEF ReceiveRequest, Batches, Placement, QueueApart
  <2>2. /\ batch' \subseteq b /\ spawned' \subseteq spawned \cup {b}
        /\ UNCHANGED <<pc, left, wire>>
    BY <1>5 DEF ReceiveRequest, loopFrame
  <2> QED
    BY <2>1, <2>2
<1>6. CASE ReceiveTick \/ ReceiveClosed \/ Flushed \/ Exit
  BY <1>6, Zenon DEF ReceiveTick, ReceiveClosed, Flushed, Exit, loopFrame
<1>7. ASSUME NEW b, StartSend(b) \/ EndSend(b)
      PROVE  Awaited'
  BY <1>7 DEF StartSend, EndSend, sendFrame
<1>8. CASE Ticker
  BY <1>8 DEF Ticker, clientVars
<1>9. CASE Shutdown \/ LockDrain \/ WaitCallers \/ CloseQueue \/ ReturnShutdown
  BY <1>9 DEF Shutdown, LockDrain, WaitCallers, CloseQueue, ReturnShutdown, shutFrame
<1>10. CASE UNCHANGED vars
  BY <1>10 DEF vars, clientVars
<1> QED
  BY <1>1, <1>2, <1>3, <1>4, <1>5, <1>6, <1>7, <1>8, <1>9, <1>10, Zenon
     DEF Next, CallerStep, LoopStep, SendStep

\* All parts of the inductive invariant hold in every reachable state.
LEMMA PlacementHolds == Spec => [](Control /\ Batches /\ Gate /\ Placement /\ Awaited)
<1>1. Init => Control /\ Gate
  BY DEF Init, IntervalInit, Control, Gate
<1>2. Init => Batches
  BY NoRequests DEF Init, Batches
<1>3. Init => Placement /\ Awaited
  <2> SUFFICES ASSUME Init PROVE Placement /\ Awaited
    OBVIOUS
  <2>1. Members(queue) = {} /\ Distinct(queue)
    BY DEF Init, Members, Distinct
  <2> QED
    BY <2>1 DEF Init, Placement, SentAtMostOnce, FreshNowhere, QueueApart, BatchApart,
                SpawnedApart, WireApart, Fresh, Unsent, Apart, Held, Awaited
<1> QED
  BY <1>1, <1>2, <1>3, ControlStep, BatchesStep, GateStep, PlacementStep, AwaitedStep, PTL DEF Spec

\* A request is put on the wire at most once, and sendBatch never blocks on a
\* response channel, for any number of callers, batches and goroutines.
THEOREM RequestsSentOnce == Spec => []SentOnce
<1>1. Placement => SentOnce
  BY DEF Placement, SentAtMostOnce, SpawnedApart, WireApart, Unsent, SentOnce
<1> QED
  BY <1>1, PlacementHolds, PTL

\* Shutdown drains the client: what is left over once it has waited belongs
\* to callers that stopped waiting.
THEOREM ShutdownLeavesNothingBehind == Spec => []NothingLeftBehind
<1>1. Control /\ Batches /\ Gate /\ Awaited => NothingLeftBehind
  <2> SUFFICES ASSUME Control, Batches, Gate, Awaited, drain \in {"drained", "done"},
                      NEW c \in Members(queue) \cup batch \cup UNION (spawned \cup wire)
               PROVE  c \in left
    BY DEF NothingLeftBehind
  <2>1. c \in Callers
    BY DEF Batches, IsBatch, Members, Callers
  <2>2. Held(c)
    BY DEF Held, Apart
  <2> QED
    BY <2>1, <2>2 DEF Gate, Awaited
<1> QED
  BY <1>1, PlacementHolds, PTL

\* A request whose caller has left is never put on the wire: no step raises
\* the send count of a caller whose context is done.
THEOREM NeverSentAfterLeaving == Spec => NotSentAfterLeaving
<1> DEFINE Gone == left \cap Direct = {}
           Unsending == \A c \in left : sends'[c] = sends[c]
<1>1. Init => Gone
  BY DEF Init
<1>2. Gone /\ [Next]_vars => Gone'
  <2> SUFFICES ASSUME Gone, [Next]_vars PROVE Gone'
    OBVIOUS
  <2>1. ASSUME NEW c \in Callers, Call(c) \/ Leave(c) \/ CallerStep(c)
        PROVE  Gone'
    BY <2>1, Zenon DEF CallerStep, Call, Leave, Enter, Check, Enqueue, SendSingle, CallDirect,
                GiveUp, awaitResponse
  <2>2. CASE LoopStep \/ ReceiveTick \/ SendStep \/ Ticker
    BY <2>2, Zenon DEF LoopStep, ReceiveRequest, ReceiveTick, ReceiveClosed, Flushed, Exit, loopFrame,
                SendStep, StartSend, EndSend, sendFrame, Ticker, clientVars
  <2>3. CASE Shutdown \/ LockDrain \/ WaitCallers \/ CloseQueue \/ ReturnShutdown
    BY <2>3 DEF Shutdown, LockDrain, WaitCallers, CloseQueue, ReturnShutdown, shutFrame
  <2>4. CASE UNCHANGED vars
    BY <2>4 DEF vars, clientVars
  <2> QED
    BY <2>1, <2>2, <2>3, <2>4 DEF Next
<1>3. Control /\ Gone /\ [Next]_vars => [Unsending]_vars
  <2> SUFFICES ASSUME Control, Gone, Next PROVE Unsending
    BY Zenon
  <2>1. ASSUME NEW c \in Callers, Call(c) \/ Leave(c) \/ CallerStep(c)
        PROVE  Unsending
    BY <2>1, Zenon DEF Control, CallerStep, Call, Leave, Enter, Check, Enqueue, SendSingle, CallDirect,
                GiveUp, awaitResponse
  <2>2. CASE LoopStep \/ ReceiveTick \/ Ticker
    BY <2>2, Zenon DEF LoopStep, ReceiveRequest, ReceiveTick, ReceiveClosed, Flushed, Exit, loopFrame,
                Ticker, clientVars
  <2>3. CASE SendStep
    BY <2>3 DEF Control, SendStep, StartSend, EndSend
  <2>4. CASE Shutdown \/ LockDrain \/ WaitCallers \/ CloseQueue \/ ReturnShutdown
    BY <2>4 DEF Shutdown, LockDrain, WaitCallers, CloseQueue, ReturnShutdown, shutFrame
  <2> QED
    BY <2>1, <2>2, <2>3, <2>4, Zenon DEF Next
<1> QED
  BY <1>1, <1>2, <1>3, GateHolds, PTL DEF Spec, NotSentAfterLeaving
=============================================================================
