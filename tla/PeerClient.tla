----------------------------- MODULE PeerClient -----------------------------
(***************************************************************************)
(* One PeerClient of peer_client.go: callers that forward a rate limit to  *)
(* the peer through the batch queue, alone (NO_BATCHING), or by a direct   *)
(* peer call; the runBatch loop with its Interval; the sendBatch           *)
(* goroutines; and Shutdown with its drain goroutine.  A caller may stop   *)
(* waiting at any time.                                                    *)
(***************************************************************************)
EXTENDS Interval, Sequences, FiniteSets

CONSTANTS
    Batching,     \* callers that may go through the queue
    Single,       \* callers that may send alone (NO_BATCHING)
    Direct,       \* GetPeerRateLimits and UpdatePeerGlobals on gubernator's own context
    BatchLimit,   \* BehaviorConfig.BatchLimit
    QueueSize     \* capacity of the queue channel

ASSUME LimitAssumption == BatchLimit \in Nat \ {0} /\ QueueSize \in Nat \ {0}

Callers == Batching \cup Single \cup Direct

VARIABLES
    pc,        \* where each caller is in GetPeerRateLimit
    left,      \* callers whose context is done
    resp,      \* each request's response channel, capacity one
    queue,     \* the queue channel
    closed,    \* the queue channel is closed and queueClosed is set
    batch,     \* requests runBatch has collected
    spawned,   \* batches handed to a sendBatch goroutine that has not started
    wire,      \* batches the peer has been asked to apply
    loop,      \* runBatch: "run", "flushing", "stopping", "exited"
    conn,      \* the grpc connection is open
    shut,      \* Shutdown: "no", "waiting", "returned"
    drain,     \* its drain goroutine: "off", "locking", "holding", "drained", "done"
    sends,     \* history: how often each request was put on the wire
    panicked   \* a send on the closed queue

clientVars == <<pc, left, resp, queue, closed, batch, spawned, wire, loop, conn,
                shut, drain, sends, panicked>>
vars == <<intervalVars, clientVars>>

\* Callers between wg.Add(1) and wg.Done().
InFlight == {c \in Callers : pc[c] \in {"entered", "ready", "waiting"}}

Init ==
    /\ IntervalInit
    /\ pc = [c \in Callers |-> "idle"]
    /\ left = {}
    /\ resp = [c \in Callers |-> "none"]
    /\ queue = <<>> /\ closed = FALSE
    /\ batch = {} /\ spawned = {} /\ wire = {}
    /\ loop = "run" /\ conn = TRUE
    /\ shut = "no" /\ drain = "off"
    /\ sends = [c \in Callers |-> 0]
    /\ panicked = FALSE

-----------------------------------------------------------------------------
(* A caller.                                                               *)

callerFrame == <<intervalVars, closed, batch, wire, loop, conn, shut, drain>>

Goto(c, l) == pc' = [pc EXCEPT ![c] = l]

Call(c) ==
    /\ pc[c] = "idle"
    /\ Goto(c, "locking")
    /\ UNCHANGED <<left, resp, queue, spawned, sends, panicked, callerFrame>>

\* The caller's context is cancelled or times out.
Leave(c) ==
    /\ c \notin Direct /\ c \notin left /\ pc[c] # "done"
    /\ left' = left \cup {c}
    /\ UNCHANGED <<pc, resp, queue, spawned, sends, panicked, callerFrame>>

\* Faulty: counts the caller in without taking wgMutex.
EnterUnlocked(c) ==
    /\ pc[c] = "locking"
    /\ Goto(c, "entered")
    /\ UNCHANGED <<left, resp, queue, spawned, sends, panicked, callerFrame>>

\* wg.Add(1) under wgMutex, which the drain goroutine may hold.
Enter(c) ==
    /\ pc[c] = "locking" /\ drain \notin {"holding", "drained"}
    /\ Goto(c, "entered")
    /\ UNCHANGED <<left, resp, queue, spawned, sends, panicked, callerFrame>>

\* queueClosed and ctx.Err() are read before the request is handed over.
Check(c) ==
    /\ pc[c] = "entered" /\ c \notin Direct
    /\ Goto(c, IF closed \/ c \in left THEN "done" ELSE "ready")
    /\ UNCHANGED <<left, resp, queue, spawned, sends, panicked, callerFrame>>

Enqueue(c) ==
    /\ c \in Batching /\ pc[c] = "ready"
    /\ IF closed
       THEN panicked' = TRUE /\ Goto(c, "done") /\ UNCHANGED queue
       ELSE /\ Len(queue) < QueueSize
            /\ queue' = Append(queue, c)
            /\ Goto(c, "waiting")
            /\ UNCHANGED panicked
    /\ UNCHANGED <<left, resp, spawned, sends, callerFrame>>

SendSingle(c) ==
    /\ c \in Single /\ pc[c] = "ready"
    /\ spawned' = spawned \cup {{c}}
    /\ Goto(c, "waiting")
    /\ UNCHANGED <<left, resp, queue, sends, panicked, callerFrame>>

\* A direct call is bounded by its own timeout and answers or fails.
CallDirect(c) ==
    /\ c \in Direct /\ pc[c] = "entered"
    /\ Goto(c, "done")
    /\ sends' = [sends EXCEPT ![c] = @ + 1]
    /\ UNCHANGED <<left, resp, queue, spawned, panicked, callerFrame>>

\* The select on ctx.Done() while enqueueing or awaiting the response.
GiveUp(c) ==
    /\ c \in left
    /\ pc[c] = "waiting" \/ (pc[c] = "ready" /\ c \in Batching)
    /\ Goto(c, "done")
    /\ UNCHANGED <<left, resp, queue, spawned, sends, panicked, callerFrame>>

awaitResponse(c) ==
    /\ pc[c] = "waiting" /\ resp[c] # "none"
    /\ Goto(c, "done")
    /\ UNCHANGED <<left, resp, queue, spawned, sends, panicked, callerFrame>>

-----------------------------------------------------------------------------
(* The runBatch loop: one select over the queue and the interval.          *)

loopFrame == <<pc, left, resp, closed, wire, conn, shut, drain, sends, panicked>>

\* Faulty: asks for a tick only when a second request joins the first.
lateNext ==
    LET b == batch \cup {Head(queue)}
    IN  /\ loop = "run" /\ queue # <<>>
        /\ queue' = Tail(queue)
        /\ batch' = b
        /\ IF Cardinality(b) = 2 THEN NextTick ELSE UNCHANGED intervalVars
        /\ UNCHANGED <<spawned, loop, loopFrame>>

ReceiveRequest ==
    LET b == batch \cup {Head(queue)}
    IN  /\ loop = "run" /\ queue # <<>>
        /\ queue' = Tail(queue)
        /\ IF Cardinality(b) >= BatchLimit
           THEN batch' = {} /\ spawned' = spawned \cup {b} /\ UNCHANGED intervalVars
           ELSE /\ batch' = b
                /\ UNCHANGED spawned
                /\ IF Cardinality(b) = 1 THEN NextTick ELSE UNCHANGED intervalVars
        /\ UNCHANGED <<loop, loopFrame>>

\* Faulty: sends the batch and keeps it.
KeepBatch ==
    /\ loop = "run"
    /\ TakeTick
    /\ spawned' = IF batch = {} THEN spawned ELSE spawned \cup {batch}
    /\ UNCHANGED <<batch, queue, loop, loopFrame>>

ReceiveTick ==
    /\ loop = "run"
    /\ TakeTick
    /\ spawned' = IF batch = {} THEN spawned ELSE spawned \cup {batch}
    /\ batch' = {}
    /\ UNCHANGED <<queue, loop, loopFrame>>

\* The queue is closed and empty: send the rest, then stop the interval.
ReceiveClosed ==
    /\ loop = "run" /\ queue = <<>> /\ closed
    /\ loop' = "flushing"
    /\ spawned' = IF batch = {} THEN spawned ELSE spawned \cup {batch}
    /\ UNCHANGED <<intervalVars, batch, queue, loopFrame>>

\* The rest is sent in the loop's own goroutine.
Flushed ==
    /\ loop = "flushing" /\ batch \cap UNION (spawned \cup wire) = {}
    /\ loop' = "stopping"
    /\ CloseDone
    /\ UNCHANGED <<batch, spawned, queue, loopFrame>>

Exit ==
    /\ loop = "stopping" /\ timer = "stopped"
    /\ loop' = "exited"
    /\ UNCHANGED <<intervalVars, batch, spawned, queue, loopFrame>>

-----------------------------------------------------------------------------
(* sendBatch: skip callers that left, ask the peer, answer the others.     *)

sendFrame == <<intervalVars, pc, left, queue, closed, batch, loop, conn, shut, drain, panicked>>

\* Faulty: sends also for callers that left.
SendAll(b) ==
    /\ b \in spawned
    /\ spawned' = spawned \ {b}
    /\ wire' = wire \cup {b}
    /\ sends' = [c \in Callers |-> IF c \in b THEN sends[c] + 1 ELSE sends[c]]
    /\ UNCHANGED <<resp, sendFrame>>

\* The check of each context and the call are one step: to the peer a caller
\* that leaves in between is one that leaves just after the call was made.
StartSend(b) ==
    LET live == b \ left
    IN  /\ b \in spawned
        /\ spawned' = spawned \ {b}
        /\ resp' = [c \in Callers |-> IF c \in b \cap left THEN "error" ELSE resp[c]]
        /\ wire' = IF live = {} THEN wire ELSE wire \cup {live}
        /\ sends' = [c \in Callers |-> IF c \in live THEN sends[c] + 1 ELSE sends[c]]
        /\ UNCHANGED sendFrame

\* Faulty: a failed call answers nobody.
DropErrors(b) ==
    /\ b \in wire
    /\ wire' = wire \ {b}
    /\ \E answer \in IF conn THEN {"ok", "none"} ELSE {"none"} :
          resp' = [c \in Callers |-> IF c \in b THEN answer ELSE resp[c]]
    /\ UNCHANGED <<spawned, sends, sendFrame>>

\* The peer answers, or the call fails: timeout, lost connection, bad size.
EndSend(b) ==
    /\ b \in wire
    /\ wire' = wire \ {b}
    /\ \E answer \in IF conn THEN {"ok", "error"} ELSE {"error"} :
          resp' = [c \in Callers |-> IF c \in b THEN answer ELSE resp[c]]
    /\ UNCHANGED <<spawned, sends, sendFrame>>

-----------------------------------------------------------------------------
(* Shutdown and its drain goroutine.                                       *)

shutFrame == <<intervalVars, pc, left, resp, queue, batch, spawned, wire, loop, sends, panicked>>

Shutdown ==
    /\ shut = "no"
    /\ shut' = "waiting"
    /\ drain' = "locking"
    /\ UNCHANGED <<closed, conn, shutFrame>>

LockDrain ==
    /\ drain = "locking"
    /\ drain' = "holding"
    /\ UNCHANGED <<closed, conn, shut, shutFrame>>

\* Faulty: does not wait for the callers inside.
WaitNobody ==
    /\ drain = "holding"
    /\ drain' = "drained"
    /\ UNCHANGED <<closed, conn, shut, shutFrame>>

\* wg.Wait() under wgMutex.
WaitCallers ==
    /\ drain = "holding" /\ InFlight = {}
    /\ drain' = "drained"
    /\ UNCHANGED <<closed, conn, shut, shutFrame>>

\* Set queueClosed, close the queue, release wgMutex.
CloseQueue ==
    /\ drain = "drained"
    /\ drain' = "done"
    /\ closed' = TRUE
    /\ UNCHANGED <<conn, shut, shutFrame>>

\* Drained, or the context of Shutdown timed out; either way the connection closes.
ReturnShutdown ==
    /\ shut = "waiting"
    /\ shut' = "returned"
    /\ conn' = FALSE
    /\ UNCHANGED <<closed, drain, shutFrame>>

-----------------------------------------------------------------------------
CallerStep(c) ==
    Enter(c) \/ Check(c) \/ Enqueue(c) \/ SendSingle(c) \/ CallDirect(c)
    \/ GiveUp(c) \/ awaitResponse(c)

LoopStep == ReceiveRequest \/ ReceiveClosed \/ Flushed \/ Exit

SendStep == \E b \in spawned \cup wire : StartSend(b) \/ EndSend(b)

Ticker == IntervalStep /\ UNCHANGED clientVars

Next ==
    \/ \E c \in Callers : Call(c) \/ Leave(c) \/ CallerStep(c)
    \/ LoopStep \/ ReceiveTick
    \/ SendStep
    \/ Ticker
    \/ Shutdown \/ LockDrain \/ WaitCallers \/ CloseQueue \/ ReturnShutdown

\* Goroutines are scheduled, timers fire and peer calls end by BatchTimeout.
\* A caller need not call or leave, and nobody need call Shutdown.
Fairness ==
    /\ \A c \in Callers : WF_vars(CallerStep(c))
    /\ WF_vars(LoopStep) /\ WF_vars(ReceiveTick)
    /\ WF_vars(SendStep)
    /\ WF_vars(Ticker)
    /\ WF_vars(LockDrain \/ WaitCallers \/ CloseQueue) /\ WF_vars(ReturnShutdown)

Spec == Init /\ [][Next]_vars /\ Fairness

-----------------------------------------------------------------------------
Members(q) == {q[i] : i \in 1 .. Len(q)}

\* The variables hold goroutine states and channels within their capacity,
\* and no batch outgrows BatchLimit, beyond which the peer refuses it whole.
TypeOK ==
    /\ IntervalTypeOK
    /\ pc \in [Callers -> {"idle", "locking", "entered", "ready", "waiting", "done"}]
    /\ left \subseteq Callers
    /\ resp \in [Callers -> {"none", "ok", "error"}]
    /\ queue \in Seq(Batching) /\ Len(queue) <= QueueSize
    /\ closed \in BOOLEAN /\ conn \in BOOLEAN /\ panicked \in BOOLEAN
    /\ batch \subseteq Batching /\ Cardinality(batch) < BatchLimit
    /\ spawned \subseteq SUBSET Callers /\ wire \subseteq SUBSET Callers
    /\ \A b \in spawned \cup wire : Cardinality(b) <= BatchLimit
    /\ loop \in {"run", "flushing", "stopping", "exited"}
    /\ shut \in {"no", "waiting", "returned"}
    /\ drain \in {"off", "locking", "holding", "drained", "done"}
    /\ sends \in [Callers -> Nat]

\* No caller ever sends on the closed queue: the queueClosed check and the
\* wgMutex/wg protocol together keep Shutdown and enqueueing apart.
NoSendOnClosedQueue == ~panicked

\* A collected batch never waits for a tick that is not coming, although
\* Next() is dropped while one is asked for and ticks may be stale.
TickPending == loop = "run" /\ batch # {} => TickComing

\* A request is put on the wire at most once, and answering it never blocks:
\* while sendBatch holds a request its response channel is empty.
SentOnce ==
    /\ \A c \in Callers : sends[c] <= 1
    /\ \A b \in spawned \cup wire : \A c \in b : resp[c] = "none"

\* A request whose caller has left before sendBatch looks is not sent: the
\* peer is not charged for hits nobody waits for.
NotSentAfterLeaving ==
    [][\A c \in left : sends'[c] = sends[c]]_vars

\* Shutdown drains: once it has waited, a request still queued, collected or
\* being sent belongs to a caller that stopped waiting.
NothingLeftBehind ==
    drain \in {"drained", "done"} =>
        Members(queue) \cup batch \cup UNION (spawned \cup wire) \subseteq left

\* Every call returns, with its caller waiting to the end or not, whatever
\* becomes of the peer and whenever Shutdown comes; and Shutdown's drain
\* goroutine ends: waiting for the callers under wgMutex is not waiting for
\* each other.
CallersAndShutdownReturn ==
    /\ \A c \in Callers : pc[c] = "locking" ~> pc[c] = "done"
    /\ shut = "waiting" ~> drain = "done"
=============================================================================
