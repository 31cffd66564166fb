---------------------------- MODULE GlobalManager ---------------------------
(***************************************************************************)
(* One batching loop of the globalManager (global.go): requests enter a    *)
(* bounded channel, the loop collects them per key, and sends them when    *)
(* GlobalBatchLimit keys are collected or its Interval ticks; sending      *)
(* blocks the loop.  Close() stops the loop, which stops the Interval.     *)
(* runAsyncHits and runBroadcasts have this shape, with sendHits and       *)
(* broadcastPeers as the send.                                             *)
(***************************************************************************)
EXTENDS Interval, Sequences, FiniteSets

CONSTANTS
    Keys,         \* rate limit keys
    BatchLimit,   \* GlobalBatchLimit: channel capacity and most keys per send
    MaxQueued     \* bound: requests clients queue in all

ASSUME ManagerAssumption == BatchLimit \in Nat \ {0} /\ MaxQueued \in Nat

VARIABLES
    queue,     \* hitsQueue
    hits,      \* the keys collected, with the requests aggregated for each
    sending,   \* what sendHits is sending
    loop,      \* "run", "sending", "stopping", "exited"
    close,     \* Close(): "no", "waiting" for the loop, "returned"
    queued     \* history: requests queued per key

managerVars == <<queue, hits, sending, loop, close, queued>>
vars == <<intervalVars, managerVars>>

Nothing == [k \in Keys |-> 0]
KeysOf(h) == {k \in Keys : h[k] > 0}

Init ==
    /\ IntervalInit
    /\ queue = <<>> /\ hits = Nothing /\ sending = Nothing
    /\ loop = "run" /\ close = "no"
    /\ queued = 0

\* QueueHit blocks while the channel is full.
QueueHit(k) ==
    /\ queued < MaxQueued /\ Len(queue) < BatchLimit
    /\ queue' = Append(queue, k)
    /\ queued' = queued + 1
    /\ UNCHANGED <<intervalVars, hits, sending, loop, close>>

\* Faulty: asks for a tick at the second key.
collectLateNext ==
    LET h == [hits EXCEPT ![Head(queue)] = @ + 1]
    IN  /\ loop = "run" /\ queue # <<>>
        /\ queue' = Tail(queue)
        /\ IF Cardinality(KeysOf(h)) = BatchLimit
           THEN sending' = h /\ hits' = Nothing /\ loop' = "sending" /\ UNCHANGED intervalVars
           ELSE /\ hits' = h
                /\ UNCHANGED <<sending, loop>>
                /\ IF Cardinality(KeysOf(h)) = 2 THEN NextTick ELSE UNCHANGED intervalVars
        /\ UNCHANGED <<close, queued>>

\* case r := <-hitsQueue
Collect ==
    LET h == [hits EXCEPT ![Head(queue)] = @ + 1]
    IN  /\ loop = "run" /\ queue # <<>>
        /\ queue' = Tail(queue)
        /\ IF Cardinality(KeysOf(h)) = BatchLimit
           THEN sending' = h /\ hits' = Nothing /\ loop' = "sending" /\ UNCHANGED intervalVars
           ELSE /\ hits' = h
                /\ UNCHANGED <<sending, loop>>
                /\ IF Cardinality(KeysOf(h)) = 1 THEN NextTick ELSE UNCHANGED intervalVars
        /\ UNCHANGED <<close, queued>>

\* case <-interval.C
Tick ==
    /\ loop = "run"
    /\ TakeTick
    /\ IF hits = Nothing THEN UNCHANGED <<hits, sending, loop>>
       ELSE sending' = hits /\ hits' = Nothing /\ loop' = "sending"
    /\ UNCHANGED <<queue, close, queued>>

\* Faulty: the loop ends with a failed send.
sendOnce ==
    /\ loop = "sending"
    /\ sending' = Nothing
    /\ loop' \in {"run", "exited"}
    /\ UNCHANGED <<intervalVars, queue, hits, close, queued>>

\* Every peer call of the send has ended, by an answer or by GlobalTimeout.
Sent ==
    /\ loop = "sending"
    /\ sending' = Nothing
    /\ loop' = "run"
    /\ UNCHANGED <<intervalVars, queue, hits, close, queued>>

\* Close() closes the loop's done channel and waits for the loop.
Close ==
    /\ close = "no"
    /\ close' = "waiting"
    /\ UNCHANGED <<intervalVars, queue, hits, sending, loop, queued>>

\* case <-done: interval.Stop(), and what was collected is dropped.
StopLoop ==
    /\ loop = "run" /\ close = "waiting"
    /\ loop' = "stopping"
    /\ CloseDone
    /\ UNCHANGED <<queue, hits, sending, close, queued>>

ExitLoop ==
    /\ loop = "stopping" /\ timer = "stopped"
    /\ loop' = "exited"
    /\ UNCHANGED <<intervalVars, queue, hits, sending, close, queued>>

CloseReturns ==
    /\ close = "waiting" /\ loop = "exited"
    /\ close' = "returned"
    /\ UNCHANGED <<intervalVars, queue, hits, sending, loop, queued>>

Ticker == IntervalStep /\ UNCHANGED managerVars

Next ==
    \/ \E k \in Keys : QueueHit(k)
    \/ Collect \/ Tick \/ Sent
    \/ Close \/ StopLoop \/ ExitLoop \/ CloseReturns
    \/ Ticker

\* Goroutines are scheduled, timers fire, peer calls end by GlobalTimeout;
\* a ready case of the loop's select is not passed over for ever.
Fairness ==
    /\ WF_vars(Collect) /\ WF_vars(Tick) /\ WF_vars(Sent)
    /\ SF_vars(StopLoop) /\ WF_vars(ExitLoop) /\ WF_vars(CloseReturns)
    /\ WF_vars(Ticker)

Spec == Init /\ [][Next]_vars /\ Fairness

-----------------------------------------------------------------------------
\* The variables hold a channel within its capacity, fewer collected keys
\* than the batch limit, and loop states.
TypeOK ==
    /\ IntervalTypeOK
    /\ queue \in Seq(Keys) /\ Len(queue) <= BatchLimit
    /\ hits \in [Keys -> Nat] /\ sending \in [Keys -> Nat]
    /\ Cardinality(KeysOf(hits)) < BatchLimit
    /\ loop \in {"run", "sending", "stopping", "exited"}
    /\ close \in {"no", "waiting", "returned"} /\ queued \in 0 .. MaxQueued

\* Collected requests never wait for a tick that is not coming, although the
\* loop sleeps in a send, ticks may be stale and Next() may be ignored.  The
\* state is well formed: less than a full batch is collected.
CollectedWillTick ==
    /\ TypeOK
    /\ loop \in {"run", "sending"} /\ hits # Nothing => TickComing

\* Until Close, what clients queue leaves the node: the channel drains and
\* the collected requests are sent.
QueuedLeaves ==
    queue # <<>> \/ hits # Nothing
        ~> (queue = <<>> /\ hits = Nothing) \/ close # "no"

\* Close() returns (global.go, "Close stops all goroutines").
CloseEnds == close = "waiting" ~> close = "returned"
=============================================================================
