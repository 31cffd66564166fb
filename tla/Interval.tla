------------------------------ MODULE Interval ------------------------------
(***************************************************************************)
(* The one-shot ticker of interval.go: Next() asks for a tick through a    *)
(* channel of capacity one, a goroutine sleeps and delivers it through     *)
(* another one, and Stop() waits for that goroutine.  The loops that batch *)
(* work (runBatch, runAsyncHits, runBroadcasts) each own one.              *)
(***************************************************************************)
EXTENDS Naturals

VARIABLES
    in,      \* TRUE: a request for a tick is buffered
    timer,   \* the ticker goroutine: "idle", "sleeping", "sending", "stopped"
    tick,    \* TRUE: a tick is buffered in C
    stop     \* TRUE: Stop() has closed the done channel

intervalVars == <<in, timer, tick, stop>>

IntervalTypeOK ==
    /\ in \in BOOLEAN /\ tick \in BOOLEAN /\ stop \in BOOLEAN
    /\ timer \in {"idle", "sleeping", "sending", "stopped"}

IntervalInit ==
    /\ in = FALSE /\ tick = FALSE /\ stop = FALSE
    /\ timer = "idle"

\* Ask for a tick; ignored when one is already asked for.
NextTick == in' = TRUE /\ UNCHANGED <<timer, tick, stop>>

\* The caller's loop takes the buffered tick.
TakeTick == tick /\ tick' = FALSE /\ UNCHANGED <<in, timer, stop>>

\* Stop() closes done; the caller then waits for timer = "stopped".
CloseDone == stop' = TRUE /\ UNCHANGED <<in, timer, tick>>

\* The goroutine: select on in and done, sleep, send on C.
StartSleep ==
    /\ timer = "idle" /\ in
    /\ in' = FALSE
    /\ timer' = "sleeping"
    /\ UNCHANGED <<tick, stop>>

WakeUp ==
    /\ timer = "sleeping"
    /\ timer' = "sending"
    /\ UNCHANGED <<in, tick, stop>>

Deliver ==
    /\ timer = "sending" /\ ~tick
    /\ tick' = TRUE
    /\ timer' = "idle"
    /\ UNCHANGED <<in, stop>>

Quit ==
    /\ timer = "idle" /\ stop
    /\ timer' = "stopped"
    /\ UNCHANGED <<in, tick, stop>>

IntervalStep == StartSleep \/ WakeUp \/ Deliver \/ Quit

\* A tick will reach C without another call of Next().
TickComing == in \/ timer \in {"sleeping", "sending"} \/ tick
=============================================================================
