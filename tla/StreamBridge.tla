--------------------------- MODULE StreamBridge ---------------------------
(***************************************************************************)
(* The life of a stream bridge of strategy/streaming.py: start and stop,   *)
(* called by the engine or the collector, and the worker thread each start *)
(* makes, which owns an event loop.  Kind says which bridge: "unified"     *)
(* (UnifiedStreamBridge), whose worker takes the bridge's lock in every    *)
(* broadcast and whose stop sets the clients' stop events itself, or       *)
(* "collector" (CLOBStreamCollectorBridge), whose stop asks the loop to.   *)
(*                                                                         *)
(* There is one caller at a time: both methods run under the bridge's      *)
(* lock.  A join or a wait times out here only if the worker cannot go on: *)
(* a worker that is merely slow is not modelled.                           *)
(***************************************************************************)
EXTENDS Naturals, FiniteSets

CONSTANTS
    Kind,       \* "unified" or "collector"
    MaxStarts   \* bound: workers ever started

BridgeAssumption == Kind \in {"unified", "collector"} /\ MaxStarts \in Nat

Workers == 1..MaxStarts
NoWorker == 0

VARIABLES
    call,       \* the call under way, which holds _lock: none, start, stop
    isRunning,  \* is_running
    thread,     \* _thread: the worker started last
    loop,       \* _loop: whose event loop the bridge knows
    ready,      \* _loop_ready
    events,     \* the clients' _stop_event: whose loop it was made for, and if set
    pc,         \* worker -> new, boot, ready, running, waiting, closing, dead
    cancelled,  \* workers whose loop has been told to end
    wanted      \* auxiliary: does the caller want the bridge up?

bridgeVars == <<call, isRunning, thread, loop, ready, events, pc, cancelled, wanted>>

BridgeInit ==
    /\ call = "none" /\ isRunning = FALSE /\ wanted = FALSE
    /\ thread = NoWorker /\ loop = NoWorker /\ ready = FALSE
    /\ events = [of |-> NoWorker, set |-> FALSE]
    /\ pc = [w \in Workers |-> "new"]
    /\ cancelled = {}

Alive(w) == pc[w] \notin {"new", "dead"}
LoopRunning(w) == w # NoWorker /\ pc[w] \in {"running", "waiting"}

-----------------------------------------------------------------------------
(* The caller.                                                             *)

CallStart ==
    /\ call = "none" /\ thread < MaxStarts
    /\ wanted' = TRUE
    /\ IF isRunning
       THEN UNCHANGED <<call, isRunning, thread, ready, events, pc>>
       ELSE /\ call' = "start"
            /\ isRunning' = TRUE
            /\ thread' = thread + 1
            /\ pc' = [pc EXCEPT ![thread + 1] = "boot"]
            /\ ready' = FALSE
            /\ events' = [events EXCEPT !.set = IF Kind = "unified" THEN FALSE ELSE @]
    /\ UNCHANGED <<loop, cancelled>>

StartReturns ==
    /\ call = "start" /\ ready
    /\ call' = "none"
    /\ UNCHANGED <<isRunning, thread, loop, ready, events, pc, cancelled, wanted>>

(* Tell the worker to end: by the events, and through the loop, if it is   *)
(* running.                                                                *)
CallStop ==
    /\ call = "none"
    /\ wanted' = FALSE
    /\ IF ~isRunning
       THEN UNCHANGED <<call, events, cancelled>>
       ELSE /\ call' = "stop"
            /\ events' = [events EXCEPT !.set = IF Kind = "unified" THEN TRUE ELSE @]
            /\ cancelled' = cancelled \cup {w \in {loop} : LoopRunning(w)}
    /\ UNCHANGED <<isRunning, thread, loop, ready, pc>>

Told(w) == w \in cancelled \/ events.set

(* The worker waits for the lock this call holds, or does not know that it *)
(* should end: the three or five seconds of the join pass.                 *)
JoinTimesOut == pc[thread] = "waiting" \/ (pc[thread] = "running" /\ ~Told(thread))

StopReturns ==
    /\ call = "stop"
    /\ pc[thread] = "dead" \/ JoinTimesOut
    /\ call' = "none"
    /\ isRunning' = FALSE
    /\ UNCHANGED <<thread, loop, ready, events, pc, cancelled, wanted>>

-----------------------------------------------------------------------------
(* _worker_main.                                                           *)

Boot(w) ==
    /\ pc[w] = "boot"
    /\ loop' = w
    /\ events' = [of |-> w, set |-> FALSE]
    /\ ready' = TRUE
    /\ pc' = [pc EXCEPT ![w] = "ready"]
    /\ UNCHANGED <<call, isRunning, thread, cancelled, wanted>>

RunLoop(w) ==
    /\ pc[w] = "ready"
    /\ pc' = [pc EXCEPT ![w] = "running"]
    /\ UNCHANGED <<call, isRunning, thread, loop, ready, events, cancelled, wanted>>

(* A frame arrives and is broadcast, under the bridge's lock.              *)
BeginBroadcast(w) ==
    /\ Kind = "unified" /\ pc[w] = "running" /\ w \notin cancelled
    /\ pc' = [pc EXCEPT ![w] = "waiting"]
    /\ UNCHANGED <<call, isRunning, thread, loop, ready, events, cancelled, wanted>>

Broadcast(w) ==
    /\ pc[w] = "waiting" /\ call = "none"
    /\ pc' = [pc EXCEPT ![w] = "running"]
    /\ UNCHANGED <<call, isRunning, thread, loop, ready, events, cancelled, wanted>>

(* run_direct and the other clients end, by their cancellation or by the   *)
(* stop events of the moment, which may be those of a later start.         *)
LoopEnds(w) ==
    /\ pc[w] = "running" /\ Told(w)
    /\ pc' = [pc EXCEPT ![w] = "closing"]
    /\ UNCHANGED <<call, isRunning, thread, loop, ready, events, cancelled, wanted>>

(* The finally block works on _loop, which may be another worker's by now: *)
(* the tasks of one that runs are cancelled, and closing it raises; one    *)
(* that does not run yet is closed under its worker.                       *)
CloseLoop(w) ==
    /\ pc[w] = "closing"
    /\ LET other == {loop} \ {w}
           running == {v \in other : LoopRunning(v)}
           early == {v \in other : pc[v] = "ready"}
       IN  /\ cancelled' = cancelled \cup running
           /\ isRunning' = (isRunning /\ running # {})
           /\ pc' = [v \in Workers |-> CASE v = w -> "dead"
                                         [] v \in early -> "closing"
                                         [] OTHER -> pc[v]]
    /\ UNCHANGED <<call, thread, loop, ready, events, wanted>>

-----------------------------------------------------------------------------
Worker(w) ==
    Boot(w) \/ RunLoop(w) \/ Broadcast(w) \/ LoopEnds(w) \/ CloseLoop(w)

BridgeNext ==
    \/ CallStart \/ StartReturns \/ CallStop \/ StopReturns
    \/ \E w \in Workers : Worker(w) \/ BeginBroadcast(w)

BridgeSpec == BridgeInit /\ [][BridgeNext]_bridgeVars

(* Threads are scheduled, and a loop that has been told to end does not    *)
(* serve frames for ever first.                                            *)
BridgeFairSpec ==
    /\ BridgeSpec
    /\ WF_bridgeVars(StartReturns) /\ WF_bridgeVars(StopReturns)
    /\ \A w \in Workers : WF_bridgeVars(Boot(w) \/ RunLoop(w) \/ CloseLoop(w))
    /\ \A w \in Workers : SF_bridgeVars(Broadcast(w)) /\ SF_bridgeVars(LoopEnds(w))

-----------------------------------------------------------------------------
(* When start has returned, the bridge knows the loop of the worker it     *)
(* made, so that a stop is addressed to that one.                          *)
KnowsItsLoop == call = "none" /\ isRunning => loop = thread

(* No call waits for ever, not even a stop for a worker that waits for the *)
(* lock the stop holds.                                                    *)
CallsReturn == call # "none" ~> call = "none"

(* A worker that has been told to end, ends, also if a restart has renewed *)
(* the stop events meanwhile.                                              *)
ToldWorkersEnd == \A w \in Workers : w \in cancelled ~> pc[w] = "dead"

(* When stop returns there is no worker (streaming.py:1153, "Stop the      *)
(* socket and join the worker thread").                                    *)
StopEndsWorker ==
    call = "none" /\ ~wanted => \A w \in Workers : ~Alive(w)

(* What has been started and not stopped since is not told to end          *)
(* (live_trader.py:3108, "Ensure stream bridge is running").               *)
RestartSurvives ==
    call = "none" /\ wanted /\ isRunning /\ pc[thread] = "running" => thread \notin cancelled
=============================================================================
