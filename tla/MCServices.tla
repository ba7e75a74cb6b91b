------------------------------ MODULE MCServices ------------------------------
(***************************************************************************)
(* What the services around the engine must bring to an end, for TLC: the  *)
(* market socket settles (MarketFeed), the bridge's calls return and its   *)
(* workers end (StreamBridge), capture goes on (CollectorProcess) and a    *)
(* pending report is given (VerifyCache).  Each is checked under settings  *)
(* and fairness of its own, a part; they share no state, so a behaviour is *)
(* of one part, which guards what is fair.                                 *)
(***************************************************************************)
EXTENDS MarketFeed

CONSTANTS t1, p1, p2, p3, r1, w1

VARIABLES
    part,
    call, isRunning, thread, loop, ready, events, pc, cancelled, wanted,
    proc, quiet, absent, age, torn, watch, child, request, rebuild, ticks, windows, struck, used,
    bytes, policy, mem, side, scan, sem, reply, told, faults, restarts

bridgeVars == <<call, isRunning, thread, loop, ready, events, pc, cancelled, wanted>>
processVars == <<proc, quiet, absent, age, torn, watch, child, request, rebuild, ticks, windows,
                 struck, used>>
cacheVars == <<bytes, policy, mem, side, scan, sem, reply, told, faults, restarts>>

Bridge == INSTANCE StreamBridge WITH Kind <- "unified", MaxStarts <- 2
\* A watchdog alone, and the dashboard beside it.
Guarded == INSTANCE CollectorProcess
    WITH spent <- used, Pids <- {p1, p2}, Requests <- {}, Check <- 3, Stale <- 6,
         ExternalStale <- 3, BeatMax <- 2, StartMax <- 2, Watchdog <- TRUE,
         Faults <- {"die", "wedge", "probe", "start", "torn"}, MaxFaults <- 2, MaxRequests <- 0,
         MaxWindows <- 0
Shared == INSTANCE CollectorProcess
    WITH spent <- used, Pids <- {p1, p2, p3}, Requests <- {r1}, Check <- 2, Stale <- 4,
         ExternalStale <- 2, BeatMax <- 1, StartMax <- 1, Watchdog <- TRUE,
         Faults <- {"die"}, MaxFaults <- 1, MaxRequests <- 1, MaxWindows <- 0
Cache == INSTANCE VerifyCache
    WITH version <- bytes, Waiters <- {w1}, Faults <- {"scan"}, GrowsWhileScanned <- TRUE,
         Refreshes <- FALSE, MaxVersion <- 2, MaxFaults <- 1, MaxRestarts <- 1

ASSUME Bridge!BridgeAssumption /\ Cache!CacheAssumption

ServicesInit ==
    /\ part \in {"feed", "bridge", "guarded", "shared", "cache"}
    /\ Init /\ Bridge!BridgeInit /\ Cache!Init
    /\ part # "feed" => tokens = Tokens /\ \A t \in Tokens : venue[t] = {}
    /\ IF part = "shared" THEN Shared!Init ELSE Guarded!Init
    /\ part \notin {"guarded", "shared"} => ~absent

ServicesNext ==
    /\ UNCHANGED part
    /\ \/ part = "feed" /\ Next /\ UNCHANGED <<bridgeVars, processVars, cacheVars>>
       \/ part = "bridge" /\ Bridge!BridgeNext /\ UNCHANGED <<vars, processVars, cacheVars>>
       \/ part = "guarded" /\ Guarded!Next /\ UNCHANGED <<vars, bridgeVars, cacheVars>>
       \/ part = "shared" /\ Shared!Next /\ UNCHANGED <<vars, bridgeVars, cacheVars>>
       \/ part = "cache" /\ Cache!Next /\ UNCHANGED <<vars, bridgeVars, processVars>>

\* The socket's task runs, and a rotation that has begun goes on.
FeedFairness ==
    /\ WF_vars(part = "feed" /\ Socket)
    /\ WF_vars(part = "feed" /\ (SetFilter \/ BumpVersion \/ DropBuffers \/ DropBooks))

\* Threads run.
BridgeFairness ==
    /\ WF_bridgeVars(part = "bridge" /\ Bridge!StartReturns)
    /\ WF_bridgeVars(part = "bridge" /\ Bridge!StopReturns)
    /\ \A w \in Bridge!Workers :
        /\ WF_bridgeVars(part = "bridge"
                         /\ (Bridge!Boot(w) \/ Bridge!RunLoop(w) \/ Bridge!CloseLoop(w)))

\* Time passes, the watchdog looks, collectors beat, and a request is served.
ProcessFairness ==
    /\ WF_processVars(part = "guarded" /\ Guarded!Tick)
    /\ WF_processVars(part = "guarded" /\ Guarded!Probe)
    /\ WF_processVars(part = "guarded" /\ Guarded!Kill)
    /\ WF_processVars(part = "guarded" /\ Guarded!StartCollector)
    /\ WF_processVars(part = "guarded" /\ Guarded!FillManifest)
    /\ WF_processVars(part = "shared" /\ Shared!Tick)
    /\ WF_processVars(part = "shared" /\ Shared!Probe)
    /\ WF_processVars(part = "shared" /\ Shared!Kill)
    /\ WF_processVars(part = "shared" /\ Shared!StartCollector)
    /\ WF_processVars(part = "shared" /\ Shared!FillManifest)
    /\ \A p \in {p1, p2} : WF_processVars(part = "guarded" /\ Guarded!Beat(p))
    /\ \A p \in {p1, p2, p3} : WF_processVars(part = "shared" /\ Shared!Beat(p))
    /\ WF_processVars(part = "shared" /\ Shared!SpawnChild(r1))
    /\ WF_processVars(part = "shared" /\ Shared!FinishRebuild(r1))

\* The client asks again, and a scan goes on.
CacheFairness ==
    /\ WF_cacheVars(part = "cache" /\ Cache!Ask)
    /\ \A s \in Cache!Scanners :
        /\ WF_cacheVars(part = "cache" /\ Cache!ReachEnd(s))
        /\ WF_cacheVars(part = "cache" /\ Cache!Complete(s))

\* Who asks again and again for a lock gets it: a worker the one of its bridge, to
\* end, and a scan the semaphore.  (The parts exclude each other, so that one
\* conjunct states the fairness of an action of each.)
Locks ==
    /\ SF_<<bridgeVars, cacheVars>>(\/ part = "bridge" /\ Bridge!Broadcast(1) /\ UNCHANGED cacheVars
                                    \/ part = "cache" /\ Cache!Acquire("bg") /\ UNCHANGED bridgeVars)
    /\ SF_<<bridgeVars, cacheVars>>(\/ part = "bridge" /\ Bridge!Broadcast(2) /\ UNCHANGED cacheVars
                                    \/ part = "cache" /\ Cache!Acquire(w1) /\ UNCHANGED bridgeVars)
    /\ \A w \in Bridge!Workers : SF_bridgeVars(part = "bridge" /\ Bridge!LoopEnds(w))

ServicesSpec ==
    /\ ServicesInit /\ [][ServicesNext]_<<part, vars, bridgeVars, processVars, cacheVars>>
    /\ FeedFairness /\ BridgeFairness /\ ProcessFairness /\ CacheFairness /\ Locks

-----------------------------------------------------------------------------
(* The socket ends up connected and subscribed to what was asked for last,  *)
(* unless it was stopped, and gives a session up for a pong of its own.  No *)
(* call of the bridge waits for ever, and a worker told to end, ends.       *)
StreamsSettle ==
    /\ <>[](part = "feed" =>
              (link = "stopped" \/ tokens = {} \/ (link = "up" /\ subscribed = tokens)))
    /\ PongIsOfThisSession
    /\ Bridge!CallsReturn /\ Bridge!ToldWorkersEnd

(* Whatever dies, wedges or fails to start, capture goes on: one collector, *)
(* and at work, or one that wedged before there was a manifest to tell by.  *)
CaptureResumes ==
    /\ <>[](/\ part = "guarded" => Cardinality(Guarded!Alive) = 1
            /\ part = "shared" => Cardinality(Shared!Alive) = 1)
    /\ []<>(/\ part = "guarded" => Guarded!Writers # {} \/ Guarded!Unseen
            /\ part = "shared" => Shared!Writers # {} \/ Shared!Unseen)

(* A client that is told to wait and keeps asking is given a report.        *)
PendingEnds == Cache!PendingEnds
=============================================================================
