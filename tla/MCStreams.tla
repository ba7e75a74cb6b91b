------------------------------ MODULE MCStreams ------------------------------
(***************************************************************************)
(* The stream clients of strategy/streaming.py for TLC: the market socket, *)
(* the order stream and the bridge that owns the worker threads.  Each is  *)
(* checked under settings of its own, a part; they share no state, so a    *)
(* behaviour is of one part and leaves the others as they started.         *)
(***************************************************************************)
EXTENDS MarketFeed

CONSTANTS t1, t2, o1, o2, o3

VARIABLES
    part,
    open, completed, buffering, uBuffer, caller, snapshot, replay, uVenue,
    clock, uWire, losses, fetches, known,
    call, isRunning, thread, loop, ready, events, pc, cancelled, wanted

userVars == <<open, completed, buffering, uBuffer, caller, snapshot, replay,
              uVenue, clock, uWire, losses, fetches, known>>
bridgeVars == <<call, isRunning, thread, loop, ready, events, pc, cancelled, wanted>>

Prints == INSTANCE MarketFeed WITH MaxRotations <- 1, MaxPrints <- 3, MaxFaults <- 0
Books == INSTANCE MarketFeed WITH Tokens <- {t1}, Levels <- {1, 2}, MaxRotations <- 1, MaxMoves <- 2
Sdk == INSTANCE MarketFeed
    WITH Transport <- "sdk", RotateDuringSend <- TRUE, MaxRotations <- 1, MaxMoves <- 1
Boot == INSTANCE UserStream
    WITH buffer <- uBuffer, venue <- uVenue, wire <- uWire,
         Orders <- {o1, o2, o3}, Apart <- TRUE, MaxLosses <- 0, MaxFetches <- 1
Reconnect == INSTANCE UserStream
    WITH buffer <- uBuffer, venue <- uVenue, wire <- uWire,
         Orders <- {o1, o2}, Apart <- TRUE, MaxLosses <- 1, MaxFetches <- 2
Bridge == INSTANCE StreamBridge WITH Kind <- "unified", MaxStarts <- 3

ASSUME Boot!UserAssumption /\ Reconnect!UserAssumption /\ Bridge!BridgeAssumption

FeedParts == {"subscription", "prints", "books", "sdk"}

StreamsInit ==
    /\ part \in FeedParts \cup {"boot", "reconnect", "bridge"}
    /\ IF part = "books" THEN Books!Init ELSE Init
    /\ part \notin {"subscription", "books", "sdk"} =>
           tokens = Tokens /\ \A t \in Tokens : venue[t] = {}
    /\ IF part = "reconnect" THEN Reconnect!Init ELSE Boot!Init
    /\ part \notin {"boot", "reconnect"} => \A o \in {o1, o2, o3} : uVenue[o] = "live"
    /\ Bridge!BridgeInit

StreamsNext ==
    /\ UNCHANGED part
    /\ \/ part = "subscription" /\ Next /\ UNCHANGED <<userVars, bridgeVars>>
       \/ part = "prints" /\ Prints!Next /\ UNCHANGED <<userVars, bridgeVars>>
       \/ part = "books" /\ Books!Next /\ UNCHANGED <<userVars, bridgeVars>>
       \/ part = "sdk" /\ Sdk!Next /\ UNCHANGED <<userVars, bridgeVars>>
       \/ part = "boot" /\ Boot!Next /\ UNCHANGED <<vars, bridgeVars>>
       \/ part = "reconnect" /\ Reconnect!Next /\ UNCHANGED <<vars, bridgeVars>>
       \/ part = "bridge" /\ Bridge!BridgeNext /\ UNCHANGED <<vars, userVars>>

StreamsSpec == StreamsInit /\ [][StreamsNext]_<<part, vars, userVars, bridgeVars>>

-----------------------------------------------------------------------------
(* No print is lost, whatever is rotated; the table of open orders is the  *)
(* venue's after a boot, and lacks none after a reconnect; and the bridge   *)
(* whose start has returned knows the loop of its own worker.               *)
ClientsSound ==
    /\ part # "books" => PrintsConserved
    /\ part = "boot" => Boot!OpenIsLive /\ Boot!TypeOK
    /\ part = "reconnect" => Reconnect!LiveAreOpen /\ Reconnect!TypeOK
    /\ Bridge!KnowsItsLoop
=============================================================================
