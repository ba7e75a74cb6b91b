----------------------------- MODULE MCCollector -----------------------------
(***************************************************************************)
(* The tick collector for TLC: who runs it (CollectorProcess), the tape of *)
(* one window (CollectorTape) and which market it records (MarketResolver).*)
(* Each is checked under settings of its own, a part; they share no state, *)
(* so a behaviour is of one part and leaves the others as they started.    *)
(***************************************************************************)
EXTENDS CollectorProcess, MarketResolver

CONSTANTS p1, p2, p3, up, down

VARIABLES
    part,
    tapeClock, prints, bridge, buffer, window, knownReconnects, round, tape,
    listening, unheard, swallowed, drained, faults

tapeVars == <<tapeClock, prints, bridge, buffer, window, knownReconnects, round, tape,
              listening, unheard, swallowed, drained, faults>>

\* Prints that are redelivered, lost connections, rotations, a dead thread.
Faulty == INSTANCE CollectorTape
    WITH clock <- tapeClock, Legs <- {up, down}, Prices <- {1}, Warmup <- 1, Horizon <- 1,
         DedupTtl <- 1, MaxRestarts <- 1, MaxFaults <- 1, MaxPrints <- 2, MaxTime <- 1,
         Faults <- {"redeliver", "drop", "rest", "thread", "rotate"}
\* A socket that stays up past the TTL and the horizon.
Steady == INSTANCE CollectorTape
    WITH clock <- tapeClock, Legs <- {up, down}, Prices <- {1}, Warmup <- 1, Horizon <- 3,
         DedupTtl <- 2, MaxRestarts <- 1, Faults <- {}, MaxFaults <- 0, MaxPrints <- 2,
         MaxTime <- 5
\* A gap in the socket's tape, or a REST tape that does not answer.
Gappy == INSTANCE CollectorTape
    WITH clock <- tapeClock, Legs <- {up, down}, Prices <- {1}, Warmup <- 1, Horizon <- 2,
         DedupTtl <- 1, MaxRestarts <- 1, Faults <- {"drop", "rest"}, MaxFaults <- 1,
         MaxPrints <- 2, MaxTime <- 2

\* MarketResolver's own constants are those of the part "join", a late start of a short
\* and a long series; windows and bounds of a round are the same in every part.
OneSeries == [s \in 0..0 |-> 10]
TwoSeries == [s \in 0..1 |-> IF s < 1 THEN 10 ELSE 20]
\* One series over three windows: listed early or late, replaced, lookups failing.
Single == INSTANCE MarketResolver
    WITH Count <- 1, Duration <- OneSeries, Boundary <- 10, Lead <- 5, Stagger <- 1,
         Steps <- 2, Cooldown <- 2, MaxAge <- 4, WakeLead <- 3, Aligned <- FALSE,
         StartTimes <- {3}, ListAt <- {1, 4}, MaxGap <- 2, MaxSkew <- 1, LateCalls <- TRUE,
         PrewarmFails <- TRUE, MaxFails <- 1, MaxReplaced <- 1, MaxTime <- 17
\* Lookups of the live market fail around the roll.
Roll == INSTANCE MarketResolver
    WITH Count <- 2, Duration <- TwoSeries, Boundary <- 20, Lead <- 5, Stagger <- 1,
         Steps <- 2, Cooldown <- 2, MaxAge <- 4, WakeLead <- 3, Aligned <- FALSE,
         StartTimes <- {1}, ListAt <- {8}, MaxGap <- 2, MaxSkew <- 0, LateCalls <- TRUE,
         PrewarmFails <- FALSE, MaxFails <- 2, MaxReplaced <- 0, MaxTime <- 24

ASSUME Faulty!TapeAssumption /\ Steady!TapeAssumption /\ Gappy!TapeAssumption
ASSUME Single!ResolverAssumption /\ Roll!ResolverAssumption

CollectorInit ==
    /\ part \in {"guarded", "faulty", "steady", "gappy", "single", "join", "roll"}
    /\ Init /\ (part # "guarded" => ~absent)
    /\ Faulty!Init
    /\ IF part = "join" THEN ResolverInit
       ELSE IF part = "roll" THEN Roll!ResolverInit ELSE Single!ResolverInit

CollectorNext ==
    /\ UNCHANGED part
    /\ \/ part = "guarded" /\ Next /\ UNCHANGED <<tapeVars, resolverVars>>
       \/ part = "faulty" /\ Faulty!Next /\ UNCHANGED <<vars, resolverVars>>
       \/ part = "steady" /\ Steady!Next /\ UNCHANGED <<vars, resolverVars>>
       \/ part = "gappy" /\ Gappy!Next /\ UNCHANGED <<vars, resolverVars>>
       \/ part = "single" /\ Single!ResolverNext /\ UNCHANGED <<vars, tapeVars>>
       \/ part = "join" /\ ResolverNext /\ UNCHANGED <<vars, tapeVars>>
       \/ part = "roll" /\ Roll!ResolverNext /\ UNCHANGED <<vars, tapeVars>>

CollectorSpec == CollectorInit /\ [][CollectorNext]_<<part, vars, tapeVars, resolverVars>>

-----------------------------------------------------------------------------
(* No source writes a print twice, whatever is redelivered; the REST tape   *)
(* echoes no print of the socket within the TTL.  A leg is trusted only     *)
(* after an unbroken warm-up, and a print that is not in the tape is where  *)
(* the collector can still find it, but for one that a reply for the other  *)
(* leg has swallowed.  The tape of a window begins with the first round     *)
(* after it opens, though lookups fail.                                     *)
TapeSound ==
    /\ part \in {"faulty", "steady", "gappy"} => Faulty!OncePerSource
    /\ part = "steady" => Steady!NoEchoWithinTtl /\ Steady!TrustIsEarned
    /\ part = "gappy" => Gappy!NothingElseMissed
    /\ part = "roll" => Roll!OpensOnTime
=============================================================================
