------------------------------ MODULE MCCloses ------------------------------
(***************************************************************************)
(* What the engine and the dashboard must bring to an end, for TLC: a held *)
(* leg (PaperRound), which of two threads closes it (StopExitRace), and    *)
(* the guards of a backtest (BacktestGuard).  Each is checked under its    *)
(* own settings and its own fairness, a part; they share no state, so a    *)
(* behaviour is of one part, which guards what is fair.                    *)
(***************************************************************************)
EXTENDS StopExitRace

CONSTANTS r1, r2, s1, NoRun

VARIABLES
    part,
    m, running, halted, offset, now, loop, tickNow,
    busy, semaphore, active, singleton, worker, run, stop, registry, victims

roundVars == <<m, running, halted, offset, now, loop, tickNow>>
guardVars == <<busy, semaphore, active, singleton, worker, run, stop, registry, victims>>

Quote(b, a) == [bid |-> b, ask |-> a]
SwingBooks ==
    {[l \in Legs |-> Quote(4900, 5100)],
     [l \in Legs |-> IF l = "UP" THEN Quote(400, 600) ELSE Quote(9400, 9600)]}

Round == INSTANCE PaperRound
    WITH Books <- SwingBooks, Offsets <- {200}, ExitThresh <- 500, ExitReversal <- 200,
         MaxPairCost <- 9900, QuoteLo <- 1000, QuoteHi <- 9000, WindowLen <- 3, DeadZone <- 1,
         EntryDelay <- 0, NakedAtExpiry <- "close", EnableLegChase <- TRUE,
         Commands <- {"stop"}, LastWindow <- 1, PollLag <- 0

Guard == INSTANCE BacktestGuard
    WITH running <- busy, Runs <- {r1, r2}, Stops <- {s1}, MaxCompleted <- 1

ASSUME Guard!GuardAssumption /\ Round!MarketAssumption /\ Round!ClockAssumption

ClosesInit == part \in {"threads", "round", "guard"} /\ Init /\ Round!Init /\ Guard!Init

ClosesNext ==
    /\ UNCHANGED part
    /\ \/ part = "threads" /\ Next /\ UNCHANGED <<roundVars, guardVars>>
       \/ part = "round" /\ Round!Next /\ UNCHANGED <<vars, guardVars>>
       \/ part = "guard" /\ Guard!Next /\ UNCHANGED <<vars, roundVars>>

\* Of the paper round: the ticker runs, time passes, polls end and some are answered.
RoundFairness ==
    /\ WF_roundVars(part = "round" /\ Round!BeginTick)
    /\ SF_roundVars(part = "round" /\ Round!AdvanceClock)
    /\ []<>(loop # "polling")
    /\ []<>(loop = "polling") => []<><<Round!PollOk>>_roundVars

\* Of the guard: the event loop runs what is ready, a request has a deadline and a
\* signalled worker dies.  No worker need finish.
GuardFairness ==
    /\ \A r \in {r1, r2} :
        /\ WF_guardVars(part = "guard" /\ Guard!QueueReady(r))
        /\ WF_guardVars(part = "guard" /\ Guard!StartTask(r))
        /\ WF_guardVars(part = "guard" /\ Guard!TaskEnds(r))
        /\ WF_guardVars(part = "guard" /\ Guard!HandlerTimesOut(r))
        /\ WF_guardVars(part = "guard" /\ (Guard!StreamCloses(r) \/ Guard!StreamEnds(r)))
    /\ \A p \in Guard!Pools :
        WF_guardVars(part = "guard" /\ worker[p] = "signalled" /\ Guard!WorkerDies(p))

ClosesSpec ==
    /\ ClosesInit /\ [][ClosesNext]_<<part, vars, roundVars, guardVars>>
    /\ RoundFairness /\ GuardFairness

-----------------------------------------------------------------------------
(* A leg that is filled alone is closed in the end.                         *)
EveryLegCloses == Round!EveryLegCloses

(* A run gives its guards back, or a stop that could not kill its worker    *)
(* keeps them, or nobody waits for its worker, which is still at work.      *)
GuardsComeBack == Guard!GuardsComeBack
=============================================================================
