----------------------------- MODULE MCBacktest -----------------------------
(***************************************************************************)
(* The backtest for TLC: the replay of one window (BacktestWindow), the    *)
(* stream of a whole run (TickReplay), the search for a configuration      *)
(* (ParameterSearch) and the overnight sweep (OvernightSweep).  Each is    *)
(* checked under settings of its own, a part; they share no state, so a    *)
(* behaviour is of one part and leaves the others as they started.         *)
(***************************************************************************)
EXTENDS BacktestWindow

VARIABLES part, phase, log, open, closedCids, seen, results, emitting, pending, queue, shown,
          windows, structural, truth, base, incumbent, tried, reached, accepted, pass, stage, holdout,
          night, lines, dict, kept, attempts, candidates, index, ratio, written, completed,
          starts, csv, summary

nightVars == <<night, lines, dict, kept, attempts, candidates, index, ratio, written,
               completed, starts, csv, summary>>
searchVars == <<windows, structural, truth, base, incumbent, reached, tried, accepted, pass, stage, holdout>>
replayVars == <<phase, log, open, closedCids, seen, results, emitting, pending, queue, shown>>

(* Ticks of a window: books that are balanced, tilted, decided and one-     *)
(* sided, a bid of 0.0, a print at the opening quote of a leg, and a queue  *)
(* too deep.                                                                *)
Q(b, a) == [bid |-> b, ask |-> a, zero |-> FALSE]
Zero(a) == [bid |-> NoPrice, ask |-> a, zero |-> TRUE]
Book(up, down) == [l \in Legs |-> IF l = "UP" THEN up ELSE down]
Plain(b) == [book |-> b, prints |-> BothLegs({}), deep |-> FALSE]

Balanced == Book(Q(4840, 5040), Q(4960, 5160))
UpCheap  == Book(Q(4200, 4400), Q(5600, 5800))
Decided  == Book(Q(400, 600), Q(9400, 9600))
Crashed  == Book(Zero(500), Q(9400, 9600))
NoDown   == Book(Q(4900, NoPrice), Q(NoPrice, 5100))
OnlyDown == Book(Q(NoPrice, NoPrice), Q(NoPrice, 9900))
Printed  == [Plain(Balanced) EXCEPT !.prints["DOWN"] = {4860}]
Deep     == [Plain(Balanced) EXCEPT !.deep = TRUE]

MCSnaps == {Plain(Balanced), Plain(UpCheap), Plain(Decided), Plain(Crashed), Plain(NoDown), Printed}
EdgeSnaps == {Plain(UpCheap), Plain(OnlyDown), Plain(NoDown), Plain(Crashed), Printed, Deep}

\* The two gates on, and a leg that is carried to the end.
Careful == INSTANCE BacktestWindow
    WITH Snaps <- EdgeSnaps, NakedAtExpiry <- "hold", QueueGate <- 1, PairCostGate <- 10210

Btc5  == [series |-> "btc", duration |-> 5]
Btc15 == [series |-> "btc", duration |-> 15]
Eth5  == [series |-> "eth", duration |-> 5]
Pair  == [kind |-> "pair", pnl |-> 2]
Exit  == [kind |-> "exit", pnl |-> 0 - 1]

Clock(from, to) == [start |-> from, end |-> to, clocked |-> TRUE]
Clocks == {Clock(s, s + d) : s \in 0 .. 3, d \in {0, 1, 3}} \cup {[Clock(1, 2) EXCEPT !.clocked = FALSE]}

\* Every window of two markets, pushed two at a time.
All == INSTANCE TickReplay
    WITH closed <- closedCids, Markets <- {Btc5, Eth5}, Outcomes <- {Pair}, LastWindow <- 1,
         MaxLines <- 4, Tokens <- {}, Durations <- {}, MaxStartDelay <- 0,
         LimitWindows <- 0, BatchWindows <- 2
\* One series and duration, no late windows, one window at most.
Selected == INSTANCE TickReplay
    WITH closed <- closedCids, Markets <- {Btc5, Btc15, Eth5}, Outcomes <- {Pair, Exit},
         LastWindow <- 1, MaxLines <- 4, Tokens <- {"btc"}, Durations <- {5},
         MaxStartDelay <- 1, LimitWindows <- 1, BatchWindows <- 50

\* Every result of the neighbours of a baseline, with and without its limits.
Searched == INSTANCE ParameterSearch
    WITH seen <- reached, phase <- stage, Axes <- <<"offset", "range">>, Structural <- {"range"},
         Values <- [offset |-> <<1, 2, 3>>, range |-> <<1, 2>>],
         Bases <- {[offset |-> 2, range |-> 1]},
         Results <- {[pnl |-> 4, filled |-> 1], [pnl |-> 1, filled |-> 2],
                     [pnl |-> 2, filled |-> 2], [pnl |-> 3, filled |-> 2]},
         WindowSets <- {<<Clock(0, 1), Clock(1, 2)>>}, Holdout <- 5, MinFilled <- 2, MaxPasses <- 3
\* Every four windows of either duration, the boundary inside some of them.
Halved == INSTANCE ParameterSearch
    WITH seen <- reached, phase <- stage, Axes <- <<"offset">>, Structural <- {},
         Values <- [offset |-> <<1, 2>>], Bases <- {[offset |-> 1]},
         Results <- {[pnl |-> 1, filled |-> 1]},
         WindowSets <- UNION {[1 .. n -> Clocks] : n \in 0 .. 4},
         Holdout <- 3, MinFilled <- 1, MaxPasses <- 1

\* Every file of five ticks of three windows, read whole or until the third window begins.
Files(limit) == INSTANCE OvernightSweep
    WITH stage <- night, windows <- kept, Cids <- {"w1", "w2", "w3"}, MaxLines <- 5,
         MaxWindows <- limit, Keys <- {}, Iterations <- 1, MaxAttempts <- 0, Assets <- <<>>,
         Every <- 1, Ratios <- {1}, MaxStarts <- 1, Faults <- {}
\* A night that is killed, restarted, and fails to write; and one where all goes well.
Night(iterations, faults) == INSTANCE OvernightSweep
    WITH stage <- night, windows <- kept, Cids <- {}, MaxLines <- 0, MaxWindows <- 0,
         Keys <- {"k1", "k2"}, Iterations <- iterations, MaxAttempts <- 4, Assets <- <<"BTC">>,
         Every <- 2, Ratios <- {1, 2}, MaxStarts <- 2, Faults <- faults
Rough == {"crash", "replay", "append", "summary"}

ASSUME Files(0)!SweepAssumption /\ Files(2)!SweepAssumption /\ Night(2, Rough)!SweepAssumption
ASSUME Searched!SearchAssumption /\ Halved!SearchAssumption
ASSUME All!ReplayAssumption /\ Selected!ReplayAssumption /\ Careful!ParamsAssumption /\ Careful!SnapsAssumption

\* Some start of the search, in the parts that do not search.
NoSearch ==
    /\ windows = <<>> /\ structural = FALSE /\ truth = <<>> /\ base = <<>> /\ incumbent = <<>>
    /\ reached = {} /\ tried = <<>> /\ accepted = <<>> /\ pass = 0 /\ stage = "split"
    /\ holdout = [baseline |-> Searched!NoResult, winner |-> Searched!NoResult]

BacktestInit ==
    /\ part \in {"window", "careful", "all", "selected", "searched", "halved",
               "files", "cut", "night", "rough"}
    /\ IF part = "careful" THEN Careful!Init ELSE Init
    /\ part \notin {"window", "careful"} => at = 0
    /\ All!Init
    /\ part = "searched" => Searched!Init
    /\ part = "halved" => Halved!Init
    /\ part \notin {"searched", "halved"} => NoSearch
    /\ Files(0)!Init

BacktestNext ==
    /\ UNCHANGED part
    /\ \/ part = "window" /\ Next /\ UNCHANGED <<replayVars, searchVars, nightVars>>
       \/ part = "careful" /\ Careful!Next /\ UNCHANGED <<replayVars, searchVars, nightVars>>
       \/ part = "all" /\ All!Next /\ UNCHANGED <<vars, searchVars, nightVars>>
       \/ part = "selected" /\ Selected!Next /\ UNCHANGED <<vars, searchVars, nightVars>>
       \/ part = "searched" /\ Searched!Next /\ UNCHANGED <<vars, replayVars, nightVars>>
       \/ part = "halved" /\ Halved!Next /\ UNCHANGED <<vars, replayVars, nightVars>>
       \/ /\ \/ part = "files" /\ Files(0)!Next
             \/ part = "cut" /\ Files(2)!Next
             \/ part = "night" /\ Night(3, {})!Next
             \/ part = "rough" /\ Night(2, Rough)!Next
          /\ UNCHANGED <<vars, replayVars, searchVars>>

BacktestSpec == BacktestInit /\ [][BacktestNext]_<<part, vars, replayVars, searchVars, nightVars>>

-----------------------------------------------------------------------------
(* A resting quote moves only up and beside a filled leg, the price of a    *)
(* filled leg never, and no leg is left open in the dead zone that could    *)
(* have been sold.                                                          *)
QuotesHoldAndClose == QuotesHold /\ [][part = "window" => ~ LeftOpenInDeadZone]_vars

(* The profit of a window is its ledger's; and a stream reports the windows *)
(* of the grouping that reads everything first, and its client sees every   *)
(* point once, before the report.                                           *)
ReplaySound ==
    /\ part = "window" => LedgerIsPnl
    /\ part = "all" => All!ReplayIsGrouping /\ All!NoPointLost /\ All!FinalAfterProgress
    /\ part = "selected" => Selected!ReplayIsGrouping

(* A search is confirmed on windows it was not made on, rises from one      *)
(* incumbent to the next, tries nothing twice and ends where no neighbour   *)
(* is better.  A night's rows belong together, and a summary is of the      *)
(* whole file.                                                              *)
SearchSound ==
    /\ part = "searched" => Searched!SearchSound
    /\ part = "halved" => Halved!HalvesAreApart
    /\ part = "files" => Files(0)!WindowsAreEarliest
    /\ part = "cut" => Files(2)!WindowsAreEarliest
    /\ part = "night" => Night(3, {})!SweepSound
    /\ part = "rough" => Night(2, Rough)!SweepSound
=============================================================================
