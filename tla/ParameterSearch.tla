-------------------------- MODULE ParameterSearch --------------------------
(***************************************************************************)
(* scripts/sweep_backtest.py, the iterative preset: windows are split into *)
(* the ones a configuration is searched on and the ones it is confirmed    *)
(* on, the search moves from the baseline to the best neighbour until no   *)
(* neighbour is better, and its end is held against the baseline.          *)
(*                                                                         *)
(* A configuration gives each axis a value; what its replay amounts to on  *)
(* either half of the windows is data, any function: the result in cents   *)
(* and the number of filled windows.                                       *)
(*                                                                         *)
(* A definition named Bug... is not part of the model: it is a plausible   *)
(* mistake in the definition after it, which one of the properties catches.*)
(***************************************************************************)
EXTENDS Integers, Sequences, FiniteSets, SequencesExt

CONSTANTS
    Axes,         \* a sequence: the axes in the order of the grid
    Structural,   \* the axes held at the baseline unless asked for
    Values,       \* Values[a]: the values of an axis, in the order of the grid
    Bases,        \* the baselines
    Results,      \* what a replay may amount to: [pnl, filled]
    WindowSets,   \* the windows grouped from the ticks: sequences of [start, end, clocked]
    Holdout,      \* holdout_frac, in tenths
    MinFilled,    \* min_filled_windows
    MaxPasses     \* max_passes

Configs == [{Axes[i] : i \in DOMAIN Axes} -> UNION {{Values[a][i] : i \in DOMAIN Values[a]} : a \in DOMAIN Values}]
Valid(c) == \A a \in DOMAIN c : \E i \in DOMAIN Values[a] : Values[a][i] = c[a]
Params  == {c \in Configs : Valid(c)}

SearchAssumption ==
    /\ Bases \subseteq Params
    /\ Holdout \in 1 .. 9 /\ MinFilled \in Nat \ {0} /\ MaxPasses \in Nat \ {0}
    /\ \A r \in Results : r.pnl \in Int /\ r.filled \in Nat

VARIABLES
    windows,     \* grouped: the windows of the ticks
    structural,  \* include_structural
    truth,       \* truth[c]: what the searched windows make of configuration c
    base,        \* base_params
    incumbent,   \* incumbent_params
    seen,        \* the configurations searched before this pass or in it
    tried,       \* every replay of the search, in order
    accepted,    \* the incumbents, in order
    pass,        \* passes made
    phase,       \* split, descending, stopped, confirmed, rejected, refused
    holdout      \* what the held-out windows made of the baseline and of the winner

vars == <<windows, structural, truth, base, incumbent, seen, tried, accepted, pass, phase, holdout>>

NoResult == [pnl |-> 0, filled |-> 0]

-----------------------------------------------------------------------------
(* split_windows_chronologically.                                          *)

\* The windows that say when they begin and end, by their start; the sort is stable.
Clocked(ws) == SortSeq(SelectSeq(ws, LAMBDA w : w.clocked /\ w.end > w.start),
                       LAMBDA v, w : v.start < w.start)

\* The start at the split, floor(n * (1 - holdout_frac)) of n, from one.
Boundary(ws) == LET c == Clocked(ws) IN
    IF c = <<>> THEN 0 ELSE c[(Len(c) * (10 - Holdout)) \div 10 + 1].start

InSample(ws) == SelectSeq(Clocked(ws), LAMBDA w : w.end <= Boundary(ws))
HeldOut(ws)  == SelectSeq(Clocked(ws), LAMBDA w : w.end > Boundary(ws) /\ w.start >= Boundary(ws))
Purged(ws)   == SelectSeq(Clocked(ws), LAMBDA w : w.end > Boundary(ws) /\ w.start < Boundary(ws))

-----------------------------------------------------------------------------
(* generate_sensitivity_grid and deduplicate_grid: the configuration itself *)
(* and then, axis by axis, each other value of one axis.                    *)

Swept(a) == structural \/ a \notin Structural

Neighbours(c) == {d \in Params : \E a \in DOMAIN c : /\ Swept(a)
                                                     /\ d = [c EXCEPT ![a] = d[a]]}

\* The place of a neighbour in the grid of c; c itself comes first.
Place(c, d) ==
    IF c = d THEN <<0, 0>>
    ELSE LET i == CHOOSE i \in DOMAIN Axes : c[Axes[i]] # d[Axes[i]]
         IN <<i, CHOOSE j \in DOMAIN Values[Axes[i]] : Values[Axes[i]][j] = d[Axes[i]]>>
Sooner(p, q) == p[1] < q[1] \/ (p[1] = q[1] /\ p[2] < q[2])

Gated(r) == r.filled >= MinFilled

-----------------------------------------------------------------------------
Init ==
    /\ windows \in WindowSets /\ structural \in BOOLEAN
    /\ truth \in [Params -> Results]
    /\ base \in Bases
    /\ incumbent = base /\ seen = {base} /\ tried = <<base>> /\ accepted = <<base>>
    /\ pass = 0 /\ phase = "split"
    /\ holdout = [baseline |-> NoResult, winner |-> NoResult]

search == <<incumbent, seen, tried, accepted, pass>>

\* Nothing is searched when one half of the windows is empty.
Split ==
    /\ phase = "split"
    /\ phase' = IF InSample(windows) = <<>> \/ HeldOut(windows) = <<>>
                THEN "refused" ELSE "descending"
    /\ UNCHANGED <<windows, structural, truth, base, search, holdout>>

BugBetter(r) == ~ Gated(truth[incumbent]) \/ r.pnl >= truth[incumbent].pnl
\* An incumbent below the gate loses to any gated candidate.
Better(r) == ~ Gated(truth[incumbent]) \/ r.pnl > truth[incumbent].pnl

\* The candidates of a pass are replayed in the order of the grid; the first of
\* the best ones that passes the gate is the next incumbent if it is better.
Descend ==
    /\ phase = "descending" /\ pass < MaxPasses
    /\ LET fresh == Neighbours(incumbent) \ seen
           gated == {c \in fresh : Gated(truth[c])}
           best  == {c \in gated : \A d \in gated :
                        \/ truth[c].pnl > truth[d].pnl
                        \/ truth[c].pnl = truth[d].pnl /\ ~ Sooner(Place(incumbent, d), Place(incumbent, c))}
       IN /\ seen' = seen \cup fresh
          /\ tried' = tried \o SetToSortSeq(fresh, LAMBDA c, d : Sooner(Place(incumbent, c), Place(incumbent, d)))
          /\ pass' = pass + 1
          /\ IF \E c \in best : Better(truth[c])
             THEN /\ incumbent' \in best
                  /\ accepted' = Append(accepted, incumbent')
                  /\ phase' = IF pass' = MaxPasses THEN "stopped" ELSE phase
             ELSE /\ phase' = "stopped"
                  /\ UNCHANGED <<incumbent, accepted>>
    /\ UNCHANGED <<windows, structural, truth, base, holdout>>

\* confirm_on_holdout.
Confirm ==
    /\ phase = "stopped"
    /\ \E b \in Results, w \in Results :
         /\ incumbent = base => w = b
         /\ holdout' = [baseline |-> b, winner |-> w]
         /\ phase' = IF incumbent # base /\ Gated(w) /\ w.pnl > b.pnl THEN "confirmed" ELSE "rejected"
    /\ UNCHANGED <<windows, structural, truth, base, search>>

Next == Split \/ Descend \/ Confirm
Spec == Init /\ [][Next]_vars

-----------------------------------------------------------------------------
(* Properties.                                                             *)

\* What is searched on is over before anything held out begins; a window is in
\* one half or, when it crosses the boundary, in none.
HalvesAreApart ==
    LET all == {i \in DOMAIN windows : windows[i].clocked /\ windows[i].end > windows[i].start}
    IN /\ \A i \in DOMAIN InSample(windows), j \in DOMAIN HeldOut(windows) :
             InSample(windows)[i].end <= HeldOut(windows)[j].start
       /\ Len(InSample(windows)) + Len(HeldOut(windows)) + Len(Purged(windows)) = Cardinality(all)

\* Each incumbent after the baseline rests on enough filled windows and makes
\* more than every one before it that does.
IncumbentsRise ==
    \A j \in DOMAIN accepted : j > 1 =>
        /\ Gated(truth[accepted[j]])
        /\ \A i \in 1 .. j - 1 : Gated(truth[accepted[i]]) =>
             truth[accepted[i]].pnl < truth[accepted[j]].pnl

\* No configuration is replayed twice.
TriedOnce == \A i, j \in DOMAIN tried : tried[i] = tried[j] => i = j

\* A search that ends before its last pass ends where no neighbour is better,
\* the ones it left out because it had seen them included.
EndsAtTheTop ==
    phase \in {"stopped", "confirmed", "rejected"} /\ pass < MaxPasses =>
        \A c \in Neighbours(incumbent) : Gated(truth[c]) =>
            Gated(truth[incumbent]) /\ truth[c].pnl <= truth[incumbent].pnl

\* Limits stay as they are unless asked for.
LimitsKept == ~structural => \A c \in {tried[i] : i \in DOMAIN tried}, a \in Structural : c[a] = base[a]

\* What is confirmed is another configuration than the baseline that makes more
\* on windows it was not chosen for, and on enough of them.
ConfirmedIsBetter ==
    phase = "confirmed" =>
        /\ incumbent # base /\ holdout.winner.filled >= MinFilled
        /\ holdout.winner.pnl > holdout.baseline.pnl
        /\ incumbent = accepted[Len(accepted)]

SearchSound == /\ HalvesAreApart /\ IncumbentsRise /\ TriedOnce /\ EndsAtTheTop
               /\ LimitsKept /\ ConfirmedIsBetter
=============================================================================
