--------------------------- MODULE BacktestRequest ---------------------------
(***************************************************************************)
(* What a request for a backtest or a sweep becomes before it is run:      *)
(* the registry of the knobs and the checks of BacktestParams (backtest/   *)
(* engine.py), the clamping that builds the parameters of a run, and the   *)
(* points of a sweep's axis (server/osc_dash.py).                          *)
(*                                                                         *)
(* Prices, fractions and shares of a window are in thousandths: a tenth of *)
(* a percent in a request is a thousandth of the window.  Seconds of the   *)
(* dead zone are in thousandths too; a delay and a depth are whole.        *)
(***************************************************************************)
EXTENDS Integers, Sequences, FiniteSets, SequencesExt

CONSTANTS
    Odd,            \* [knob -> the values an operator may ask for besides the default]
    Axes,           \* the axes that are swept
    Centers,        \* the anchors a sweep may be given
    MaxChanges      \* bound: knobs that differ from the page's defaults

VARIABLES
    asked,          \* the request's values
    changed,        \* the knobs that were changed
    axis, center    \* the sweep: its axis, or "none", and its anchor

vars == <<asked, changed, axis, center>>

Absent == 0 - 10000001          \* None
NotFinite == 0 - 10000002       \* nan, inf

Finite(v) == v \notin {Absent, NotFinite}

Least(a, b) == IF a < b THEN a ELSE b
Most(a, b) == IF a > b THEN a ELSE b
Within(v, low, high) == Most(low, Least(high, v))

-----------------------------------------------------------------------------
(* BacktestParams: _PARAM_GROUPS and __post_init__.                         *)

Registry == [
    offset           |-> [default |-> 20,  bounds |-> <<1, 490>>],
    queue_gate       |-> [default |-> 0,   bounds |-> <<0, 100000>>],
    max_pair_cost    |-> [default |-> 990, bounds |-> <<500, 1000>>],
    quote_shares     |-> [default |-> 5,   bounds |-> <<5, 10000>>],
    entry_delay_sec  |-> [default |-> 0,   bounds |-> <<0, 3600>>],
    entry_delay_pct  |-> [default |-> Absent, bounds |-> <<0, 1000>>],
    exit_reversal    |-> [default |-> 20,  bounds |-> <<1, 500>>]]

Markets == {"btc_5m", "btc_15m", "sol_5m", "sol_15m", "default_5m", "default_15m"}

(* __post_init__ accepts exactly these.                                     *)
Accepts(p) ==
    /\ p.dead_zone_unit \in {"pct", "sec"}
    /\ Finite(p.dead_zone_val) /\ p.dead_zone_val >= 0
    /\ p.dead_zone_unit = "pct" => p.dead_zone_val <= 1000
    /\ p.naked_leg_at_expiry \in {"close", "hold"}
    /\ p.entry_delay_sec # Absent => p.entry_delay_sec \in 0..3600
    /\ p.entry_delay_pct # Absent => p.entry_delay_pct \in 0..1000
    /\ p.max_pair_cost \in 500..1000
    /\ p.quote_range[1] >= 0 /\ p.quote_range[1] < p.quote_range[2] /\ p.quote_range[2] <= 1000

-----------------------------------------------------------------------------
(* _clamp_to_spec and _build_backtest_params.                               *)

ClampToSpec(name, v) ==
    IF Finite(v) THEN Within(v, Registry[name].bounds[1], Registry[name].bounds[2])
    ELSE Registry[name].default

QuoteRange(lo, hi) ==
    LET low == Within(lo, 0, 1000)
        high == Within(hi, 0, 1000)
    IN  IF Finite(lo) /\ Finite(hi) /\ low < high THEN <<low, high>> ELSE <<100, 900>>

EntryDelay(r) ==
    IF r.entry_delay_pct # Absent
    THEN [pct |-> IF Finite(r.entry_delay_pct) THEN Within(r.entry_delay_pct, 0, 1000) ELSE 0,
          sec |-> 0]
    ELSE [pct |-> Absent,
          sec |-> IF Finite(r.entry_delay_sec) THEN Within(r.entry_delay_sec, 0, 3600) ELSE 0]

\* A mutant: the bound of the longer unit for both.
BugDeadZone(r) ==
    IF r.dead_zone_pct # Absent
    THEN [unit |-> "pct", val |-> IF Finite(r.dead_zone_pct) THEN Within(r.dead_zone_pct, 0, 1000) ELSE 100]
    ELSE [unit |-> r.dead_zone_unit,
          val |-> IF Finite(r.dead_zone_val) THEN Within(r.dead_zone_val, 0, 3600000) ELSE 100]

(* A percentage given overrides the unit; without one the bound is the      *)
(* unit's own.                                                              *)
DeadZone(r) ==
    IF r.dead_zone_pct # Absent
    THEN [unit |-> "pct",
          val |-> IF Finite(r.dead_zone_pct) THEN Within(r.dead_zone_pct, 0, 1000) ELSE 100]
    ELSE LET unit == IF r.dead_zone_unit \in {"pct", "sec"} THEN r.dead_zone_unit ELSE "pct"
         IN  [unit |-> unit,
              val |-> IF Finite(r.dead_zone_val)
                      THEN Within(r.dead_zone_val, 0, IF unit = "pct" THEN 1000 ELSE 3600000)
                      ELSE 100]

BuildParams(r) ==
    LET delay == EntryDelay(r)
        zone == DeadZone(r)
    IN  [offset |-> ClampToSpec("offset", r.offset),
         queue_gate |-> ClampToSpec("queue_gate", r.queue),
         max_pair_cost |-> ClampToSpec("max_pair_cost", r.pair_cost),
         exit_thresh |->
             [m \in Markets |-> CASE m \in {"btc_5m", "btc_15m"} -> r.exit_btc
                                  [] m \in {"sol_5m", "sol_15m"} -> r.exit_sol
                                  [] m = "default_5m" -> r.exit_default_5m
                                  [] m = "default_15m" -> r.exit_default_15m],
         exit_reversal |-> ClampToSpec("exit_reversal", r.exit_reversal),
         quote_shares |-> ClampToSpec("quote_shares", Most(5, r.size)),
         quote_range |-> QuoteRange(r.quote_lo, r.quote_hi),
         entry_delay_sec |-> ClampToSpec("entry_delay_sec", delay.sec),
         entry_delay_pct |-> delay.pct,
         dead_zone_val |-> zone.val,
         dead_zone_unit |-> zone.unit,
         naked_leg_at_expiry |-> IF r.naked_leg \in {"close", "hold"} THEN r.naked_leg ELSE "close",
         enable_leg_chase |-> r.leg_chase]

(* What the page is told was asked for, after the range and the percentages *)
(* were put right, and what it is told was used; neither tells the unit of  *)
(* a dead zone, nor its value when no percentage was given.                 *)
Echo(r) ==
    LET zone == DeadZone(r)
        range == QuoteRange(r.quote_lo, r.quote_hi)
    IN  [r EXCEPT !.size = Most(5, @), !.quote_lo = range[1], !.quote_hi = range[2],
                  !.entry_delay_sec = EntryDelay(r).sec, !.entry_delay_pct = EntryDelay(r).pct,
                  !.dead_zone_pct = IF r.dead_zone_pct = Absent THEN Absent ELSE zone.val,
                  !.dead_zone_val = 100, !.dead_zone_unit = "pct",
                  !.naked_leg = BuildParams(r).naked_leg_at_expiry]

\* The delay that was used is told as a fraction of the window, where a request gives a
\* percentage: of a whole ten of percent, this is the percentage it reads as.
ReadAsPercent(fraction) == IF fraction = Absent THEN Absent ELSE fraction \div 100

Used(r) ==
    LET p == BuildParams(r)
    IN  [Echo(r) EXCEPT !.offset = p.offset, !.queue = p.queue_gate, !.pair_cost = p.max_pair_cost,
                        !.exit_reversal = p.exit_reversal, !.entry_delay_sec = p.entry_delay_sec,
                        !.entry_delay_pct = ReadAsPercent(p.entry_delay_pct),
                        !.dead_zone_pct = IF p.dead_zone_unit = "pct" THEN p.dead_zone_val ELSE Absent]

-----------------------------------------------------------------------------
(* The axes of a sweep.                                                     *)

Categorical == {"leg_chase", "naked_leg"}

SweepAxes == [
    queue             |-> <<0, 10, 25, 50, 100, 200, 500, 1000, 2000>>,
    offset            |-> <<10, 15, 20, 25, 30, 35, 40>>,
    exit_stop_default |-> <<60, 80, 100, 120, 140, 160>>,
    exit_stop_btc     |-> <<60, 80, 100, 120, 140, 160>>,
    exit_stop_sol     |-> <<60, 80, 100, 120, 140, 160>>,
    exit_rev          |-> <<10, 15, 20, 25, 30>>,
    late_entry        |-> <<0, 50, 100, 150, 200, 250, 300>>,
    quote_range       |-> <<0, 50, 100, 150, 200, 250, 300>>,
    dead_zone_pct     |-> <<0, 50, 100, 150, 200, 300>>,
    leg_chase         |-> <<FALSE, TRUE>>,
    naked_leg         |-> <<"close", "hold">>]

Limits(a) ==
    CASE a = "quote_range"   -> <<0, 490>>
      [] a = "late_entry"    -> Registry.entry_delay_pct.bounds
      [] a = "dead_zone_pct" -> <<0, 1000>>
      [] a = "offset"        -> Registry.offset.bounds
      [] a = "queue"         -> Registry.queue_gate.bounds
      [] a = "exit_rev"      -> Registry.exit_reversal.bounds
      [] OTHER               -> <<1, 500>>

\* Cosmetic rounding: a range is in whole cents.
Rounded(a, v) == IF a = "quote_range" THEN ((v + 5) \div 10) * 10 ELSE v

(* The values in their order, each once.                                    *)
FirstOfEach(s) ==
    FoldLeft(LAMBDA kept, v : IF v \in ToSet(kept) THEN kept ELSE Append(kept, v), <<>>, s)

(* _sweep_axis_values: the grid itself, or moved so that its middle is at   *)
(* the anchor, clamped and without repetitions; and how many were clamped.  *)
AxisValues(a, c) ==
    LET grid == SweepAxes[a]
        moved == [i \in DOMAIN grid |-> c + grid[i] - grid[Len(grid) \div 2 + 1]]
        bounded == [i \in DOMAIN grid |-> Within(moved[i], Limits(a)[1], Limits(a)[2])]
    IN  IF c = Absent \/ a \in Categorical
        THEN [values |-> grid, clamped |-> 0]
        ELSE [values |-> FirstOfEach([i \in DOMAIN grid |-> Rounded(a, bounded[i])]),
              clamped |-> Cardinality({i \in DOMAIN grid : bounded[i] # moved[i]})]

(* _sweep_params_for_value. *)
ParamsForValue(base, a, v) ==
    CASE a = "queue"             -> [base EXCEPT !.queue_gate = v]
      [] a = "offset"            -> [base EXCEPT !.offset = v]
      [] a = "exit_stop_default" -> [base EXCEPT !.exit_thresh["default_5m"] = v,
                                                 !.exit_thresh["default_15m"] = v]
      [] a = "exit_stop_btc"     -> [base EXCEPT !.exit_thresh["btc_5m"] = v,
                                                 !.exit_thresh["btc_15m"] = v]
      [] a = "exit_stop_sol"     -> [base EXCEPT !.exit_thresh["sol_5m"] = v,
                                                 !.exit_thresh["sol_15m"] = v]
      [] a = "late_entry"        -> [base EXCEPT !.entry_delay_pct = v, !.entry_delay_sec = 0]
      [] a = "quote_range"       -> [base EXCEPT !.quote_range = <<v, 1000 - v>>]
      [] a = "leg_chase"         -> [base EXCEPT !.enable_leg_chase = v]
      [] a = "naked_leg"         -> [base EXCEPT !.naked_leg_at_expiry = v]
      [] a = "dead_zone_pct"     -> [base EXCEPT !.dead_zone_val = v, !.dead_zone_unit = "pct"]
      [] a = "exit_rev"          -> [base EXCEPT !.exit_reversal = v]

-----------------------------------------------------------------------------
(* The page: its defaults, and the values an operator changes.              *)

Defaults == [offset |-> 20, queue |-> 0, pair_cost |-> 990,
             exit_default_5m |-> 50, exit_default_15m |-> 50, exit_btc |-> 50, exit_sol |-> 50,
             exit_reversal |-> 20, size |-> 5, quote_lo |-> 100, quote_hi |-> 900,
             entry_delay_sec |-> 0, entry_delay_pct |-> Absent,
             dead_zone_val |-> 100, dead_zone_pct |-> Absent, dead_zone_unit |-> "pct",
             naked_leg |-> "close", leg_chase |-> FALSE]

Init ==
    /\ asked = Defaults /\ changed = {}
    /\ axis = "none" /\ center = Absent

Change(k, v) ==
    /\ axis = "none" /\ k \notin changed /\ Cardinality(changed) < MaxChanges
    /\ asked' = [asked EXCEPT ![k] = v]
    /\ changed' = changed \cup {k}
    /\ UNCHANGED <<axis, center>>

(* The sweep's endpoints refuse an axis they do not know and an anchor that *)
(* is not finite.                                                           *)
Sweep(a, c) ==
    /\ axis = "none"
    /\ a \in DOMAIN SweepAxes /\ c # NotFinite
    /\ axis' = a /\ center' = c
    /\ UNCHANGED <<asked, changed>>

Next ==
    \/ \E k \in DOMAIN Odd : \E v \in Odd[k] : Change(k, v)
    \/ \E a \in Axes, c \in Centers \cup {Absent, NotFinite} : Sweep(a, c)

-----------------------------------------------------------------------------
Base == BuildParams(asked)
Points == AxisValues(axis, center)

InRegistry(p) ==
    \A k \in DOMAIN Registry : p[k] # Absent => p[k] \in Registry[k].bounds[1]..Registry[k].bounds[2]

(* Whatever is asked, out of range, inverted, absent or not a number, the   *)
(* run's parameters are ones the engine accepts and the registry allows.    *)
EveryRequestRuns == Accepts(Base) /\ InRegistry(Base)

(* Asking again for what the page was told, be it what was asked or what    *)
(* was used, gives the same run, where the dead zone can be told; but the   *)
(* delay of what was used is told in another unit, so that only none is     *)
(* read as it was.                                                          *)
ToldRunsTheSame ==
    /\ asked.dead_zone_pct # Absent => BuildParams(Echo(asked)) = Base
    /\ Base.dead_zone_unit = "pct" =>
           LET again == BuildParams(Used(asked))
           IN  /\ [again EXCEPT !.entry_delay_pct = Absent] = [Base EXCEPT !.entry_delay_pct = Absent]
               /\ Base.entry_delay_pct \in {Absent, 0} => again = Base

(* Every point of a sweep is a run the engine accepts, within the axis, and *)
(* no point comes twice or out of order.  What is left out was clamped: an  *)
(* anchor that clamps nothing keeps every point of the grid.                *)
SweepPointsRun ==
    axis # "none" =>
        /\ \A v \in ToSet(Points.values) : Accepts(ParamsForValue(Base, axis, v))
        /\ axis \notin Categorical =>
               /\ \A i, j \in DOMAIN Points.values : i < j => Points.values[i] < Points.values[j]
               /\ \A v \in ToSet(Points.values) : v \in Limits(axis)[1]..Limits(axis)[2]
               /\ Len(SweepAxes[axis]) - Len(Points.values) <= Points.clamped

(* The value of the base configuration on an axis, where the axis can say   *)
(* it.                                                                      *)
OnAxis ==
    CASE axis = "queue"    -> {Base.queue_gate}
      [] axis = "offset"   -> {Base.offset}
      [] axis = "exit_rev" -> {Base.exit_reversal}
      [] axis = "exit_stop_btc" -> {Base.exit_thresh["btc_5m"]}
      [] axis = "exit_stop_sol" -> {Base.exit_thresh["sol_5m"]}
      [] axis = "exit_stop_default" ->
             {v \in {Base.exit_thresh["default_5m"]} : v = Base.exit_thresh["default_15m"]}
      [] axis = "late_entry"    -> {Base.entry_delay_pct} \ {Absent}
      [] axis = "dead_zone_pct" -> {v \in {Base.dead_zone_val} : Base.dead_zone_unit = "pct"}
      [] axis = "quote_range"   ->
             {v \in {Base.quote_range[1]} : v % 10 = 0 /\ Base.quote_range[2] = 1000 - v}
      [] axis = "leg_chase"     -> {Base.enable_leg_chase}
      [] axis = "naked_leg"     -> {Base.naked_leg_at_expiry}

(* A sweep anchored at the configuration it is made of has that very        *)
(* backtest among its points (_build_backtest_params: a sweep is a backtest *)
(* whose one axis varies).                                                  *)
AnchoredAtItself ==
    /\ axis # "none"
    /\ axis \in Categorical \/ center \in OnAxis
    /\ axis \in Categorical \/ center \in Limits(axis)[1]..Limits(axis)[2]
    => \E w \in ToSet(Points.values) : ParamsForValue(Base, axis, w) = Base
=============================================================================
