--------------------------- MODULE WindowReports ---------------------------
(***************************************************************************)
(* What is reported of a set of replayed windows.  Four places fold the    *)
(* same WindowResults: replay of backtest/engine.py, the worker of a       *)
(* backtest and the worker of a sweep in server/osc_dash.py, and           *)
(* compute_metrics of scripts/sweep_backtest.py.  Windows come in the      *)
(* order they complete; the workers sort them by their first tick before   *)
(* they report, and publish running totals meanwhile.                      *)
(*                                                                         *)
(* Amounts are cents, whole ones: the rounding of the reports is left out. *)
(* Rates and averages are quotients of the counts kept here.               *)
(*                                                                         *)
(* A definition named Bug... is not part of the model: it is a plausible   *)
(* mistake in the definition after it, which one of the properties catches.*)
(***************************************************************************)
EXTENDS Integers, Sequences, FiniteSets, SequencesExt, FiniteSetsExt

CONSTANTS
    Markets,      \* SERIES: a sequence of [series, duration]
    Runs,         \* what a window may yield: a sequence, one outcome per axis point
    MaxWindows,   \* windows of the data
    LimitWindows, \* 0: no limit
    Size          \* shares a quote

ReportsAssumption ==
    /\ MaxWindows \in Nat \ {0} /\ LimitWindows \in Nat /\ Size \in Nat \ {0}
    /\ \A r, s \in Runs : Len(r) = Len(s) /\ Len(r) > 0

VARIABLES
    rows,      \* the windows replayed, in completion order: [seq, market, runs]
    preview,   \* the backtest worker's running counters
    live,      \* the sweep worker's running totals, one per axis point
    putting,   \* the sweep still publishes
    message,   \* the last message the sweep published
    reports    \* what is reported once the last window is in: one record

vars == <<rows, preview, live, putting, message, reports>>

Seq2Set(s) == {s[i] : i \in DOMAIN s}
SumSeq(s) == LET sum[i \in 0 .. Len(s)] == IF i = 0 THEN 0 ELSE sum[i - 1] + s[i] IN sum[Len(s)]
Points == DOMAIN (CHOOSE r \in Runs : TRUE)
SumOver(S, f(_)) == MapThenSumSet(f, S)
One(b) == IF b THEN 1 ELSE 0

-----------------------------------------------------------------------------
(* The equity curve: its end, its peak, which starts at nothing, and the    *)
(* deepest fall from a peak.                                                *)

Flat == [total |-> 0, peak |-> 0, drawdown |-> 0]

BugEquityStep(e, pnl) ==
    LET total == e.total + pnl
        peak  == IF total > e.peak THEN total ELSE e.peak
    IN [total |-> total, peak |-> peak,
        drawdown |-> IF e.peak - e.total > e.drawdown THEN e.peak - e.total ELSE e.drawdown]

EquityStep(e, pnl) ==
    LET total == e.total + pnl
        peak  == IF total > e.peak THEN total ELSE e.peak
    IN [total |-> total, peak |-> peak,
        drawdown |-> IF peak - total > e.drawdown THEN peak - total ELSE e.drawdown]

Equity(pnls) ==
    LET after[i \in 0 .. Len(pnls)] ==
          IF i = 0 THEN Flat ELSE LET before == after[i - 1] IN EquityStep(before, pnls[i])
    IN after[Len(pnls)]

-----------------------------------------------------------------------------
(* backtest/engine.py: one accumulator per series and per duration.         *)

Count(ws, P(_)) == Len(SelectSeq(ws, P))
Sum(ws, f(_)) == SumSeq([i \in DOMAIN ws |-> f(ws[i])])

Group(ws) ==
    [windows |-> Len(ws), entered |-> Count(ws, LAMBDA w : w.entered),
     pair |-> Count(ws, LAMBDA w : w.pair), exit |-> Count(ws, LAMBDA w : w.exit),
     upOnly |-> Count(ws, LAMBDA w : w.up /\ ~w.down),
     downOnly |-> Count(ws, LAMBDA w : w.down /\ ~w.up),
     pnl |-> Sum(ws, LAMBDA w : w.pnl), fees |-> Sum(ws, LAMBDA w : w.fees),
     wins |-> Count(ws, LAMBDA w : w.pnl > 0),
     curve |-> Equity([i \in DOMAIN ws |-> ws[i].pnl]),
     costs |-> Sum(ws, LAMBDA w : IF w.pair THEN w.cost ELSE 0)]

GroupsBy(ws, field) ==
    [k \in {ws[i][field] : i \in DOMAIN ws} |-> Group(SelectSeq(ws, LAMBDA w : w[field] = k))]

\* The overall row adds the rows of the series; only the curve and the wins
\* are taken over all windows.
EngineReport(ws) ==
    LET series == GroupsBy(ws, "series")
        S == DOMAIN series
    IN [per_series |-> series, per_duration |-> GroupsBy(ws, "duration"),
        overall |->
          [windows |-> SumOver(S, LAMBDA s : series[s].windows),
           entered |-> SumOver(S, LAMBDA s : series[s].entered),
           pair |-> SumOver(S, LAMBDA s : series[s].pair),
           exit |-> SumOver(S, LAMBDA s : series[s].exit),
           pnl |-> SumOver(S, LAMBDA s : series[s].pnl),
           fees |-> SumOver(S, LAMBDA s : series[s].fees),
           curve |-> Equity([i \in DOMAIN ws |-> ws[i].pnl]),
           wins |-> Count(ws, LAMBDA w : w.pnl > 0)]]

-----------------------------------------------------------------------------
(* The backtest worker: previews as windows complete, and the report.       *)

Entered(w) == w.entered \/ w.up \/ w.down

\* A pair that was also stopped out in a later round counts as a pair.
Kind(w) == IF w.pair THEN "pair" ELSE IF w.exit THEN "exit"
           ELSE IF w.up \/ w.down THEN "carried" ELSE "unfilled"

NoPreview == [done |-> 0, curve |-> Flat, pairs |-> 0, exits |-> 0, wins |-> 0,
              costCount |-> 0, costSum |-> 0, aboveSettle |-> 0]

\* The pair statistics are running sums of a constant size.
AddWindow(p, w) ==
    [done |-> p.done + 1, curve |-> EquityStep(p.curve, w.pnl * Size),
     pairs |-> p.pairs + One(Kind(w) = "pair"), exits |-> p.exits + One(Kind(w) = "exit"),
     wins |-> p.wins + One(w.pnl > 0), costCount |-> p.costCount + One(w.pair),
     costSum |-> p.costSum + (IF w.pair THEN w.cost ELSE 0),
     aboveSettle |-> p.aboveSettle + One(w.pair /\ w.cost > 100)]

OutcomeRow(ws) ==
    LET of(k) == Count(ws, LAMBDA w : Kind(w) = k) IN
    [windows |-> Len(ws), entered |-> Count(ws, Entered), pairs |-> of("pair"),
     exits |-> of("exit"), pnl |-> Sum(ws, LAMBDA w : w.pnl * Size)]

DashboardRows(ws, keys, field) ==
    [k \in keys |-> OutcomeRow(SelectSeq(ws, LAMBDA w : w[field] = k))]

(* The histogram of the windows' results, in twentieths of a cent: the      *)
(* narrowest of the usual widths that needs fifteen buckets at most, edges  *)
(* at its multiples.                                                        *)
Widths == {2, 5, 10, 20, 40, 100, 200, 400, 500, 1000, 2000, 4000, 5000, 10000, 20000}
ChooseBucketWidth(span) ==
    LET wide == {s \in Widths : 15 * s >= span} IN
    IF wide # {} THEN CHOOSE s \in wide : \A t \in wide : s <= t
    ELSE 10000 * ((span + 149999) \div 150000)

Bucket(lo, step, n, v) ==
    IF v >= lo + n * step THEN n
    ELSE IF v <= lo THEN 1 ELSE (v - lo) \div step + 1

Histogram(ws) ==
    LET v(i) == 20 * Size * ws[i].pnl
        vs   == {v(i) : i \in DOMAIN ws}
        low  == CHOOSE x \in vs : \A y \in vs : x <= y
        high == CHOOSE x \in vs : \A y \in vs : y <= x
    IN IF ws = <<>> THEN [lo |-> 0, width |-> 20, counts |-> <<>>]
       ELSE IF low = high THEN [lo |-> low - 10, width |-> 20, counts |-> <<Len(ws)>>]
       ELSE LET step == ChooseBucketWidth(high - low)
                lo   == (low \div step) * step
                hi   == (0 - ((0 - high) \div step)) * step
                n    == IF hi = lo THEN 1 ELSE (hi - lo) \div step
            IN [lo |-> lo, width |-> step,
                counts |-> [b \in 1 .. n |->
                    Cardinality({i \in DOMAIN ws : Bucket(lo, step, n, v(i)) = b})]]

DashboardReport(ws) ==
    LET series == DashboardRows(ws, {Markets[i].series : i \in DOMAIN Markets}, "series")
    IN [per_series |-> series,
        per_duration |-> DashboardRows(ws, {Markets[i].duration : i \in DOMAIN Markets}, "duration"),
        overall |->
          [windows |-> Len(ws), entered |-> Count(ws, Entered),
           pairs |-> SumOver(DOMAIN series, LAMBDA s : series[s].pairs),
           exits |-> SumOver(DOMAIN series, LAMBDA s : series[s].exits),
           pnl |-> SumOver(DOMAIN series, LAMBDA s : series[s].pnl),
           unfilled |-> Count(ws, LAMBDA w : Kind(w) = "unfilled"),
           profitable |-> [k \in {"pairs", "exits"} |->
               Count(ws, LAMBDA w : w.pnl > 0 /\
                   IF k = "pairs" THEN Kind(w) = "pair" ELSE Kind(w) \in {"exit", "carried"})],
           curve |-> Equity([i \in DOMAIN ws |-> ws[i].pnl * Size]),
           wins |-> Count(ws, LAMBDA w : w.pnl > 0)],
        histogram |-> Histogram(ws)]

-----------------------------------------------------------------------------
(* The sweep worker: one total per axis point.                              *)

NewAcc == [p \in Points |-> [pnl |-> 0, pairs |-> 0, exits |-> 0, n |-> 0, present |-> {},
                             per_series |-> [s \in {Markets[i].series : i \in DOMAIN Markets} |-> 0]]]

Accumulate(acc, row) ==
    [p \in Points |->
        LET w == row.runs[p] IN
        [pnl |-> acc[p].pnl + w.pnl * Size, pairs |-> acc[p].pairs + One(w.pair),
         exits |-> acc[p].exits + One(w.exit), n |-> acc[p].n + 1,
         present |-> acc[p].present \cup {row.market.series},
         per_series |-> [acc[p].per_series EXCEPT ![row.market.series] = @ + w.pnl * Size]]]

Totals(rs) ==
    LET after[i \in 0 .. Len(rs)] ==
          IF i = 0 THEN NewAcc ELSE LET before == after[i - 1] IN Accumulate(before, rs[i])
    IN after[Len(rs)]

\* The best value of all, the first on a tie; and the best market of any value,
\* the first in the order of SERIES on a tie.
SelectBests(points) ==
    LET cells == {<<p, m>> \in Points \X DOMAIN Markets :
                    points[p].n > 0 /\ Markets[m].series \in points[p].present}
        of(c) == points[c[1]].per_series[Markets[c[2]].series]
        Before(c, d) == \/ of(c) > of(d)
                        \/ of(c) = of(d) /\ (c[2] < d[2] \/ (c[2] = d[2] /\ c[1] <= d[1]))
        run == {p \in Points : points[p].n > 0}
    IN [overall |-> {p \in run : \A q \in run : points[p].pnl > points[q].pnl
                                      \/ (points[p].pnl = points[q].pnl /\ p <= q)},
        market |-> {c \in cells : \A d \in cells : Before(c, d)}]

-----------------------------------------------------------------------------
(* scripts/sweep_backtest.py: the metrics of one configuration, net of      *)
(* fees.                                                                    *)
NetOf(w) == (w.pnl - w.fees) * Size

ComputeMetrics(ws) ==
    [windows |-> Len(ws), pairs |-> Count(ws, LAMBDA w : w.pair),
     exits |-> Count(ws, LAMBDA w : w.exit),
     filled |-> Count(ws, LAMBDA w : w.up \/ w.down),
     wins |-> Count(ws, LAMBDA w : NetOf(w) > 0),
     gains |-> Sum(ws, LAMBDA w : IF NetOf(w) > 0 THEN NetOf(w) ELSE 0),
     losses |-> Sum(ws, LAMBDA w : IF NetOf(w) < 0 THEN 0 - NetOf(w) ELSE 0),
     fees |-> Sum(ws, LAMBDA w : w.fees * Size),
     curve |-> Equity([i \in DOMAIN ws |-> NetOf(ws[i])]),
     per_series |-> [s \in {ws[i].series : i \in DOMAIN ws} |->
         Sum(ws, LAMBDA w : IF w.series = s THEN NetOf(w) ELSE 0)]]

-----------------------------------------------------------------------------
Message(done, total, acc) == [rows_done |-> done, rows_total |-> total, points |-> acc]
NoMessage == Message(0, 0, NewAcc)

Init ==
    /\ rows = <<>> /\ preview = NoPreview /\ live = NewAcc
    /\ putting = TRUE /\ message = NoMessage /\ reports = <<>>

\* What the first axis point made of a window, as the other reports see it.
Window(row) == [row.runs[1] EXCEPT !.series = row.market.series, !.duration = row.market.duration]

\* The first window is always published, a later one when enough time has
\* passed; a push that fails ends the publishing.
Complete ==
    /\ reports = <<>> /\ Len(rows) < MaxWindows
    /\ \E seq \in 1 .. MaxWindows, market \in Seq2Set(Markets), runs \in Runs :
         LET row == [seq |-> seq, market |-> market, runs |-> runs] IN
         /\ \A i \in DOMAIN rows : rows[i].seq # seq
         /\ rows' = Append(rows, row)
         /\ preview' = AddWindow(preview, Window(row))
         /\ live' = IF putting THEN Accumulate(live, row) ELSE live
    /\ \/ putting /\ message' = Message(Len(rows'), 0, live') /\ UNCHANGED putting
       \/ putting /\ putting' = FALSE /\ UNCHANGED message
       \/ (putting => rows # <<>>) /\ UNCHANGED <<putting, message>>
    /\ UNCHANGED reports

\* Sorted by their first tick, and cut to the earliest.
Kept(rs) ==
    LET sorted == SortSeq(rs, LAMBDA a, b : a.seq < b.seq) IN
    IF LimitWindows > 0 /\ Len(rs) > LimitWindows THEN SubSeq(sorted, 1, LimitWindows) ELSE sorted

Finish ==
    /\ reports = <<>>
    /\ LET kept == Kept(rows)
           ws   == [i \in DOMAIN kept |-> Window(kept[i])]
           acc  == Totals(kept)
       IN /\ reports' = <<[engine |-> EngineReport(ws), dashboard |-> DashboardReport(ws),
                        points |-> acc, bests |-> SelectBests(acc), metrics |-> ComputeMetrics(ws)]>>
          /\ \/ putting /\ message' = Message(Len(kept), Len(kept), acc) /\ UNCHANGED putting
             \/ putting /\ putting' = FALSE /\ UNCHANGED message
             \/ ~putting /\ UNCHANGED <<putting, message>>
    /\ UNCHANGED <<rows, preview, live>>

Next == Complete \/ Finish
Spec == Init /\ [][Next]_vars

-----------------------------------------------------------------------------
(* Properties.                                                             *)

\* The windows that started first, as a whole, in the order they started.
Earliest ==
    LET kept == {r \in Seq2Set(rows) : LimitWindows = 0 \/
                   Cardinality({q \in Seq2Set(rows) : q.seq < r.seq}) < LimitWindows}
    IN [k \in 1 .. Cardinality(kept) |->
          Window(CHOOSE r \in kept : Cardinality({q \in kept : q.seq <= r.seq}) = k)]

\* The deepest fall between two moments, by definition; nothing has been made
\* or lost before the first window.
WorstFall(pnls) ==
    LET at[i \in 0 .. Len(pnls)] == IF i = 0 THEN 0 ELSE at[i - 1] + pnls[i]
        falls == UNION {{at[j] - at[i] : i \in j .. Len(pnls)} : j \in 0 .. Len(pnls)}
    IN CHOOSE d \in falls : \A f \in falls : f <= d

(* The reports of the engine, the dashboard, the sweep and the command line *)
(* are of the same windows, the earliest ones in the order they started,    *)
(* and agree: on the number of windows, on the total, which is the end of   *)
(* the curve and the sum over series and over durations, and on the worst   *)
(* fall.  Only windows that were both paired and stopped out are counted    *)
(* differently: as both, but by the dashboard as pairs.                     *)
ReportsAgree ==
    \A report \in Seq2Set(reports) :
      LET e == report.engine.overall
          d == report.dashboard.overall
          sums(g, f) == SumOver(DOMAIN g, LAMBDA k : g[k][f])
          pnls == [i \in DOMAIN Earliest |-> Earliest[i].pnl]
      IN /\ e.windows = Len(Earliest) /\ d.windows = Len(Earliest)
         /\ report.points[1].n = Len(Earliest) /\ report.metrics.windows = Len(Earliest)
         /\ e.curve.drawdown = WorstFall(pnls) /\ d.curve.drawdown = Size * WorstFall(pnls)
         /\ d.pnl = Size * e.pnl /\ report.points[1].pnl = d.pnl
         /\ d.curve.total = d.pnl /\ e.curve.total = e.pnl
         /\ report.metrics.curve.total = d.pnl - report.metrics.fees
         /\ report.metrics.gains - report.metrics.losses = report.metrics.curve.total
         /\ \A f \in {"windows", "entered", "pair", "exit", "pnl", "fees"} :
              sums(report.engine.per_duration, f) = e[f]
         /\ \A f \in {"windows", "entered", "pairs", "exits", "pnl"} :
              /\ sums(report.dashboard.per_series, f) = d[f]
              /\ sums(report.dashboard.per_duration, f) = d[f]
         /\ d.pairs = e.pair /\ report.points[1].pairs = e.pair /\ report.metrics.pairs = e.pair
         /\ report.points[1].exits = e.exit /\ report.metrics.exits = e.exit
         /\ e.exit - d.exits = Len(SelectSeq(Earliest, LAMBDA w : w.pair /\ w.exit))
         /\ d.profitable["pairs"] + d.profitable["exits"] <= d.wins

(* Every window is counted in the one bucket its result lies in.            *)
HistogramCounts ==
    \A report \in Seq2Set(reports) :
      LET h == report.dashboard.histogram
          last == Len(h.counts)
          In(b, v) == /\ h.lo + (b - 1) * h.width <= v
                      /\ v < h.lo + b * h.width \/ (b = last /\ v = h.lo + b * h.width)
      IN /\ last <= 17
         /\ SumSeq(h.counts) = Len(Earliest)
         /\ \A b \in 1 .. last :
              h.counts[b] = Cardinality({i \in DOMAIN Earliest : In(b, 20 * Size * Earliest[i].pnl)})

(* The best value and the best market of a sweep are one each, and none is  *)
(* better; what was published last is the result.                           *)
BestsAreBest ==
    \A report \in Seq2Set(reports) : rows # <<>> =>
      /\ Cardinality(report.bests.overall) = 1 /\ Cardinality(report.bests.market) = 1
      /\ \A p \in report.bests.overall, q \in Points : report.points[p].pnl >= report.points[q].pnl
      /\ putting => message.points = report.points

(* The counters shown before the report are those of the windows replayed   *)
(* so far, whatever their order.                                            *)
PreviewsAreOfWindows ==
    LET ws == [i \in DOMAIN rows |-> Window(rows[i])] IN
    /\ preview.done = Len(rows)
    /\ preview.curve.drawdown = WorstFall([i \in DOMAIN ws |-> ws[i].pnl * Size])
    /\ preview.costCount = Count(ws, LAMBDA w : w.pair)
    /\ putting => live = Totals(rows)
    /\ \A report \in Seq2Set(reports) : LimitWindows = 0 =>
         /\ preview.curve.total = report.dashboard.overall.pnl
         /\ preview.wins = report.dashboard.overall.wins
         /\ preview.pairs = report.dashboard.overall.pairs
         /\ preview.exits = report.dashboard.overall.exits
=============================================================================
