---------------------------- MODULE TickReplay ----------------------------
(***************************************************************************)
(* A streamed backtest: backtest/engine.py reads tick files one line at a  *)
(* time and hands out a window when its market opens the next one,         *)
(* backtest/selection.py says which lines and windows count, and the       *)
(* worker of server/osc_dash.py simulates each window, pushes batched      *)
(* progress into a queue and puts the report together at the end.  The     *)
(* generator of the stream reads the queue meanwhile.                      *)
(*                                                                         *)
(* The files are what the collector writes: the ticks of all markets       *)
(* interleaved, in the order of a clock that does not go back.  A file     *)
(* boundary is not seen, since the buffers live across files.              *)
(*                                                                         *)
(* A definition named Bug... is not part of the model: it is a plausible   *)
(* mistake in the definition after it, which one of the properties catches.*)
(***************************************************************************)
EXTENDS Integers, Sequences, FiniteSets, SequencesExt

CONSTANTS
    Markets,        \* records [series, duration]
    LastWindow,     \* windows of a market are numbered 0..LastWindow
    MaxLines,       \* lines of all files
    Tokens,         \* series_tokens: the series selected, {} for all
    Durations,      \* durations selected, {} for all
    MaxStartDelay,  \* 0: no limit
    LimitWindows,   \* 0: no limit
    BatchWindows,   \* progress_batch_windows
    Outcomes        \* what a simulated window may amount to: [kind, pnl]

ReplayAssumption ==
    /\ \A k \in Markets : {"series", "duration"} \subseteq DOMAIN k
    /\ LastWindow \in Nat /\ MaxLines \in Nat /\ MaxStartDelay \in Nat
    /\ LimitWindows \in Nat /\ BatchWindows \in Nat \ {0}

VARIABLES
    phase,      \* reading, draining, done, failed
    log,        \* the lines read so far, as [market, window, ts]
    open,       \* open_windows: a sequence, oldest market first, of [cid, ticks, seq]
    closed,     \* closed_cids
    seen,       \* the next first-seen number
    results,    \* the windows simulated, in completion order
    emitting,   \* emit_progress
    pending,    \* prog_points: results not yet pushed
    queue,      \* the progress queue
    shown       \* what the client has received: progress messages, then "final"

reader == <<phase, log, open, closed, seen>>
vars == <<phase, log, open, closed, seen, results, emitting, pending, queue, shown>>

Init ==
    /\ phase = "reading"
    /\ log = <<>> /\ open = <<>> /\ closed = {} /\ seen = 0
    /\ results = <<>> /\ emitting = TRUE
    /\ pending = <<>> /\ queue = <<>> /\ shown = <<>>

-----------------------------------------------------------------------------
(* Selection.                                                              *)

CidOf(t) == [market |-> t.market, window |-> t.window]

\* A line that fails the series tokens is never parsed.
KeepRaw(t) == Tokens = {} \/ t.market.series \in Tokens

TickMatches(t) == KeepRaw(t) /\ (Durations = {} \/ t.market.duration \in Durations)

\* A window whose first tick comes too late after its start is not replayed.
InTime(ticks) == MaxStartDelay = 0 \/ ticks[1].ts - ticks[1].window <= MaxStartDelay

-----------------------------------------------------------------------------
(* The worker's half of a step: a finished window is simulated, counted    *)
(* and, when a batch is full or old enough, pushed.                        *)

Total(rs) == FoldLeft(LAMBDA a, r : a + r.pnl, 0, rs)
CountKind(rs, k) == Len(SelectSeq(rs, LAMBDA r : r.kind = k))

\* The counters of a progress message.
Counters(rs) == [windows |-> Len(rs), total |-> Total(rs), pairs |-> CountKind(rs, "pair"),
                 exits |-> CountKind(rs, "exit"),
                 wins |-> Len(SelectSeq(rs, LAMBDA r : r.pnl > 0))]

\* A push clears the points it carries; a failed one ends the emission for good.
Push(rs, points) ==
    /\ pending' = <<>>
    /\ \/ /\ queue' = Append(queue, [counters |-> Counters(rs), points |-> points])
          /\ UNCHANGED emitting
       \/ /\ emitting' = FALSE
          /\ UNCHANGED queue

Simulate(w) ==
    IF ~TickMatches(w.ticks[1]) \/ ~InTime(w.ticks)
    THEN UNCHANGED <<results, emitting, pending, queue>>
    ELSE \E o \in Outcomes :
        LET r == [cid |-> w.cid, ts |-> w.ticks[1].ts, seq |-> w.seq, ticks |-> Len(w.ticks),
                  kind |-> o.kind, pnl |-> o.pnl]
            rs == Append(results, r)
        IN /\ results' = rs
           /\ IF ~emitting
              THEN UNCHANGED <<emitting, pending, queue>>
              ELSE \/ Push(rs, Append(pending, r))
                   \/ /\ Len(rs) % BatchWindows # 0
                      /\ pending' = Append(pending, r)
                      /\ UNCHANGED <<emitting, queue>>

-----------------------------------------------------------------------------
(* The reader's half.                                                      *)

Held(market) == {i \in DOMAIN open : open[i].cid.market = market}

NewWindow(t) == [cid |-> CidOf(t), ticks |-> <<t>>, seq |-> seen]

\* A line joins the open window of its market, or closes it and opens its own;
\* a market that comes back to a window it has closed fails the run.
TakeLine(t) ==
    IF ~KeepRaw(t)
    THEN UNCHANGED <<phase, open, closed, seen, results, emitting, pending, queue>>
    ELSE IF CidOf(t) \in closed
    THEN /\ phase' = "failed"
         /\ UNCHANGED <<open, closed, seen, results, emitting, pending, queue>>
    ELSE LET held == Held(t.market) IN
      IF held = {}
      THEN /\ open' = Append(open, NewWindow(t))
           /\ seen' = seen + 1
           /\ UNCHANGED <<phase, closed, results, emitting, pending, queue>>
      ELSE LET i == CHOOSE j \in held : TRUE IN
        IF open[i].cid = CidOf(t)
        THEN /\ open' = [open EXCEPT ![i].ticks = Append(@, t)]
             /\ UNCHANGED <<phase, closed, seen, results, emitting, pending, queue>>
        ELSE /\ Simulate(open[i])
             /\ closed' = closed \cup {open[i].cid}
             /\ open' = [open EXCEPT ![i] = NewWindow(t)]
             /\ seen' = seen + 1
             /\ UNCHANGED phase

ReadLine ==
    /\ phase = "reading"
    /\ Len(log) < MaxLines
    /\ \E k \in Markets, n \in 0..LastWindow, wait \in {0, 1} :
        LET t == [market |-> k, window |-> n,
                  ts |-> wait + IF log = <<>> THEN 0 ELSE Last(log).ts]
        IN log' = Append(log, t) /\ TakeLine(t)
    /\ UNCHANGED shown

EndOfFiles ==
    /\ phase = "reading"
    /\ phase' = "draining"
    /\ UNCHANGED <<log, open, closed, seen, results, emitting, pending, queue, shown>>

\* What is still open is complete too, oldest market first.
DrainWindow ==
    /\ phase = "draining"
    /\ open # <<>>
    /\ Simulate(Head(open))
    /\ open' = Tail(open)
    /\ UNCHANGED <<phase, log, closed, seen, shown>>

\* The last push, with whatever is pending; the report follows.
Finish ==
    /\ phase = "draining"
    /\ open = <<>>
    /\ phase' = "done"
    /\ IF emitting /\ pending # <<>>
       THEN Push(results, pending)
       ELSE UNCHANGED <<emitting, pending, queue>>
    /\ UNCHANGED <<log, open, closed, seen, results, shown>>

\* results.sort, then the earliest LimitWindows of them: the windows of the report.
BugEarlier(a, b) == a.ts < b.ts \/ (a.ts = b.ts /\ a.ticks <= b.ticks)
Earlier(a, b) == a.ts < b.ts \/ (a.ts = b.ts /\ a.seq < b.seq)

Report ==
    LET sorted == SetToSortSeq(ToSet(results), Earlier)
    IN IF LimitWindows > 0 /\ LimitWindows < Len(sorted)
       THEN SubSeq(sorted, 1, LimitWindows) ELSE sorted

-----------------------------------------------------------------------------
(* The event generator of the stream.                                      *)

ShowProgress ==
    /\ queue # <<>>
    /\ shown' = Append(shown, [event |-> "progress", body |-> Head(queue)])
    /\ queue' = Tail(queue)
    /\ UNCHANGED <<reader, results, emitting, pending>>

FinalShown == shown # <<>> /\ Last(shown).event = "final"

\* The queue is drained before the final event.
ShowFinal ==
    /\ phase = "done"
    /\ queue = <<>>
    /\ ~FinalShown
    /\ shown' = Append(shown, [event |-> "final", body |-> Report])
    /\ UNCHANGED <<reader, results, emitting, pending, queue>>

Next == ReadLine \/ EndOfFiles \/ DrainWindow \/ Finish \/ ShowProgress \/ ShowFinal

Spec == Init /\ [][Next]_vars

-----------------------------------------------------------------------------
(* Properties.                                                             *)

TypeOK ==
    /\ phase \in {"reading", "draining", "done", "failed"}
    /\ Len(log) <= MaxLines
    /\ \A i \in DOMAIN open : open[i].ticks # <<>> /\ open[i].cid \notin closed
    /\ \A i, j \in DOMAIN open : open[i].cid.market = open[j].cid.market => i = j
    /\ emitting \in BOOLEAN
    /\ \A i \in DOMAIN results : results[i].kind \in {o.kind : o \in Outcomes}
    /\ \A i \in DOMAIN shown : shown[i].event \in {"progress", "final"}

\* group_by_cid over the selected lines, the reference: one group per cid, by the
\* time of its first tick and then by the order in which the cids were first seen.
FirstLine(c) == CHOOSE i \in DOMAIN log : CidOf(log[i]) = c /\ \A j \in 1..(i-1) : CidOf(log[j]) # c

GroupByCid ==
    LET cids == {CidOf(log[i]) : i \in {j \in DOMAIN log : TickMatches(log[j])}}
        kept == {c \in cids : InTime(<<log[FirstLine(c)]>>)}
        sorted == SetToSortSeq(kept, LAMBDA c, d :
                      LET tc == log[FirstLine(c)].ts  td == log[FirstLine(d)].ts
                      IN tc < td \/ (tc = td /\ FirstLine(c) < FirstLine(d)))
        group(c) == [cid |-> c, ticks |-> Len(SelectSeq(log, LAMBDA t : CidOf(t) = c))]
        all == [i \in DOMAIN sorted |-> group(sorted[i])]
    IN IF LimitWindows > 0 /\ LimitWindows < Len(all) THEN SubSeq(all, 1, LimitWindows) ELSE all

\* Streaming one window at a time reports the very windows, whole and in the order
\* of the grouping that reads everything first, whatever way the markets interleave.
ReplayIsGrouping ==
    phase = "done" =>
        [i \in DOMAIN Report |-> [cid |-> Report[i].cid, ticks |-> Report[i].ticks]] = GroupByCid

\* The points pushed and pending are the windows simulated, in the order in which
\* they were: a batch neither repeats nor loses one, until a push fails.
PointsOf(messages) == FoldLeft(LAMBDA a, x : a \o x.points, <<>>, messages)
ShownMessages ==
    LET progress == SelectSeq(shown, LAMBDA e : e.event = "progress")
    IN [i \in DOMAIN progress |-> progress[i].body]
NoPointLost ==
    LET points == PointsOf(ShownMessages \o queue)
    IN /\ IsPrefix(points, results)
       /\ emitting => points \o pending = results

\* A client that has the final event has seen every point, and the counters of its
\* last message are those of all the windows.
FinalAfterProgress ==
    (emitting /\ results # <<>> /\ FinalShown)
        => /\ PointsOf(ShownMessages) = results
           /\ Last(ShownMessages).counters = Counters(results)

=============================================================================
