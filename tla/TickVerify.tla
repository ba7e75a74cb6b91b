----------------------------- MODULE TickVerify -----------------------------
(***************************************************************************)
(* scripts/verify_tick_data.py: a day file is read line by line, a small   *)
(* record is kept of every window, and at the end of the file the counts   *)
(* become a status and a readiness level; the reports of a directory's     *)
(* files are added up and judged once more.                                *)
(*                                                                         *)
(* A line is corrupt, empty, or a record: of a window, at a time, with at  *)
(* most one thing wrong with it.  Rates are multiples of 1/Scale, rounded; *)
(* the code rounds to six digits.  The count of tape entries is left out.  *)
(*                                                                         *)
(* A definition named Bug... is not part of the model: it is a plausible   *)
(* mistake in the definition after it, which one of the properties catches.*)
(***************************************************************************)
EXTENDS Integers, Sequences, FiniteSets, FiniteSetsExt, SequencesExt

CONSTANTS
    Windows,            \* windows: [market, cid, start, end]
    Times,              \* times of records
    Wrong,              \* what may be wrong with a record, of {"field", "cid", "crossed", "err"}
    Bad,                \* lines that are no record, of {"corrupt", "empty"}
    MaxGap, MaxDelay,   \* max_gap_sec, max_start_delay
    Tolerance,          \* one schema error in so many records is tolerated; 20 in the code
    Scale,              \* rates are multiples of 1/Scale; 1000000 in the code
    Day,                \* length of a time block
    Expected,           \* EXPECTED_MARKETS
    Policies,           \* READINESS_POLICIES: [EXPLORATORY, RESEARCH_READY]
    MaxLines, MaxFiles  \* bounds

VerifyAssumption ==
    /\ \A w \in Windows : w.market \in Expected /\ 0 < w.start /\ w.start < w.end
    /\ Times \subseteq Nat \ {0} /\ {MaxGap, MaxDelay} \subseteq Nat
    /\ {Tolerance, Scale, Day} \subseteq Nat \ {0}
    /\ Wrong \subseteq {"field", "cid", "crossed", "err"} /\ Bad \subseteq {"corrupt", "empty"}

Records == [win: Windows, ts: Times, wrong: Wrong \cup {"nothing"}]
IsRecord(line) == "ts" \in DOMAIN line
Unseen == [ticks |-> 0]
Counts == {"raw", "empty", "corrupt", "valid", "schema", "crossed", "errors"}

VARIABLES
    count,          \* the counters of verify_tick_file
    tracker,        \* windows_tracker
    market,         \* market_windows: the windows of each market
    reports,        \* the reports of the files read so far
    verdict,        \* the directory's report, or <<>>
    lines, earlier  \* auxiliary: the lines of this file, and of those before it

vars == <<count, tracker, market, reports, verdict, lines, earlier>>

Init ==
    /\ count = [c \in Counts |-> 0] /\ tracker = [w \in Windows |-> Unseen]
    /\ market = [m \in Expected |-> {}]
    /\ reports = <<>> /\ verdict = <<>> /\ lines = <<>> /\ earlier = <<>>

Add(cs) == [c \in Counts |-> count[c] + IF c \in cs THEN 1 ELSE 0]

-----------------------------------------------------------------------------
(* Reading a file.                                                         *)

Reading == verdict = <<>> /\ Len(reports) < MaxFiles /\ Len(earlier \o lines) < MaxLines

ReadBad(b) ==
    /\ Reading /\ lines' = Append(lines, [bad |-> b]) /\ count' = Add({"raw", b})
    /\ UNCHANGED <<tracker, market, reports, verdict, earlier>>

Opened(r) ==
    [ticks |-> 1, first |-> r.ts, last |-> r.ts, gaps |-> 0, widest |-> 0, reversals |-> 0]
\* The next record of a window already seen.
Followed(t, r) ==
    LET delta == r.ts - t.last IN
    [t EXCEPT !.ticks = @ + 1, !.last = r.ts,
              !.reversals = IF delta < 0 THEN @ + 1 ELSE @,
              !.gaps = IF delta > MaxGap THEN @ + 1 ELSE @,
              !.widest = IF delta > MaxGap /\ delta > @ THEN delta ELSE @]

\* verify_tick_record finds a missing field, a crossed book; the record may
\* tell of an error of the collector.  A record without a cid is in no window,
\* and all of them are one window of their market.
ReadRecord(r) ==
    /\ Reading /\ lines' = Append(lines, r)
    /\ earlier = <<>> \/ \A i \in DOMAIN earlier : IsRecord(earlier[i]) => earlier[i].ts <= r.ts
    /\ count' = Add({"raw", "valid"}
                    \cup (CASE r.wrong \in {"field", "cid"} -> {"schema"}
                            [] r.wrong = "crossed" -> {"schema", "crossed"}
                            [] r.wrong = "err" -> {"errors"}
                            [] OTHER -> {}))
    /\ market' = [market EXCEPT ![r.win.market] =
                      @ \cup {IF r.wrong = "cid" THEN "None" ELSE r.win.cid}]
    /\ tracker' = IF r.wrong = "cid" THEN tracker
                  ELSE [tracker EXCEPT ![r.win] = IF @ = Unseen THEN Opened(r) ELSE Followed(@, r)]
    /\ UNCHANGED <<reports, verdict, earlier>>

-----------------------------------------------------------------------------
(* The report of a file.                                                   *)

Seen(t) == {w \in Windows : t[w] # Unseen}
\* start_delay and end_cutoff against max_start_delay
LateStarts(t) == {w \in Seen(t) : t[w].first - w.start > MaxDelay}
EarlyCutoffs(t) == {w \in Seen(t) : w.end - t[w].last > MaxDelay}
SumOver(S, f(_)) == FoldSet(LAMBDA x, acc : acc + f(x), 0, S)
Gaps(t) == SumOver(Seen(t), LAMBDA w : t[w].gaps)
Reversals(t) == SumOver(Seen(t), LAMBDA w : t[w].reversals)

SchemaFails(c) == IF c.valid = 0 THEN c.schema > 1 ELSE c.schema * Tolerance > c.valid

BugFileStatus(c, t) ==
    IF c.corrupt > 0 \/ SchemaFails(c) THEN "FAIL"
    ELSE IF \/ c.crossed > 0 \/ Gaps(t) > 0 \/ EarlyCutoffs(t) # {} \/ c.errors > 0 \/ Reversals(t) > 0
         THEN "WARN" ELSE "PASS"
FileStatus(c, t) ==
    IF c.corrupt > 0 \/ SchemaFails(c) THEN "FAIL"
    ELSE IF \/ c.crossed > 0 \/ Gaps(t) > 0 \/ LateStarts(t) # {} \/ EarlyCutoffs(t) # {}
            \/ c.errors > 0 \/ Reversals(t) > 0
         THEN "WARN" ELSE "PASS"

\* round(n / max(d, 1), 6), in multiples of 1/Scale
Rate(n, d) == (2 * n * Scale + Max({d, 1})) \div (2 * Max({d, 1}))

\* assess_readiness: every check of a policy.
Meets(p, c, windows, perMarket, blocks, gaps) ==
    LET present == {m \in Expected : perMarket[m] > 0} IN
    /\ c.valid >= p.ticks /\ windows >= p.windows
    /\ Cardinality(present) >= p.markets
    /\ (IF present = {} THEN 0 ELSE Min({perMarket[m] : m \in present})) >= p.perMarket
    /\ Cardinality(blocks) >= p.blocks
    /\ Rate(c.corrupt, c.raw) = 0
    /\ Rate(c.schema, c.valid) <= Rate(1, Tolerance)
    /\ Rate(gaps, windows) <= p.gaps
    /\ Rate(c.errors, c.valid) <= p.errors
Readiness(c, windows, perMarket, blocks, gaps) ==
    LET present == {m \in Expected : perMarket[m] > 0} IN
    IF Meets(Policies.RESEARCH_READY, c, windows, perMarket, blocks, gaps) /\ present = Expected
    THEN "RESEARCH_READY"
    ELSE IF Meets(Policies.EXPLORATORY, c, windows, perMarket, blocks, gaps) /\ present # {}
    THEN "EXPLORATORY" ELSE "INSUFFICIENT"

Report ==
    LET perMarket == [m \in Expected |-> Cardinality(market[m])]
        blocks == {tracker[w].first \div Day : w \in Seen(tracker)}
        windows == Cardinality(Seen(tracker)) IN
    [status |-> FileStatus(count, tracker), count |-> count, windows |-> windows,
     perMarket |-> perMarket, blocks |-> blocks, gaps |-> Gaps(tracker),
     level |-> Readiness(count, windows, perMarket, blocks, Gaps(tracker))]

\* The end of a file; the next one starts with nothing.
EndFile ==
    /\ verdict = <<>> /\ lines # <<>> /\ Len(reports) < MaxFiles
    /\ reports' = Append(reports, Report)
    /\ earlier' = earlier \o lines /\ lines' = <<>>
    /\ count' = [c \in Counts |-> 0] /\ tracker' = [w \in Windows |-> Unseen]
    /\ market' = [m \in Expected |-> {}]
    /\ UNCHANGED verdict

Worst(statuses) ==
    IF "FAIL" \in statuses THEN "FAIL" ELSE IF "WARN" \in statuses \/ statuses = {} THEN "WARN" ELSE "PASS"
BugVerdict(rs) == FileStatus([c \in Counts |-> SumOver(DOMAIN rs, LAMBDA i : rs[i].count[c])],
                             [w \in Windows |-> Unseen])
Verdict(rs) == Worst({rs[i].status : i \in DOMAIN rs})

\* verify_ticks_dir: the sums, judged once more.
EndDirectory ==
    /\ verdict = <<>> /\ lines = <<>> /\ reports # <<>>
    /\ LET total(f(_)) == SumOver(DOMAIN reports, LAMBDA i : f(reports[i]))
           c == [x \in Counts |-> total(LAMBDA r : r.count[x])]
           perMarket == [m \in Expected |-> total(LAMBDA r : r.perMarket[m])]
           blocks == UNION {reports[i].blocks : i \in DOMAIN reports} IN
       verdict' = [status |-> Verdict(reports), count |-> c,
                   level |-> Readiness(c, total(LAMBDA r : r.windows), perMarket, blocks,
                                       total(LAMBDA r : r.gaps))]
    /\ UNCHANGED <<count, tracker, market, reports, lines, earlier>>

Next ==
    \/ \E b \in Bad : ReadBad(b)
    \/ \E r \in Records : ReadRecord(r)
    \/ EndFile \/ EndDirectory

Spec == Init /\ [][Next]_vars

-----------------------------------------------------------------------------
(* verify_window_continuity: the same measures of a window, from the list  *)
(* of its records.                                                         *)

Of(w, ls) == SelectSeq(ls, LAMBDA l : IsRecord(l) /\ l.win = w /\ l.wrong # "cid")
Continuity(rs) ==
    IF rs = <<>> THEN Unseen
    ELSE LET steps == 2..Len(rs)
             delta(i) == rs[i].ts - rs[i - 1].ts
             gaps == {i \in steps : delta(i) > MaxGap} IN
         [ticks |-> Len(rs), first |-> rs[1].ts, last |-> rs[Len(rs)].ts,
          gaps |-> Cardinality(gaps), widest |-> Max({0} \cup {delta(i) : i \in gaps}),
          reversals |-> Cardinality({i \in steps : delta(i) < 0})]

TypeOK ==
    /\ count \in [Counts -> 0..MaxLines]
    /\ count.raw = Len(lines) /\ count.valid + count.corrupt + count.empty = count.raw
    /\ \A i \in DOMAIN reports : reports[i].status \in {"PASS", "WARN", "FAIL"}
    /\ market \in [Expected -> SUBSET ({"None"} \cup {w.cid : w \in Windows})]

\* What is kept of a window while a file streams by is what the list of its
\* records would have given: verify_tick_file agrees with
\* verify_window_continuity at every line.
StreamingIsBatch == \A w \in Windows : tracker[w] = Continuity(Of(w, lines))

\* A file that passes has, for every window in it, a record within MaxGap (or
\* MaxDelay, at the ends) of every moment of the window: nothing of the window
\* is missing.
PassCoversWindows ==
    FileStatus(count, tracker) = "PASS" =>
        \A w \in Seen(tracker) : \A s \in w.start .. w.end :
            \E i \in DOMAIN lines :
                /\ IsRecord(lines[i]) /\ lines[i].win = w
                /\ lines[i].ts - s <= Max({MaxGap, MaxDelay}) /\ s - lines[i].ts <= Max({MaxGap, MaxDelay})

\* Cutting a capture into files hides nothing: the verdict on the directory is
\* no better than the status of the same lines in one file.
SplitHidesNothing ==
    verdict # <<>> =>
        LET whole == FileStatus(verdict.count,
                                [w \in Windows |-> Continuity(Of(w, earlier))])
            rank == [s \in {"PASS", "WARN", "FAIL"} |-> CASE s = "PASS" -> 0 [] s = "WARN" -> 1 [] OTHER -> 2]
        IN  rank[verdict.status] >= rank[whole]

\* Data that failed the check of integrity is ready for nothing.
ReadyHasNotFailed ==
    /\ \A i \in DOMAIN reports : reports[i].status = "FAIL" => reports[i].level = "INSUFFICIENT"
    /\ verdict # <<>> /\ verdict.count.corrupt > 0 => verdict.level = "INSUFFICIENT"

\* capture_state says of a file that passes that no integrity problem was
\* detected in it.
PassIsClean ==
    \A i \in DOMAIN reports : reports[i].status = "PASS" => reports[i].count.schema = 0
=============================================================================
