--------------------------- MODULE OvernightSweep ---------------------------
(***************************************************************************)
(* scripts/run_overnight_sweep.py: windows are loaded from the day files,  *)
(* configurations sampled, replayed one by one, and each one's rows are    *)
(* appended to a CSV file, the one of all markets and then one per asset;  *)
(* a summary is made of the whole file from time to time and at the end.   *)
(* The night's process may be killed and started again on the same file.   *)
(*                                                                         *)
(* Ticks are read in the order of their time.  What a replay amounts to is *)
(* data: its risk-adjusted ratio.                                          *)
(*                                                                         *)
(* A definition named Bug... is not part of the model: it is a plausible   *)
(* mistake in the definition after it, which one of the properties catches.*)
(***************************************************************************)
EXTENDS Integers, Sequences, FiniteSets, SequencesExt

CONSTANTS
    Cids,           \* windows the files hold
    MaxLines,       \* lines of the files
    MaxWindows,     \* max_windows; 0: no limit
    Keys,           \* what two sampled configurations are compared by
    Iterations,     \* n_iterations
    MaxAttempts,    \* n_iterations * 10
    Assets,         \* a sequence: TARGET_ASSETS
    Every,          \* a summary after this many configurations, and after the first
    Ratios,         \* what a configuration may amount to
    MaxStarts,      \* how often the process is started
    Faults          \* subset of {"crash", "replay", "append", "summary"}

SweepAssumption ==
    /\ MaxLines \in Nat /\ MaxWindows \in Nat /\ Iterations \in Nat \ {0}
    /\ MaxAttempts \in Nat /\ Every \in Nat \ {0} /\ MaxStarts \in Nat \ {0}
    /\ "Baseline" \notin Keys /\ Ratios \subseteq Int

VARIABLES
    stage,      \* loading, sampling, running, logging, summing, done, failed, dead
    lines,      \* the lines read: window identities
    dict,       \* windows_dict: a sequence of [cid, ticks], oldest first
    windows,    \* what is replayed
    attempts,   \* draws made
    candidates, \* the keys of the configurations, the baseline first
    index,      \* the configuration being replayed
    ratio,      \* what it amounts to
    written,    \* rows of it in the file
    completed,  \* configurations completed
    starts,     \* times the process was started
    csv,        \* the file: rows [start, key, asset, ratio]
    summary     \* the summary: [rows, total, baseline, top], or nothing

vars == <<stage, lines, dict, windows, attempts, candidates, index, ratio, written,
          completed, starts, csv, summary>>

NoRow == [start |-> 0, key |-> "none", asset |-> "none", ratio |-> 0]
NoSummary == [rows |-> 0, total |-> 0, baseline |-> NoRow, top |-> NoRow]

Init ==
    /\ stage = "loading" /\ lines = <<>> /\ dict = <<>> /\ windows = <<>>
    /\ attempts = 0 /\ candidates = <<"Baseline">> /\ index = 1 /\ ratio = 0 /\ written = 0
    /\ completed = 0 /\ starts = 1 /\ csv = <<>> /\ summary = NoSummary

loaded == <<lines, dict, windows>>
sampled == <<attempts, candidates>>
files == <<csv, summary>>

-----------------------------------------------------------------------------
(* load_golden_windows: reading stops with the line that begins one window  *)
(* too many; windows still open then keep the ticks read so far.            *)
Crowded(d) == MaxWindows > 0 /\ Len(d) > MaxWindows

ReadLine ==
    /\ stage = "loading" /\ Len(lines) < MaxLines /\ ~ Crowded(dict)
    /\ \E cid \in Cids :
         /\ lines' = Append(lines, cid)
         /\ dict' = IF \E i \in DOMAIN dict : dict[i].cid = cid
                    THEN [i \in DOMAIN dict |->
                            IF dict[i].cid = cid THEN [dict[i] EXCEPT !.ticks = @ + 1] ELSE dict[i]]
                    ELSE Append(dict, [cid |-> cid, ticks |-> 1])
    /\ UNCHANGED <<stage, windows, sampled, index, ratio, written, completed, starts, files>>

Keep(d) == IF Crowded(d) THEN SubSeq(d, 1, MaxWindows) ELSE d

Loaded ==
    /\ stage = "loading" /\ stage' = "sampling" /\ windows' = Keep(dict)
    /\ UNCHANGED <<lines, dict, sampled, index, ratio, written, completed, starts, files>>

-----------------------------------------------------------------------------
(* generate_candidates: a draw that was drawn before does not count.        *)
Enough == Len(candidates) >= Iterations \/ attempts >= MaxAttempts

New(key) == \A i \in DOMAIN candidates : candidates[i] # key

Draw ==
    /\ stage = "sampling" /\ ~ Enough
    /\ attempts' = attempts + 1
    /\ \E key \in Keys : candidates' = IF New(key) THEN Append(candidates, key) ELSE candidates
    /\ UNCHANGED <<stage, loaded, index, ratio, written, completed, starts, files>>

\* The file gets its header when it has none; the header is not a row.
Sampled ==
    /\ stage = "sampling" /\ Enough /\ stage' = "running"
    /\ UNCHANGED <<loaded, sampled, index, ratio, written, completed, starts, files>>

-----------------------------------------------------------------------------
(* The loop over the configurations.                                        *)
Skip == IF index = Len(candidates)
        THEN stage' = "summing" /\ UNCHANGED index
        ELSE stage' = "running" /\ index' = index + 1

Evaluate ==
    /\ stage = "running"
    /\ \/ ratio' \in Ratios /\ stage' = "logging" /\ UNCHANGED index
       \/ "replay" \in Faults /\ Skip /\ UNCHANGED ratio
    /\ written' = 0
    /\ UNCHANGED <<loaded, sampled, completed, starts, files>>

Row == [start |-> starts, key |-> candidates[index], ratio |-> ratio,
        asset |-> IF written = 0 THEN "ALL" ELSE Assets[written]]

\* generate_summary_report: the baseline is the first of the file's.
Summary(rows) ==
    LET all  == SelectSeq(rows, LAMBDA r : r.asset = "ALL")
        own  == SelectSeq(all, LAMBDA r : r.key = "Baseline")
        best == {i \in DOMAIN all : \A j \in DOMAIN all :
                   all[j].ratio < all[i].ratio \/ (all[j].ratio = all[i].ratio /\ i <= j)}
    IN [rows |-> Len(rows), total |-> Len(all),
        baseline |-> IF own = <<>> THEN NoRow ELSE own[1],
        top |-> IF best = {} THEN NoRow ELSE all[CHOOSE i \in best : TRUE]]

SummaryDue == completed' = 1 \/ completed' % Every = 0

\* An append that fails leaves the rows before it and goes on to the next configuration.
Log ==
    /\ stage = "logging"
    /\ \/ /\ csv' = Append(csv, Row)
          /\ IF written < Len(Assets)
             THEN written' = written + 1 /\ UNCHANGED <<stage, index, completed, summary>>
             ELSE /\ written' = 0 /\ completed' = completed + 1 /\ Skip
                  /\ \/ summary' = IF SummaryDue THEN Summary(csv') ELSE summary
                     \/ SummaryDue /\ "summary" \in Faults /\ UNCHANGED summary
       \/ "append" \in Faults /\ Skip /\ written' = 0 /\ UNCHANGED <<completed, files>>
    /\ UNCHANGED <<loaded, sampled, ratio, starts>>

\* A summary that cannot be made ends the night with an error.
Compile ==
    /\ stage = "summing"
    /\ \/ stage' = "done" /\ summary' = IF csv = <<>> THEN summary ELSE Summary(csv)
       \/ "summary" \in Faults /\ stage' = "failed" /\ UNCHANGED summary
    /\ UNCHANGED <<loaded, sampled, index, ratio, written, completed, starts, csv>>

-----------------------------------------------------------------------------
Crash ==
    /\ "crash" \in Faults /\ stage \in {"running", "logging", "summing"} /\ stage' = "dead"
    /\ UNCHANGED <<loaded, sampled, index, ratio, written, completed, starts, files>>

\* A new start samples the same configurations, by the same seed, and begins with
\* the baseline again.
Restart ==
    /\ stage \in {"dead", "failed", "done"} /\ starts < MaxStarts
    /\ starts' = starts + 1 /\ stage' = "running"
    /\ index' = 1 /\ ratio' = 0 /\ written' = 0 /\ completed' = 0
    /\ UNCHANGED <<loaded, sampled, files>>

Next == \/ ReadLine \/ Loaded \/ Draw \/ Sampled \/ Evaluate \/ Log \/ Compile
        \/ Crash \/ Restart
Spec == Init /\ [][Next]_vars

-----------------------------------------------------------------------------
(* Properties.                                                             *)

\* The windows replayed are the earliest ones, as many as asked for, and without
\* a limit every tick of them.
WindowsAreEarliest ==
    stage \notin {"loading"} =>
        LET first(cid) == CHOOSE i \in DOMAIN lines : lines[i] = cid /\ \A j \in 1 .. i - 1 : lines[j] # cid
            read == {lines[i] : i \in DOMAIN lines}
            kept == {windows[i].cid : i \in DOMAIN windows}
        IN /\ kept = {c \in read : MaxWindows = 0 \/
                        Cardinality({d \in read : first(d) < first(c)}) < MaxWindows}
           /\ Cardinality(kept) = Len(windows)
           /\ \A i \in DOMAIN windows :
                windows[i].ticks = Cardinality({j \in DOMAIN lines : lines[j] = windows[i].cid})

\* The baseline comes first, and no configuration twice.
CandidatesDiffer ==
    /\ candidates[1] = "Baseline" /\ Len(candidates) <= Iterations
    /\ \A i, j \in DOMAIN candidates : candidates[i] = candidates[j] => i = j

Of(s, key) == SelectSeq(csv, LAMBDA r : r.start = s /\ r.key = key)

\* The rows of one configuration of one start are the overall one and then the
\* assets in their order, of one replay; as many configurations as were completed
\* have all of theirs.
RowsBelongTogether ==
    /\ \A s \in 1 .. starts, i \in DOMAIN candidates :
         LET rows == Of(s, candidates[i]) IN
         /\ Len(rows) <= Len(Assets) + 1
         /\ \A k \in DOMAIN rows : /\ rows[k].asset = IF k = 1 THEN "ALL" ELSE Assets[k - 1]
                                   /\ rows[k].ratio = rows[1].ratio
    /\ Cardinality({i \in DOMAIN candidates : Len(Of(starts, candidates[i])) = Len(Assets) + 1}) = completed

\* A summary tells of a file that was: no row in it is later lost.  Its winner is
\* not beaten by any row it was made of, and without a crash or a failed write it
\* counts whole configurations.
SummaryOfFile ==
    summary # NoSummary =>
        LET told == SubSeq(csv, 1, summary.rows) IN
        /\ summary.rows <= Len(csv)
        /\ stage = "done" => summary.rows = Len(csv)
        /\ \A i \in DOMAIN told : told[i].asset = "ALL" => told[i].ratio <= summary.top.ratio
        /\ Faults \cap {"crash", "append"} = {} =>
             summary.rows = summary.total * (Len(Assets) + 1)

SweepSound == /\ WindowsAreEarliest /\ CandidatesDiffer /\ RowsBelongTogether /\ SummaryOfFile
=============================================================================
