----------------------------- MODULE MCDashboard -----------------------------
(***************************************************************************)
(* The dashboard for TLC: the guards of a run (BacktestGuard), the reports *)
(* made of its windows (WindowReports), what a request asks to be run      *)
(* (BacktestRequest), saved templates (TemplateStore), uploads of tick     *)
(* files (ChunkUpload) and the list of them (TickManifest).  Each is       *)
(* checked under settings of its own, a part; they share no state, so a    *)
(* behaviour is of one part and leaves the others as they started.         *)
(***************************************************************************)
EXTENDS BacktestGuard, TLC

CONSTANTS Malformed, NoFile

VARIABLES part, rows, preview, live, putting, message, reports

VARIABLES asked, changed, axis, center
VARIABLES version, present, ran, completed, files, answer, faults
VARIABLES client, requests, staging, target, stored, outlived, aged, deletes, restarts, sweeps, lost
VARIABLES file, side, scan, index, gold, policy, writes

reportVars == <<rows, preview, live, putting, message, reports>>
requestVars == <<asked, changed, axis, center>>
templateVars == <<version, present, ran, completed, files, answer, faults>>
uploadVars == <<client, requests, staging, target, stored, outlived, aged, deletes, restarts, sweeps, lost>>
tickVars == <<file, side, scan, index, gold, policy, writes>>

(* Windows that were never entered, paired, paired and then stopped out,    *)
(* stopped out, and carried to their end.                                   *)
Nothing == [series |-> "", duration |-> 0, entered |-> FALSE, pair |-> FALSE, exit |-> FALSE,
            up |-> FALSE, down |-> FALSE, pnl |-> 0, fees |-> 0, cost |-> 0]
Paired  == [Nothing EXCEPT !.entered = TRUE, !.pair = TRUE, !.up = TRUE, !.down = TRUE,
                           !.pnl = 2, !.cost = 98]
Both    == [Paired EXCEPT !.exit = TRUE, !.pnl = 0 - 3, !.fees = 1]
Stopped == [Nothing EXCEPT !.entered = TRUE, !.exit = TRUE, !.up = TRUE, !.pnl = 0 - 6, !.fees = 1]
Carried == [Nothing EXCEPT !.entered = TRUE, !.down = TRUE, !.pnl = 45, !.fees = 3]

Btc5  == [series |-> "btc", duration |-> 5]
Btc15 == [series |-> "btc15", duration |-> 15]
Eth5  == [series |-> "eth", duration |-> 5]

\* Three windows of one market, two of three markets, the two earliest of three.
Whole == INSTANCE WindowReports
    WITH Markets <- <<Btc5>>, MaxWindows <- 3, LimitWindows <- 0, Size <- 5,
         Runs <- {<<Paired, Nothing>>, <<Both, Paired>>, <<Stopped, Carried>>, <<Carried, Both>>}
Mixed == INSTANCE WindowReports
    WITH Markets <- <<Btc5, Btc15, Eth5>>, MaxWindows <- 2, LimitWindows <- 0, Size <- 5,
         Runs <- {<<Paired, Nothing>>, <<Both, Stopped>>, <<Nothing, Paired>>}
Earlier == INSTANCE WindowReports
    WITH Markets <- <<Btc5, Eth5>>, MaxWindows <- 3, LimitWindows <- 2, Size <- 5,
         Runs <- {<<Paired>>, <<Stopped>>}

(* Values out of range, absent and not finite, of every knob.               *)
N == 0 - 10000002

Request == INSTANCE BacktestRequest
    WITH Odd <- [offset |-> {600, N}, queue |-> {50}, pair_cost |-> {400}, exit_default_5m |-> {120},
                 exit_reversal |-> {700}, size |-> {0 - 3, 20000}, quote_lo |-> {950, N},
                 quote_hi |-> {50}, entry_delay_sec |-> {30}, entry_delay_pct |-> {2000, 300, N},
                 dead_zone_val |-> {30000, N}, dead_zone_pct |-> {120, N},
                 dead_zone_unit |-> {"sec", "min"}, naked_leg |-> {"sell"}],
         Axes <- {"queue", "offset", "exit_stop_btc", "exit_stop_default", "exit_stop_sol", "exit_rev",
                  "late_entry", "quote_range", "dead_zone_pct", "leg_chase", "naked_leg"},
         Centers <- {20, 1000}, MaxChanges <- 2

\* The second registry moved one hash and refuses the other arguments.
Template == INSTANCE TemplateStore
    WITH Names <- {"p", "q"}, Args <- {"a", "b"}, Hash <- <<[a |-> 1, b |-> 2], [a |-> 3, b |-> 0]>>,
         Seeds <- {[name |-> "p", args |-> "b"], Malformed}, RunsMax <- 1, MaxRuns <- 2, MaxFaults <- 1

\* One upload with every fault, two uploads of one name, one beside a stream.
Upload == INSTANCE ChunkUpload
    WITH Uploads <- {"u"}, Streams <- {}, Chunks <- [u |-> 2], Attempts <- 2,
         MaxLost <- 2, MaxAged <- 1, MaxDeletes <- 1, MaxRestarts <- 1
Several == INSTANCE ChunkUpload
    WITH Uploads <- {"u", "v"}, Streams <- {}, Chunks <- [u |-> 2, v |-> 1], Attempts <- 2,
         MaxLost <- 1, MaxAged <- 0, MaxDeletes <- 0, MaxRestarts <- 0
Stream == INSTANCE ChunkUpload
    WITH Uploads <- {"u"}, Streams <- {"s"}, Chunks <- [u |-> 2], Attempts <- 2,
         MaxLost <- 1, MaxAged <- 0, MaxDeletes <- 1, MaxRestarts <- 1

(* Files that verify, that hold little, and that are torn.                  *)
Good == [five |-> 2, fifteen |-> 1, ticks |-> 3, late |-> 0, early |-> 0, both |-> 0, faults |-> 0,
         flaws |-> 0, gaps |-> 0, blocks |-> {1}, status |-> 2, capture |-> 2, level |-> 2]
Thin == [Good EXCEPT !.five = 1, !.late = 1, !.early = 1, !.both = 1, !.flaws = 1, !.capture = 1, !.level = 0]
Torn == [Good EXCEPT !.five = 3, !.faults = 1, !.gaps = 1, !.status = 1, !.level = 1, !.blocks = {2}]

\* A day in two tiers, whose files change; two golden days, which the set needs both.
Manifest == INSTANCE TickManifest
    WITH Places <- {[tier |-> "root", day |-> 1], [tier |-> "golden", day |-> 1]},
         Contents <- {Good, Thin, Torn}, MaxWrites <- 2, MaxPolicies <- 2,
         Gates <- [windows |-> 3, perMarket |-> 1, blocks |-> 1, ticks |-> 3]
Days == INSTANCE TickManifest
    WITH Places <- {[tier |-> "golden", day |-> 1], [tier |-> "golden", day |-> 2]},
         Contents <- {Good, Torn}, MaxWrites <- 2, MaxPolicies <- 2,
         Gates <- [windows |-> 4, perMarket |-> 1, blocks |-> 1, ticks |-> 4]

ASSUME Whole!ReportsAssumption /\ Mixed!ReportsAssumption /\ Earlier!ReportsAssumption
ASSUME Template!TemplateAssumption /\ Manifest!ManifestAssumption /\ Days!ManifestAssumption
ASSUME Upload!ChunkAssumption /\ Several!ChunkAssumption /\ Stream!ChunkAssumption

UploadParts == {"upload", "uploads", "stream"}
OtherParts == {"guard", "request", "templates", "manifest", "days"} \cup UploadParts

\* Runs and cancel requests differ in nothing.
Interchangeable == Permutations(Runs) \cup Permutations(Stops)

DashboardInit ==
    /\ part \in {"whole", "mixed", "earliest"} \cup OtherParts
    /\ Init
    /\ part = "earliest" => Earlier!Init
    /\ part = "mixed" => Mixed!Init
    /\ part \in {"whole"} \cup OtherParts => Whole!Init
    /\ Request!Init /\ Template!Init
    /\ part = "days" => Days!Init
    /\ part # "days" => Manifest!Init
    /\ part = "uploads" => Several!Init
    /\ part = "stream" => Stream!Init
    /\ part \notin {"uploads", "stream"} => Upload!Init
    /\ part \notin UploadParts => target = <<>>

DashboardNext ==
    /\ UNCHANGED part
    /\ \/ part = "guard" /\ Next
       \/ part # "guard" /\ UNCHANGED vars
    /\ \/ part = "whole" /\ Whole!Next
       \/ part = "mixed" /\ Mixed!Next
       \/ part = "earliest" /\ Earlier!Next
       \/ part \in OtherParts /\ UNCHANGED reportVars
    /\ \/ part = "upload" /\ Upload!Next
       \/ part = "uploads" /\ Several!Next
       \/ part = "stream" /\ Stream!Next
       \/ part \notin UploadParts /\ UNCHANGED uploadVars
    /\ IF part = "request" THEN Request!Next ELSE UNCHANGED requestVars
    /\ IF part = "templates" THEN Template!Next ELSE UNCHANGED templateVars
    /\ \/ part = "manifest" /\ Manifest!Next
       \/ part = "days" /\ Days!Next
       \/ part \notin {"manifest", "days"} /\ UNCHANGED tickVars

allVars == <<part, vars, reportVars, requestVars, templateVars, uploadVars, tickVars>>

DashboardSpec == DashboardInit /\ [][DashboardNext]_allVars

-----------------------------------------------------------------------------
(* The reports of one run agree, the histogram and the winners are right,   *)
(* and what was shown before is of the windows replayed so far.             *)
ReportsSound ==
    /\ part = "whole" => /\ Whole!ReportsAgree /\ Whole!HistogramCounts
                         /\ Whole!BestsAreBest /\ Whole!PreviewsAreOfWindows
    /\ part = "mixed" => /\ Mixed!ReportsAgree /\ Mixed!HistogramCounts
                         /\ Mixed!BestsAreBest /\ Mixed!PreviewsAreOfWindows
    /\ part = "earliest" => /\ Earlier!ReportsAgree /\ Earlier!HistogramCounts
                            /\ Earlier!BestsAreBest /\ Earlier!PreviewsAreOfWindows

(* Whatever is asked, and every point of a sweep of it, is a run the engine *)
(* accepts, and asking again for what the page was told gives that run.     *)
RequestsSound ==
    part = "request" => /\ Request!EveryRequestRuns /\ Request!ToldRunsTheSame
                        /\ Request!SweepPointsRun /\ Request!AnchoredAtItself

(* A file is of one upload and kept once it was acknowledged, a template is *)
(* loaded or refused for a reason, and what the list of tick files says is  *)
(* of the files as they are.                                                *)
FilesSound ==
    /\ part = "upload" => /\ Upload!TypeOK /\ Upload!FileIsOneUpload
                          /\ Upload!ToldIsStored /\ Upload!AcknowledgedChunksKept
    /\ part = "uploads" => /\ Several!FileIsOneUpload /\ Several!ToldIsStored
                           /\ Several!AcknowledgedChunksKept
    /\ part = "stream" => /\ Stream!FileIsOneUpload /\ Stream!ToldIsStored
                          /\ Stream!AcknowledgedChunksKept
    /\ part = "templates" => Template!LoadedIsCurrent /\ Template!StaleIsStale
    /\ part = "manifest" => /\ Manifest!TotalIsOfTheFiles /\ Manifest!RowsAreOfTheFile
                            /\ Manifest!PreferredIsBest /\ Manifest!CertifiedIsVerified
    /\ part = "days" => /\ Days!TotalIsOfTheFiles /\ Days!RowsAreOfTheFile
                        /\ Days!PreferredIsBest /\ Days!CertifiedIsVerified
=============================================================================
