----------------------------- MODULE MCEvidence -----------------------------
(***************************************************************************)
(* What is known of the captured data, for TLC: the guard over the files   *)
(* (HashCheck), the verifier (TickVerify) and the reports the dashboard    *)
(* serves (VerifyCache).  Each is checked under settings of its own, a     *)
(* part; they share no state, so a behaviour is of one part and leaves the *)
(* others as they started.                                                 *)
(***************************************************************************)
EXTENDS HashCheck

CONSTANTS today, past, cli, dash, btc, eth, w1, w2

VARIABLES
    part,
    count, tracker, market, reports, verdict, lines, earlier,
    version, policy, mem, side, scan, sem, reply, latest, faults, restarts

verifyVars == <<count, tracker, market, reports, verdict, lines, earlier>>
cacheVars == <<version, policy, mem, side, scan, sem, reply, latest, faults, restarts>>

\* Checks of a quiet directory by two checkers.
Quietly == INSTANCE HashCheck
    WITH Checkers <- {cli, dash}, Statuses <- {"PASS", "WARN"}, Alone <- TRUE,
         RewriteLive <- FALSE, Crashes <- FALSE, MaxBlocks <- 3

OneWindow == {[market |-> btc, cid |-> "a", start |-> 1, end |-> 5]}
TwoWindows == {[market |-> btc, cid |-> "a", start |-> 1, end |-> 5],
               [market |-> btc, cid |-> "b", start |-> 4, end |-> 6]}
TwoMarkets == {[market |-> btc, cid |-> "a", start |-> 1, end |-> 3],
               [market |-> eth, cid |-> "a", start |-> 1, end |-> 3]}
Gentle == [EXPLORATORY |-> [ticks |-> 1, windows |-> 1, markets |-> 1, perMarket |-> 1,
                            blocks |-> 1, gaps |-> 50, errors |-> 30],
           RESEARCH_READY |-> [ticks |-> 2, windows |-> 2, markets |-> 2, perMarket |-> 1,
                               blocks |-> 1, gaps |-> 10, errors |-> 0]]
\* Windows that overlap in one file.
OneFile == INSTANCE TickVerify
    WITH Windows <- TwoWindows, Times <- {1, 3, 4, 6}, Wrong <- {"cid"}, Bad <- {"empty"},
         MaxGap <- 2, MaxDelay <- 2, Tolerance <- 3, Scale <- 100, Day <- 4,
         Expected <- {btc, eth}, Policies <- Gentle, MaxLines <- 4, MaxFiles <- 1
\* A window cut in two by the end of a file.
TwoFiles == INSTANCE TickVerify
    WITH Windows <- OneWindow, Times <- {1, 2, 3, 5}, Wrong <- {"field"}, Bad <- {},
         MaxGap <- 2, MaxDelay <- 2, Tolerance <- 2, Scale <- 100, Day <- 4,
         Expected <- {btc, eth}, Policies <- Gentle, MaxLines <- 4, MaxFiles <- 2
\* Two markets, and everything that may be wrong.
Mixed == INSTANCE TickVerify
    WITH Windows <- TwoMarkets, Times <- {1, 3}, Wrong <- {"field", "crossed", "err"},
         Bad <- {"corrupt", "empty"}, MaxGap <- 2, MaxDelay <- 2, Tolerance <- 3,
         Scale <- 100, Day <- 4, Expected <- {btc, eth}, Policies <- Gentle,
         MaxLines <- 3, MaxFiles <- 2

\* A file the collector leaves alone while it is scanned, and one it appends to.
Still == INSTANCE VerifyCache
    WITH told <- latest, Waiters <- {w1}, Faults <- {"scan", "sidecar"},
         GrowsWhileScanned <- FALSE, Refreshes <- TRUE, MaxVersion <- 3, MaxFaults <- 1,
         MaxRestarts <- 1
Growing == INSTANCE VerifyCache
    WITH told <- latest, Waiters <- {w1, w2}, Faults <- {"scan"},
         GrowsWhileScanned <- TRUE, Refreshes <- TRUE, MaxVersion <- 3, MaxFaults <- 1,
         MaxRestarts <- 1

ASSUME OneFile!VerifyAssumption /\ TwoFiles!VerifyAssumption /\ Mixed!VerifyAssumption
ASSUME Still!CacheAssumption /\ Growing!CacheAssumption /\ Quietly!HashAssumption

EvidenceInit ==
    /\ part \in {"races", "quietly", "file", "files", "mixed", "still", "growing"}
    /\ IF part = "races" THEN Init ELSE Quietly!Init
    /\ IF part = "file" THEN OneFile!Init ELSE IF part = "files" THEN TwoFiles!Init ELSE Mixed!Init
    /\ IF part = "growing" THEN Growing!Init ELSE Still!Init

EvidenceNext ==
    /\ UNCHANGED part
    /\ \/ part = "races" /\ Next /\ UNCHANGED <<verifyVars, cacheVars>>
       \/ part = "quietly" /\ Quietly!Next /\ UNCHANGED <<verifyVars, cacheVars>>
       \/ part = "file" /\ OneFile!Next /\ UNCHANGED <<vars, cacheVars>>
       \/ part = "files" /\ TwoFiles!Next /\ UNCHANGED <<vars, cacheVars>>
       \/ part = "mixed" /\ Mixed!Next /\ UNCHANGED <<vars, cacheVars>>
       \/ part = "still" /\ Still!Next /\ UNCHANGED <<vars, verifyVars>>
       \/ part = "growing" /\ Growing!Next /\ UNCHANGED <<vars, verifyVars>>

EvidenceSpec == EvidenceInit /\ [][EvidenceNext]_<<part, vars, verifyVars, cacheVars>>

-----------------------------------------------------------------------------
(* What is kept of the windows while a file streams by is what their lists  *)
(* of records give, a file that passes covers its windows, cutting a        *)
(* capture into files hides nothing, and data that failed the check of      *)
(* integrity is ready for nothing.                                          *)
PassIsEarned ==
    /\ part = "file" => OneFile!StreamingIsBatch /\ OneFile!PassCoversWindows
    /\ part = "files" => TwoFiles!SplitHidesNothing
    /\ part = "mixed" => Mixed!ReadyHasNotFailed

(* Checked alone, an alarm tells of bytes replaced without the guard, and   *)
(* the same change raises one alarm.  A report served as the one of the     *)
(* file as it is tells of that file, and is judged by the policy of the     *)
(* code that serves it; what a client is told of a growing file never goes  *)
(* back in time.                                                            *)
ToldIsTrue ==
    [][/\ part = "quietly" => ~ FalseAlarm /\ FlagsOnce'
       /\ part = "still" => Still!ExactIsExact'
       /\ Growing!PolicyIsCurrent'
       /\ part = "growing" => ~ Growing!GoesBack]_<<vars, cacheVars>>
=============================================================================
