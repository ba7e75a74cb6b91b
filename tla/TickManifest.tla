---------------------------- MODULE TickManifest ----------------------------
(***************************************************************************)
(* The dashboard's list of tick files (server/osc_dash.py, api_ticks_      *)
(* manifest and api_ticks_golden): what it says of a file, of all files    *)
(* together, which file it prefers and whether the golden set is certified.*)
(* It reads no file but the sidecars that verification left beside them:   *)
(* one is of the file when their fingerprints agree, and is believed for   *)
(* ten minutes whatever became of the file.  A scan takes long, and the    *)
(* file may change under it: one in the background files what it read      *)
(* under the fingerprint of the file as it is afterwards, one a request    *)
(* waits for under that of the file as the request found it.               *)
(*                                                                         *)
(* A file's fingerprint is the number of the write that made it.  What the *)
(* verifier finds in a file (TickVerify) is its content here.              *)
(***************************************************************************)
EXTENDS Sequences, Integers, FiniteSets, FiniteSetsExt

CONSTANTS
    Places,         \* files that may be: [tier, day]
    Contents,       \* what a file may hold
    Gates,          \* the golden set's targets: [windows, perMarket, blocks, ticks]
    MaxWrites,      \* bound: writes of files
    MaxPolicies     \* bound: versions of the readiness policy

Tiers == <<"root", "pristine", "golden", "backtest">>

ManifestAssumption ==
    /\ \A p \in Places : \E i \in DOMAIN Tiers : p.tier = Tiers[i]
    /\ \A c \in Contents :
           /\ {c.five, c.fifteen, c.ticks, c.late, c.early, c.both, c.faults, c.flaws, c.gaps} \subseteq Nat
           /\ c.both <= c.late /\ c.both <= c.early
           /\ c.late + c.early - c.both <= c.five + c.fifteen
    /\ MaxWrites \in Nat /\ MaxPolicies \in Nat

VARIABLES
    file,       \* [Places -> [print, c], or Missing]
    side,       \* [Places -> the sidecar, or NoSide: the print it is filed under, the content
                \* scanned, policy, recent; still (auxiliary): the file was not written meanwhile]
    scan,       \* the scan that holds _VERIFY_SCAN_SEM: the file, its print before, whether a
                \* request waits for it, and what the file has held since (auxiliary)
    index,      \* [Places -> the print of the file the index was built of, 0 when there is none]
    gold,       \* golden_manifest.json: the policy it was made by; 0 when missing, -1 when unreadable
    policy,     \* READINESS_POLICY_VERSION
    writes

vars == <<file, side, scan, index, gold, policy, writes>>

Missing == [print |-> 0]
NoSide == [print |-> 0]
NoScan == [held |-> {}]

Init ==
    /\ file = [p \in Places |-> Missing]
    /\ side = [p \in Places |-> NoSide] /\ scan = NoScan
    /\ index = [p \in Places |-> 0]
    /\ gold = 0 /\ policy = 1 /\ writes = 0

-----------------------------------------------------------------------------
(* What changes the files.                                                  *)

There(p) == file[p] # Missing

Write(p, c) ==
    /\ writes < MaxWrites
    /\ writes' = writes + 1
    /\ file' = [file EXCEPT ![p] = [print |-> writes + 1, c |-> c]]
    /\ scan' = IF scan # NoScan /\ scan.file = p THEN [scan EXCEPT !.held = @ \cup {c}] ELSE scan
    /\ UNCHANGED <<side, index, gold, policy>>

Remove(p) ==
    /\ There(p)
    /\ file' = [file EXCEPT ![p] = Missing]
    /\ index' = [index EXCEPT ![p] = 0]
    /\ UNCHANGED <<side, scan, gold, policy, writes>>

ScanStarts(p, waits) ==
    /\ There(p) /\ scan = NoScan
    /\ scan' = [file |-> p, print |-> file[p].print, waits |-> waits, held |-> {file[p].c}]
    /\ UNCHANGED <<file, side, index, gold, policy, writes>>

(* What it read is what the file held at some moment.  Without the file     *)
(* there is no fingerprint to file a scan in the background under.          *)
ScanEnds ==
    /\ scan # NoScan /\ scan' = NoScan
    /\ \E c \in scan.held :
           LET p == scan.file
           IN  side' = IF scan.waits \/ There(p)
                       THEN [side EXCEPT ![p] =
                                [print |-> IF scan.waits THEN scan.print ELSE file[p].print, c |-> c,
                                 policy |-> policy, recent |-> TRUE, still |-> file[p].print = scan.print]]
                       ELSE side
    /\ UNCHANGED <<file, index, gold, policy, writes>>

(* It raises, or the process is stopped under it.                           *)
ScanFails ==
    /\ scan # NoScan /\ scan' = NoScan
    /\ UNCHANGED <<file, side, index, gold, policy, writes>>

(* _SCAN_TTL_SEC go by.                                                     *)
GetOld(p) ==
    /\ side[p] # NoSide /\ side[p].recent
    /\ side' = [side EXCEPT ![p].recent = FALSE]
    /\ UNCHANGED <<file, scan, index, gold, policy, writes>>

\* Only that of a golden file is asked for.
Index(p) ==
    /\ There(p) /\ p.tier = "golden"
    /\ index' = [index EXCEPT ![p] = file[p].print]
    /\ UNCHANGED <<file, side, scan, gold, policy, writes>>

WriteGoldManifest(v) ==
    /\ gold' = v
    /\ UNCHANGED <<file, side, scan, index, policy, writes>>

\* A deployment restarts the server.
NewPolicy ==
    /\ policy < MaxPolicies /\ scan' = NoScan
    /\ policy' = policy + 1
    /\ UNCHANGED <<file, side, index, gold, writes>>

Next ==
    \/ \E p \in Places : Remove(p) \/ GetOld(p) \/ Index(p)
    \/ \E p \in Places, waits \in BOOLEAN : ScanStarts(p, waits)
    \/ ScanEnds \/ ScanFails
    \/ \E p \in Places, c \in Contents : Write(p, c)
    \/ \E v \in {0 - 1, 0, policy} : WriteGoldManifest(v)
    \/ NewPolicy

-----------------------------------------------------------------------------
(* Reading a sidecar.                                                       *)

(* _read_verify_cache with the file's fingerprint.                          *)
Sidecar(p) ==
    IF side[p] # NoSide /\ (side[p].print = file[p].print \/ side[p].recent) THEN side[p] ELSE NoSide

OfTheFile(p) == Sidecar(p) # NoSide /\ Sidecar(p).print = file[p].print

Current(p) == Sidecar(p) # NoSide /\ Sidecar(p).policy = policy

Windows(c) == c.five + c.fifteen

\* Corrupt rows, collector errors and reversals are faults; rows of another
\* schema and crossed books are flaws.
Problems(c) == c.faults + c.flaws + c.gaps

-----------------------------------------------------------------------------
(* The row of one file.  Unknown is never shown as zero.                    *)

Unknown == 0 - 1

Five(p) == IF OfTheFile(p) THEN Sidecar(p).c.five ELSE Unknown
Fifteen(p) == IF OfTheFile(p) THEN Sidecar(p).c.fifteen ELSE Unknown

(* _window_quality *)
FullWindows(p) ==
    IF Current(p) /\ OfTheFile(p)
    THEN LET c == Sidecar(p).c
             full == Windows(c) - c.late - c.early
         IN  IF full < 0 THEN 0 ELSE full
    ELSE Unknown
CleanWindows(p) ==
    IF FullWindows(p) # Unknown /\ Problems(Sidecar(p).c) = 0 THEN FullWindows(p) ELSE Unknown
ResearchWindows(p) ==
    IF CleanWindows(p) # Unknown /\ Sidecar(p).c.level = 2 THEN CleanWindows(p) ELSE Unknown

-----------------------------------------------------------------------------
(* _aggregate_ticks: every day once, its first tier standing for it.        *)

TierOf(p) == CHOOSE i \in DOMAIN Tiers : Tiers[i] = p.tier

Counted == {p \in Places : There(p) /\ \A q \in Places : There(q) /\ q.day = p.day => TierOf(p) <= TierOf(q)}

Believed == {p \in Counted : Sidecar(p) # NoSide}
Split == {p \in Counted : OfTheFile(p)}

TotalWindows == MapThenSumSet(LAMBDA p : Windows(Sidecar(p).c), Believed)
TotalFive == MapThenSumSet(LAMBDA p : Sidecar(p).c.five, Split)
TotalFifteen == MapThenSumSet(LAMBDA p : Sidecar(p).c.fifteen, Split)

WindowsSource ==
    IF Counted = {} THEN "none" ELSE IF Split = Counted THEN "cache" ELSE "partial"

-----------------------------------------------------------------------------
(* pick_preferred.  Levels, verdicts and captures are ranked by numbers, 0  *)
(* being unknown; of equal files the first by name is taken.                *)

Status(p)  == IF Current(p) THEN Sidecar(p).c.status ELSE 0
Capture(p) == IF Current(p) THEN Sidecar(p).c.capture ELSE 0
Level(p)   == IF Current(p) THEN Sidecar(p).c.level ELSE 0
Count(p)   == IF Current(p) THEN Windows(Sidecar(p).c) ELSE 0

Key(p, tier) ==
    (IF tier = 1 THEN <<0, 0>> ELSE <<Status(p), Capture(p)>>) \o <<Level(p), Count(p), file[p].print>>

Before(a, b) ==
    \E i \in DOMAIN a : a[i] < b[i] /\ \A j \in 1..(i - 1) : a[j] = b[j]

Listed == {p \in Places : There(p)}
Healthy == {p \in Listed : Status(p) = 2 /\ Capture(p) = 2}

Tier == IF Healthy # {} THEN 1 ELSE 2

Preferred ==
    LET among == IF Tier = 1 THEN Healthy ELSE Listed
    IN  {p \in among : \A q \in among : ~ Before(Key(p, Tier), Key(q, Tier))}

-----------------------------------------------------------------------------
(* api_ticks_golden: the gates over the days of the golden directory.       *)

Golden == {p \in Listed : p.tier = "golden"}

Found(p) == Sidecar(p) # NoSide

Over(of(_)) == MapThenSumSet(of, {p \in Golden : Found(p)})

(* _golden_set_checks *)
SetGates ==
    LET windows == Over(LAMBDA p : Windows(Sidecar(p).c))
    IN  /\ windows >= Gates.windows
        /\ Over(LAMBDA p : Sidecar(p).c.five) >= Gates.perMarket
        /\ Over(LAMBDA p : Sidecar(p).c.fifteen) >= Gates.perMarket
        /\ Over(LAMBDA p : Sidecar(p).c.ticks) >= Gates.ticks
        /\ Cardinality(UNION {Sidecar(p).c.blocks : p \in {q \in Golden : Found(q)}}) >= Gates.blocks
        /\ 20 * Over(LAMBDA p : Sidecar(p).c.gaps) <= (IF windows = 0 THEN 1 ELSE windows)

(* _golden_per_day_checks *)
DayGates ==
    Golden # {} /\ \A p \in Golden :
        Found(p) /\ Sidecar(p).c.status = 2 /\ Sidecar(p).c.capture = 2 /\ Sidecar(p).c.faults = 0

(* _golden_currency_checks *)
CurrencyGates == gold = policy /\ \A p \in Golden : index[p] = file[p].print

Certified == gold # 0 - 1 /\ SetGates /\ DayGates /\ CurrencyGates

-----------------------------------------------------------------------------
\* What is filed under the bytes of a file may not be what they were when they were scanned.
Moved(p) == OfTheFile(p) /\ ~Sidecar(p).still

\* Within ten minutes of its scan, or during it.
Changed(p) == Found(p) /\ (~OfTheFile(p) \/ Moved(p))

(* The number of windows said to be in all files is that of the files as    *)
(* they are, every day once, whenever it is said to be known, and so is its *)
(* split by duration; but for a file that was written while it was scanned  *)
(* (api_ticks_manifest).                                                    *)
TotalIsOfTheFiles ==
    WindowsSource = "cache" /\ (\A p \in Counted : ~Moved(p)) =>
        /\ TotalWindows = MapThenSumSet(LAMBDA p : Windows(file[p].c), Counted)
        /\ TotalWindows = TotalFive + TotalFifteen

(* A row's numbers are unknown or of the file as it is, and never say that  *)
(* more windows are whole than are; but for a file that was written while   *)
(* it was scanned (_window_quality, _bg_verify_scan).                       *)
RowsAreOfTheFile ==
    \A p \in {q \in Listed : ~Moved(q)} :
        LET c == file[p].c
        IN  /\ Five(p) \in {Unknown, c.five} /\ Fifteen(p) \in {Unknown, c.fifteen}
            /\ FullWindows(p) <= Windows(c) - (c.late + c.early - c.both)
            /\ CleanWindows(p) # Unknown => Problems(c) = 0
            /\ ResearchWindows(p) # Unknown => c.level = 2

(* The preferred file has passed, as it is and by the policy of today, when *)
(* any such file is there, but for one changed during its scan or within    *)
(* ten minutes of it; and no file known to be better is passed over         *)
(* (pick_preferred).                                                        *)
PreferredIsBest ==
    \A p \in Preferred :
        /\ Tier = 1 => Changed(p) \/ (file[p].c.status = 2 /\ file[p].c.capture = 2)
        /\ \A q \in Listed :
               /\ OfTheFile(q) /\ Current(q) /\ ~Moved(q)
               /\ file[q].c.status = 2 /\ file[q].c.capture = 2
               => Tier = 1 /\ Level(q) <= Level(p)

(* A certified set consists of days that, as they are, have passed and are  *)
(* indexed, and meets its targets, unless a day was changed during its scan *)
(* or within ten minutes of it (api_ticks_golden).                          *)
CertifiedIsVerified ==
    Certified /\ (\A p \in Golden : ~Changed(p)) =>
        /\ Golden # {}
        /\ \A p \in Golden : file[p].c.status = 2 /\ file[p].c.capture = 2 /\ file[p].c.faults = 0
        /\ MapThenSumSet(LAMBDA p : Windows(file[p].c), Golden) >= Gates.windows
=============================================================================
