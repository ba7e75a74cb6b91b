------------------------------ MODULE HashCheck ------------------------------
(***************************************************************************)
(* The guard over captured day files: scripts/tick_safety.py, which backs  *)
(* a generation up and logs the event when it is rewritten, and            *)
(* apply_hash_crosscheck of scripts/verify_tick_data.py, which remembers   *)
(* the bytes it verified and tells when they changed without an event.     *)
(*                                                                         *)
(* The bytes of a file are a sequence of blocks no two of which are equal; *)
(* a hash is the bytes themselves.  The collector appends to the live day  *)
(* while checks run; a tool may rewrite a file through the guard, and      *)
(* somebody may edit one without it.                                       *)
(*                                                                         *)
(* A definition named Bug... is not part of the model: it is a plausible   *)
(* mistake in the definition after it, which one of the properties catches.*)
(***************************************************************************)
EXTENDS Integers, Sequences, SequencesExt

CONSTANTS
    Days, Live,     \* day files; the one the collector appends to
    Checkers,       \* processes that verify: the command, the dashboard
    Statuses,       \* statuses verify_tick_file may have given
    Alone,          \* nothing else happens while a check runs
    RewriteLive,    \* may the live day be rewritten through the guard?
    Restores,       \* may a backed-up generation come back?
    Crashes,        \* may the rewriting tool die half-way?
    MaxBlocks, MaxChecks  \* bounds

ASSUME HashAssumption ==
    /\ Live \in Days /\ Statuses \subseteq {"PASS", "WARN", "FAIL"}
    /\ {Alone, RewriteLive, Restores, Crashes} \subseteq BOOLEAN

Missing == <<>>
NoEntry == [sha |-> Missing, size |-> 0]
NoReport == [status |-> "none", label |-> "none", flagged |-> FALSE]
Resting == [at |-> "idle", day |-> Live, entry |-> NoEntry, current |-> Missing,
            report |-> NoReport, store |-> <<>>]
NoRewrite == [at |-> "idle", day |-> Live, old |-> Missing]

VARIABLES
    file,       \* the bytes of each day file
    backup,     \* generations moved to backup/
    store,      \* verify_hashes.json
    events,     \* rewrite_events.jsonl: [day, old]
    rewriter,   \* the guarded rewrite under way
    check,      \* the check each checker runs
    told,       \* auxiliary: the last report given of each day
    broken,     \* auxiliary: what undid the recorded bytes of a day: no, silent, logged
    alarms,     \* auxiliary: alarms about a day since its bytes were last replaced
    fresh, checks \* bounds: the next block; the checks so far

vars == <<file, backup, store, events, rewriter, check, told, broken, alarms, fresh, checks>>

Init ==
    /\ file = [d \in Days |-> <<0>>] /\ backup = {} /\ store = [d \in Days |-> NoEntry]
    /\ events = {} /\ rewriter = NoRewrite /\ check = [c \in Checkers |-> Resting]
    /\ told = [d \in Days |-> NoReport] /\ broken = [d \in Days |-> "no"]
    /\ alarms = [d \in Days |-> 0] /\ fresh = 1 /\ checks = 0

Quiet == Alone => \A c \in Checkers : check[c].at = "idle"

\* The recorded bytes are still the first bytes of the file.
Extends(bytes, entry) == entry = NoEntry \/ IsPrefix(entry.sha, bytes)

-----------------------------------------------------------------------------
(* What happens to the files.                                              *)

Append1 ==
    /\ Quiet /\ fresh <= MaxBlocks /\ fresh' = fresh + 1
    /\ file' = [file EXCEPT ![Live] = Append(@, fresh)]
    /\ UNCHANGED <<backup, store, events, rewriter, check, told, broken, alarms, checks>>

Edits(bytes) ==
    ({<<fresh>>, Front(bytes), <<fresh>> \o Tail(bytes)}
        \cup (IF Restores THEN backup ELSE {})) \ {bytes, Missing}

\* Somebody writes over a file without the guard.
Silent(d) ==
    /\ Quiet /\ fresh <= MaxBlocks /\ fresh' = fresh + 1 /\ file[d] # Missing
    /\ \E bytes \in Edits(file[d]) :
        /\ file' = [file EXCEPT ![d] = bytes]
        /\ broken' = [broken EXCEPT ![d] =
               IF Extends(bytes, store[d]) THEN "no"
               ELSE IF Extends(file[d], store[d]) THEN "silent" ELSE @]
    /\ alarms' = [alarms EXCEPT ![d] = 0]
    /\ UNCHANGED <<backup, store, events, rewriter, check, told, checks>>

BugGuardDayWrite(d) ==
    /\ Quiet /\ rewriter.at = "idle" /\ file[d] # Missing /\ (d = Live => RewriteLive)
    /\ file' = [file EXCEPT ![d] = Missing]
    /\ rewriter' = [at |-> "moved", day |-> d, old |-> file[d]]
    /\ UNCHANGED <<backup, store, events, check, told, broken, alarms, fresh, checks>>
\* guard_day_write, allowed: the generation is moved to backup/.
GuardDayWrite(d) ==
    /\ Quiet /\ rewriter.at = "idle" /\ file[d] # Missing /\ (d = Live => RewriteLive)
    /\ file' = [file EXCEPT ![d] = Missing] /\ backup' = backup \cup {file[d]}
    /\ rewriter' = [at |-> "moved", day |-> d, old |-> file[d]]
    /\ UNCHANGED <<store, events, check, told, broken, alarms, fresh, checks>>

\* The new bytes land.
LandRewrite ==
    /\ Quiet /\ rewriter.at = "moved" /\ fresh <= MaxBlocks /\ fresh' = fresh + 1
    /\ LET d == rewriter.day IN
       /\ \E bytes \in {<<fresh>>} \cup (IF Restores THEN backup ELSE {}) :
           file' = [file EXCEPT ![d] = bytes]
       /\ broken' = [broken EXCEPT ![d] = IF @ = "no" /\ store[d] # NoEntry THEN "logged" ELSE @]
       /\ alarms' = [alarms EXCEPT ![d] = 0]
    /\ rewriter' = [rewriter EXCEPT !.at = "landed"]
    /\ UNCHANGED <<backup, store, events, check, told, checks>>

\* record_rewrite_event
RecordRewriteEvent ==
    /\ rewriter.at = "landed" /\ rewriter' = NoRewrite
    /\ events' = events \cup {[day |-> rewriter.day, old |-> rewriter.old]}
    /\ UNCHANGED <<file, backup, store, check, told, broken, alarms, fresh, checks>>

RewriterDies ==
    /\ Crashes /\ Quiet /\ rewriter.at # "idle" /\ rewriter' = NoRewrite
    /\ UNCHANGED <<file, backup, store, events, check, told, broken, alarms, fresh, checks>>

-----------------------------------------------------------------------------
(* A check: verify_tick_file, then apply_hash_crosscheck.                  *)

CaptureState(status) ==
    CASE status = "PASS" -> "COMPLETE CAPTURE" [] status = "WARN" -> "PARTIAL CAPTURE"
      [] OTHER -> "CORRUPTED DATA"

\* The file is scanned, and the entry of its day is read.
Scan(c, d, status) ==
    /\ Quiet /\ (Alone => rewriter.at = "idle")
    /\ check[c].at = "idle" /\ file[d] # Missing /\ checks < MaxChecks /\ checks' = checks + 1
    /\ check' = [check EXCEPT ![c] =
           [Resting EXCEPT !.at = "hash", !.day = d, !.entry = store[d],
                           !.report = [status |-> status, label |-> CaptureState(status), flagged |-> FALSE]]]
    /\ UNCHANGED <<file, backup, store, events, rewriter, told, broken, alarms, fresh>>

Give(c) ==
    /\ check' = [check EXCEPT ![c] = Resting]
    /\ told' = [told EXCEPT ![check[c].day] = check[c].report]

\* sha256_of; a file that is not there ends the check.
Hash(c) ==
    /\ check[c].at = "hash"
    /\ IF file[check[c].day] = Missing
       THEN Give(c)
       ELSE /\ check' = [check EXCEPT ![c].at = "compare", ![c].current = file[check[c].day]]
            /\ UNCHANGED told
    /\ UNCHANGED <<file, backup, store, events, rewriter, broken, alarms, fresh, checks>>

\* The file has the recorded size, and the same bytes up to it.
Unchanged(bytes, entry) ==
    Len(bytes) >= entry.size /\ SubSeq(bytes, 1, entry.size) = entry.sha

Explained(d, entry) == \E e \in events : e.day = d /\ e.old = entry.sha

Flagged(report) ==
    LET status == IF report.label = "COMPLETE CAPTURE" /\ report.status \in {"PASS", "WARN"} THEN "FAIL"
                  ELSE IF report.status = "PASS" THEN "WARN" ELSE report.status
    IN  [status |-> status, flagged |-> TRUE,
         label |-> IF status = report.status THEN report.label ELSE CaptureState(status)]

BugCompare(c) ==
    /\ check[c].at = "compare" /\ file[check[c].day] # Missing
    /\ LET d == check[c].day  entry == check[c].entry
           alarm == /\ entry # NoEntry /\ ~ Unchanged(file[d], entry)
                    /\ ~ \E e \in events : e.day = d
       IN  /\ check' = [check EXCEPT ![c].at = "update",
                                     ![c].report = IF alarm THEN Flagged(@) ELSE @]
           /\ alarms' = [alarms EXCEPT ![d] = IF alarm THEN @ + 1 ELSE @]
    /\ UNCHANGED <<file, backup, store, events, rewriter, told, broken, fresh, checks>>
\* The bytes are compared with the entry, from the file as it is now; when it
\* is gone the check dies.
Compare(c) ==
    /\ check[c].at = "compare"
    /\ LET d == check[c].day  entry == check[c].entry
           alarm == /\ entry # NoEntry
                    /\ ~ Unchanged(file[d], entry) /\ ~ Explained(d, entry)
       IN  IF file[d] = Missing
           THEN check' = [check EXCEPT ![c] = Resting] /\ UNCHANGED alarms
           ELSE /\ check' = [check EXCEPT ![c].at = "update",
                                          ![c].report = IF alarm THEN Flagged(@) ELSE @]
                /\ alarms' = [alarms EXCEPT ![d] = IF alarm THEN @ + 1 ELSE @]
    /\ UNCHANGED <<file, backup, store, events, rewriter, told, broken, fresh, checks>>

\* update_hash_store reads every day's entry
ReadStore(c) ==
    /\ check[c].at = "update"
    /\ IF file[check[c].day] = Missing
       THEN check' = [check EXCEPT ![c] = Resting]
       ELSE check' = [check EXCEPT ![c].at = "write",
               ![c].store = [store EXCEPT ![check[c].day] =
                                [sha |-> check[c].current, size |-> Len(file[check[c].day])]]]
    /\ UNCHANGED <<file, backup, store, events, rewriter, told, broken, alarms, fresh, checks>>

\* and writes them all.
WriteStore(c) ==
    /\ check[c].at = "write" /\ store' = check[c].store /\ Give(c)
    /\ LET d == check[c].day IN
       broken' = [broken EXCEPT ![d] = IF @ = "silent" /\ ~ check[c].report.flagged THEN @ ELSE "no"]
    /\ UNCHANGED <<file, backup, events, rewriter, alarms, fresh, checks>>

Next ==
    \/ Append1 \/ LandRewrite \/ RecordRewriteEvent \/ RewriterDies
    \/ \E d \in Days : Silent(d) \/ GuardDayWrite(d)
    \/ \E c \in Checkers :
        \/ \E d \in Days, s \in Statuses : Scan(c, d, s)
        \/ Hash(c) \/ Compare(c) \/ ReadStore(c) \/ WriteStore(c)

Spec == Init /\ [][Next]_vars

-----------------------------------------------------------------------------
TypeOK ==
    /\ \A d \in Days : broken[d] \in {"no", "silent", "logged"} /\ store[d].size \in 0..MaxBlocks + 1
    /\ rewriter.at \in {"idle", "moved", "landed"}
    /\ rewriter.at # "idle" => rewriter.old # Missing
    /\ \A c \in Checkers : check[c].at \in {"idle", "hash", "compare", "update", "write"}

\* Bytes that were verified and then replaced without the guard are never
\* forgotten: until an alarm is given, the entry of the day is one the next
\* check will raise it by.
EvidenceKept ==
    \A d \in Days : broken[d] = "silent" =>
        ~ Unchanged(file[d], store[d]) /\ ~ Explained(d, store[d])

\* No generation whose rewrite was logged is lost: its bytes are in backup/.
LoggedIsKept == \A e \in events : e.old \in backup

\* Nothing that tells of replaced bytes is lost.
NothingForgotten == EvidenceKept /\ LoggedIsKept

\* The docstring of apply_hash_crosscheck: growth by append is healthy, and a
\* logged rewrite is explained: an alarm tells of bytes replaced without the
\* guard.
FalseAlarm == \E d \in Days : alarms'[d] > alarms[d] /\ broken[d] # "silent"

\* and the same change flags exactly once,
FlagsOnce == \A d \in Days : alarms[d] <= 1

\* and a past day whose bytes changed has FAILED.
PastDayFails == \A d \in Days \ {Live} : told[d].flagged => told[d].status = "FAIL"
=============================================================================
