----------------------------- MODULE VerifyCache -----------------------------
(***************************************************************************)
(* The reports on a tick file that the dashboard serves                    *)
(* (server/osc_dash.py, /api/ticks/verify): a cache in memory and one on   *)
(* disk, both keyed by the size and time of the file, and scans in the     *)
(* background, one at a time, of a file the collector appends to.          *)
(*                                                                         *)
(* The bytes of the file are its version, which is also its fingerprint.   *)
(* The default thresholds are used by every request.                       *)
(*                                                                         *)
(* A definition named Bug... is not part of the model: it is a plausible   *)
(* mistake in the definition after it, which one of the properties catches.*)
(***************************************************************************)
EXTENDS Integers, FiniteSets

CONSTANTS
    Waiters,            \* requests that scan themselves (wait=1)
    Faults,             \* subset of {"scan", "sidecar"}
    GrowsWhileScanned,  \* does the collector append during a scan?
    Refreshes,          \* may a request ask to refresh?
    MaxVersion, MaxFaults, MaxRestarts  \* bounds

CacheAssumption ==
    /\ Faults \subseteq {"scan", "sidecar"} /\ {GrowsWhileScanned, Refreshes} \subseteq BOOLEAN
    /\ IsFiniteSet(Waiters) /\ "bg" \notin Waiters

Scanners == Waiters \cup {"bg"}
NoReport == [fp |-> 0, scan |-> 0, policy |-> 0, recent |-> FALSE]
NoReply == [kind |-> "none", scan |-> 0, policy |-> 0, of |-> 0]
Idle == [at |-> "idle", fp |-> 0, scan |-> 0]

VARIABLES
    version,    \* the bytes of the file, and its fingerprint
    policy,     \* READINESS_POLICY_VERSION of the running server
    mem,        \* _VERIFY_REPORT_CACHE: [fp, scan: the version that was scanned, policy, recent]
    side,       \* the sidecar
    scan,       \* each scan: idle, queued, reading, read; "bg" is the one in _VERIFY_SCAN_INFLIGHT
    sem,        \* who holds _VERIFY_SCAN_SEM
    reply,      \* the last reply: [kind, scan, policy, of: the version it was asked about]
    told,       \* auxiliary: the latest version any reply told of
    faults, restarts  \* bounds

vars == <<version, policy, mem, side, scan, sem, reply, told, faults, restarts>>

Init ==
    /\ version = 1 /\ policy = 1 /\ mem = NoReport /\ side = NoReport
    /\ scan = [s \in Scanners |-> Idle] /\ sem = {} /\ reply = NoReply /\ told = 0
    /\ faults = 0 /\ restarts = 0

Fault(f) == f \in Faults /\ faults < MaxFaults /\ faults' = faults + 1

Grow ==
    /\ version < MaxVersion /\ version' = version + 1
    /\ GrowsWhileScanned \/ \A s \in Scanners : scan[s].at = "idle"
    /\ UNCHANGED <<policy, mem, side, scan, sem, reply, told, faults, restarts>>

\* _VERIFY_RESCAN_COOLDOWN_SEC go by.
Expire ==
    /\ mem.recent \/ side.recent
    /\ mem' = [mem EXCEPT !.recent = FALSE] /\ side' = [side EXCEPT !.recent = FALSE]
    /\ UNCHANGED <<version, policy, scan, sem, reply, told, faults, restarts>>

-----------------------------------------------------------------------------
(* A request: api_ticks_verify, which does not yield until it has decided. *)

Reply(kind, r) ==
    /\ reply' = [kind |-> kind, scan |-> r.scan, policy |-> r.policy, of |-> version]
    /\ told' = IF r.scan > told THEN r.scan ELSE told

\* _ensure_bg_verify_scan
EnsureScan == scan' = IF scan["bg"].at = "idle" THEN [scan EXCEPT !["bg"].at = "queued"] ELSE scan

\* Both sidecar readers want a report of the current policy.
BugCurrent(r) == r # NoReport
Current(r) == r # NoReport /\ r.policy = policy

ServeMemory ==
    /\ mem # NoReport /\ mem.fp = version /\ Reply("exact", mem)
    /\ UNCHANGED <<mem, scan>>

ServeSidecar ==
    /\ ~ (mem # NoReport /\ (mem.fp = version \/ mem.recent))
    /\ Current(side) /\ side.fp = version
    /\ mem' = side /\ Reply("exact", side) /\ UNCHANGED scan

\* What was scanned a moment ago is served while it is scanned again.
StaleReport ==
    IF mem # NoReport /\ mem.recent THEN mem
    ELSE IF Current(side) /\ side.recent THEN side ELSE NoReport
NoneExact == ~ (mem # NoReport /\ mem.fp = version)
             /\ (mem.recent \/ ~ (Current(side) /\ side.fp = version))
ServeStale ==
    /\ NoneExact /\ StaleReport # NoReport
    /\ Reply("stale", StaleReport) /\ EnsureScan /\ UNCHANGED mem

\* Nothing can be served, or the request wants a new scan.
NotServed(refresh) == refresh \/ (NoneExact /\ StaleReport = NoReport)
ReplyPending(refresh) ==
    /\ NotServed(refresh) /\ Reply("pending", NoReport) /\ EnsureScan /\ UNCHANGED mem

Ask ==
    /\ ServeMemory \/ ServeSidecar \/ ServeStale
       \/ \E refresh \in {FALSE} \cup (IF Refreshes THEN {TRUE} ELSE {}) : ReplyPending(refresh)
    /\ UNCHANGED <<version, policy, side, sem, faults, restarts>>

\* wait=1: the fingerprint has been taken, the scan waits for its turn.
AskWaiting(w) ==
    /\ scan[w].at = "idle" /\ \E refresh \in {FALSE, Refreshes} : NotServed(refresh)
    /\ scan' = [scan EXCEPT ![w] = [at |-> "queued", fp |-> version, scan |-> 0]]
    /\ UNCHANGED <<version, policy, mem, side, sem, reply, told, faults, restarts>>

-----------------------------------------------------------------------------
(* A scan: verify_tick_file in a thread, under the semaphore.              *)

Acquire(s) ==
    /\ scan[s].at = "queued" /\ sem = {} /\ sem' = {s}
    /\ scan' = [scan EXCEPT ![s].at = "reading"]
    /\ UNCHANGED <<version, policy, mem, side, reply, told, faults, restarts>>

\* The last line is read.
ReachEnd(s) ==
    /\ scan[s].at = "reading"
    /\ scan' = [scan EXCEPT ![s].at = "read", ![s].scan = version]
    /\ UNCHANGED <<version, policy, mem, side, sem, reply, told, faults, restarts>>

\* The report is kept and written: one found in the background under the
\* fingerprint the file has now, one waited for under the one it had then.
Complete(s) ==
    /\ scan[s].at = "read" /\ sem' = sem \ {s} /\ scan' = [scan EXCEPT ![s] = Idle]
    /\ LET r == [fp |-> IF s = "bg" THEN version ELSE scan[s].fp, scan |-> scan[s].scan,
                 policy |-> policy, recent |-> TRUE] IN
       /\ mem' = r
       /\ \/ side' = r /\ UNCHANGED faults
          \/ Fault("sidecar") /\ UNCHANGED side
       /\ IF s = "bg" THEN UNCHANGED <<reply, told>> ELSE Reply("scanned", r)
    /\ UNCHANGED <<version, policy, restarts>>

BugScanFails(s) ==
    /\ scan[s].at = "reading" /\ Fault("scan") /\ sem' = sem \ {s}
    /\ scan' = [scan EXCEPT ![s].at = "failed"]
    /\ UNCHANGED <<version, policy, mem, side, reply, told, restarts>>
\* Nothing is kept of a scan that fails; the next request starts another.
ScanFails(s) ==
    /\ scan[s].at = "reading" /\ Fault("scan") /\ sem' = sem \ {s}
    /\ scan' = [scan EXCEPT ![s] = Idle]
    /\ UNCHANGED <<version, policy, mem, side, reply, told, restarts>>

\* The server restarts, with the policy of its new code, and warms its cache.
Restart ==
    /\ restarts < MaxRestarts /\ restarts' = restarts + 1
    /\ policy' \in {policy, policy + 1}
    /\ mem' = IF side.fp = version /\ side.policy = policy' THEN side ELSE NoReport
    /\ scan' = [s \in Scanners |-> Idle] /\ sem' = {} /\ reply' = NoReply
    /\ UNCHANGED <<version, side, told, faults>>

Next ==
    \/ Grow \/ Expire \/ Ask \/ Restart
    \/ \E w \in Waiters : AskWaiting(w)
    \/ \E s \in Scanners : Acquire(s) \/ ReachEnd(s) \/ Complete(s) \/ ScanFails(s)

Spec == Init /\ [][Next]_vars

\* A client that polls, a pool that runs its threads, a semaphore that is fair.
LiveSpec ==
    /\ Init /\ [][Next]_vars /\ WF_vars(Ask)
    /\ \A s \in Scanners : SF_vars(Acquire(s)) /\ WF_vars(ReachEnd(s)) /\ WF_vars(Complete(s))

-----------------------------------------------------------------------------
TypeOK ==
    /\ sem \subseteq Scanners /\ Cardinality(sem) <= 1
    /\ \A s \in Scanners : (scan[s].at \in {"reading", "read"}) = (s \in sem)
    /\ mem.fp <= version /\ side.fp <= version

\* A report served as the one of the file as it is tells of that file.
ExactIsExact == reply.kind = "exact" => reply.scan = reply.of

\* A report is judged by the policy of the code that serves it.
PolicyIsCurrent == reply.kind \in {"exact", "stale", "scanned"} => reply.policy = policy

\* What a client is told of a growing file never goes back in time, whatever
\* was scanned in the background or by another request: of two reports the
\* later tells of no fewer lines.
GoesBack ==
    reply' # reply /\ reply'.kind \in {"exact", "stale", "scanned"} /\ reply'.scan < told

\* A client that is told to wait and keeps asking is given a report.
PendingEnds == reply.kind = "pending" ~> reply.kind # "pending"
=============================================================================
