-------------------------- MODULE CollectorProcess --------------------------
(***************************************************************************)
(* Who runs the tick collector: scripts/collector_watchdog.py, which looks *)
(* for its process and at the age of its manifest, the dashboard           *)
(* (server/osc_dash.py), which starts and stops a child of its own and     *)
(* defers to one it can only see by its manifest, and the rebuild of the   *)
(* window records, which must not run beside either.                       *)
(*                                                                         *)
(* A unit of time is the ten seconds between manifest writes; ages stop    *)
(* counting once they are past every threshold.  All collectors append to  *)
(* the same day file.                                                      *)
(*                                                                         *)
(* A definition named Bug... is not part of the model: it is a plausible   *)
(* mistake in the definition after it, which one of the properties catches.*)
(***************************************************************************)
EXTENDS Integers, FiniteSets, FiniteSetsExt

CONSTANTS
    Pids,               \* processes that may run
    Requests,           \* threads that serve the dashboard's requests
    Check, Stale,       \* --check-seconds, --stale-seconds of the watchdog
    ExternalStale,      \* EXTERNAL_COLLECTOR_STALE_SEC
    BeatMax,            \* longest time between two manifest writes of a collector at work
    StartMax,           \* longest time from the start of one to its first
    Watchdog,           \* does a watchdog run?
    Faults,             \* subset of {"die", "wedge", "probe", "refuse", "start", "torn"}
    MaxFaults, MaxRequests, MaxWindows  \* bounds

ASSUME ProcessAssumption ==
    /\ IsFiniteSet(Pids) /\ IsFiniteSet(Requests) /\ Watchdog \in BOOLEAN
    /\ {Check, Stale, ExternalStale, BeatMax, StartMax} \subseteq Nat \ {0}
    /\ Faults \subseteq {"die", "wedge", "probe", "refuse", "start", "torn"}

Nobody == "nobody"
Ages == 0..(Max({Stale, ExternalStale, BeatMax, StartMax, Check}) + 1)
Older(a) == Min({a + 1, Max(Ages)})

VARIABLES
    proc,           \* what each process is: off, starting, live or wedged
    quiet,          \* time since its last beat, or its start
    absent,         \* no collector has written a manifest yet
    age,            \* age of the manifest's ts, if there is one
    torn,           \* the manifest is being rewritten, and does not parse
    watch,          \* the watchdog's loop: [at, pids, kill, slept]
    child,          \* _collector_proc
    request,        \* what each request thread has decided: idle, spawn, rebuild
    rebuild,        \* the rebuild under way: [at, seen], by the request that holds its lock
    ticks, windows, \* windows in the day files, and in oscillation_windows.jsonl
    struck,         \* auxiliary: the last process the watchdog killed, and its state
    spent           \* bounds: [faults, requests, windows]

vars == <<proc, quiet, absent, age, torn, watch, child, request, rebuild, ticks, windows, struck, spent>>

Alive == {p \in Pids : proc[p] # "off"}
Writers == {p \in Pids : proc[p] = "live"}
Idle == [at |-> "sleep", pids |-> {}, slept |-> 0]
NoRebuild == [at |-> "idle", seen |-> 0]

Init ==
    /\ proc = [p \in Pids |-> "off"] /\ quiet = [p \in Pids |-> 0]
    /\ absent \in BOOLEAN /\ age = Max(Ages) /\ torn = FALSE
    /\ watch = [Idle EXCEPT !.slept = Check]
    /\ child = Nobody /\ request = [r \in Requests |-> "idle"] /\ rebuild = NoRebuild
    /\ ticks = 0 /\ windows = {} /\ struck = <<>>
    /\ spent = [faults |-> 0, requests |-> 0, windows |-> 0]

Spend(what, bound) == spent[what] < bound /\ spent' = [spent EXCEPT ![what] = @ + 1]
Fault(f) == f \in Faults /\ Spend("faults", MaxFaults)

-----------------------------------------------------------------------------
(* The collectors.                                                         *)

\* Time passes unless a collector is due to write its manifest.
Tick ==
    /\ \A p \in Pids : /\ proc[p] = "live" => quiet[p] < BeatMax
                       /\ proc[p] = "starting" => quiet[p] < StartMax
    /\ watch.at = "sleep" => watch.slept < Check \/ ~Watchdog
    /\ age' = Older(age) /\ quiet' = [p \in Pids |-> Older(quiet[p])]
    /\ watch' = [watch EXCEPT !.slept = Older(@)]
    /\ UNCHANGED <<proc, absent, torn, child, request, rebuild, ticks, windows, struck, spent>>

\* update_manifest; the first one ends the start.
Beat(p) ==
    /\ proc[p] \in {"starting", "live"} /\ ~torn
    /\ proc' = [proc EXCEPT ![p] = "live"] /\ quiet' = [quiet EXCEPT ![p] = 0]
    /\ age' = 0 /\ absent' = FALSE
    /\ UNCHANGED <<torn, watch, child, request, rebuild, ticks, windows, struck, spent>>

\* write_text truncates the manifest before it writes it.
TruncateManifest ==
    /\ Fault("torn") /\ Writers # {} /\ torn' = TRUE
    /\ UNCHANGED <<proc, quiet, absent, age, watch, child, request, rebuild, ticks, windows, struck>>
FillManifest ==
    /\ torn /\ torn' = FALSE
    /\ UNCHANGED <<proc, quiet, absent, age, watch, child, request, rebuild, ticks, windows, struck, spent>>

\* A window ends: its ticks are in the day file, its record is appended.
CloseWindow ==
    /\ Writers # {} /\ Spend("windows", MaxWindows)
    /\ ticks' = ticks + 1 /\ windows' = windows \cup {ticks + 1}
    /\ UNCHANGED <<proc, quiet, absent, age, torn, watch, child, request, rebuild, struck>>

Die(p) ==
    /\ proc[p] # "off" /\ Fault("die") /\ proc' = [proc EXCEPT ![p] = "off"]
    /\ UNCHANGED <<quiet, absent, age, torn, watch, child, request, rebuild, ticks, windows, struck>>
Wedge(p) ==
    /\ proc[p] \in {"live", "starting"} /\ Fault("wedge")
    /\ proc' = [proc EXCEPT ![p] = "wedged"]
    /\ UNCHANGED <<quiet, absent, age, torn, watch, child, request, rebuild, ticks, windows, struck>>

Spawn(p) ==
    /\ proc[p] = "off"
    /\ proc' = [proc EXCEPT ![p] = "starting"] /\ quiet' = [quiet EXCEPT ![p] = 0]

-----------------------------------------------------------------------------
(* The watchdog: main, one check after another.                            *)

Probing == Watchdog /\ watch.at = "sleep" /\ watch.slept >= Check

\* collector_pids: a failed probe is no answer, and nothing is done about it.
BugProbeFails == watch' = [Idle EXCEPT !.at = "start"]
ProbeFails == watch' = Idle

BugWedgedAge == ~absent /\ age > BeatMax - 1
\* manifest_age: an absent manifest has none, and is never stale.
WedgedAge == ~absent /\ age > Stale

BugVerdict(pids, survivor) ==
    IF Cardinality(pids) > 1 THEN [at |-> "strike", pids |-> pids \ {survivor}, slept |-> 0]
    ELSE IF pids = {} THEN [at |-> "start", pids |-> {}, slept |-> 0]
    ELSE Idle
\* Several: all but one are killed.  None: one is started.  One: it is killed
\* and replaced when its manifest is stale.
Verdict(pids, survivor) ==
    IF Cardinality(pids) > 1 THEN [at |-> "strike", pids |-> pids \ {survivor}, slept |-> 0]
    ELSE IF pids = {} THEN [at |-> "start", pids |-> {}, slept |-> 0]
    ELSE IF WedgedAge THEN [at |-> "replace", pids |-> pids, slept |-> 0]
    ELSE Idle

Probe ==
    /\ Probing
    /\ \/ /\ UNCHANGED spent
          /\ \/ Alive = {} /\ watch' = Verdict({}, Nobody)
             \/ \E survivor \in Alive : watch' = Verdict(Alive, survivor)
       \/ Fault("probe") /\ ProbeFails
    /\ UNCHANGED <<proc, quiet, absent, age, torn, child, request, rebuild, ticks, windows, struck>>

\* kill, of one of the processes found; the system may refuse.
Kill ==
    /\ watch.at \in {"strike", "replace"}
    /\ \E p \in watch.pids :
        /\ watch' = IF watch.pids # {p} THEN [watch EXCEPT !.pids = @ \ {p}]
                    ELSE IF watch.at = "replace" THEN [Idle EXCEPT !.at = "start"]
                    ELSE Idle
        /\ \/ /\ proc' = [proc EXCEPT ![p] = "off"]
              /\ struck' = <<proc[p], watch.at>>
              /\ UNCHANGED spent
           \/ Fault("refuse") /\ UNCHANGED <<proc, struck>>
    /\ UNCHANGED <<quiet, absent, age, torn, child, request, rebuild, ticks, windows>>

\* start_collector, which may fail: the next check finds no process again.
StartCollector ==
    /\ watch.at = "start" /\ watch' = Idle
    /\ \/ (\E p \in Pids : Spawn(p)) /\ UNCHANGED spent
       \/ Fault("start") /\ UNCHANGED <<proc, quiet>>
    /\ UNCHANGED <<absent, age, torn, child, request, rebuild, ticks, windows, struck>>

-----------------------------------------------------------------------------
(* The dashboard.  Its handlers run in the threads of a pool.              *)

ChildLives == child # Nobody /\ proc[child] # "off"
\* _detect_external_collector
ExternalLive == ~absent /\ ~torn /\ age <= ExternalStale

\* api_collector_start: the checks, and later the spawn.
AskStart(r) ==
    /\ request[r] = "idle" /\ Spend("requests", MaxRequests)
    /\ request' = [request EXCEPT ![r] = IF ChildLives \/ ExternalLive THEN "idle" ELSE "spawn"]
    /\ UNCHANGED <<proc, quiet, absent, age, torn, watch, child, rebuild, ticks, windows, struck>>
SpawnChild(r) ==
    /\ request[r] = "spawn" /\ request' = [request EXCEPT ![r] = "idle"]
    /\ \E p \in Pids : Spawn(p) /\ child' = p
    /\ UNCHANGED <<absent, age, torn, watch, rebuild, ticks, windows, struck, spent>>

\* api_collector_stop: only a child can be stopped.
StopChild ==
    /\ Requests # {} /\ Spend("requests", MaxRequests)
    /\ proc' = IF ChildLives THEN [proc EXCEPT ![child] = "off"] ELSE proc
    /\ child' = Nobody
    /\ UNCHANGED <<quiet, absent, age, torn, watch, request, rebuild, ticks, windows, struck>>

\* api_rebuild_windows: the checks, the lock, and rebuild_windows, which reads
\* the day files and then replaces the records.
AskRebuild(r) ==
    /\ request[r] = "idle" /\ rebuild.at = "idle" /\ Spend("requests", MaxRequests)
    /\ ~ChildLives /\ ~ExternalLive
    /\ request' = [request EXCEPT ![r] = "rebuild"] /\ rebuild' = [at |-> "read", seen |-> ticks]
    /\ UNCHANGED <<proc, quiet, absent, age, torn, watch, child, ticks, windows, struck>>
FinishRebuild(r) ==
    /\ request[r] = "rebuild" /\ request' = [request EXCEPT ![r] = "idle"]
    /\ rebuild' = NoRebuild /\ windows' = 1..rebuild.seen
    /\ UNCHANGED <<proc, quiet, absent, age, torn, watch, child, ticks, struck, spent>>

Next ==
    \/ Tick \/ TruncateManifest \/ FillManifest \/ CloseWindow
    \/ \E p \in Pids : Beat(p) \/ Die(p) \/ Wedge(p)
    \/ Probe \/ Kill \/ StartCollector \/ StopChild
    \/ \E r \in Requests : AskStart(r) \/ SpawnChild(r) \/ AskRebuild(r) \/ FinishRebuild(r)

Spec == Init /\ [][Next]_vars
\* Time passes, the watchdog's loop runs on and collectors at work write.
Fairness ==
    /\ WF_vars(Tick) /\ WF_vars(Probe) /\ WF_vars(Kill) /\ WF_vars(StartCollector)
    /\ WF_vars(FillManifest)
    /\ \A p \in Pids : WF_vars(Beat(p))
    /\ \A r \in Requests : WF_vars(SpawnChild(r)) /\ WF_vars(FinishRebuild(r))
LiveSpec == Spec /\ Fairness

-----------------------------------------------------------------------------
(* Properties.                                                             *)

TypeOK ==
    /\ proc \in [Pids -> {"off", "starting", "live", "wedged"}] /\ age \in Ages /\ absent \in BOOLEAN
    /\ watch.at \in {"sleep", "strike", "replace", "start"} /\ watch.pids \subseteq Pids
    /\ child \in Pids \cup {Nobody} /\ (rebuild.at = "idle" => \A r \in Requests : request[r] # "rebuild")
    /\ windows \subseteq 1..ticks

\* Two processes never append to the same tick file.
OneWriter == Cardinality(Alive) <= 1

\* The watchdog replaces a collector only when it is wedged, though a manifest
\* is written when it happens to be and a new collector finds an old one.
HealthyIsKept == struck # <<"live", "replace">> /\ struck # <<"starting", "replace">>

\* A collector that wedged before there was any manifest: the watchdog sees a process
\* and no age, and leaves it alone.
Unseen == absent /\ \E p \in Pids : Alive = {p} /\ proc[p] = "wedged"

\* Whatever dies, wedges or fails to start, capture goes on: one collector, and at work,
\* or one that wedged unseen.
CaptureResumes == <>[](Cardinality(Alive) = 1) /\ []<>(Writers # {} \/ Unseen)

(* What comments say, and the code does not do.                            *)

\* A wedged collector is restarted, whatever it has written (main: "restarting a dead
\* or wedged collector").
WedgedIsReplaced == []<>(Writers # {})

\* Which of several survives does not matter: it writes the same stream.
SurvivorWrites == [][(watch.at = "strike" /\ watch'.at = "sleep" /\ Writers # {}) => Writers' # {}]_vars

\* A window that closes during a rebuild is not overwritten by it.
RebuildKeepsWindows == rebuild.at = "idle" => windows = 1..ticks
=============================================================================
