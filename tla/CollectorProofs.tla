--------------------------- MODULE CollectorProofs ---------------------------
(***************************************************************************)
(* Proofs about the tick collector: the processes (CollectorProcess), for  *)
(* any number of processes, any times and any number of faults, where only *)
(* the watchdog starts collectors (Requests = {}); and the markets they    *)
(* record (MarketResolver), for any series, times and failed lookups.      *)
(*                                                                         *)
(* OneWriter is not inductive: the watchdog decides on what it found and   *)
(* acts later.  What it found stays true until it acts (FoundStaysTrue),   *)
(* because nobody else starts a collector.  HealthyIsKept needs the clock: *)
(* the manifest is never older than the last beat of a collector at work,  *)
(* and a collector that is starting was started since the watchdog's last  *)
(* look, so that the next one finds it live or wedged (Timed).             *)
(*                                                                         *)
(* MarketIsLive needs when a cached market was cached (CacheOK), that the  *)
(* next round comes in time to promote what is parked (RoundsOK), and that *)
(* a boundary of all series splits no window (NoneStraddles).              *)
(***************************************************************************)
EXTENDS CollectorProcess, MarketResolver, FiniteSetTheorems, WellFoundedInduction, TLAPS

\* Only the watchdog starts collectors, as without the dashboard.
Unattended == Requests = {}
\* The system carries every kill out.
KillsWork == "refuse" \notin Faults
\* A collector writes its first manifest before the watchdog looks again, and
\* then more often than the manifest is taken for stale (check and stale seconds
\* of 60 and 180 against a manifest every ten seconds).
InTime == StartMax < Check /\ BeatMax <= Stale

Watches == [at : {"sleep", "strike", "replace", "start"}, pids : SUBSET Pids, slept : Ages]

Typed ==
    /\ proc \in [Pids -> {"off", "starting", "live", "wedged"}]
    /\ quiet \in [Pids -> Ages] /\ age \in Ages /\ watch \in Watches
    /\ request \in [Requests -> {"idle", "spawn", "rebuild"}]

Alone == \A p, q \in Alive : p = q

(* What the watchdog has found is still so when it acts on it.             *)
FoundStaysTrue ==
    /\ watch.at # "strike"
    /\ watch.at = "replace" => \E p \in Pids : watch.pids = {p} /\ Alive \subseteq {p}
    /\ watch.at = "start" => Alive = {}

OneInv == Typed /\ Alone /\ FoundStaysTrue

(* No collector at work is silent for long, nor one that is starting, and  *)
(* the manifest is as young as the youngest beat.                          *)
Timed ==
    \A p \in Pids :
        /\ proc[p] = "live" => age <= quiet[p] /\ quiet[p] <= BeatMax
        /\ proc[p] = "starting" => /\ watch.at = "sleep" /\ watch.slept = quiet[p]
                                   /\ quiet[p] <= StartMax

(* Who is to be replaced is wedged, or has died meanwhile.                 *)
Condemned ==
    watch.at = "replace" => \A p \in watch.pids : proc[p] \in {"wedged", "off"}

KeptInv == Typed /\ Timed /\ Condemned /\ HealthyIsKept

-----------------------------------------------------------------------------
(* The clock.                                                              *)

LEMMA Thresholds ==
    /\ Max({Stale, ExternalStale, BeatMax, StartMax, Check})
           \in {Stale, ExternalStale, BeatMax, StartMax, Check}
    /\ \A n \in {Stale, ExternalStale, BeatMax, StartMax, Check} :
           n <= Max({Stale, ExternalStale, BeatMax, StartMax, Check})
<1> DEFINE S == {Stale, ExternalStale, BeatMax, StartMax, Check}
<1>1. S \subseteq Nat BY ProcessAssumption
<1>2. \E x \in S : \A y \in S : x >= y BY <1>1
<1>3. Max(S) \in S /\ \A y \in S : Max(S) >= y BY <1>2 DEF Max
<1>4. \A y \in S : y <= Max(S) BY <1>1, <1>3
<1> QED BY <1>3, <1>4

LEMMA Oldest ==
    /\ Max(Ages) \in Nat /\ Ages = 0..Max(Ages)
    /\ Stale < Max(Ages) /\ BeatMax < Max(Ages) /\ StartMax < Max(Ages) /\ Check < Max(Ages)
<1> DEFINE M == Max({Stale, ExternalStale, BeatMax, StartMax, Check})
<1>1. /\ M \in Nat /\ Stale <= M /\ BeatMax <= M /\ StartMax <= M /\ Check <= M
      /\ {Stale, BeatMax, StartMax, Check} \subseteq Nat
    BY Thresholds, ProcessAssumption
<1>2. Ages = 0..(M + 1) BY DEF Ages
<1> HIDE DEF M
<1>3. Max(Ages) = M + 1
    <2>1. M + 1 \in Ages /\ \A y \in Ages : M + 1 >= y BY <1>1, <1>2
    <2>2. \A x \in Ages : (\A y \in Ages : x >= y) => x = M + 1 BY <2>1, <1>1, <1>2
    <2> QED BY <2>1, <2>2 DEF Max
<1> QED BY <1>1, <1>2, <1>3

\* A time that goes on grows by one, until it is past every threshold.
LEMMA Ageing ==
    ASSUME NEW a \in Ages
    PROVE  Older(a) = IF a < Max(Ages) THEN a + 1 ELSE Max(Ages)
<1> DEFINE N == Max(Ages)
<1>1. N \in Nat /\ a \in 0..N BY Oldest
<1> HIDE DEF N
<1>2. \A x \in {a + 1, N} : (\A y \in {a + 1, N} : x <= y) => x = IF a < N THEN a + 1 ELSE N
    BY <1>1
<1>3. \E x \in {a + 1, N} : \A y \in {a + 1, N} : x <= y BY <1>1
<1>4. Min({a + 1, N}) = IF a < N THEN a + 1 ELSE N BY <1>2, <1>3 DEF Min
<1> QED BY <1>4 DEF Older, N

LEMMA AgeingTyped == ASSUME NEW a \in Ages PROVE Older(a) \in Ages
BY Ageing, Oldest

LEMMA AgeingMonotone ==
    ASSUME NEW a \in Ages, NEW b \in Ages, a <= b
    PROVE  Older(a) <= Older(b) /\ Older(b) <= b + 1 /\ Older(a) \in Nat
BY Ageing, Oldest

-----------------------------------------------------------------------------
(* The steps there are without the dashboard, and the types.               *)

LEMMA StepsUnattended ==
    ASSUME Unattended, Next
    PROVE  \/ Tick \/ TruncateManifest \/ FillManifest \/ CloseWindow
           \/ \E p \in Pids : Beat(p) \/ Die(p) \/ Wedge(p)
           \/ Probe \/ Kill \/ StartCollector
BY DEF Unattended, Next, StopChild

LEMMA VerdictIsTyped ==
    ASSUME NEW pids \in SUBSET Pids, NEW survivor
    PROVE  Verdict(pids, survivor) \in Watches
<1>1. 0 \in Ages BY Oldest
<1> QED BY <1>1 DEF Verdict, Idle, Watches

LEMMA TypedAtFirst == ASSUME Init PROVE Typed
<1>1. 0 \in Ages /\ Max(Ages) \in Ages /\ Check \in Ages BY Oldest, ProcessAssumption
<1> QED BY <1>1 DEF Init, Typed, Watches, Idle

LEMMA TypedAfter == ASSUME Unattended, Typed, [Next]_vars PROVE Typed'
<1> USE DEF Typed
<1>0. 0 \in Ages /\ Idle \in Watches BY Oldest DEF Idle, Watches
<1>1. CASE Tick
    <2>1. age' \in Ages /\ quiet' \in [Pids -> Ages] BY <1>1, AgeingTyped DEF Tick
    <2>2. watch' \in Watches
        <3>1. watch.slept \in Ages BY DEF Watches
        <3>2. Older(watch.slept) \in Ages BY <3>1, AgeingTyped
        <3> QED BY <1>1, <3>2 DEF Tick, Watches
    <2> QED BY <1>1, <2>1, <2>2 DEF Tick
<1>2. CASE TruncateManifest \/ FillManifest \/ CloseWindow
    BY <1>2 DEF TruncateManifest, FillManifest, CloseWindow
<1>3. CASE \E p \in Pids : Beat(p) \/ Die(p) \/ Wedge(p)
    BY <1>0, <1>3 DEF Beat, Die, Wedge
<1>4. CASE Probe
    <2>1. Alive \subseteq Pids BY DEF Alive
    <2>2. watch' \in Watches BY <1>0, <1>4, <2>1, VerdictIsTyped DEF Probe, ProbeFails
    <2> QED BY <1>4, <2>2 DEF Probe
<1>5. CASE Kill
    <2>1. watch' \in Watches BY <1>0, <1>5 DEF Kill, Watches, Idle
    <2> QED BY <1>5, <2>1 DEF Kill
<1>6. CASE StartCollector BY <1>0, <1>6 DEF StartCollector, Spawn, Fault, Spend
<1>7. CASE UNCHANGED vars BY <1>7 DEF vars
<1> QED BY <1>1, <1>2, <1>3, <1>4, <1>5, <1>6, <1>7, StepsUnattended

-----------------------------------------------------------------------------
(* One collector.                                                          *)

LEMMA AtMostOne == ASSUME Alone PROVE OneWriter
<1>1. CASE Alive = {} BY <1>1, FS_EmptySet DEF OneWriter
<1>2. CASE Alive # {}
    <2>1. PICK p \in Alive : TRUE BY <1>2
    <2>2. Alive = {p} BY <2>1 DEF Alone
    <2> QED BY <2>2, FS_Singleton DEF OneWriter
<1> QED BY <1>1, <1>2

LEMMA OneAtFirst == ASSUME Init PROVE OneInv
<1>1. Typed BY TypedAtFirst
<1>2. Alive = {} BY DEF Init, Alive
<1>3. FoundStaysTrue BY DEF Init, FoundStaysTrue, Idle
<1> QED BY <1>1, <1>2, <1>3 DEF OneInv, Alone

LEMMA OneAfter == ASSUME Unattended, KillsWork, OneInv, [Next]_vars PROVE OneInv'
<1> USE DEF OneInv
<1>0. Typed' BY TypedAfter
\* No step but StartCollector adds a process.
<1>a. ASSUME Alive' \subseteq Alive PROVE Alone' BY <1>a DEF Alone
<1>b. ASSUME Alive' \subseteq Alive, watch' = [watch EXCEPT !.slept = watch'.slept]
      PROVE  FoundStaysTrue'
    BY <1>b DEF FoundStaysTrue, Typed, Watches
<1>1. CASE Tick BY <1>0, <1>1, <1>a, <1>b DEF Tick, Alive, Typed, Watches
<1>2. CASE TruncateManifest \/ FillManifest \/ CloseWindow
    BY <1>0, <1>2, <1>a, <1>b DEF TruncateManifest, FillManifest, CloseWindow, Alive, Typed, Watches
<1>3. CASE \E p \in Pids : Beat(p) \/ Die(p) \/ Wedge(p)
    <2>1. Alive' \subseteq Alive BY <1>3 DEF Beat, Die, Wedge, Alive, Typed
    <2>2. watch' = watch BY <1>3 DEF Beat, Die, Wedge
    <2> QED BY <1>0, <1>a, <1>b, <2>1, <2>2 DEF Typed, Watches
<1>4. CASE Probe
    <2>1. Alive' = Alive BY <1>4 DEF Probe, Alive
    <2>2. Cardinality(Alive) <= 1 BY AtMostOne DEF OneWriter
    <2>3. IsFiniteSet(Alive) BY ProcessAssumption, FS_Subset DEF Alive
    <2>4. FoundStaysTrue'
        <3>1. CASE watch' = Idle BY <3>1 DEF FoundStaysTrue, Idle
        <3>2. CASE Alive = {} /\ watch' = Verdict({}, Nobody)
            <4>1. watch'.at = "start" BY <3>2, FS_EmptySet DEF Verdict
            <4> QED BY <2>1, <3>2, <4>1 DEF FoundStaysTrue
        <3>3. ASSUME NEW s \in Alive, watch' = Verdict(Alive, s) PROVE FoundStaysTrue'
            <4>1. ~(Cardinality(Alive) > 1) BY <2>2, <2>3, FS_CardinalityType
            <4>2. watch' = Idle \/ (watch'.at = "replace" /\ watch'.pids = Alive)
                BY <3>3, <4>1 DEF Verdict
            <4>3. Alive = {s} /\ s \in Pids BY <3>3 DEF Alone, Alive
            <4> QED BY <2>1, <4>2, <4>3 DEF FoundStaysTrue, Idle
        <3> QED BY <1>4, <3>1, <3>2, <3>3 DEF Probe, ProbeFails
    <2> QED BY <1>0, <1>a, <2>1, <2>4
<1>5. CASE Kill
    <2>1. ~Fault("refuse") BY DEF KillsWork, Fault
    <2>2. PICK p \in watch.pids :
              /\ watch' = IF watch.pids # {p} THEN [watch EXCEPT !.pids = @ \ {p}]
                          ELSE IF watch.at = "replace" THEN [Idle EXCEPT !.at = "start"]
                          ELSE Idle
              /\ proc' = [proc EXCEPT ![p] = "off"]
        BY <1>5, <2>1 DEF Kill
    <2>3. watch.at = "replace" /\ watch.pids = {p} /\ Alive \subseteq {p}
        BY <1>5, <2>2 DEF Kill, FoundStaysTrue
    <2>4. Alive' = {} BY <2>2, <2>3 DEF Alive, Typed
    <2>5. watch'.at = "start" BY <2>2, <2>3 DEF Idle
    <2> QED BY <1>0, <2>4, <2>5 DEF Alone, FoundStaysTrue
<1>6. CASE StartCollector
    <2>1. watch' = Idle BY <1>6 DEF StartCollector
    <2>2. Alive = {} BY <1>6 DEF StartCollector, FoundStaysTrue
    <2>3. Alone'
        <3>1. CASE \E p \in Pids : Spawn(p)
            <4>1. PICK p \in Pids : Spawn(p) BY <3>1
            <4>2. Alive' \subseteq {p} BY <2>2, <4>1 DEF Spawn, Alive, Typed
            <4> QED BY <4>2 DEF Alone
        <3>2. CASE UNCHANGED proc BY <3>2, <1>a DEF Alive
        <3> QED BY <1>6, <3>1, <3>2 DEF StartCollector
    <2> QED BY <1>0, <2>1, <2>3 DEF FoundStaysTrue, Idle
<1>7. CASE UNCHANGED vars BY <1>0, <1>7, <1>a, <1>b DEF vars, Alive, Typed, Watches
<1> QED BY <1>1, <1>2, <1>3, <1>4, <1>5, <1>6, <1>7, StepsUnattended

\* However collectors die or wedge and probes fail, two collectors never
\* append to the same tick file where only the watchdog starts them and its
\* kills are carried out: what it found is still so when it acts on it.
THEOREM OneWriterHolds == ASSUME Unattended, KillsWork PROVE Spec => []OneWriter
<1>1. Init => OneInv BY OneAtFirst
<1>2. OneInv /\ [Next]_vars => OneInv' BY OneAfter
<1>3. OneInv => OneWriter BY AtMostOne DEF OneInv
<1> QED BY <1>1, <1>2, <1>3, PTL DEF Spec

-----------------------------------------------------------------------------
(* A collector at work is kept.                                            *)

LEMMA KeptAtFirst == ASSUME Init PROVE KeptInv
<1>1. Typed BY TypedAtFirst
<1>2. Timed BY DEF Init, Timed
<1>3. Condemned BY DEF Init, Condemned, Idle
<1>4. HealthyIsKept BY DEF Init, HealthyIsKept
<1> QED BY <1>1, <1>2, <1>3, <1>4 DEF KeptInv

\* A process that the watchdog finds with a stale manifest is wedged.
LEMMA StaleIsWedged ==
    ASSUME InTime, KeptInv, NEW p \in Alive, Probing, WedgedAge
    PROVE  proc[p] = "wedged"
<1>1. p \in Pids /\ proc[p] \in {"starting", "live", "wedged"} BY DEF KeptInv, Typed, Alive
<1>2. /\ age \in Nat /\ quiet[p] \in Nat /\ watch.slept \in Nat
      /\ {Check, Stale, BeatMax, StartMax} \subseteq Nat
    BY <1>1, Oldest, ProcessAssumption DEF KeptInv, Typed, Watches
<1>3. proc[p] # "live" BY <1>1, <1>2 DEF KeptInv, Timed, InTime, WedgedAge
<1>4. proc[p] # "starting" BY <1>1, <1>2 DEF KeptInv, Timed, InTime, Probing
<1> QED BY <1>1, <1>3, <1>4

LEMMA KeptAfter == ASSUME Unattended, InTime, KeptInv, [Next]_vars PROVE KeptInv'
<1> USE DEF KeptInv
<1>0. Typed' BY TypedAfter
<1>1. CASE Tick
    <2>1. Timed'
        <3> SUFFICES ASSUME NEW p \in Pids
                     PROVE  /\ proc'[p] = "live" => age' <= quiet'[p] /\ quiet'[p] <= BeatMax
                            /\ proc'[p] = "starting" => /\ watch'.at = "sleep" /\ watch'.slept = quiet'[p]
                                                        /\ quiet'[p] <= StartMax
            BY DEF Timed
        <3>1. /\ age \in Ages /\ quiet[p] \in Ages /\ {StartMax, BeatMax} \subseteq Nat
              /\ age \in Nat /\ quiet[p] \in Nat /\ quiet[p] <= quiet[p]
            BY Oldest, ProcessAssumption DEF Typed
        <3>2. /\ proc' = proc /\ age' = Older(age) /\ quiet'[p] = Older(quiet[p])
              /\ watch'.at = watch.at /\ watch'.slept = Older(watch.slept)
            BY <1>1 DEF Tick, Typed, Watches
        <3>3. CASE proc[p] = "live"
            <4>1. age <= quiet[p] /\ quiet[p] < BeatMax BY <1>1, <3>3 DEF Tick, Timed
            <4>2. age' <= quiet'[p] /\ quiet'[p] <= quiet[p] + 1 /\ age' \in Nat
                BY <3>1, <3>2, <4>1, AgeingMonotone
            <4>3. quiet'[p] \in Nat
                <5>1. quiet'[p] \in Ages BY <3>1, <3>2, AgeingTyped
                <5> QED BY <5>1, Oldest
            <4> QED BY <3>1, <3>2, <3>3, <4>1, <4>2, <4>3
        <3>4. CASE proc[p] = "starting"
            <4>1. /\ watch.at = "sleep" /\ watch.slept = quiet[p] /\ quiet[p] < StartMax
                BY <1>1, <3>4 DEF Tick, Timed
            <4>2. quiet'[p] <= quiet[p] + 1 /\ quiet'[p] \in Nat
                BY <3>1, <3>2, AgeingMonotone
            <4> QED BY <3>1, <3>2, <3>4, <4>1, <4>2
        <3> QED BY <3>2, <3>3, <3>4
    <2>2. Condemned' BY <1>1 DEF Tick, Condemned, Typed, Watches
    <2>3. HealthyIsKept' BY <1>1 DEF Tick, HealthyIsKept
    <2> QED BY <1>0, <2>1, <2>2, <2>3
<1>2. CASE TruncateManifest \/ FillManifest \/ CloseWindow
    <2>1. UNCHANGED <<proc, quiet, age, watch, struck>>
        BY <1>2 DEF TruncateManifest, FillManifest, CloseWindow
    <2> QED BY <1>0, <2>1 DEF Timed, Condemned, HealthyIsKept
<1>3. ASSUME NEW p \in Pids, Beat(p) PROVE KeptInv'
    <2>1. Timed'
        <3> SUFFICES ASSUME NEW q \in Pids
                     PROVE  /\ proc'[q] = "live" => age' <= quiet'[q] /\ quiet'[q] <= BeatMax
                            /\ proc'[q] = "starting" => /\ watch'.at = "sleep" /\ watch'.slept = quiet'[q]
                                                        /\ quiet'[q] <= StartMax
            BY DEF Timed
        <3>1. quiet[q] \in Nat /\ BeatMax \in Nat /\ age' = 0 /\ watch' = watch
            BY <1>3, Oldest, ProcessAssumption DEF Typed, Beat
        <3>2. CASE q = p
            BY <1>3, <3>1, <3>2 DEF Beat, Typed
        <3>3. CASE q # p
            <4>1. proc'[q] = proc[q] /\ quiet'[q] = quiet[q] BY <1>3, <3>3 DEF Beat, Typed
            <4> QED BY <3>1, <4>1 DEF Timed
        <3> QED BY <3>2, <3>3
    <2>2. Condemned' BY <1>3 DEF Beat, Condemned, Typed, Watches
    <2>3. HealthyIsKept' BY <1>3 DEF Beat, HealthyIsKept
    <2> QED BY <1>0, <2>1, <2>2, <2>3
<1>4. ASSUME NEW p \in Pids, Die(p) \/ Wedge(p) PROVE KeptInv'
    <2>1. UNCHANGED <<quiet, age, watch, struck>> BY <1>4 DEF Die, Wedge
    <2>2. \A q \in Pids : proc'[q] = proc[q] \/ proc'[q] \in {"off", "wedged"}
        BY <1>4 DEF Die, Wedge, Typed
    <2>3. \A q \in Pids : proc[q] = "off" => proc'[q] = "off"
        BY <1>4 DEF Die, Wedge, Typed
    <2>4. Timed' BY <2>1, <2>2 DEF Timed
    <2>5. Condemned' BY <2>1, <2>2, <2>3 DEF Condemned, Typed, Watches
    <2> QED BY <1>0, <2>1, <2>4, <2>5 DEF HealthyIsKept
<1>5. CASE Probe
    <2>1. UNCHANGED <<proc, quiet, age, struck>> /\ Probing BY <1>5 DEF Probe
    \* A process that is starting at a probe would have started before it.
    <2>2. \A p \in Pids : proc[p] # "starting"
        <3> SUFFICES ASSUME NEW p \in Pids, proc[p] = "starting" PROVE FALSE OBVIOUS
        <3>1. watch.slept = quiet[p] /\ quiet[p] <= StartMax BY DEF Timed
        <3>2. {quiet[p], StartMax, Check} \subseteq Nat BY Oldest, ProcessAssumption DEF Typed
        <3> QED BY <2>1, <3>1, <3>2 DEF Probing, InTime
    <2>3. Timed' BY <2>1, <2>2 DEF Timed
    <2>4. Condemned'
        <3>1. CASE watch' = Idle BY <3>1 DEF Condemned, Idle
        <3>2. CASE Alive = {} /\ watch' = Verdict({}, Nobody)
            BY <3>2, FS_EmptySet DEF Condemned, Verdict
        <3>3. ASSUME NEW s \in Alive, watch' = Verdict(Alive, s), watch'.at = "replace"
              PROVE  WedgedAge /\ watch'.pids = Alive
            BY <3>3 DEF Verdict, Idle
        <3>4. ASSUME NEW s \in Alive, watch' = Verdict(Alive, s) PROVE Condemned'
            BY <2>1, <3>3, <3>4, StaleIsWedged DEF Condemned
        <3> QED BY <1>5, <3>1, <3>2, <3>4 DEF Probe, ProbeFails
    <2>5. HealthyIsKept' BY <2>1 DEF HealthyIsKept
    <2> QED BY <1>0, <2>3, <2>4, <2>5
<1>6. CASE Kill
    <2>1. UNCHANGED <<quiet, age>> /\ watch.at \in {"strike", "replace"} BY <1>6 DEF Kill
    <2>2. PICK p \in watch.pids :
              /\ watch' = IF watch.pids # {p} THEN [watch EXCEPT !.pids = @ \ {p}]
                          ELSE IF watch.at = "replace" THEN [Idle EXCEPT !.at = "start"]
                          ELSE Idle
              /\ \/ proc' = [proc EXCEPT ![p] = "off"] /\ struck' = <<proc[p], watch.at>>
                 \/ UNCHANGED <<proc, struck>>
        BY <1>6 DEF Kill
    <2>3. watch.pids \subseteq Pids BY DEF Typed, Watches
    <2>4. \A q \in Pids : proc'[q] = proc[q] \/ proc'[q] = "off" BY <2>2, <2>3 DEF Typed
    <2>5. Timed'
        <3>1. \A q \in Pids : proc[q] # "starting" BY <2>1 DEF Timed
        <3> QED BY <2>1, <2>4, <3>1 DEF Timed
    <2>6. Condemned'
        <3>1. watch'.at = "replace" => watch.at = "replace" /\ watch'.pids \subseteq watch.pids
            BY <2>2 DEF Typed, Watches, Idle
        <3> QED BY <2>3, <2>4, <3>1 DEF Condemned
    <2>7. HealthyIsKept'
        <3>1. CASE UNCHANGED struck BY <3>1 DEF HealthyIsKept
        <3>2. CASE struck' = <<proc[p], watch.at>>
            BY <3>2, <2>2 DEF HealthyIsKept, Condemned
        <3> QED BY <2>2, <3>1, <3>2
    <2> QED BY <1>0, <2>5, <2>6, <2>7
<1>7. CASE StartCollector
    <2>1. (\E p \in Pids : Spawn(p)) \/ UNCHANGED <<proc, quiet>> BY <1>7 DEF StartCollector
    <2>2. UNCHANGED <<age, struck>> /\ watch' = Idle /\ watch.at = "start"
        BY <1>7 DEF StartCollector
    <2>3. Timed'
        <3> SUFFICES ASSUME NEW q \in Pids
                     PROVE  /\ proc'[q] = "live" => age' <= quiet'[q] /\ quiet'[q] <= BeatMax
                            /\ proc'[q] = "starting" => /\ watch'.at = "sleep" /\ watch'.slept = quiet'[q]
                                                        /\ quiet'[q] <= StartMax
            BY DEF Timed
        <3>1. CASE Spawn(q)
            <4>1. proc'[q] = "starting" /\ quiet'[q] = 0 BY <3>1 DEF Spawn, Typed
            <4> QED BY <2>2, <4>1, ProcessAssumption DEF Idle
        <3>2. CASE proc'[q] = proc[q] /\ quiet'[q] = quiet[q] BY <2>2, <3>2 DEF Timed
        <3> QED BY <2>1, <3>1, <3>2 DEF Spawn, Typed
    <2>4. Condemned' BY <2>2 DEF Condemned, Idle
    <2> QED BY <1>0, <2>2, <2>3, <2>4 DEF HealthyIsKept
<1>8. CASE UNCHANGED vars BY <1>0, <1>8 DEF vars, Timed, Condemned, HealthyIsKept
<1> QED BY <1>1, <1>2, <1>3, <1>4, <1>5, <1>6, <1>7, <1>8, StepsUnattended

\* The watchdog never kills a collector that is at work or starting in order to
\* replace it, whatever faults there are and also when the system refuses its
\* kills: the manifest of a collector in time is never stale when it looks.
THEOREM HealthyIsKeptHolds == ASSUME Unattended, InTime PROVE Spec => []HealthyIsKept
<1>1. Init => KeptInv BY KeptAtFirst
<1>2. KeptInv /\ [Next]_vars => KeptInv' BY KeptAfter
<1>3. KeptInv => HealthyIsKept BY DEF KeptInv
<1> QED BY <1>1, <1>2, <1>3, PTL DEF Spec

-----------------------------------------------------------------------------
(* The markets of the series.                                               *)

Market == [series : SeriesIds, nth : Nat, gen : Nat]
OrNone == Market \cup {None}

ResolverTyped ==
    /\ clock \in Nat /\ nextRound \in Nat /\ last.now \in Nat /\ last.until \in Nat
    /\ cutoff \in Int /\ target \in Int
    /\ listed \subseteq DOMAIN listedAt /\ DOMAIN listedAt \subseteq Market
    /\ DOMAIN gone \subseteq DOMAIN listedAt /\ \A m \in DOMAIN gone : gone[m] \in Nat
    /\ cache \in [SeriesIds -> [at : Int, market : OrNone]]
    /\ prewarm \in [SeriesIds -> OrNone] /\ served \in [SeriesIds -> OrNone]
    /\ DOMAIN open \subseteq Market /\ \A c \in closed : c.market \in Market

\* The venue lists a window once at a time, each listing in place of the one before.
SameWindow(m, n) == m.series = n.series /\ m.nth = n.nth
First(m) == [series |-> m.series, nth |-> m.nth, gen |-> 0]
VenueOK ==
    /\ \A m \in listed, n \in DOMAIN listedAt : SameWindow(m, n) => n.gen <= m.gen
    /\ \A m \in DOMAIN listedAt : First(m) \in DOMAIN listedAt
    /\ listed \cap DOMAIN gone = {}

\* The next round comes in time to promote what is parked.
RoundsOK ==
    /\ last.now <= clock /\ clock <= nextRound /\ last.until <= nextRound
    /\ \A s \in SeriesIds : prewarm[s] # None =>
        last.now < Start(prewarm[s]) /\ nextRound <= last.now + MaxGap

\* A cached market has opened, and was listed when it was cached or promoted.
CacheOK ==
    \A s \in SeriesIds : cache[s].market # None =>
        /\ cache[s].at <= last.now /\ Start(cache[s].market) <= last.until
        /\ cache[s].market \in DOMAIN gone =>
            \/ cache[s].at <= gone[cache[s].market]
            \/ cache[s].at < Start(cache[s].market) + MaxGap

\* A window that was closed has ended.
ClosedOK == ClosedOnce /\ \A c \in closed : End(c.market) < last.now

\* The cutoff stands until a round has passed it.
JoinOK ==
    /\ JoinsFresh
    /\ cutoff = target \/ (cutoff = Never /\ target <= last.now)
    /\ target # Never => \E k \in Nat : target = k * Boundary

ResolverInv ==
    /\ ResolverTyped /\ VenueOK /\ RoundsOK /\ CacheOK /\ ServedIsLive /\ ReplacedIsDropped
    /\ ClosedOK /\ JoinOK

-----------------------------------------------------------------------------
(* Windows on the clock *)

LEMMA LargerProduct == ASSUME NEW a \in Nat, NEW b \in Nat, NEW d \in Nat, a <= b
                       PROVE  a * d <= b * d
<1>1. PICK k \in Nat : b = a + k BY b - a \in Nat
<1>2. b * d = a * d + k * d BY <1>1
<1>3. k * d \in Nat /\ a * d \in Nat OBVIOUS
<1> QED BY <1>2, <1>3

LEMMA Limits == MaxGap \in Nat \ {0} /\ MaxAge \in Nat /\ MaxSkew \in Nat
BY ResolverAssumption

LEMMA WholePart == ASSUME NEW a \in Nat, NEW d \in Nat \ {0} PROVE a \div d \in Nat
OBVIOUS

LEMMA WindowTimes ==
    ASSUME NEW m \in Market
    PROVE  /\ Duration[m.series] \in Nat \ {0} /\ Start(m) \in Nat /\ End(m) \in Nat
           /\ End(m) = Start(m) + Duration[m.series] /\ Start(m) < End(m)
<1> DEFINE d == Duration[m.series]
           n == m.nth
<1>1. d \in Nat \ {0} /\ n \in Nat BY ResolverAssumption DEF Market, SeriesIds
<1> HIDE DEF d, n
<1>2. n * d \in Nat /\ (n + 1) * d = n * d + d BY <1>1
<1>3. Start(m) = n * d /\ End(m) = (n + 1) * d BY DEF Start, End, d, n
<1> QED BY <1>1, <1>2, <1>3 DEF d

LEMMA SameMarket ==
    ASSUME NEW x \in Market, NEW y \in Market, SameWindow(x, y), x.gen = y.gen
    PROVE  x = y
<1>1. x = [series |-> x.series, nth |-> x.nth, gen |-> x.gen] BY DEF Market
<1>2. y = [series |-> y.series, nth |-> y.nth, gen |-> y.gen] BY DEF Market
<1> QED BY <1>1, <1>2 DEF SameWindow

LEMMA FirstListing ==
    ASSUME NEW m \in Market
    PROVE  First(m) \in Market /\ SameWindow(m, First(m)) /\ First(m).gen = 0
BY DEF Market, First, SameWindow

LEMMA Relisted ==
    ASSUME NEW m \in Market, NEW n, n = [m EXCEPT !.gen = @ + 1]
    PROVE  n \in Market /\ SameWindow(m, n) /\ n.gen = m.gen + 1 /\ n # m /\ First(n) = First(m)
<1>1. n = [series |-> m.series, nth |-> m.nth, gen |-> m.gen + 1] BY DEF Market
<1>2. m.gen \in Nat /\ m.gen + 1 # m.gen BY DEF Market
<1> QED BY <1>1, <1>2 DEF Market, SameWindow, First

LEMMA NotNone == None \notin Market
BY ResolverAssumption DEF None, Market, SeriesIds

\* A window of a series opens at a multiple of its duration, as the boundary is.
LEMMA NoneStraddles ==
    ASSUME NEW m \in Market, NEW k \in Nat, End(m) > k * Boundary
    PROVE  Start(m) >= k * Boundary
<1> DEFINE d == Duration[m.series]
           n == m.nth
           q == Boundary \div d
<1>1. d \in Nat \ {0} /\ n \in Nat /\ Boundary \in Nat \ {0} /\ Boundary % d = 0
    BY ResolverAssumption DEF Market, SeriesIds
<1>2. q \in Nat /\ Boundary = q * d BY <1>1
<1> HIDE DEF d, n, q
<1>3. k * Boundary = (k * q) * d /\ k * q \in Nat BY <1>1, <1>2
<1>4. Start(m) = n * d /\ End(m) = (n + 1) * d BY DEF Start, End, d, n
<1>5. SUFFICES ASSUME n < k * q PROVE FALSE
    <2>1. ASSUME k * q <= n PROVE (k * q) * d <= n * d BY <1>1, <1>3, <2>1, LargerProduct
    <2> DEFINE z == k * q
    <2>2. z \in Nat /\ (z <= n => z * d <= n * d) BY <1>3, <2>1
    <2>3. ~ (n < z) => z <= n BY <2>2, <1>1
    <2>4. z * d \in Nat /\ n * d \in Nat BY <2>2, <1>1
    <2> QED BY <2>2, <2>3, <2>4, <1>3, <1>4
<1>6. n + 1 <= k * q BY <1>1, <1>3, <1>5
<1>7. (n + 1) * d <= (k * q) * d BY <1>1, <1>3, <1>6, LargerProduct
<1> QED BY <1>1, <1>3, <1>4, <1>7

LEMMA MaxOfTwo == ASSUME NEW a \in Int, NEW b \in Int
                  PROVE  Max({a, b}) \in {a, b} /\ Max({a, b}) >= a /\ Max({a, b}) >= b
<1>1. \E x \in {a, b} : \A y \in {a, b} : x >= y
    <2>1. CASE a >= b BY <2>1
    <2>2. CASE b >= a BY <2>2
    <2> QED BY <2>1, <2>2
<1> QED BY <1>1 DEF Max

-----------------------------------------------------------------------------
(* Lookups *)

\* The live window of a series is one, so select_window's newest is any of them.
LEMMA NewestIsLive ==
    ASSUME ResolverTyped, NEW s \in SeriesIds, NEW t \in Nat, Newest(LiveAt(s, t)) # None
    PROVE  LET m == Newest(LiveAt(s, t))
           IN  m \in listed /\ m \in Market /\ Start(m) <= t /\ t < End(m)
<1> DEFINE ms == LiveAt(s, t)
<1>1. ms \subseteq listed /\ ms \subseteq Market /\ \A m \in ms : m.series = s /\ Start(m) <= t /\ t < End(m)
    BY DEF LiveAt, ResolverTyped
<1>2. ms # {} BY DEF Newest
<1>3. ASSUME NEW m \in ms, NEW n \in ms PROVE n.nth <= m.nth
    <2> DEFINE a == m.nth
               b == n.nth
               d == Duration[s]
    <2>1. a \in Nat /\ b \in Nat /\ d \in Nat \ {0} BY <1>1, ResolverAssumption DEF Market, SeriesIds
    <2>2. b * d <= t /\ t < (a + 1) * d BY <1>1 DEF Start, End
    <2> HIDE DEF a, b, d
    <2>3. SUFFICES ASSUME a + 1 <= b PROVE FALSE BY <2>1 DEF a, b
    <2>4. (a + 1) * d <= b * d BY <2>1, <2>3, LargerProduct
    <2>5. b * d \in Nat /\ (a + 1) * d \in Nat BY <2>1
    <2> QED BY <2>2, <2>4, <2>5
<1>4. Newest(ms) \in ms BY <1>2, <1>3 DEF Newest
<1> QED BY <1>1, <1>4

\* The next window is listed and opens later.
LEMMA EarliestIsUpcoming ==
    ASSUME ResolverTyped, NEW s \in SeriesIds, NEW now \in Nat, Earliest(Upcoming(s, now)) # None
    PROVE  LET m == Earliest(Upcoming(s, now))
           IN  m \in Market /\ now < Start(m)
<1> DEFINE ms == Upcoming(s, now)
           ns == {m.nth : m \in ms}
<1>1. ms \subseteq Market /\ \A m \in ms : Start(m) > now BY DEF Upcoming, ResolverTyped
<1>2. ms # {} BY DEF Earliest
<1>3. ns \subseteq Nat /\ ns # {} BY <1>1, <1>2 DEF Market
<1>4. \E x \in ns : \A y \in ns : x <= y
    <2>1. \E x \in ns : \A y \in ns : ~ (<<y, x>> \in OpToRel(<, Nat))
        BY <1>3, WFMin, NatLessThanWellFounded
    <2>2. \A x, y \in Nat : ~ (<<y, x>> \in OpToRel(<, Nat)) => x <= y
        BY DEF OpToRel
    <2> QED BY <1>3, <2>1, <2>2
<1>5. \E m \in ms : \A n \in ms : m.nth <= n.nth BY <1>4
<1>6. Earliest(ms) \in ms BY <1>2, <1>5 DEF Earliest
<1>7. Start(Earliest(ms)) \in Nat BY <1>1, <1>6, WindowTimes
<1> QED BY <1>1, <1>6, <1>7

\* What a round resolves a series to, and leaves in the cache.
Sound(e, now, t) ==
    /\ e \in [at : Int, market : OrNone]
    /\ e.market # None =>
        /\ e.at <= now /\ Start(e.market) <= t
        /\ e.market \in DOMAIN gone =>
            e.at <= gone[e.market] \/ e.at < Start(e.market) + MaxGap

LEMMA CacheAtIsSound ==
    ASSUME ResolverTyped, VenueOK, RoundsOK, CacheOK, clock = nextRound,
           NEW s \in SeriesIds, NEW t \in Nat, clock <= t
    PROVE  Sound(CacheAt(s, clock), clock, t)
<1> USE Limits
<1>1. CASE Promoted(s, clock)
    <2> DEFINE m == prewarm[s]
    <2>1. /\ m \in Market /\ clock >= Start(m) /\ last.now < Start(m)
          /\ nextRound <= last.now + MaxGap
        BY <1>1 DEF Promoted, ResolverTyped, RoundsOK, OrNone
    <2>2. Start(m) \in Nat BY <2>1, WindowTimes
    <2>3. clock < Start(m) + MaxGap BY <2>1, <2>2 DEF ResolverTyped
    <2>4. CacheAt(s, clock) = [at |-> clock, market |-> m] BY <1>1 DEF CacheAt
    <2>5. Start(m) <= t /\ clock \in Int BY <2>1, <2>2 DEF ResolverTyped
    <2> HIDE DEF m
    <2> QED BY <2>1, <2>3, <2>4, <2>5 DEF Sound, OrNone
<1>2. CASE ~ Promoted(s, clock)
    <2> DEFINE e == cache[s]
    <2>1. e \in [at : Int, market : OrNone] /\ CacheAt(s, clock) = e
        BY <1>2 DEF CacheAt, ResolverTyped
    <2>2. e.market # None =>
              /\ e.at <= last.now /\ Start(e.market) <= last.until
              /\ e.market \in DOMAIN gone =>
                    e.at <= gone[e.market] \/ e.at < Start(e.market) + MaxGap
        BY DEF CacheOK
    <2>3. last.now <= clock /\ last.until <= t BY DEF RoundsOK, ResolverTyped
    <2> HIDE DEF e
    <2>4. ASSUME e.market # None PROVE e.at <= clock /\ Start(e.market) <= t
        <3> DEFINE a == e.at
                   b == Start(e.market)
                   n == last.now
                   u == last.until
        <3>1. a \in Int /\ b \in Nat BY <2>1, <2>4, WindowTimes DEF OrNone
        <3>2. a <= n /\ b <= u /\ n <= clock /\ u <= t BY <2>2, <2>3, <2>4
        <3>3. n \in Nat /\ u \in Nat /\ clock \in Nat BY DEF ResolverTyped
        <3> HIDE DEF a, b, n, u
        <3>4. a <= clock /\ b <= t BY <3>1, <3>2, <3>3
        <3> QED BY <3>4 DEF a, b
    <2> QED BY <2>1, <2>2, <2>4 DEF Sound
<1> QED BY <1>1, <1>2

LEMMA Resolved ==
    ASSUME ResolverTyped, VenueOK, RoundsOK, CacheOK, clock = nextRound,
           NEW s \in SeriesIds, NEW t \in Nat, clock <= t, NEW failed,
           NEW r, r = Resolve(s, clock, t, failed)
    PROVE  /\ r.info \in OrNone /\ Sound(r.cache, clock, t)
           /\ r.info # None => Start(r.info) <= t /\ clock < End(r.info)
           /\ r.info \in DOMAIN gone =>
                clock - Max({gone[r.info], Start(r.info)}) < MaxAge + MaxGap
<1> USE Limits
<1> DEFINE e == CacheAt(s, clock)
           m == IF s \in failed THEN None ELSE Newest(LiveAt(s, t))
<1>1. Sound(e, clock, t) BY CacheAtIsSound
<1>2. r = IF Hit(e, clock) THEN [cache |-> e, info |-> e.market]
          ELSE IF m = None THEN [cache |-> e, info |-> None]
          ELSE [cache |-> [at |-> clock, market |-> m], info |-> m]
    BY DEF Resolve
<1>3. m # None => m \in Market /\ m \in listed /\ Start(m) <= t /\ t < End(m)
    BY NewestIsLive
<1>4. clock \in Nat /\ None \notin DOMAIN gone
    BY NotNone DEF ResolverTyped
<1> HIDE DEF e, m
<1>5. CASE Hit(e, clock)
    <2>1. r.info = e.market /\ r.cache = e BY <1>2, <1>5
    <2>2. e.market # None /\ clock < End(e.market) /\ clock - e.at < MaxAge BY <1>5 DEF Hit
    <2> DEFINE n == e.market
               a == e.at
    <2>3. n \in Market /\ a \in Int /\ Start(n) <= t
          /\ (n \in DOMAIN gone => a <= gone[n] \/ a < Start(n) + MaxGap)
        BY <1>1, <2>2 DEF Sound, OrNone
    <2>4. clock - a < MaxAge BY <2>2
    <2> HIDE DEF a
    <2>5. ASSUME n \in DOMAIN gone
          PROVE  clock - Max({gone[n], Start(n)}) < MaxAge + MaxGap
        <3> DEFINE g == gone[n]
                   b == Start(n)
                   x == Max({g, b})
        <3>1. g \in Nat /\ b \in Nat BY <2>3, <2>5, WindowTimes DEF ResolverTyped
        <3>2. a <= g \/ a < b + MaxGap BY <2>3, <2>5
        <3> HIDE DEF g, b
        <3>3. x \in Int /\ x >= g /\ x >= b
            <4>1. g \in Int /\ b \in Int BY <3>1
            <4>2. x \in {g, b} /\ x >= g /\ x >= b BY <4>1, MaxOfTwo
            <4> QED BY <4>1, <4>2
        <3> HIDE DEF x
        <3>4. clock - x < MaxAge + MaxGap BY <1>4, <2>3, <2>4, <3>1, <3>2, <3>3
        <3> QED BY <3>4 DEF x, g, b
    <2> QED BY <1>1, <2>1, <2>2, <2>3, <2>5 DEF OrNone
<1>6. CASE ~ Hit(e, clock) /\ m = None
    <2>1. r.info = None /\ r.cache = e BY <1>2, <1>6
    <2> QED BY <1>1, <1>4, <2>1 DEF OrNone
<1>7. CASE ~ Hit(e, clock) /\ m # None
    <2>1. r.info = m /\ r.cache = [at |-> clock, market |-> m] BY <1>2, <1>7
    <2>2. m \notin DOMAIN gone BY <1>3, <1>7 DEF VenueOK
    <2>3. Start(m) \in Nat /\ End(m) \in Nat BY <1>3, <1>7, WindowTimes
    <2>4. clock < End(m) BY <1>3, <1>4, <1>7, <2>3
    <2> QED BY <1>3, <1>4, <1>7, <2>1, <2>2, <2>4 DEF Sound, OrNone
<1> QED BY <1>5, <1>6, <1>7

-----------------------------------------------------------------------------
(* The start *)

LEMMA ResolverAtFirst == ResolverInit => ResolverInv
<1> SUFFICES ASSUME ResolverInit PROVE ResolverInv OBVIOUS
<1> USE ResolverAssumption
<1>1. clock \in Nat /\ last.now = clock /\ last.until = clock
      /\ DOMAIN gone = {} /\ DOMAIN open = {} /\ closed = {}
    BY DEF ResolverInit
<1>2. NextBoundary(clock) \in Nat /\ \E k \in Nat : NextBoundary(clock) = k * Boundary
    <2> DEFINE k == clock \div Boundary + 1
    <2>1. clock \div Boundary \in Nat BY <1>1, WholePart
    <2>2. k \in Nat /\ NextBoundary(clock) = k * Boundary BY <2>1 DEF NextBoundary
    <2> HIDE DEF k
    <2>3. k * Boundary \in Nat BY <2>2
    <2> QED BY <2>2, <2>3
<1>3. nextRound \in Nat /\ clock <= nextRound
    <2> DEFINE b == NextBoundary(clock) - WakeLead
    <2>1. b \in Int /\ clock \in Int BY <1>1, <1>2
    <2> HIDE DEF b
    <2>2. Max({clock, b}) \in {clock, b} /\ Max({clock, b}) >= clock BY <2>1, MaxOfTwo
    <2>3. nextRound = Max({clock, b}) \/ nextRound = clock BY DEF ResolverInit, b
    <2> QED BY <1>1, <2>1, <2>2, <2>3
<1>4. cutoff \in Int /\ target = cutoff /\ (target # Never => \E k \in Nat : target = k * Boundary)
    <2>1. target = cutoff /\ (cutoff = NextBoundary(clock) \/ cutoff = Never)
        BY DEF ResolverInit
    <2>2. Never \in Int BY DEF Never
    <2>3. NextBoundary(clock) \in Int BY <1>2
    <2>4. cutoff \in Int BY <2>1, <2>2, <2>3
    <2>5. ASSUME target # Never PROVE \E k \in Nat : target = k * Boundary
        <3>1. target = NextBoundary(clock) BY <2>1, <2>5
        <3> QED BY <1>2, <3>1
    <2> QED BY <2>1, <2>4, <2>5
<1>5. listed \subseteq Market /\ DOMAIN listedAt = listed /\ \A m \in listed : m.gen = 0
    <2>1. \A x \in SeriesIds : clock \div Duration[x] \in Nat
        BY <1>1, WholePart DEF SeriesIds
    <2>2. listed = {[series |-> x, nth |-> clock \div Duration[x], gen |-> 0] : x \in SeriesIds}
        BY DEF ResolverInit
    <2>3. listed \subseteq Market /\ \A m \in listed : m.gen = 0 BY <2>1, <2>2 DEF Market
    <2> QED BY <2>3 DEF ResolverInit
<1>6. /\ cache = [s \in SeriesIds |-> [at |-> Never, market |-> None]]
      /\ prewarm = [s \in SeriesIds |-> None] /\ served = [s \in SeriesIds |-> None]
    BY DEF ResolverInit
<1>7. ResolverTyped BY <1>1, <1>3, <1>4, <1>5, <1>6 DEF ResolverTyped, OrNone, Never
<1>8. VenueOK
    <2>1. ASSUME NEW m \in listed PROVE First(m) = m
        <3>1. m \in Market /\ m.gen = 0 BY <1>5
        <3> QED BY <3>1, FirstListing, SameMarket
    <2>2. \A m \in listed, n \in DOMAIN listedAt : n.gen <= m.gen BY <1>5
    <2>3. \A m \in DOMAIN listedAt : First(m) \in DOMAIN listedAt BY <1>5, <2>1
    <2>4. listed \cap DOMAIN gone = {} BY <1>1
    <2> QED BY <2>2, <2>3, <2>4 DEF VenueOK
<1>9. RoundsOK /\ CacheOK /\ ServedIsLive
    BY <1>1, <1>3, <1>6 DEF RoundsOK, CacheOK, ServedIsLive
<1>10. ReplacedIsDropped BY <1>1, <1>6 DEF ReplacedIsDropped
<1>11. ClosedOK BY <1>1 DEF ClosedOK, ClosedOnce
<1>12. JoinOK
    <2>1. JoinsFresh BY <1>1 DEF JoinsFresh
    <2> QED BY <1>4, <2>1 DEF JoinOK
<1> QED BY <1>7, <1>8, <1>9, <1>10, <1>11, <1>12 DEF ResolverInv

-----------------------------------------------------------------------------
(* The venue *)

LEMMA AsTimePasses == ResolverInv /\ TimePasses => ResolverInv'
<1> SUFFICES ASSUME ResolverInv, TimePasses PROVE ResolverInv' OBVIOUS
<1> USE Limits
<1>0. ResolverTyped /\ VenueOK /\ RoundsOK /\ CacheOK /\ ServedIsLive /\ ReplacedIsDropped
      /\ ClosedOK /\ JoinOK
    BY DEF ResolverInv
<1>1. /\ clock < nextRound /\ clock' = clock + 1
      /\ UNCHANGED <<nextRound, gone, cache, prewarm, cutoff, target, open, closed, served, last>>
    BY DEF TimePasses
<1>2. PICK new \in SUBSET {m \in Due(clock + 1, ListAt) : ~Known(m)} :
          /\ listed' = {m \in listed : End(m) > clock + 1} \cup new
          /\ listedAt' = [m \in DOMAIN listedAt \cup new |->
                            IF m \in new THEN clock + 1 ELSE listedAt[m]]
    BY DEF TimePasses
<1>3. new \subseteq Market /\ \A m \in new : m.gen = 0 /\ m \notin DOMAIN listedAt
    <2>1. \A x \in SeriesIds : (clock + 1) \div Duration[x] \in Nat
        <3>1. clock + 1 \in Nat BY <1>0 DEF ResolverTyped
        <3> QED BY <3>1, WholePart, ResolverAssumption DEF SeriesIds
    <2> QED BY <1>2, <2>1 DEF Due, Known, Market
<1>4. DOMAIN listedAt' = DOMAIN listedAt \cup new BY <1>2
<1>5. ResolverTyped'
    <2>1. clock' \in Nat /\ listed' \subseteq DOMAIN listedAt' /\ DOMAIN listedAt' \subseteq Market
          /\ DOMAIN gone \subseteq DOMAIN listedAt'
        BY <1>0, <1>1, <1>2, <1>3, <1>4 DEF ResolverTyped
    <2> QED BY <1>0, <1>1, <2>1 DEF ResolverTyped
<1>6. VenueOK'
    <2>1. ASSUME NEW m \in listed', NEW n \in DOMAIN listedAt', SameWindow(m, n)
          PROVE  n.gen <= m.gen
        <3>1. m \in Market /\ n \in Market BY <1>5 DEF ResolverTyped
        <3>2. CASE n \in new BY <1>3, <3>1, <3>2 DEF Market
        <3>3. CASE n \in DOMAIN listedAt /\ m \in listed BY <1>0, <2>1, <3>3 DEF VenueOK
        <3>4. CASE n \in DOMAIN listedAt /\ m \in new
            <4>1. First(n) \in DOMAIN listedAt BY <1>0, <3>4 DEF VenueOK
            <4>2. First(n) = m 
                <5>1. First(n) \in Market /\ SameWindow(n, First(n)) /\ First(n).gen = 0 BY <3>1, FirstListing
                <5>2. SameWindow(First(n), m) /\ m.gen = 0 BY <1>3, <2>1, <3>4, <5>1 DEF SameWindow
                <5> QED BY <3>1, <5>1, <5>2, SameMarket
            <4> QED BY <1>3, <3>4, <4>1, <4>2
        <3> QED BY <1>2, <1>4, <3>2, <3>3, <3>4
    <2>2. ASSUME NEW m \in DOMAIN listedAt' PROVE First(m) \in DOMAIN listedAt'
        <3>1. CASE m \in new
            <4>1. First(m) = m BY <1>3, <3>1, FirstListing, SameMarket
            <4> QED BY <4>1, <2>2
        <3>2. CASE m \in DOMAIN listedAt BY <1>0, <1>4, <3>2 DEF VenueOK
        <3> QED BY <1>4, <3>1, <3>2
    <2>3. listed' \cap DOMAIN gone' = {}
        BY <1>0, <1>1, <1>2, <1>3 DEF VenueOK, ResolverTyped
    <2> QED BY <2>1, <2>2, <2>3 DEF VenueOK
<1>7. RoundsOK' BY <1>0, <1>1 DEF RoundsOK, ResolverTyped
<1>8. CacheOK' /\ ServedIsLive' /\ ReplacedIsDropped'
    BY <1>0, <1>1 DEF CacheOK, ServedIsLive, ReplacedIsDropped
<1>9. ClosedOK' /\ JoinOK' BY <1>0, <1>1 DEF ClosedOK, ClosedOnce, JoinOK, JoinsFresh
<1> QED BY <1>5, <1>6, <1>7, <1>8, <1>9 DEF ResolverInv

LEMMA AfterReplacement == ResolverInv /\ Replace => ResolverInv'
<1> SUFFICES ASSUME ResolverInv, Replace PROVE ResolverInv' OBVIOUS
<1> USE Limits
<1>0. ResolverTyped /\ VenueOK /\ RoundsOK /\ CacheOK /\ ServedIsLive /\ ReplacedIsDropped
      /\ ClosedOK /\ JoinOK
    BY DEF ResolverInv
<1>1. UNCHANGED <<clock, nextRound, cache, prewarm, cutoff, target, open, closed, served, last>>
    BY DEF Replace
<1>2. PICK m \in listed :
        LET n == [m EXCEPT !.gen = @ + 1] IN
        /\ listed' = (listed \ {m}) \cup {n}
        /\ listedAt' = [x \in DOMAIN listedAt \cup {n} |-> IF x = n THEN clock ELSE listedAt[x]]
        /\ gone' = [x \in DOMAIN gone \cup {m} |-> IF x = m THEN clock ELSE gone[x]]
    BY DEF Replace
<1> DEFINE n == [m EXCEPT !.gen = @ + 1]
<1>3. m \in Market /\ m \in DOMAIN listedAt /\ m \notin DOMAIN gone
    BY <1>0 DEF ResolverTyped, VenueOK
<1>4. n \in Market /\ SameWindow(m, n) /\ n.gen = m.gen + 1 /\ n # m
      /\ First(n) = First(m)
    BY <1>3, Relisted
<1>5. /\ listed' = (listed \ {m}) \cup {n} /\ DOMAIN listedAt' = DOMAIN listedAt \cup {n}
      /\ DOMAIN gone' = DOMAIN gone \cup {m}
      /\ gone'[m] = clock /\ \A x \in DOMAIN gone : x # m => gone'[x] = gone[x]
    BY <1>2
<1> HIDE DEF n
<1>6. n \notin DOMAIN listedAt
    <2> SUFFICES ASSUME n \in DOMAIN listedAt PROVE FALSE OBVIOUS
    <2>1. n.gen <= m.gen BY <1>0, <1>4 DEF VenueOK
    <2> QED BY <1>3, <1>4, <2>1 DEF Market
<1>7. ResolverTyped'
    <2>1. listed' \subseteq DOMAIN listedAt' /\ DOMAIN listedAt' \subseteq Market
          /\ DOMAIN gone' \subseteq DOMAIN listedAt' /\ \A x \in DOMAIN gone' : gone'[x] \in Nat
        BY <1>0, <1>3, <1>4, <1>5 DEF ResolverTyped
    <2> QED BY <1>0, <1>1, <2>1 DEF ResolverTyped
<1>8. VenueOK'
    <2>1. ASSUME NEW x \in listed', NEW y \in DOMAIN listedAt', SameWindow(x, y)
          PROVE  y.gen <= x.gen
        <3>1. x \in Market /\ y \in Market BY <1>7 DEF ResolverTyped
        <3>2. CASE x = n /\ y = n BY <3>1, <3>2 DEF Market
        <3>3. CASE x = n /\ y \in DOMAIN listedAt
            <4>1. SameWindow(m, y) BY <1>4, <2>1, <3>3 DEF SameWindow
            <4>2. y.gen <= m.gen BY <1>0, <3>3, <4>1 DEF VenueOK
            <4> QED BY <1>3, <1>4, <3>1, <3>3, <4>2 DEF Market
        <3>4. CASE x \in listed \ {m} /\ y \in DOMAIN listedAt BY <1>0, <2>1, <3>4 DEF VenueOK
        <3>5. CASE x \in listed \ {m} /\ y = n
            <4>1. SameWindow(x, m) /\ SameWindow(m, x) BY <1>4, <2>1, <3>5 DEF SameWindow
            <4>2. m.gen <= x.gen /\ x.gen <= m.gen BY <1>0, <1>3, <3>5, <4>1 DEF VenueOK, ResolverTyped
            <4>3. x = m 
                <5>1. m.gen \in Nat /\ x.gen \in Nat BY <1>3, <3>1 DEF Market
                <5>2. m.gen = x.gen BY <4>2, <5>1
                <5> QED BY <1>3, <3>1, <4>1, <5>2, SameMarket
            <4> QED BY <3>5, <4>3
        <3> QED BY <1>5, <3>2, <3>3, <3>4, <3>5
    <2>2. \A x \in DOMAIN listedAt' : First(x) \in DOMAIN listedAt'
        BY <1>0, <1>3, <1>4, <1>5 DEF VenueOK
    <2>3. listed' \cap DOMAIN gone' = {}
        BY <1>0, <1>4, <1>5, <1>6 DEF VenueOK, ResolverTyped
    <2> QED BY <2>1, <2>2, <2>3 DEF VenueOK
<1>9. CacheOK'
    <2> SUFFICES ASSUME NEW s \in SeriesIds, cache[s].market # None, cache[s].market \in DOMAIN gone'
                 PROVE  \/ cache[s].at <= gone'[cache[s].market]
                        \/ cache[s].at < Start(cache[s].market) + MaxGap
        BY <1>0, <1>1 DEF CacheOK
    <2>1. CASE cache[s].market = m
        <3>1. cache[s].at <= last.now /\ cache[s].at \in Int BY <1>0 DEF CacheOK, ResolverTyped
        <3> QED BY <1>0, <1>5, <2>1, <3>1 DEF RoundsOK, ResolverTyped
    <2>2. CASE cache[s].market # m BY <1>0, <1>5, <2>2 DEF CacheOK
    <2> QED BY <2>1, <2>2
<1>10. ReplacedIsDropped'
    <2> SUFFICES ASSUME NEW s \in DOMAIN served, served[s] \in DOMAIN gone'
                 PROVE  last.now - Max({gone'[served[s]], Start(served[s])}) < MaxAge + MaxGap
        BY <1>1 DEF ReplacedIsDropped
    <2>1. CASE served[s] = m
        <3> DEFINE b == Start(m)
                   x == Max({clock, b})
        <3>1. b \in Int /\ clock \in Int /\ last.now \in Int /\ last.now <= clock
            BY <1>0, <1>3, WindowTimes DEF ResolverTyped, RoundsOK
        <3> HIDE DEF b
        <3>2. x \in {clock, b} /\ x >= clock BY <3>1, MaxOfTwo
        <3>3. x \in Int BY <3>1, <3>2
        <3> HIDE DEF x
        <3>4. last.now - x < MaxAge + MaxGap BY <3>1, <3>2, <3>3
        <3> QED BY <1>5, <2>1, <3>4 DEF x, b
    <2>2. CASE served[s] # m BY <1>0, <1>5, <2>2 DEF ReplacedIsDropped
    <2> QED BY <2>1, <2>2
<1>11. RoundsOK' /\ ServedIsLive' BY <1>0, <1>1 DEF RoundsOK, ServedIsLive
<1>12. ClosedOK' /\ JoinOK' BY <1>0, <1>1 DEF ClosedOK, ClosedOnce, JoinOK, JoinsFresh
<1> QED BY <1>7, <1>8, <1>9, <1>10, <1>11, <1>12 DEF ResolverInv

-----------------------------------------------------------------------------
(* A round *)

\* What a series keeps parked when a round ends has yet to open.
LEMMA ParkedIsUpcoming ==
    ASSUME ResolverTyped, NEW s \in SeriesIds, NEW jobs, NEW missed,
           NEW p, p = Park(s, StillParked(s, clock), jobs, missed, clock)
    PROVE  p \in OrNone /\ (p # None => clock < Start(p))
<1> USE Limits
<1>0. clock \in Nat BY DEF ResolverTyped
<1>1. CASE p = Earliest(Upcoming(s, clock))
    <2>1. p # None => p \in Market /\ clock < Start(p) BY <1>0, <1>1, EarliestIsUpcoming
    <2> QED BY <2>1 DEF OrNone
<1>2. CASE p = StillParked(s, clock)
    <2>1. p # None => p = prewarm[s] /\ ~ Promoted(s, clock) BY <1>2 DEF StillParked
    <2>2. ASSUME p # None PROVE p \in Market /\ clock < Start(p)
        <3>1. p = prewarm[s] /\ p \in Market /\ ~ (clock >= Start(p))
            BY <2>1, <2>2 DEF Promoted, ResolverTyped, OrNone
        <3>2. Start(p) \in Nat BY <3>1, WindowTimes
        <3> QED BY <1>0, <3>1, <3>2
    <2> QED BY <2>2 DEF OrNone
<1> QED BY <1>1, <1>2 DEF Park

LEMMA AfterRound == ResolverInv /\ Round => ResolverInv'
<1> SUFFICES ASSUME ResolverInv, Round PROVE ResolverInv' OBVIOUS
<1> USE Limits
<1>0. ResolverTyped /\ VenueOK /\ RoundsOK /\ CacheOK /\ ServedIsLive /\ ReplacedIsDropped
      /\ ClosedOK /\ JoinOK
    BY DEF ResolverInv
<1>1. PICK skew \in 0..MaxSkew, failed \in SUBSET SeriesIds, missed \in SUBSET SeriesIds :
        RoundWith(skew, failed, missed)
    BY DEF Round
<1>2. clock = nextRound /\ UNCHANGED <<clock, listed, listedAt, gone, target>>
    BY DEF Round, venue
<1> DEFINE t == clock + skew
           r == [s \in SeriesIds |-> Resolve(s, clock, t, failed)]
           parked == [s \in SeriesIds |-> StillParked(s, clock)]
           jobs == {s \in SeriesIds : DueForPrewarm(s, r[s].info, parked[s], clock)}
           taken == Adopted({r[s].info : s \in SeriesIds})
           h == [m \in DOMAIN open \cup taken |-> IF m \in DOMAIN open THEN open[m] ELSE clock]
           over == {m \in DOMAIN h : End(m) < clock}
<1>3. /\ last' = [now |-> clock, until |-> t, calls |-> Cardinality(jobs)]
      /\ cutoff' = IF cutoff # Never /\ clock >= cutoff THEN Never ELSE cutoff
      /\ \E gap \in Max({1, skew})..MaxGap : nextRound' = clock + gap
    BY <1>1 DEF RoundWith
<1>4. /\ cache' = [s \in SeriesIds |-> r[s].cache]
      /\ served' = [s \in SeriesIds |-> r[s].info]
      /\ prewarm' = [s \in SeriesIds |-> Park(s, parked[s], jobs, missed, clock)]
    BY <1>1 DEF RoundWith
<1>5. /\ open' = Restrict(h, DOMAIN h \ over)
      /\ closed' = closed \cup {[market |-> m, first |-> h[m]] : m \in over}
    BY <1>1 DEF RoundWith
<1>6. /\ clock \in Nat /\ skew \in Nat /\ t \in Nat /\ clock <= t
      /\ last'.now = clock /\ last'.until = t
    <2>1. clock \in Nat /\ skew \in Nat BY <1>0, <1>1 DEF ResolverTyped
    <2>2. t \in Nat /\ clock <= t BY <2>1
    <2> HIDE DEF t
    <2> QED BY <1>3, <2>1, <2>2
<1>7. nextRound' \in Nat /\ clock <= nextRound' /\ t <= nextRound' /\ nextRound' <= clock + MaxGap
    <2> DEFINE x == Max({1, skew})
    <2>1. x \in {1, skew} /\ x >= 1 /\ x >= skew
        <3>1. 1 \in Int /\ skew \in Int BY <1>6
        <3> QED BY <3>1, MaxOfTwo
    <2> HIDE DEF x
    <2>2. PICK gap \in x..MaxGap : nextRound' = clock + gap BY <1>3 DEF x
    <2>3. gap \in Nat /\ skew <= gap /\ gap <= MaxGap BY <1>6, <2>1, <2>2
    <2> QED BY <1>6, <2>2, <2>3
<1>8. ASSUME NEW s \in SeriesIds
      PROVE  /\ cache'[s] = r[s].cache /\ served'[s] = r[s].info
             /\ served'[s] \in OrNone /\ Sound(cache'[s], clock, t)
             /\ served'[s] # None => Start(served'[s]) <= t /\ clock < End(served'[s])
             /\ served'[s] \in DOMAIN gone =>
                  clock - Max({gone[served'[s]], Start(served'[s])}) < MaxAge + MaxGap
    <2> DEFINE q == Resolve(s, clock, t, failed)
    <2>1. cache'[s] = q.cache /\ served'[s] = q.info BY <1>4
    <2> HIDE DEF t
    <2>2. /\ q.info \in OrNone /\ Sound(q.cache, clock, t)
          /\ q.info # None => Start(q.info) <= t /\ clock < End(q.info)
          /\ q.info \in DOMAIN gone =>
               clock - Max({gone[q.info], Start(q.info)}) < MaxAge + MaxGap
        BY <1>0, <1>2, <1>6, Resolved
    <2> QED BY <2>1, <2>2
<1>9. ASSUME NEW m \in taken
      PROVE  /\ m \in Market /\ clock < End(m)
             /\ m \in DOMAIN open \/ cutoff = Never \/ Start(m) >= cutoff
    <2>1. PICK s \in SeriesIds : m = served'[s] /\ m # None
        BY <1>8, <1>9 DEF Adopted
    <2> QED BY <1>8, <1>9, <2>1 DEF Adopted, OrNone
<1>10. /\ DOMAIN open' = (DOMAIN open \cup taken) \ over
      /\ over = {m \in DOMAIN open \cup taken : End(m) < clock}
      /\ DOMAIN h = DOMAIN open \cup taken
      /\ closed' = closed \cup {[market |-> m, first |-> h[m]] : m \in over}
    <2> HIDE DEF t
    <2>1. open' = Restrict(h, DOMAIN h \ over) BY <1>5 DEF t
    <2>2. DOMAIN open' = DOMAIN h \ over BY <2>1 DEF Restrict
    <2> QED BY <1>5, <2>2 DEF t
<1>11. ASSUME NEW s \in SeriesIds
      PROVE  prewarm'[s] \in OrNone /\ (prewarm'[s] # None => clock < Start(prewarm'[s]))
    <2>1. prewarm'[s] = Park(s, StillParked(s, clock), jobs, missed, clock) BY <1>4
    <2> HIDE DEF jobs
    <2> QED BY <1>0, <2>1, ParkedIsUpcoming
<1>12. /\ DOMAIN cache' = SeriesIds /\ DOMAIN served' = SeriesIds /\ DOMAIN prewarm' = SeriesIds
      /\ cache' = [s \in SeriesIds |-> cache'[s]] /\ served' = [s \in SeriesIds |-> served'[s]]
      /\ prewarm' = [s \in SeriesIds |-> prewarm'[s]]
    BY <1>4
<1> HIDE DEF t, r, parked, jobs, taken, h, over
<1>13. ResolverTyped'
    <2>1. cache' \in [SeriesIds -> [at : Int, market : OrNone]]
        BY <1>8, <1>12 DEF Sound
    <2>2. prewarm' \in [SeriesIds -> OrNone] /\ served' \in [SeriesIds -> OrNone]
        BY <1>8, <1>11, <1>12
    <2>3. DOMAIN open' \subseteq Market /\ over \subseteq Market
        BY <1>0, <1>9, <1>10 DEF ResolverTyped
    <2>4. \A c \in closed' : c.market \in Market BY <1>0, <1>10, <2>3 DEF ResolverTyped
    <2>5. cutoff' \in Int /\ target' \in Int BY <1>0, <1>2, <1>3 DEF ResolverTyped, Never
    <2> QED BY <1>0, <1>2, <1>6, <1>7, <2>1, <2>2, <2>3, <2>4, <2>5 DEF ResolverTyped
<1>14. VenueOK' BY <1>0, <1>2 DEF VenueOK
<1>15. RoundsOK' BY <1>2, <1>6, <1>7, <1>11 DEF RoundsOK
<1>16. CacheOK' BY <1>2, <1>6, <1>8 DEF CacheOK, Sound
<1>17. ServedIsLive' BY <1>6, <1>8, <1>12 DEF ServedIsLive
<1>18. ReplacedIsDropped' BY <1>2, <1>6, <1>8, <1>12 DEF ReplacedIsDropped
<1>19. ClosedOK'
    <2>1. ASSUME NEW c \in closed PROVE End(c.market) < clock /\ c.market \notin DOMAIN open \cup taken
        <3>1. c.market \in Market /\ End(c.market) < last.now /\ last.now <= clock
            BY <1>0 DEF ClosedOK, RoundsOK, ResolverTyped
        <3>2. End(c.market) \in Nat /\ last.now \in Nat BY <1>0, <3>1, WindowTimes DEF ResolverTyped
        <3>3. End(c.market) < clock BY <1>6, <3>1, <3>2
        <3>4. c.market \notin taken BY <1>6, <1>9, <3>2, <3>3
        <3>5. c.market \notin DOMAIN open BY <1>0 DEF ClosedOK, ClosedOnce
        <3> QED BY <3>3, <3>4, <3>5
    <2>2. over \subseteq DOMAIN open \cup taken /\ \A m \in over : End(m) < clock BY <1>10
    <2>3. ASSUME NEW c \in closed'
          PROVE  \/ c \in closed
                 \/ c.market \in over /\ c = [market |-> c.market, first |-> h[c.market]]
        BY <1>10
    <2>4. \A c \in closed' : c.market \notin DOMAIN open' BY <1>10, <2>1, <2>3
    <2>5. \A c, d \in closed' : c.market = d.market => c = d
        BY <1>0, <2>1, <2>2, <2>3 DEF ClosedOK, ClosedOnce
    <2>6. \A c \in closed' : End(c.market) < last'.now BY <1>6, <2>1, <2>2, <2>3
    <2> QED BY <2>4, <2>5, <2>6 DEF ClosedOK, ClosedOnce
<1>20. JoinOK'
    <2>1. \/ cutoff = target
          \/ cutoff = Never /\ target <= last.now
        BY <1>0 DEF JoinOK
    <2>2. last.now \in Nat /\ last.now <= clock /\ target \in Int /\ cutoff \in Int
        BY <1>0 DEF ResolverTyped, RoundsOK
    <2>3. ASSUME NEW m \in taken PROVE Start(m) >= target
        <3>1. m \in Market /\ Start(m) \in Nat /\ clock < End(m) /\ End(m) \in Nat
            BY <1>9, WindowTimes
        <3>2. CASE m \in DOMAIN open BY <1>0, <3>2 DEF JoinOK, JoinsFresh
        <3>3. CASE target = Never BY <3>1, <3>3 DEF Never
        <3>4. CASE target # Never /\ target <= clock
            <4>1. PICK k \in Nat : target = k * Boundary BY <1>0, <3>4 DEF JoinOK
            <4>2. target < End(m) BY <1>6, <2>2, <3>1, <3>4
            <4> QED BY <3>1, <4>1, <4>2, NoneStraddles
        <3>5. CASE Start(m) >= cutoff /\ cutoff = target BY <3>5
        <3> QED
            <4>1. cutoff = Never => target = Never \/ target <= clock
                BY <1>6, <2>1, <2>2
            <4>2. Start(m) >= cutoff => cutoff = target \/ cutoff = Never BY <2>1
            <4>3. m \in DOMAIN open \/ cutoff = Never \/ Start(m) >= cutoff BY <1>9
            <4> QED BY <3>2, <3>3, <3>4, <3>5, <4>1, <4>2, <4>3
    <2>4. DOMAIN open' \cup {c.market : c \in closed'} \subseteq
                DOMAIN open \cup taken \cup {c.market : c \in closed}
        BY <1>10
    <2>5. JoinsFresh' BY <1>0, <1>2, <2>3, <2>4 DEF JoinOK, JoinsFresh
    <2>6. cutoff' = target' \/ (cutoff' = Never /\ target' <= last'.now)
        BY <1>2, <1>6, <1>3, <2>1, <2>2 DEF Never
    <2> QED BY <1>0, <1>2, <2>5, <2>6 DEF JoinOK
<1> QED BY <1>13, <1>14, <1>15, <1>16, <1>17, <1>18, <1>19, <1>20 DEF ResolverInv

LEMMA ResolverInvHolds == ResolverSpec => []ResolverInv
<1>1. ResolverInv /\ [ResolverNext]_resolverVars => ResolverInv'
    <2> SUFFICES ASSUME ResolverInv, [ResolverNext]_resolverVars PROVE ResolverInv' OBVIOUS
    <2>1. CASE TimePasses BY <2>1, AsTimePasses
    <2>2. CASE Replace BY <2>2, AfterReplacement
    <2>3. CASE Round BY <2>3, AfterRound
    <2>4. CASE UNCHANGED resolverVars
        <3> USE <2>4 DEF resolverVars
        <3>1. ResolverTyped' /\ VenueOK' /\ RoundsOK' /\ CacheOK'
            BY DEF ResolverInv, ResolverTyped, VenueOK, RoundsOK, CacheOK
        <3>2. ServedIsLive' /\ ReplacedIsDropped' BY DEF ResolverInv, ServedIsLive, ReplacedIsDropped
        <3>3. ClosedOK' /\ JoinOK' BY DEF ResolverInv, ClosedOK, ClosedOnce, JoinOK, JoinsFresh
        <3> QED BY <3>1, <3>2, <3>3 DEF ResolverInv
    <2> QED BY <2>1, <2>2, <2>3, <2>4 DEF ResolverNext
<1> QED BY <1>1, ResolverAtFirst, PTL DEF ResolverSpec

\* poll_once, resolve_series_market, _prewarm_next_market and main's alignment: a series is
\* recorded under a market that is live, that is not long replaced, that is opened and closed
\* once, and that was not under way at the start.
THEOREM MarketIsLiveHolds == ResolverSpec => []MarketIsLive
<1>1. ResolverInv => MarketIsLive BY DEF ResolverInv, MarketIsLive, ClosedOK, JoinOK
<1> QED BY <1>1, ResolverInvHolds, PTL
=============================================================================
