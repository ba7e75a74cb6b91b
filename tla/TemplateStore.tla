---------------------------- MODULE TemplateStore ----------------------------
(***************************************************************************)
(* The backtest templates of the dashboard (backtest/templates.py and the  *)
(* endpoints of server/osc_dash.py): a finished run is remembered for a    *)
(* while, can be saved under a name, and is given back only when its       *)
(* arguments still stand for the parameters it was run with.  A restart    *)
(* forgets the runs, may bring another registry of the knobs, and copies   *)
(* the presets that are missing.  A handler runs to its end undisturbed.   *)
(***************************************************************************)
EXTENDS Naturals, Sequences

CONSTANTS
    Names,          \* normalised template names
    Args,           \* arguments of a request
    Hash,           \* [version of the registry -> [Args -> hash of the parameters, 0 when refused]]
    Seeds,          \* the preset files: records [name, args], or Malformed
    Malformed, NoFile,
    RunsMax,        \* _COMPLETED_RUNS_MAX
    MaxRuns,        \* bound: runs that complete
    MaxFaults       \* bound: writes that fail and files that are spoiled

TemplateAssumption ==
    /\ RunsMax \in Nat \ {0} /\ MaxRuns \in Nat /\ MaxFaults \in Nat
    /\ Hash \in Seq([Args -> Nat])

VARIABLES
    version,        \* the registry the server runs with
    present,        \* the datasets named by arguments that are there
    ran,            \* history: every run that completed, [args, hash]
    completed,      \* _COMPLETED_RUNS: numbers of runs, the oldest first
    files,          \* [Names -> what the file of the template holds, or NoFile]
    answer,         \* what the last load answered: [code, name]
    faults

vars == <<version, present, ran, completed, files, answer, faults>>

None == [code |-> 0, name |-> ""]

Init ==
    /\ version = 1
    /\ present = Args
    /\ ran = <<>>
    /\ completed = <<>>
    /\ files = [n \in Names |-> NoFile]
    /\ answer = None
    /\ faults = 0

-----------------------------------------------------------------------------
(* _record_completed_run: a run whose arguments could be prepared.          *)
Complete(a) ==
    /\ Len(ran) < MaxRuns
    /\ a \in present /\ Hash[version][a] # 0
    /\ ran' = Append(ran, [args |-> a, hash |-> Hash[version][a]])
    /\ LET all == Append(completed, Len(ran) + 1)
       IN  completed' = IF Len(all) > RunsMax THEN Tail(all) ELSE all
    /\ answer' = None
    /\ UNCHANGED <<version, present, files, faults>>

(* api_backtest_template_save: a run that was forgotten is not found; the   *)
(* file is written beside and put in its place.                             *)
Save(n, r, fails) ==
    /\ fails => faults < MaxFaults
    /\ faults' = IF fails THEN faults + 1 ELSE faults
    /\ \E i \in DOMAIN completed : completed[i] = r
    /\ files' = IF fails THEN files
                ELSE [files EXCEPT ![n] = [args |-> ran[r].args, hash |-> ran[r].hash, run |-> r]]
    /\ answer' = None
    /\ UNCHANGED <<version, present, ran, completed>>

(* api_backtest_template_load.  A request that can no longer be prepared    *)
(* for want of its dataset is not compared; one that is refused is stale.   *)
Load(n) ==
    LET t == files[n]
        code == IF t = NoFile THEN 404
                ELSE IF t = Malformed THEN 422
                ELSE IF Hash[version][t.args] = 0 THEN 409
                ELSE IF t.args \in present /\ Hash[version][t.args] # t.hash THEN 409
                ELSE 200
    IN  /\ answer' = [code |-> code, name |-> n]
        /\ UNCHANGED <<version, present, ran, completed, files, faults>>

(* api_backtest_template_delete. *)
Delete(n) ==
    /\ files[n] # NoFile
    /\ files' = [files EXCEPT ![n] = NoFile]
    /\ answer' = None
    /\ UNCHANGED <<version, present, ran, completed, faults>>

-----------------------------------------------------------------------------
(* ensure_seed_templates: a preset whose file is there is left alone, be it *)
(* malformed; one that is malformed or refused by the registry is skipped.  *)
Wanted(v, s) == s # Malformed /\ files[s.name] = NoFile /\ Hash[v][s.args] # 0

Seeded(v) ==
    [n \in Names |->
        IF \E s \in Seeds : Wanted(v, s) /\ s.name = n
        THEN LET s == CHOOSE s \in Seeds : Wanted(v, s) /\ s.name = n
             IN  [args |-> s.args, hash |-> Hash[v][s.args], run |-> 0]
        ELSE files[n]]

(* The server starts anew, with the same or another registry.               *)
Restart(v) ==
    /\ version' = v
    /\ completed' = <<>>
    /\ files' = Seeded(v)
    /\ answer' = None
    /\ UNCHANGED <<present, ran, faults>>

(* A dataset is uploaded or deleted; a file is edited by hand and spoiled.  *)
Dataset(a) ==
    /\ present' = IF a \in present THEN present \ {a} ELSE present \cup {a}
    /\ answer' = None
    /\ UNCHANGED <<version, ran, completed, files, faults>>

Spoil(n) ==
    /\ files[n] \notin {NoFile, Malformed} /\ faults < MaxFaults
    /\ files' = [files EXCEPT ![n] = Malformed]
    /\ faults' = faults + 1
    /\ answer' = None
    /\ UNCHANGED <<version, present, ran, completed>>

Next ==
    \/ \E a \in Args : Complete(a) \/ Dataset(a)
    \/ \E n \in Names : Load(n) \/ Delete(n) \/ Spoil(n)
    \/ \E n \in Names, r \in DOMAIN ran, fails \in BOOLEAN : Save(n, r, fails)
    \/ \E v \in DOMAIN Hash : Restart(v)

-----------------------------------------------------------------------------
(* A template that is given back stands, under the registry of today, for   *)
(* the parameters of the run it was saved from or the preset it was made    *)
(* of, unless its dataset is gone (api_backtest_template_load).             *)
LoadedIsCurrent ==
    answer.code = 200 =>
        LET t == files[answer.name]
        IN  /\ t.args \in present => t.hash = Hash[version][t.args]
            /\ t.run # 0 => t.hash = ran[t.run].hash /\ t.args = ran[t.run].args

(* One that is called stale could not be run again to the same result; what *)
(* the server has run or seeded since it started is never called stale.     *)
StaleIsStale ==
    answer.code = 409 => LET t == files[answer.name]
                         IN  t.hash # Hash[version][t.args] /\ (t.run = 0 \/ \A i \in DOMAIN completed : completed[i] # t.run)
=============================================================================
