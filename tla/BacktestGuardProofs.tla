------------------------- MODULE BacktestGuardProofs -------------------------
(***************************************************************************)
(* Proofs about the guards of the dashboard's backtests, for any number of *)
(* runs and of requests to stop them: the flag, the semaphore and the      *)
(* record of the active run agree (GuardsAgree), no executor has two jobs, *)
(* and a run that was reported stopped has no job (JobsSound).             *)
(*                                                                         *)
(* GuardsAgree is not inductive: a release must know that its run took the *)
(* guards (Started), and the job of a released run must not be one of the  *)
(* executor the next run will be given (Detached).  A verdict of a stop    *)
(* stays true because a dead worker is never revived (StopSound).          *)
(***************************************************************************)
EXTENDS BacktestGuard, TLAPS

RunRecords == [kind : Kinds,
               handler : {"idle", "preparing", "waiting", "streaming", "over"},
               task : {"none", "created", "running", "done"},
               job : {"none", "running", "finished", "lost"},
               pool : Pools \cup {NoPool}, released : BOOLEAN, cancelled : BOOLEAN,
               blocked : BOOLEAN, said : {"nothing", "stopped", "stopping"}]

StopRecords == [at : {"idle", "thread", "joining", "judged"},
                run : Runs \cup {NoRun}, dead : BOOLEAN]

(* What the run's own fields say of each other.                             *)
Started(r) == run[r].handler \in {"idle", "preparing"} => run[r].task = "none"
Submitted(r) ==
    /\ run[r].task \in {"none", "created"} => run[r].pool = NoPool
    /\ run[r].pool = NoPool => run[r].job = "none"
Unreleased(r) ==
    /\ run[r].task = "created" \/ run[r].handler = "preparing"
    /\ ~run[r].cancelled
    => ~run[r].released
Stopped(r) == run[r].said = "stopped" => run[r].cancelled /\ run[r].job # "running"

(* A job that runs has a worker, and one whose run has given its guards     *)
(* back is not of the executor the next run is given.                       *)
Worked(r) == run[r].job = "running" => worker[run[r].pool] \in {"alive", "signalled"}
Detached(r) == run[r].job = "running" /\ run[r].released => run[r].pool # singleton

(* A stop under way is of a run that was submitted and is cancelled.        *)
StopSound(s) ==
    stop[s].at # "idle" =>
        /\ stop[s].run \in Runs
        /\ run[stop[s].run].handler # "idle" /\ run[stop[s].run].pool # NoPool
        /\ run[stop[s].run].cancelled
        /\ stop[s].at = "judged" /\ stop[s].dead => worker[run[stop[s].run].pool] = "dead"

OneJob == \A r, q \in Runs :
    run[r].job = "running" /\ run[q].job = "running" /\ run[r].pool = run[q].pool => r = q

RunSound(r) == Started(r) /\ Submitted(r) /\ Unreleased(r) /\ Stopped(r) /\ Worked(r) /\ Detached(r)

GuardInv ==
    /\ TypeOK
    /\ GuardsAgree
    /\ \A r \in Runs : RunSound(r)
    /\ \A s \in Stops : StopSound(s)
    /\ OneJob

-----------------------------------------------------------------------------
(* Facts about the pieces of the actions.                                   *)

\* No executor is the absence of one.
LEMMA NoPoolOut == NoPool \notin Pools
BY DEF NoPool, Pools

\* The initial state: nobody has taken anything.
LEMMA InitGuard == Init => GuardInv
<1>1. NewRun \in RunRecords /\ NoStop \in StopRecords
  BY DEF NewRun, NoStop, RunRecords, StopRecords, Kinds
<1>2. SUFFICES ASSUME Init PROVE GuardInv
  OBVIOUS
<1>3. /\ \A r \in Runs : run[r] = NewRun
      /\ \A s \in Stops : stop[s] = NoStop
  BY <1>2 DEF Init
<1>4. /\ \A r \in Runs : /\ run[r].handler = "idle" /\ run[r].task = "none" /\ run[r].job = "none"
                         /\ run[r].pool = NoPool /\ run[r].released = FALSE
                         /\ run[r].said = "nothing" /\ run[r].cancelled = FALSE
      /\ \A s \in Stops : stop[s].at = "idle"
  BY <1>3 DEF NewRun, NoStop
<1>5. TypeOK
  <2>1. run \in [Runs -> RunRecords] /\ stop \in [Stops -> StopRecords]
    BY <1>1, <1>2 DEF Init
  <2>2. /\ running \in BOOLEAN /\ semaphore \in {0, 1} /\ active \in Runs \cup {NoRun}
        /\ singleton \in Pools \cup {NoPool} /\ victims \subseteq Runs
        /\ worker \in [Pools -> {"absent", "alive", "signalled", "dead"}]
    BY <1>2 DEF Init
  <2>3. registry \in Seq(Runs)
    BY <1>2 DEF Init
  <2>4. QED
    BY <2>1, <2>2, <2>3 DEF TypeOK, RunRecords, StopRecords
<1>6. GuardsAgree
  BY <1>2, <1>4, GuardAssumption DEF Init, GuardsAgree, Holds
<1>7. \A r \in Runs : RunSound(r)
  BY <1>4 DEF RunSound, Started, Submitted, Unreleased, Stopped, Worked, Detached
<1>8. (\A s \in Stops : StopSound(s)) /\ OneJob
  BY <1>4 DEF StopSound, OneJob
<1>9. QED
  BY <1>5, <1>6, <1>7, <1>8 DEF GuardInv

\* A release gives the guards back at most once and to the run they were lent to.
LEMMA ReleaseSound ==
    ASSUME GuardInv, NEW r \in Runs, NEW rec \in RunRecords,
           run[r].handler # "idle", rec.handler # "idle",
           rec.released = run[r].released, ReleaseAs(r, rec)
    PROVE  /\ GuardsAgree'
           /\ running' \in BOOLEAN /\ semaphore' \in {0, 1} /\ active' \in Runs \cup {NoRun}
           /\ run' \in [Runs -> RunRecords]
           /\ \A q \in Runs \ {r} : run'[q] = run[q]
           /\ run'[r] = rec \/ run'[r] = [rec EXCEPT !.released = TRUE]
<1>1. run \in [Runs -> RunRecords] /\ running \in BOOLEAN /\ semaphore \in {0, 1}
      /\ active \in Runs \cup {NoRun}
  BY DEF GuardInv, TypeOK, RunRecords
<1> DEFINE freed == [rec EXCEPT !.released = TRUE]
<1>2. freed \in RunRecords /\ freed.released = TRUE /\ freed.handler = rec.handler
  BY DEF RunRecords
<1>3. \A q \in Runs : Holds(q) \in BOOLEAN /\ Holds(q)' \in BOOLEAN
  BY DEF Holds
<1>4. rec.released \in BOOLEAN
  BY DEF RunRecords
<1>5. CASE rec.blocked
  <2>1. run' = [run EXCEPT ![r] = rec] /\ UNCHANGED <<running, semaphore, active>>
    BY <1>5 DEF ReleaseAs
  <2>2. /\ run' \in [Runs -> RunRecords] /\ run'[r] = rec
        /\ \A q \in Runs \ {r} : run'[q] = run[q]
    BY <2>1, <1>1
  <2>3. \A q \in Runs : Holds(q)' = Holds(q)
    <3>1. TAKE q \in Runs
    <3>2. CASE q = r
      BY <2>2, <3>2, Zenon DEF Holds
    <3>3. CASE q # r
      BY <2>2, <3>3, Zenon DEF Holds
    <3>4. QED BY <3>2, <3>3
  <2>4. GuardsAgree'
    BY <2>1, <2>3, Zenon DEF GuardInv, GuardsAgree
  <2>5. QED
    BY <2>1, <2>2, <2>4, <1>1
<1>6. CASE ~rec.blocked
  <2>1. /\ run' = [run EXCEPT ![r] = freed]
        /\ semaphore' = IF rec.released THEN semaphore ELSE semaphore + 1
        /\ running' = (running /\ rec.released)
        /\ active' = IF active = r THEN NoRun ELSE active
    BY <1>6 DEF ReleaseAs
  <2>2. /\ run' \in [Runs -> RunRecords] /\ run'[r] = freed
        /\ \A q \in Runs \ {r} : run'[q] = run[q]
    BY <2>1, <1>1, <1>2
  <2>3. ~Holds(r)' /\ \A q \in Runs \ {r} : Holds(q)' = Holds(q)
    BY <1>2, <2>2, Zenon DEF Holds
  <2>4. CASE rec.released
    <3>1. ~Holds(r)
      BY <2>4 DEF Holds
    <3>2. active # r
      BY <3>1 DEF GuardInv, GuardsAgree
    <3>3. \A q \in Runs : Holds(q)' = Holds(q)
      <4>1. Holds(r)' = Holds(r)
        BY <2>3, <3>1, <1>3
      <4>2. QED
        BY <4>1, <2>3, Zenon
    <3>4. running' = running /\ semaphore' = semaphore /\ active' = active
      BY <2>1, <2>4, <3>2, <1>1
    <3>5. GuardsAgree'
      BY <3>3, <3>4, Zenon DEF GuardInv, GuardsAgree
    <3>6. QED
      BY <3>4, <3>5, <2>2, <1>1
  <2>5. CASE ~rec.released
    <3>1. Holds(r)
      BY <2>5 DEF Holds
    <3>2. active = r /\ running = TRUE /\ semaphore = 0
      BY <3>1, <1>1 DEF GuardInv, GuardsAgree
    <3>3. \A q \in Runs : ~Holds(q)'
      BY <2>3, <3>1 DEF GuardInv, GuardsAgree
    <3>4. running' = FALSE /\ semaphore' = 1 /\ active' = NoRun
      BY <2>1, <2>5, <3>2, <1>4
    <3>5. \A q \in Runs : Holds(q)' = (active' = q)
      BY <3>3, <3>4, <1>3, GuardAssumption
    <3>6. running' = (\E q \in Runs : Holds(q)')
      BY <3>3, <3>4
    <3>7. GuardsAgree'
      BY <3>3, <3>4, <3>5, <3>6 DEF GuardsAgree
    <3>8. QED
      BY <3>4, <3>7, <2>2
  <2>6. QED
    BY <2>4, <2>5
<1>7. QED
  BY <1>5, <1>6

\* A termination revives no worker, ends none either, and may detach the singleton.
LEMMA TerminateSound ==
    ASSUME TypeOK, NEW r \in Runs, NEW p \in Pools \cup {NoPool}, Terminate(p, r)
    PROVE  /\ singleton' \in {singleton, NoPool} /\ singleton' \in Pools \cup {NoPool}
           /\ p # NoPool => singleton' # p
           /\ worker' \in [Pools -> {"absent", "alive", "signalled", "dead"}]
           /\ \A q \in Pools : worker[q] = "dead" => worker'[q] = "dead"
           /\ \A q \in Pools : worker[q] \in {"alive", "signalled"}
                                  => worker'[q] \in {"alive", "signalled"}
           /\ victims' \subseteq Runs
BY DEF TypeOK, Terminate, InFlight

\* The registry holds runs, however often its oldest is dropped.
LEMMA RecordTyped ==
    ASSUME TypeOK, NEW r \in Runs, Record(r)
    PROVE  registry' \in Seq(Runs)
<1>1. Append(registry, r) \in Seq(Runs) /\ Len(Append(registry, r)) > 0
  BY DEF TypeOK
<1>2. Tail(Append(registry, r)) \in Seq(Runs)
  BY <1>1
<1>3. QED
  BY <1>1, <1>2 DEF Record, TypeOK

\* What keeps the guards as they are keeps them in agreement.
LEMMA GuardsKept ==
    ASSUME GuardsAgree, UNCHANGED <<running, semaphore, active>>,
           \A q \in Runs : Holds(q)' = Holds(q)
    PROVE  GuardsAgree'
BY Zenon DEF GuardsAgree

\* A step that submits nothing keeps one job to an executor.
LEMMA OneJobKept ==
    ASSUME OneJob,
           \A q \in Runs : run'[q].job = "running"
                              => run[q].job = "running" /\ run'[q].pool = run[q].pool
    PROVE  OneJob'
BY DEF OneJob

\* A step that takes back neither a submission, nor a cancellation, nor a death
\* leaves every stop it does not move with the run it is of.
LEMMA StopsKept ==
    ASSUME TypeOK, \A s \in Stops : StopSound(s),
           \A s \in Stops : stop'[s] = stop[s] \/ StopSound(s)',
           \A q \in Runs : run[q].handler # "idle" /\ run[q].pool # NoPool =>
                              /\ run'[q].handler # "idle" /\ run'[q].pool = run[q].pool
                              /\ run[q].cancelled => run'[q].cancelled,
           \A p \in Pools : worker[p] = "dead" => worker'[p] = "dead"
    PROVE  \A s \in Stops : StopSound(s)'
<1>1. TAKE s \in Stops
<1>2. \A q \in Runs : run[q].pool # NoPool => run[q].pool \in Pools
  BY DEF TypeOK
<1>3. CASE stop'[s] = stop[s]
  <2>1. SUFFICES ASSUME stop[s].at # "idle" PROVE StopSound(s)'
    BY <1>3 DEF StopSound
  <2>2. /\ stop[s].run \in Runs
        /\ run[stop[s].run].handler # "idle" /\ run[stop[s].run].pool # NoPool
        /\ run[stop[s].run].cancelled
        /\ stop[s].at = "judged" /\ stop[s].dead => worker[run[stop[s].run].pool] = "dead"
    BY <2>1 DEF StopSound
  <2>3. QED
    BY <1>2, <1>3, <2>2, Zenon DEF StopSound
<1>4. QED
  BY <1>3

\* A run no step touched is as sound as before.
LEMMA UntouchedRun ==
    ASSUME TypeOK, NEW q \in Runs, RunSound(q), run'[q] = run[q],
           singleton' \in {singleton, NoPool},
           \A p \in Pools : worker[p] \in {"alive", "signalled"}
                               => worker'[p] \in {"alive", "signalled"}
    PROVE  RunSound(q)'
<1>1. run[q].pool \in Pools \cup {NoPool}
  BY DEF TypeOK
<1>2. /\ Started(q)' /\ Submitted(q)' /\ Unreleased(q)' /\ Stopped(q)'
  BY Zenon DEF RunSound, Started, Submitted, Unreleased, Stopped
<1>3. run[q].job = "running" => run[q].pool \in Pools
  BY <1>1 DEF RunSound, Submitted
<1>4. Worked(q)' /\ Detached(q)'
  BY <1>3, NoPoolOut DEF RunSound, Worked, Detached
<1>5. QED
  BY <1>2, <1>4 DEF RunSound

\* How each step that only lets a run go on, ends it or releases it leaves the
\* other parts: named once for the actions below.
OthersUntouched(r) == \A q \in Runs \ {r} : run'[q] = run[q]

Milder(r) ==
    /\ run[r].handler # "idle" /\ run'[r].handler # "idle"
    /\ run'[r].pool = run[r].pool
    /\ run'[r].job = "running" => run[r].job = "running"
    /\ run[r].cancelled => run'[r].cancelled

NoWorkerRevived ==
    /\ \A q \in Pools : worker[q] = "dead" => worker'[q] = "dead"
    /\ \A q \in Pools : worker[q] \in {"alive", "signalled"}
                          => worker'[q] \in {"alive", "signalled"}

\* A step that is mild to one run and sound to the stops it moves preserves all but the
\* types, the agreement of the guards and what the run's own fields say.
LEMMA MildStep ==
    ASSUME GuardInv, NEW r \in Runs, OthersUntouched(r), Milder(r), NoWorkerRevived,
           singleton' \in {singleton, NoPool},
           \A s \in Stops : stop'[s] = stop[s] \/ StopSound(s)',
           TypeOK', GuardsAgree', RunSound(r)'
    PROVE  GuardInv'
<1>1. \A q \in Runs : RunSound(q)'
  <2>1. TAKE q \in Runs
  <2>2. CASE q = r
    BY <2>2
  <2>3. CASE q # r
    BY <2>3, UntouchedRun DEF OthersUntouched, NoWorkerRevived, GuardInv
  <2>4. QED
    BY <2>2, <2>3
<1>2. OneJob'
  <2>1. \A q \in Runs : run'[q].job = "running"
                           => run[q].job = "running" /\ run'[q].pool = run[q].pool
    BY DEF OthersUntouched, Milder
  <2>2. QED
    BY <2>1, OneJobKept DEF GuardInv
<1>3. \A s \in Stops : StopSound(s)'
  <2>1. \A q \in Runs : run[q].handler # "idle" /\ run[q].pool # NoPool =>
                           /\ run'[q].handler # "idle" /\ run'[q].pool = run[q].pool
                           /\ run[q].cancelled => run'[q].cancelled
    BY DEF OthersUntouched, Milder
  <2>2. QED
    BY <2>1, StopsKept DEF GuardInv, NoWorkerRevived
<1>4. QED
  BY <1>1, <1>2, <1>3 DEF GuardInv

\* A mild step that releases nothing leaves the guards where they are.
LEMMA GuardsUntouched ==
    ASSUME GuardInv, NEW r \in Runs, OthersUntouched(r),
           UNCHANGED <<running, semaphore, active>>,
           run[r].handler # "idle", run'[r].handler # "idle",
           run'[r].released = run[r].released
    PROVE  GuardsAgree'
<1>1. \A q \in Runs : Holds(q)' = Holds(q)
  <2>1. TAKE q \in Runs
  <2>2. CASE q = r
    BY <2>2 DEF Holds
  <2>3. CASE q # r
    BY <2>3, Zenon DEF Holds, OthersUntouched
  <2>4. QED
    BY <2>2, <2>3
<1>2. QED
  BY <1>1, GuardsKept DEF GuardInv

-----------------------------------------------------------------------------
(* One lemma per action.                                                    *)

\* A task that ends frees the guards its run still has; its job is over.
LEMMA TaskEndsStep ==
    ASSUME GuardInv, NEW r \in Runs, TaskEnds(r)
    PROVE  GuardInv'
<1> DEFINE rec == [run[r] EXCEPT !.task = "done"]
<1>1. run[r] \in RunRecords
  BY DEF GuardInv, TypeOK, RunRecords
<1>2. /\ rec \in RunRecords /\ rec.released = run[r].released /\ rec.task = "done"
      /\ rec.handler = run[r].handler /\ rec.pool = run[r].pool /\ rec.job = run[r].job
      /\ rec.cancelled = run[r].cancelled /\ rec.said = run[r].said
  BY <1>1 DEF RunRecords
<1>3. /\ ReleaseAs(r, rec) /\ UNCHANGED <<singleton, worker, stop, registry, victims>>
      /\ run[r].task = "running" /\ run[r].job \in {"finished", "lost"}
  BY DEF TaskEnds
<1>4. RunSound(r)
  BY DEF GuardInv
<1>5. run[r].handler # "idle"
  BY <1>3, <1>4 DEF RunSound, Started
<1>6. /\ GuardsAgree' /\ run' \in [Runs -> RunRecords] /\ OthersUntouched(r)
      /\ running' \in BOOLEAN /\ semaphore' \in {0, 1} /\ active' \in Runs \cup {NoRun}
      /\ run'[r] = rec \/ run'[r] = [rec EXCEPT !.released = TRUE]
  BY <1>2, <1>3, <1>5, ReleaseSound DEF OthersUntouched
<1>7. /\ run'[r].task = "done" /\ run'[r].handler = run[r].handler
      /\ run'[r].pool = run[r].pool /\ run'[r].job = run[r].job
      /\ run'[r].cancelled = run[r].cancelled /\ run'[r].said = run[r].said
  BY <1>2, <1>6 DEF RunRecords
<1>8. TypeOK'
  BY <1>3, <1>6 DEF GuardInv, TypeOK, RunRecords
<1>9. Milder(r) /\ NoWorkerRevived
  BY <1>3, <1>5, <1>7 DEF Milder, NoWorkerRevived
<1>10. RunSound(r)'
  BY <1>3, <1>4, <1>5, <1>7
     DEF RunSound, Started, Submitted, Unreleased, Stopped, Worked, Detached
<1>11. QED
  BY <1>3, <1>6, <1>8, <1>9, <1>10, MildStep


\* A progress queue that failed gives the guards back, one that is ready starts
\* the task of a run nobody has stopped.
LEMMA QueueReadyStep ==
    ASSUME GuardInv, NEW r \in Runs, QueueReady(r)
    PROVE  GuardInv'
<1>1. run[r] \in RunRecords /\ RunSound(r)
  BY DEF GuardInv, TypeOK, RunRecords
<1>2. /\ UNCHANGED <<singleton, worker, stop, registry, victims>>
      /\ run[r].handler = "preparing" /\ run[r].handler # "idle"
  BY DEF QueueReady
<1>3. run[r].task = "none" /\ run[r].pool = NoPool /\ run[r].job = "none"
  BY <1>1, <1>2 DEF RunSound, Started, Submitted
<1>4. CASE ReleaseAs(r, [run[r] EXCEPT !.handler = "over"])
  <2> DEFINE rec == [run[r] EXCEPT !.handler = "over"]
  <2>1. /\ rec \in RunRecords /\ rec.released = run[r].released /\ rec.task = run[r].task
        /\ rec.handler = "over" /\ rec.pool = run[r].pool /\ rec.job = run[r].job
        /\ rec.cancelled = run[r].cancelled /\ rec.said = run[r].said
    BY <1>1 DEF RunRecords
  <2>2. /\ GuardsAgree' /\ run' \in [Runs -> RunRecords] /\ OthersUntouched(r)
        /\ running' \in BOOLEAN /\ semaphore' \in {0, 1} /\ active' \in Runs \cup {NoRun}
        /\ run'[r] = rec \/ run'[r] = [rec EXCEPT !.released = TRUE]
    BY <1>2, <1>4, <2>1, ReleaseSound DEF OthersUntouched
  <2>3. /\ run'[r].task = run[r].task /\ run'[r].handler = "over"
        /\ run'[r].pool = run[r].pool /\ run'[r].job = run[r].job
        /\ run'[r].cancelled = run[r].cancelled /\ run'[r].said = run[r].said
    BY <2>1, <2>2 DEF RunRecords
  <2>4. TypeOK'
    BY <1>2, <2>2 DEF GuardInv, TypeOK, RunRecords
  <2>5. Milder(r) /\ NoWorkerRevived
    BY <1>2, <2>3 DEF Milder, NoWorkerRevived
  <2>6. RunSound(r)'
    BY <1>1, <1>3, <2>3
       DEF RunSound, Started, Submitted, Unreleased, Stopped, Worked, Detached
  <2>7. QED
    BY <1>2, <2>2, <2>4, <2>5, <2>6, MildStep
<1>5. CASE /\ ~run[r].cancelled
           /\ run' = [run EXCEPT ![r].handler = "streaming", ![r].task = "created"]
           /\ UNCHANGED <<running, semaphore, active>>
  <2> DEFINE rec == [run[r] EXCEPT !.handler = "streaming", !.task = "created"]
  <2>1. rec \in RunRecords
    BY <1>1 DEF RunRecords
  <2>2. run \in [Runs -> RunRecords] /\ run' = [run EXCEPT ![r] = rec]
    BY <1>5 DEF GuardInv, TypeOK, RunRecords
  <2>3. run' \in [Runs -> RunRecords] /\ OthersUntouched(r) /\ run'[r] = rec
    BY <2>1, <2>2 DEF OthersUntouched
  <2>4. /\ run' \in [Runs -> RunRecords] /\ OthersUntouched(r)
        /\ run'[r].task = "created" /\ run'[r].handler = "streaming"
        /\ run'[r].pool = run[r].pool /\ run'[r].job = run[r].job
        /\ run'[r].released = run[r].released
        /\ run'[r].cancelled = run[r].cancelled /\ run'[r].said = run[r].said
    BY <1>1, <2>3 DEF RunRecords
  <2>5. TypeOK'
    BY <1>2, <1>5, <2>4 DEF GuardInv, TypeOK, RunRecords
  <2>6. GuardsAgree'
    BY <1>2, <1>5, <2>4, GuardsUntouched
  <2>7. Milder(r) /\ NoWorkerRevived
    BY <1>2, <2>4 DEF Milder, NoWorkerRevived
  <2>8. RunSound(r)'
    BY <1>1, <1>2, <1>3, <1>5, <2>4
       DEF RunSound, Started, Submitted, Unreleased, Stopped, Worked, Detached
  <2>9. QED
    BY <1>2, <2>4, <2>5, <2>6, <2>7, <2>8, MildStep
<1>6. QED
  BY <1>4, <1>5 DEF QueueReady

\* The job of a worker that finishes no longer runs.
LEMMA WorkerFinishesStep ==
    ASSUME GuardInv, NEW r \in Runs, WorkerFinishes(r)
    PROVE  GuardInv'
<1>1. run[r] \in RunRecords /\ RunSound(r)
  BY DEF GuardInv, TypeOK, RunRecords
<1>2. /\ UNCHANGED <<running, semaphore, active, singleton, worker, stop, registry, victims>>
      /\ run[r].job = "running" /\ run' = [run EXCEPT ![r].job = "finished"]
  BY DEF WorkerFinishes
<1>3. run[r].handler # "idle"
  BY <1>1, <1>2 DEF RunSound, Started, Submitted
<1>4. /\ run' \in [Runs -> RunRecords] /\ OthersUntouched(r)
      /\ run'[r].task = run[r].task /\ run'[r].handler = run[r].handler
      /\ run'[r].pool = run[r].pool /\ run'[r].job = "finished"
      /\ run'[r].released = run[r].released
      /\ run'[r].cancelled = run[r].cancelled /\ run'[r].said = run[r].said
  BY <1>2 DEF GuardInv, TypeOK, RunRecords, OthersUntouched
<1>5. TypeOK'
  BY <1>2, <1>4 DEF GuardInv, TypeOK, RunRecords
<1>6. GuardsAgree'
  BY <1>2, <1>3, <1>4, GuardsUntouched
<1>7. Milder(r) /\ NoWorkerRevived
  BY <1>2, <1>3, <1>4 DEF Milder, NoWorkerRevived
<1>8. RunSound(r)'
  BY <1>1, <1>2, <1>4
     DEF RunSound, Started, Submitted, Unreleased, Stopped, Worked, Detached
<1>9. QED
  BY <1>2, <1>4, <1>5, <1>6, <1>7, <1>8, MildStep

\* A handler that is over, whatever it recorded or terminated on its way out,
\* leaves the guards to whoever holds them.
LEMMA HandlerOver ==
    ASSUME GuardInv, NEW r \in Runs, run[r].handler # "idle", run[r].handler # "preparing",
           run' = [run EXCEPT ![r].handler = "over"],
           UNCHANGED <<running, semaphore, active, stop>>,
           NoWorkerRevived, singleton' \in {singleton, NoPool},
           singleton' \in Pools \cup {NoPool}, registry' \in Seq(Runs), victims' \subseteq Runs,
           worker' \in [Pools -> {"absent", "alive", "signalled", "dead"}]
    PROVE  GuardInv'
<1>1. run[r] \in RunRecords /\ RunSound(r)
  BY DEF GuardInv, TypeOK, RunRecords
<1>2. /\ run' \in [Runs -> RunRecords] /\ OthersUntouched(r)
      /\ run'[r].task = run[r].task /\ run'[r].handler = "over"
      /\ run'[r].pool = run[r].pool /\ run'[r].job = run[r].job
      /\ run'[r].released = run[r].released
      /\ run'[r].cancelled = run[r].cancelled /\ run'[r].said = run[r].said
  <2> DEFINE rec == [run[r] EXCEPT !.handler = "over"]
  <2>1. rec \in RunRecords
    BY <1>1 DEF RunRecords
  <2>2. run \in [Runs -> RunRecords] /\ run' = [run EXCEPT ![r] = rec]
    BY DEF GuardInv, TypeOK, RunRecords
  <2>3. run' \in [Runs -> RunRecords] /\ OthersUntouched(r) /\ run'[r] = rec
    BY <2>1, <2>2 DEF OthersUntouched
  <2>4. QED
    BY <1>1, <2>3 DEF RunRecords
<1>3. TypeOK'
  BY <1>2 DEF GuardInv, TypeOK, RunRecords
<1>4. GuardsAgree'
  BY <1>2, GuardsUntouched
<1>5. Milder(r)
  BY <1>2 DEF Milder
<1>6. run[r].pool \in Pools \cup {NoPool}
  BY DEF GuardInv, TypeOK
<1>7. RunSound(r)'
  <2>1. Started(r)' /\ Submitted(r)' /\ Unreleased(r)' /\ Stopped(r)'
    BY <1>1, <1>2 DEF RunSound, Started, Submitted, Unreleased, Stopped
  <2>2. Worked(r)' /\ Detached(r)'
    BY <1>1, <1>2, <1>6 DEF RunSound, Submitted, Worked, Detached, NoWorkerRevived
  <2>3. QED
    BY <2>1, <2>2 DEF RunSound
<1>8. QED
  BY <1>2, <1>3, <1>4, <1>5, <1>7, MildStep

\* A handler that answers with the outcome of its task, or was never read.
LEMMA HandlerReturnsStep ==
    ASSUME GuardInv, NEW r \in Runs, HandlerReturns(r) \/ StreamEnds(r) \/ StreamNeverStarts(r)
    PROVE  GuardInv'
<1>1. /\ run[r].handler \in {"waiting", "streaming"}
      /\ run' = [run EXCEPT ![r].handler = "over"]
      /\ UNCHANGED <<running, semaphore, active, singleton, worker, stop, victims>>
  BY DEF HandlerReturns, StreamEnds, StreamNeverStarts
<1>2. registry' \in Seq(Runs)
  BY RecordTyped DEF HandlerReturns, StreamEnds, StreamNeverStarts, GuardInv, TypeOK
<1>3. NoWorkerRevived
  BY <1>1 DEF NoWorkerRevived
<1>4. /\ singleton' \in Pools \cup {NoPool} /\ victims' \subseteq Runs
      /\ worker' \in [Pools -> {"absent", "alive", "signalled", "dead"}]
  BY <1>1 DEF GuardInv, TypeOK
<1>5. QED
  BY <1>1, <1>2, <1>3, <1>4, HandlerOver

\* A handler that gives up signals its executor and keeps the guards for the task.
LEMMA HandlerTimesOutStep ==
    ASSUME GuardInv, NEW r \in Runs, HandlerTimesOut(r)
    PROVE  GuardInv'
<1>1. /\ run[r].handler = "waiting" /\ Terminate(run[r].pool, r)
      /\ run' = [run EXCEPT ![r].handler = "over"]
      /\ UNCHANGED <<running, semaphore, active, stop, registry>>
  BY DEF HandlerTimesOut
<1>2. TypeOK /\ run[r].pool \in Pools \cup {NoPool}
  BY DEF GuardInv, TypeOK
<1>3. /\ singleton' \in {singleton, NoPool} /\ singleton' \in Pools \cup {NoPool}
      /\ victims' \subseteq Runs /\ NoWorkerRevived
      /\ worker' \in [Pools -> {"absent", "alive", "signalled", "dead"}]
  BY <1>1, <1>2, TerminateSound DEF NoWorkerRevived
<1>4. registry' \in Seq(Runs)
  BY <1>1, <1>2 DEF TypeOK
<1>5. QED
  BY <1>1, <1>3, <1>4, HandlerOver

\* A generator that closes early releases its run and detaches its executor, so
\* that no later run is queued behind the job it leaves.
LEMMA StreamClosesStep ==
    ASSUME GuardInv, NEW r \in Runs, StreamCloses(r)
    PROVE  GuardInv'
<1> DEFINE rec == [run[r] EXCEPT !.handler = "over"]
<1>1. run[r] \in RunRecords /\ RunSound(r) /\ TypeOK
  BY DEF GuardInv, TypeOK, RunRecords
<1>2. /\ run[r].handler = "streaming" /\ run[r].handler # "idle"
      /\ run[r].task \in {"running", "done"} /\ ReleaseAs(r, rec)
      /\ UNCHANGED <<stop, registry>>
  BY DEF StreamCloses
<1>3. /\ rec \in RunRecords /\ rec.released = run[r].released /\ rec.task = run[r].task
      /\ rec.handler = "over" /\ rec.pool = run[r].pool /\ rec.job = run[r].job
      /\ rec.cancelled = run[r].cancelled /\ rec.said = run[r].said
  BY <1>1 DEF RunRecords
<1>4. /\ GuardsAgree' /\ run' \in [Runs -> RunRecords] /\ OthersUntouched(r)
      /\ running' \in BOOLEAN /\ semaphore' \in {0, 1} /\ active' \in Runs \cup {NoRun}
      /\ run'[r] = rec \/ run'[r] = [rec EXCEPT !.released = TRUE]
  BY <1>2, <1>3, ReleaseSound DEF OthersUntouched
<1>5. /\ run'[r].task = run[r].task /\ run'[r].handler = "over"
      /\ run'[r].pool = run[r].pool /\ run'[r].job = run[r].job
      /\ run'[r].cancelled = run[r].cancelled /\ run'[r].said = run[r].said
  BY <1>3, <1>4 DEF RunRecords
<1>6. run[r].pool \in Pools \cup {NoPool}
  BY <1>1 DEF TypeOK
<1>7. /\ singleton' \in {singleton, NoPool} /\ singleton' \in Pools \cup {NoPool}
      /\ run[r].pool # NoPool => singleton' # run[r].pool
      /\ victims' \subseteq Runs /\ NoWorkerRevived
      /\ worker' \in [Pools -> {"absent", "alive", "signalled", "dead"}]
  <2>1. CASE run[r].pool # NoPool
    <3>1. Terminate(run[r].pool, r)
      BY <2>1 DEF StreamCloses
    <3>2. QED
      BY <1>1, <1>6, <2>1, <3>1, TerminateSound DEF NoWorkerRevived
  <2>2. CASE run[r].pool = NoPool
    <3>1. UNCHANGED <<singleton, worker, victims>>
      BY <2>2 DEF StreamCloses
    <3>2. QED
      BY <1>1, <2>2, <3>1 DEF NoWorkerRevived, TypeOK
  <2>3. QED
    BY <2>1, <2>2
<1>8. TypeOK'
  BY <1>1, <1>2, <1>4, <1>7 DEF TypeOK, RunRecords
<1>9. Milder(r)
  BY <1>2, <1>5 DEF Milder
<1>10. RunSound(r)'
  <2>1. Started(r)' /\ Submitted(r)' /\ Unreleased(r)' /\ Stopped(r)'
    BY <1>1, <1>2, <1>5 DEF RunSound, Started, Submitted, Unreleased, Stopped
  <2>2. Worked(r)' /\ Detached(r)'
    BY <1>1, <1>5, <1>6, <1>7 DEF RunSound, Submitted, Worked, Detached, NoWorkerRevived
  <2>3. QED
    BY <2>1, <2>2 DEF RunSound
<1>11. QED
  BY <1>2, <1>4, <1>7, <1>8, <1>9, <1>10, MildStep

\* An endpoint lends the guards to a run nobody held them against.
LEMMA TakeGuardsStep ==
    ASSUME GuardInv, NEW r \in Runs, NEW kind \in Kinds, NEW rec \in {Waiting, Preparing},
           TakeGuards(r, kind, rec)
    PROVE  GuardInv'
<1> DEFINE new == [rec EXCEPT !.kind = kind]
<1>1. /\ new \in RunRecords /\ new.handler \in {"waiting", "preparing"}
      /\ new.task \in {"none", "created"}
      /\ new.handler = "preparing" => new.task = "none"
      /\ new.job = "none" /\ new.pool = NoPool
      /\ new.released = FALSE /\ new.said = "nothing"
  BY DEF Waiting, Preparing, NewRun, RunRecords, Kinds
<1>2. /\ run[r].handler = "idle" /\ ~running /\ semaphore > 0
      /\ running' = TRUE /\ semaphore' = semaphore - 1 /\ active' = r
      /\ run' = [run EXCEPT ![r] = new]
      /\ UNCHANGED <<singleton, worker, stop, registry, victims>>
  BY DEF TakeGuards
<1>3. run \in [Runs -> RunRecords] /\ TypeOK /\ RunSound(r)
  BY DEF GuardInv, TypeOK, RunRecords
<1>4. run' \in [Runs -> RunRecords] /\ run'[r] = new /\ OthersUntouched(r)
  BY <1>1, <1>2, <1>3 DEF OthersUntouched
<1>5. TypeOK'
  BY <1>2, <1>3, <1>4 DEF TypeOK, RunRecords
<1>6. GuardsAgree'
  <2>1. \A q \in Runs : ~Holds(q)
    BY <1>2, <1>3 DEF GuardInv, GuardsAgree, TypeOK
  <2>2. Holds(r)'
    BY <1>1, <1>4 DEF Holds
  <2>3. \A q \in Runs : q # r => ~Holds(q)'
    BY <1>4, <2>1 DEF Holds, OthersUntouched
  <2>4. \A q \in Runs : Holds(q)' \in BOOLEAN
    BY DEF Holds
  <2>5. \A q \in Runs : Holds(q)' = (active' = q)
    BY <1>2, <2>2, <2>3, <2>4
  <2>6. semaphore' = 0
    BY <1>2, <1>3 DEF TypeOK
  <2>7. running' = (\E q \in Runs : Holds(q)')
    BY <1>2, <2>2
  <2>8. QED
    BY <1>2, <2>2, <2>3, <2>5, <2>6, <2>7 DEF GuardsAgree
<1>7. \A q \in Runs : RunSound(q)'
  <2>1. TAKE q \in Runs
  <2>2. CASE q = r
    <3> HIDE DEF new
    <3>1. /\ run'[r].handler \in {"waiting", "preparing"}
          /\ run'[r].task \in {"none", "created"}
          /\ run'[r].handler = "preparing" => run'[r].task = "none"
          /\ run'[r].job = "none" /\ run'[r].pool = NoPool
          /\ run'[r].released = FALSE /\ run'[r].said = "nothing"
      BY <1>1, <1>4
    <3>2. QED
      BY <2>2, <3>1
         DEF RunSound, Started, Submitted, Unreleased, Stopped, Worked, Detached
  <2>3. CASE q # r
    BY <1>2, <1>3, <1>4, <2>3, UntouchedRun DEF OthersUntouched, GuardInv
  <2>4. QED
    BY <2>2, <2>3
<1>8. OneJob'
  <2>1. \A q \in Runs : run'[q].job = "running"
                           => run[q].job = "running" /\ run'[q].pool = run[q].pool
    BY <1>1, <1>4 DEF OthersUntouched
  <2>2. QED
    BY <2>1, OneJobKept DEF GuardInv
<1>9. \A s \in Stops : StopSound(s)'
  <2>1. \A q \in Runs : run[q].handler # "idle" /\ run[q].pool # NoPool =>
                           /\ run'[q].handler # "idle" /\ run'[q].pool = run[q].pool
                           /\ run[q].cancelled => run'[q].cancelled
    BY <1>2, <1>4 DEF OthersUntouched
  <2>2. QED
    BY <1>2, <1>3, <2>1, StopsKept DEF GuardInv
<1>10. QED
  BY <1>5, <1>6, <1>7, <1>8, <1>9 DEF GuardInv

\* A run that was not stopped still holds the guards when its task starts, so the
\* executor it is given has no other job: a released one was detached from it.
LEMMA StartTaskStep ==
    ASSUME GuardInv, NEW r \in Runs, StartTask(r)
    PROVE  GuardInv'
<1>1. run[r] \in RunRecords /\ RunSound(r) /\ TypeOK /\ run \in [Runs -> RunRecords]
  BY DEF GuardInv, TypeOK, RunRecords
<1>2. run[r].task = "created" /\ UNCHANGED <<stop, registry, victims>>
  BY DEF StartTask
<1>3. run[r].handler # "idle" /\ run[r].pool = NoPool /\ run[r].job = "none"
  BY <1>1, <1>2 DEF RunSound, Started, Submitted
<1>4. CASE run[r].cancelled
  <2> DEFINE rec == [run[r] EXCEPT !.task = "done"]
  <2>1. ReleaseAs(r, rec) /\ UNCHANGED <<singleton, worker>>
    BY <1>4 DEF StartTask
  <2>2. /\ rec \in RunRecords /\ rec.released = run[r].released /\ rec.task = "done"
        /\ rec.handler = run[r].handler /\ rec.pool = run[r].pool /\ rec.job = run[r].job
        /\ rec.cancelled = run[r].cancelled /\ rec.said = run[r].said
    BY <1>1 DEF RunRecords
  <2>3. /\ GuardsAgree' /\ run' \in [Runs -> RunRecords] /\ OthersUntouched(r)
        /\ running' \in BOOLEAN /\ semaphore' \in {0, 1} /\ active' \in Runs \cup {NoRun}
        /\ run'[r] = rec \/ run'[r] = [rec EXCEPT !.released = TRUE]
    BY <1>3, <2>1, <2>2, ReleaseSound DEF OthersUntouched
  <2>4. /\ run'[r].task = "done" /\ run'[r].handler = run[r].handler
        /\ run'[r].pool = run[r].pool /\ run'[r].job = run[r].job
        /\ run'[r].cancelled = run[r].cancelled /\ run'[r].said = run[r].said
    BY <2>2, <2>3 DEF RunRecords
  <2>5. TypeOK'
    BY <1>1, <1>2, <2>1, <2>3 DEF TypeOK, RunRecords
  <2>6. Milder(r) /\ NoWorkerRevived
    BY <1>3, <2>1, <2>4 DEF Milder, NoWorkerRevived
  <2>7. RunSound(r)'
    BY <1>1, <1>2, <1>3, <2>1, <2>4
       DEF RunSound, Started, Submitted, Unreleased, Stopped, Worked, Detached
  <2>8. QED
    BY <1>2, <2>1, <2>3, <2>5, <2>6, <2>7, MildStep
<1>5. CASE ~run[r].cancelled
  <2>1. PICK p \in Pools :
            /\ GetPool(p) /\ singleton' = p /\ worker' = [worker EXCEPT ![p] = "alive"]
            /\ run' = [run EXCEPT ![r].task = "running", ![r].job = "running", ![r].pool = p]
            /\ UNCHANGED <<running, semaphore, active>>
    BY <1>5 DEF StartTask
  <2> DEFINE rec == [run[r] EXCEPT !.task = "running", !.job = "running", !.pool = p]
  <2>2. /\ rec \in RunRecords /\ rec.task = "running" /\ rec.job = "running"
        /\ rec.pool = p /\ rec.handler = run[r].handler /\ rec.released = run[r].released
        /\ rec.cancelled = run[r].cancelled /\ rec.said = run[r].said
    BY <1>1 DEF RunRecords
  <2>3. run' = [run EXCEPT ![r] = rec]
    BY <1>1, <2>1
  <2>4. run' \in [Runs -> RunRecords] /\ OthersUntouched(r) /\ run'[r] = rec
    BY <1>1, <2>2, <2>3 DEF OthersUntouched
  <2>5. TypeOK'
    BY <1>1, <1>2, <2>1, <2>4 DEF TypeOK, RunRecords
  <2>6. GuardsAgree'
    BY <1>3, <2>1, <2>2, <2>4, GuardsUntouched
  <2>7. run[r].released = FALSE /\ run[r].said # "stopped"
    BY <1>1, <1>2, <1>5 DEF RunSound, Unreleased, Stopped, RunRecords
  <2>8. (p = singleton /\ worker[p] # "dead") \/ worker[p] = "absent"
    BY <2>1 DEF GetPool, Broken
  <2>9. \A q \in Runs \ {r} : run[q].job = "running" => run[q].pool # p
    <3>1. TAKE q \in Runs \ {r}
    <3>2. SUFFICES ASSUME run[q].job = "running", run[q].pool = p PROVE FALSE
      OBVIOUS
    <3>3. RunSound(q)
      BY DEF GuardInv
    <3>4. worker[p] \in {"alive", "signalled"}
      BY <3>2, <3>3 DEF RunSound, Worked
    <3>5. ~run[q].released
      BY <2>8, <3>2, <3>3, <3>4 DEF RunSound, Detached
    <3>6. run[q].handler # "idle"
      BY <3>2, <3>3, NoPoolOut DEF RunSound, Started, Submitted
    <3>7. Holds(q) /\ Holds(r)
      BY <1>3, <2>7, <3>5, <3>6 DEF Holds
    <3>8. QED
      BY <3>7 DEF GuardInv, GuardsAgree
  <2>10. NoWorkerRevived /\ worker'[p] = "alive"
    BY <1>1, <2>1, <2>8 DEF NoWorkerRevived, TypeOK
  <2>11. \A q \in Runs : RunSound(q)'
    <3>1. TAKE q \in Runs
    <3>2. CASE q = r
      <4> HIDE DEF rec
      <4>1. /\ run'[r].handler = run[r].handler /\ run'[r].task = "running"
            /\ run'[r].job = "running" /\ run'[r].pool = p
            /\ run'[r].released = FALSE /\ run'[r].said # "stopped"
        BY <2>2, <2>4, <2>7
      <4>2. run[r].handler \notin {"idle", "preparing"}
        BY <1>1, <1>2 DEF RunSound, Started
      <4>3. QED
        BY <2>10, <3>2, <4>1, <4>2, NoPoolOut
           DEF RunSound, Started, Submitted, Unreleased, Stopped, Worked, Detached
    <3>3. CASE q # r
      <4>1. RunSound(q) /\ run'[q] = run[q] /\ run[q].pool \in Pools \cup {NoPool}
        BY <1>1, <2>4, <3>3 DEF GuardInv, OthersUntouched, TypeOK
      <4>2. Started(q)' /\ Submitted(q)' /\ Unreleased(q)' /\ Stopped(q)'
        BY <4>1, Zenon DEF RunSound, Started, Submitted, Unreleased, Stopped
      <4>3. Worked(q)'
        BY <2>10, <4>1 DEF RunSound, Submitted, Worked, NoWorkerRevived
      <4>4. Detached(q)'
        BY <2>1, <2>9, <3>3, <4>1 DEF Detached
      <4>5. QED
        BY <4>2, <4>3, <4>4 DEF RunSound
    <3>4. QED
      BY <3>2, <3>3
  <2>12. OneJob'
    <3> HIDE DEF rec
    <3>1. run'[r].pool = p /\ \A q \in Runs \ {r} : run'[q] = run[q]
      BY <2>2, <2>4 DEF OthersUntouched
    <3>2. QED
      BY <2>9, <3>1 DEF OneJob, GuardInv
  <2>13. \A s \in Stops : StopSound(s)'
    <3>1. \A q \in Runs : run[q].handler # "idle" /\ run[q].pool # NoPool =>
                             /\ run'[q].handler # "idle" /\ run'[q].pool = run[q].pool
                             /\ run[q].cancelled => run'[q].cancelled
      BY <1>3, <2>4 DEF OthersUntouched
    <3>2. QED
      BY <1>1, <1>2, <2>10, <3>1, StopsKept DEF GuardInv, NoWorkerRevived
  <2>14. QED
    BY <2>5, <2>6, <2>11, <2>12, <2>13 DEF GuardInv
<1>6. QED
  BY <1>4, <1>5

\* A worker takes its jobs with it and stays dead.
LEMMA WorkerDiesStep ==
    ASSUME GuardInv, NEW p \in Pools, WorkerDies(p)
    PROVE  GuardInv'
<1>1. /\ worker' = [worker EXCEPT ![p] = "dead"]
      /\ run' = [q \in Runs |->
                   IF q \in InFlight(p) THEN [run[q] EXCEPT !.job = "lost"] ELSE run[q]]
      /\ UNCHANGED <<running, semaphore, active, singleton, stop, registry, victims>>
  BY DEF WorkerDies
<1>2. TypeOK /\ run \in [Runs -> RunRecords]
  BY DEF GuardInv, TypeOK, RunRecords
<1>3. \A q \in Runs :
        /\ run'[q] \in RunRecords
        /\ run'[q].handler = run[q].handler /\ run'[q].task = run[q].task
        /\ run'[q].pool = run[q].pool /\ run'[q].released = run[q].released
        /\ run'[q].cancelled = run[q].cancelled /\ run'[q].said = run[q].said
        /\ run'[q].job = IF q \in InFlight(p) THEN "lost" ELSE run[q].job
  <2>1. TAKE q \in Runs
  <2>2. run[q] \in RunRecords
    BY <1>2
  <2>3. CASE q \in InFlight(p)
    BY <1>1, <2>2, <2>3 DEF RunRecords
  <2>4. CASE q \notin InFlight(p)
    BY <1>1, <2>2, <2>4
  <2>5. QED
    BY <2>3, <2>4
<1>4. TypeOK'
  <2>1. run' \in [Runs -> RunRecords]
    BY <1>1, <1>3
  <2>2. QED
    BY <1>1, <1>2, <2>1 DEF TypeOK, RunRecords
<1>5. GuardsAgree'
  <2>1. \A q \in Runs : Holds(q)' = Holds(q)
    BY <1>3 DEF Holds
  <2>2. QED
    BY <1>1, <2>1, GuardsKept DEF GuardInv
<1>6. \A q \in Runs : run'[q].job = "running" => run[q].job = "running" /\ run[q].pool # p
  BY <1>3 DEF InFlight
<1>7. \A q \in Runs : RunSound(q)'
  <2>1. TAKE q \in Runs
  <2>2. RunSound(q) /\ run[q].pool \in Pools \cup {NoPool}
    BY <1>2 DEF GuardInv, TypeOK
  <2>3. Started(q)' /\ Unreleased(q)' /\ Stopped(q)' /\ Detached(q)'
    BY <1>1, <1>3, <1>6, <2>2 DEF RunSound, Started, Unreleased, Stopped, Detached
  <2>4. Submitted(q)'
    BY <1>3, <2>2 DEF RunSound, Submitted, InFlight
  <2>5. Worked(q)'
    BY <1>1, <1>2, <1>3, <1>6, <2>2 DEF RunSound, Submitted, Worked, TypeOK
  <2>6. QED
    BY <2>3, <2>4, <2>5 DEF RunSound
<1>8. OneJob'
  BY <1>3, <1>6, OneJobKept DEF GuardInv
<1>9. \A q \in Pools : worker[q] = "dead" => worker'[q] = "dead"
  BY <1>1, <1>2 DEF TypeOK
<1>10. \A s \in Stops : StopSound(s)'
  BY <1>1, <1>2, <1>3, <1>9, StopsKept DEF GuardInv
<1>11. QED
  BY <1>4, <1>5, <1>7, <1>8, <1>10 DEF GuardInv

\* A stop of a run that was never submitted releases it, any other is cancelled
\* and its stop goes to kill the worker.
LEMMA CancelStep ==
    ASSUME GuardInv, NEW s \in Stops, Cancel(s)
    PROVE  GuardInv'
<1> PICK r \in Runs : r = active
  BY DEF Cancel, GuardInv, TypeOK
<1>1. r \in Runs /\ UNCHANGED <<singleton, worker, registry, victims>>
  BY DEF Cancel
<1>2. run[r] \in RunRecords /\ RunSound(r) /\ TypeOK /\ run \in [Runs -> RunRecords]
  BY <1>1 DEF GuardInv, TypeOK, RunRecords
<1>3. Holds(r)
  BY <1>1 DEF GuardInv, GuardsAgree
<1>4. run[r].handler # "idle"
  BY <1>3 DEF Holds
<1>5. CASE run[r].pool = NoPool
  <2> DEFINE rec == [run[r] EXCEPT !.cancelled = TRUE, !.said = "stopped"]
  <2>1. ReleaseAs(r, rec) /\ UNCHANGED stop
    BY <1>5 DEF Cancel
  <2>2. /\ rec \in RunRecords /\ rec.released = run[r].released /\ rec.task = run[r].task
        /\ rec.handler = run[r].handler /\ rec.pool = run[r].pool /\ rec.job = run[r].job
        /\ rec.cancelled = TRUE
    BY <1>2 DEF RunRecords
  <2>3. /\ GuardsAgree' /\ run' \in [Runs -> RunRecords] /\ OthersUntouched(r)
        /\ running' \in BOOLEAN /\ semaphore' \in {0, 1} /\ active' \in Runs \cup {NoRun}
        /\ run'[r] = rec \/ run'[r] = [rec EXCEPT !.released = TRUE]
    BY <1>1, <1>4, <2>1, <2>2, ReleaseSound DEF OthersUntouched
  <2> HIDE DEF rec
  <2>4. /\ run'[r].task = run[r].task /\ run'[r].handler = run[r].handler
        /\ run'[r].pool = run[r].pool /\ run'[r].job = run[r].job
        /\ run'[r].cancelled = TRUE
    BY <2>2, <2>3 DEF RunRecords
  <2>5. TypeOK'
    BY <1>1, <1>2, <2>1, <2>3 DEF TypeOK, RunRecords
  <2>6. Milder(r) /\ NoWorkerRevived
    BY <1>1, <1>4, <2>4 DEF Milder, NoWorkerRevived
  <2>7. run[r].job = "none"
    BY <1>2, <1>5 DEF RunSound, Submitted
  <2>8. RunSound(r)'
    BY <1>2, <1>5, <2>4, <2>7
       DEF RunSound, Started, Submitted, Unreleased, Stopped, Worked, Detached
  <2>9. QED
    BY <1>1, <2>1, <2>3, <2>5, <2>6, <2>8, MildStep
<1>6. CASE run[r].pool # NoPool
  <2> DEFINE rec == [run[r] EXCEPT !.cancelled = TRUE]
             new == [at |-> "thread", run |-> r, dead |-> FALSE]
  <2>1. /\ run' = [run EXCEPT ![r].cancelled = TRUE] /\ stop' = [stop EXCEPT ![s] = new]
        /\ UNCHANGED <<running, semaphore, active>>
    BY <1>6 DEF Cancel
  <2>2. /\ rec \in RunRecords /\ rec.released = run[r].released /\ rec.task = run[r].task
        /\ rec.handler = run[r].handler /\ rec.pool = run[r].pool /\ rec.job = run[r].job
        /\ rec.said = run[r].said /\ rec.cancelled = TRUE
    BY <1>2 DEF RunRecords
  <2>3. run' = [run EXCEPT ![r] = rec]
    BY <1>2, <2>1
  <2>4. run' \in [Runs -> RunRecords] /\ OthersUntouched(r) /\ run'[r] = rec
    BY <1>1, <1>2, <2>2, <2>3 DEF OthersUntouched
  <2>5. stop' \in [Stops -> StopRecords] /\ stop'[s] = new
        /\ \A z \in Stops \ {s} : stop'[z] = stop[z]
    <3>1. new \in StopRecords
      BY <1>1 DEF StopRecords
    <3>2. stop \in [Stops -> StopRecords]
      BY <1>2 DEF TypeOK, StopRecords
    <3>3. QED
      BY <2>1, <3>1, <3>2
  <2>6. TypeOK'
    BY <1>1, <1>2, <2>1, <2>4, <2>5 DEF TypeOK, RunRecords, StopRecords
  <2> HIDE DEF rec
  <2>7. GuardsAgree'
    BY <1>1, <1>4, <2>1, <2>2, <2>4, GuardsUntouched
  <2>8. Milder(r) /\ NoWorkerRevived
    BY <1>1, <1>4, <2>2, <2>4 DEF Milder, NoWorkerRevived
  <2>9. RunSound(r)'
    BY <1>1, <1>2, <2>2, <2>4
       DEF RunSound, Started, Submitted, Unreleased, Stopped, Worked, Detached
  <2>10. StopSound(s)'
    BY <1>1, <1>4, <1>6, <2>2, <2>4, <2>5 DEF StopSound
  <2>11. \A z \in Stops : stop'[z] = stop[z] \/ StopSound(z)'
    BY <2>5, <2>10
  <2>12. QED
    BY <1>1, <2>4, <2>6, <2>7, <2>8, <2>9, <2>11, MildStep
<1>7. QED
  BY <1>5, <1>6

\* The walk signals the worker of the stopped run and moves on.
LEMMA KillWalkStep ==
    ASSUME GuardInv, NEW s \in Stops, KillWalk(s)
    PROVE  GuardInv'
<1> PICK r : r = stop[s].run
  OBVIOUS
<1>1. /\ stop[s].at = "thread" /\ Terminate(run[r].pool, r)
      /\ stop' = [stop EXCEPT ![s].at = "joining"]
      /\ UNCHANGED <<running, semaphore, active, run, registry>>
  BY DEF KillWalk
<1>2. /\ TypeOK /\ r \in Runs /\ run[r].handler # "idle" /\ run[r].pool # NoPool
      /\ run[r].cancelled /\ run[r].pool \in Pools \cup {NoPool}
  BY <1>1 DEF GuardInv, TypeOK, StopSound
<1>3. /\ singleton' \in {singleton, NoPool} /\ singleton' \in Pools \cup {NoPool}
      /\ victims' \subseteq Runs /\ NoWorkerRevived
      /\ worker' \in [Pools -> {"absent", "alive", "signalled", "dead"}]
  BY <1>1, <1>2, TerminateSound DEF NoWorkerRevived
<1>4. /\ stop' \in [Stops -> StopRecords] /\ stop'[s].at = "joining" /\ stop'[s].run = r
      /\ \A z \in Stops \ {s} : stop'[z] = stop[z]
  BY <1>1, <1>2 DEF TypeOK, StopRecords
<1>5. TypeOK'
  BY <1>1, <1>2, <1>3, <1>4 DEF TypeOK, StopRecords
<1>6. GuardsAgree'
  <2>1. \A q \in Runs : Holds(q)' = Holds(q)
    BY <1>1, Zenon DEF Holds
  <2>2. QED
    BY <1>1, <2>1, GuardsKept DEF GuardInv
<1>7. \A q \in Runs : RunSound(q)'
  BY <1>1, <1>2, <1>3, UntouchedRun DEF GuardInv, NoWorkerRevived
<1>8. OneJob'
  BY <1>1, OneJobKept DEF GuardInv
<1>9. StopSound(s)'
  BY <1>1, <1>2, <1>4 DEF StopSound
<1>10. \A z \in Stops : StopSound(z)'
  BY <1>1, <1>2, <1>3, <1>4, <1>9, StopsKept DEF GuardInv, NoWorkerRevived
<1>11. QED
  BY <1>5, <1>6, <1>7, <1>8, <1>10 DEF GuardInv

\* The verdict is what the worker is; a dead one stays dead.
LEMMA KillVerdictStep ==
    ASSUME GuardInv, NEW s \in Stops, KillVerdict(s)
    PROVE  GuardInv'
<1> PICK r : r = stop[s].run
  OBVIOUS
<1> DEFINE dead == worker[run[r].pool] = "dead"
<1>1. /\ stop[s].at = "joining"
      /\ stop' = [stop EXCEPT ![s].at = "judged", ![s].dead = dead]
      /\ UNCHANGED <<running, semaphore, active, singleton, worker, run, registry, victims>>
  BY DEF KillVerdict
<1>2. /\ TypeOK /\ r \in Runs /\ run[r].handler # "idle" /\ run[r].pool # NoPool
      /\ run[r].cancelled /\ stop \in [Stops -> StopRecords]
  BY <1>1 DEF GuardInv, TypeOK, StopSound, StopRecords
<1>3. /\ stop' \in [Stops -> StopRecords] /\ stop'[s].run = r
      /\ stop'[s].dead => worker[run[r].pool] = "dead"
      /\ \A z \in Stops \ {s} : stop'[z] = stop[z]
  <2> DEFINE new == [stop[s] EXCEPT !.at = "judged", !.dead = dead]
  <2>1. new \in StopRecords /\ new.run = r /\ new.dead = dead
    BY <1>2 DEF StopRecords
  <2>2. stop' = [stop EXCEPT ![s] = new]
    BY <1>1, <1>2
  <2>3. QED
    BY <1>2, <2>1, <2>2
<1>4. TypeOK'
  BY <1>1, <1>2, <1>3 DEF TypeOK, StopRecords
<1>5. GuardsAgree'
  <2>1. \A q \in Runs : Holds(q)' = Holds(q)
    BY <1>1, Zenon DEF Holds
  <2>2. QED
    BY <1>1, <2>1, GuardsKept DEF GuardInv
<1>6. \A q \in Runs : RunSound(q)'
  BY <1>1, <1>2, UntouchedRun DEF GuardInv
<1>7. OneJob'
  BY <1>1, OneJobKept DEF GuardInv
<1>8. StopSound(s)'
  BY <1>1, <1>2, <1>3 DEF StopSound
<1>9. \A z \in Stops : StopSound(z)'
  BY <1>1, <1>2, <1>3, <1>8, StopsKept DEF GuardInv
<1>10. QED
  BY <1>4, <1>5, <1>6, <1>7, <1>9 DEF GuardInv

\* "stopped" is answered of a run whose worker is dead, so its job is not running
\* and it is not submitted again; "stopping" keeps the guards.
LEMMA CancelAnswersStep ==
    ASSUME GuardInv, NEW s \in Stops, CancelAnswers(s)
    PROVE  GuardInv'
<1> PICK r : r = stop[s].run
  OBVIOUS
<1>1. /\ stop[s].at = "judged" /\ stop' = [stop EXCEPT ![s] = NoStop]
      /\ UNCHANGED <<singleton, worker, registry, victims>>
  BY DEF CancelAnswers
<1>2. /\ TypeOK /\ r \in Runs /\ run[r].handler # "idle" /\ run[r].pool # NoPool
      /\ run[r].cancelled
      /\ stop[s].dead => worker[run[r].pool] = "dead"
  BY <1>1 DEF GuardInv, TypeOK, StopSound
<1>3. run[r] \in RunRecords /\ RunSound(r) /\ run \in [Runs -> RunRecords]
  BY <1>2 DEF GuardInv, TypeOK, RunRecords
<1>4. stop' \in [Stops -> StopRecords] /\ \A z \in Stops : stop'[z] = stop[z] \/ StopSound(z)'
  <2>1. NoStop \in StopRecords /\ NoStop.at = "idle"
    BY DEF NoStop, StopRecords
  <2>2. stop \in [Stops -> StopRecords]
    BY <1>2 DEF TypeOK, StopRecords
  <2>3. stop' \in [Stops -> StopRecords] /\ stop'[s] = NoStop
        /\ \A z \in Stops \ {s} : stop'[z] = stop[z]
    BY <1>1, <2>1, <2>2
  <2>4. StopSound(s)'
    BY <2>1, <2>3, Zenon DEF StopSound
  <2>5. QED
    BY <2>3, <2>4
<1>5. CASE stop[s].dead
  <2> DEFINE rec == [run[r] EXCEPT !.blocked = FALSE, !.said = "stopped"]
  <2>1. ReleaseAs(r, rec)
    BY <1>5 DEF CancelAnswers
  <2>2. /\ rec \in RunRecords /\ rec.released = run[r].released /\ rec.task = run[r].task
        /\ rec.handler = run[r].handler /\ rec.pool = run[r].pool /\ rec.job = run[r].job
        /\ rec.cancelled = run[r].cancelled
    BY <1>3 DEF RunRecords
  <2>3. /\ GuardsAgree' /\ run' \in [Runs -> RunRecords] /\ OthersUntouched(r)
        /\ running' \in BOOLEAN /\ semaphore' \in {0, 1} /\ active' \in Runs \cup {NoRun}
        /\ run'[r] = rec \/ run'[r] = [rec EXCEPT !.released = TRUE]
    BY <1>2, <2>1, <2>2, ReleaseSound DEF OthersUntouched
  <2> HIDE DEF rec
  <2>4. /\ run'[r].task = run[r].task /\ run'[r].handler = run[r].handler
        /\ run'[r].pool = run[r].pool /\ run'[r].job = run[r].job
        /\ run'[r].cancelled = run[r].cancelled
    BY <2>2, <2>3 DEF RunRecords
  <2>5. TypeOK'
    BY <1>1, <1>2, <1>4, <2>3 DEF TypeOK, RunRecords, StopRecords
  <2>6. Milder(r) /\ NoWorkerRevived
    BY <1>1, <1>2, <2>4 DEF Milder, NoWorkerRevived
  <2>7. run[r].job # "running"
    BY <1>2, <1>3, <1>5 DEF RunSound, Worked
  <2>8. run'[r].task # "created" /\ run'[r].handler # "preparing"
    BY <1>2, <1>3, <2>4 DEF RunSound, Submitted, Started
  <2>9. RunSound(r)'
    BY <1>1, <1>2, <1>3, <2>4, <2>7, <2>8
       DEF RunSound, Started, Submitted, Unreleased, Stopped, Worked, Detached
  <2>10. QED
    BY <1>1, <1>2, <1>4, <2>3, <2>5, <2>6, <2>9, MildStep
<1>6. CASE ~stop[s].dead
  <2> DEFINE rec == [run[r] EXCEPT !.blocked = TRUE, !.said = "stopping"]
  <2>1. /\ run' = [run EXCEPT ![r].blocked = TRUE, ![r].said = "stopping"]
        /\ UNCHANGED <<running, semaphore, active>>
    BY <1>6 DEF CancelAnswers
  <2>2. /\ rec \in RunRecords /\ rec.released = run[r].released /\ rec.task = run[r].task
        /\ rec.handler = run[r].handler /\ rec.pool = run[r].pool /\ rec.job = run[r].job
        /\ rec.cancelled = run[r].cancelled /\ rec.said = "stopping"
    BY <1>3 DEF RunRecords
  <2>3. run' = [run EXCEPT ![r] = rec]
    BY <1>3, <2>1
  <2>4. run' \in [Runs -> RunRecords] /\ OthersUntouched(r) /\ run'[r] = rec
    BY <1>2, <1>3, <2>2, <2>3 DEF OthersUntouched
  <2>5. TypeOK'
    BY <1>1, <1>2, <1>4, <2>1, <2>4 DEF TypeOK, RunRecords, StopRecords
  <2> HIDE DEF rec
  <2>6. GuardsAgree'
    BY <1>2, <2>1, <2>2, <2>4, GuardsUntouched
  <2>7. Milder(r) /\ NoWorkerRevived
    BY <1>1, <1>2, <2>2, <2>4 DEF Milder, NoWorkerRevived
  <2>8. RunSound(r)'
    BY <1>1, <1>2, <1>3, <2>2, <2>4
       DEF RunSound, Started, Submitted, Unreleased, Stopped, Worked, Detached
  <2>9. QED
    BY <1>1, <1>2, <1>4, <2>4, <2>5, <2>6, <2>7, <2>8, MildStep
<1>7. QED
  BY <1>5, <1>6

-----------------------------------------------------------------------------
(* The theorems.                                                            *)

\* Nothing happened.
LEMMA StutterStep ==
    ASSUME GuardInv, UNCHANGED vars
    PROVE  GuardInv'
BY Zenon DEF GuardInv, vars, TypeOK, GuardsAgree, Holds, RunSound, Started, Submitted,
             Unreleased, Stopped, Worked, Detached, StopSound, OneJob

\* The invariant is inductive.
LEMMA NextGuard == GuardInv /\ [Next]_vars => GuardInv'
<1> SUFFICES ASSUME GuardInv, [Next]_vars PROVE GuardInv'
  OBVIOUS
<1>1. ASSUME NEW r \in Runs,
             ApiBacktest(r) \/ ApiSweep(r) \/ ApiStream(r) \/ ApiSweepStream(r)
      PROVE  GuardInv'
  <2>1. /\ "backtest" \in Kinds /\ "sweep" \in Kinds /\ "stream" \in Kinds
        /\ "sweepStream" \in Kinds
    BY DEF Kinds
  <2>2. QED
    BY <1>1, <2>1, TakeGuardsStep DEF ApiBacktest, ApiSweep, ApiStream, ApiSweepStream
<1>2. ASSUME NEW r \in Runs, HandlerReturns(r) \/ StreamEnds(r) \/ StreamNeverStarts(r)
      PROVE  GuardInv'
  BY <1>2, HandlerReturnsStep
<1>3. ASSUME NEW r \in Runs,
             \/ QueueReady(r) \/ StartTask(r) \/ WorkerFinishes(r) \/ TaskEnds(r)
             \/ HandlerTimesOut(r) \/ StreamCloses(r)
      PROVE  GuardInv'
  BY <1>3, QueueReadyStep, StartTaskStep, WorkerFinishesStep, TaskEndsStep,
     HandlerTimesOutStep, StreamClosesStep
<1>4. ASSUME NEW p \in Pools, WorkerDies(p) PROVE GuardInv'
  BY <1>4, WorkerDiesStep
<1>5. ASSUME NEW s \in Stops, Cancel(s) \/ KillWalk(s) \/ KillVerdict(s) \/ CancelAnswers(s)
      PROVE  GuardInv'
  BY <1>5, CancelStep, KillWalkStep, KillVerdictStep, CancelAnswersStep
<1>6. CASE UNCHANGED vars
  BY <1>6, StutterStep
<1>7. QED
  BY <1>1, <1>2, <1>3, <1>4, <1>5, <1>6 DEF Next

\* The inductive invariant holds in every reachable state.
THEOREM GuardInvHolds == Spec => []GuardInv
<1>1. QED
  BY InitGuard, NextGuard, PTL DEF Spec

\* Every variable of the guards keeps its type.
THEOREM GuardTypeHolds == Spec => []TypeOK
<1>1. GuardInv => TypeOK
  BY DEF GuardInv
<1>2. QED
  BY <1>1, GuardInvHolds, PTL

\* The flag, the semaphore and the record stand for the one run that took them,
\* whatever stops, late clean-ups and stale tasks come in between.
THEOREM GuardsAgreeHolds == Spec => []GuardsAgree
<1>1. GuardInv => GuardsAgree
  BY DEF GuardInv
<1>2. QED
  BY <1>1, GuardInvHolds, PTL

\* No executor has two jobs, and a run that was reported stopped has none.
THEOREM JobsSoundHolds == Spec => []JobsSound
<1>1. GuardInv => JobsSound
  BY DEF GuardInv, JobsSound, OneJob, RunSound, Stopped
<1>2. QED
  BY <1>1, GuardInvHolds, PTL

=============================================================================
