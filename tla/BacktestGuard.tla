--------------------------- MODULE BacktestGuard ---------------------------
(***************************************************************************)
(* server/osc_dash.py, the backtests and sweeps of the dashboard: a        *)
(* one-worker process pool, the semaphore, the running flag and the        *)
(* active-run record that keep them one at a time, the four endpoints that *)
(* start a run, their clean-up, and the endpoint that cancels it.          *)
(* Everything but the kill walk runs on the event loop: an action is what  *)
(* one coroutine does between two of its suspensions.                      *)
(*                                                                         *)
(* A definition named Bug... is not part of the model: it is a plausible   *)
(* mistake in the definition after it, which one of the properties catches.*)
(***************************************************************************)
EXTENDS Naturals, FiniteSets, Sequences

CONSTANTS
    Runs,           \* requests that want to run a backtest or a sweep
    Stops,          \* requests to /api/backtest/cancel that may overlap
    NoRun,          \* no active-run record
    MaxCompleted    \* _COMPLETED_RUNS_MAX

ASSUME GuardAssumption ==
    /\ IsFiniteSet(Runs)
    /\ NoRun \notin Runs
    /\ MaxCompleted \in Nat \ {0}

Pools  == 1..Cardinality(Runs)       \* a run makes one executor at most
NoPool == 0
Kinds  == {"backtest", "sweep", "stream", "sweepStream"}

VARIABLES
    running,    \* _BACKTEST_RUNNING
    semaphore,  \* permits of _BACKTEST_SEMAPHORE
    active,     \* _ACTIVE_BACKTEST_RUN
    singleton,  \* _BACKTEST_POOL
    worker,     \* of each executor: absent, alive, signalled, dead
    run,        \* of each run: its _ActiveBacktestRun, its handler, its task, its job
    stop,       \* of each cancel request: where it stands
    registry,   \* _COMPLETED_RUNS
    victims     \* auxiliary: runs whose worker another run's clean-up killed

vars == <<running, semaphore, active, singleton, worker, run, stop, registry, victims>>

NewRun == [kind |-> "backtest", handler |-> "idle", task |-> "none", job |-> "none",
           pool |-> NoPool, released |-> FALSE, cancelled |-> FALSE, blocked |-> FALSE,
           said |-> "nothing"]

NoStop == [at |-> "idle", run |-> NoRun, dead |-> FALSE]

Init ==
    /\ running = FALSE
    /\ semaphore = 1
    /\ active = NoRun
    /\ singleton = NoPool
    /\ worker = [p \in Pools |-> "absent"]
    /\ run = [r \in Runs |-> NewRun]
    /\ stop = [s \in Stops |-> NoStop]
    /\ registry = <<>>
    /\ victims = {}

-----------------------------------------------------------------------------
(* The pieces the handlers are made of.                                    *)

Holds(r) == run[r].handler # "idle" /\ ~run[r].released

\* A release that ignores the block of an unconfirmed kill.
BugReleaseBlocked(r, rec) ==
    /\ run' = [run EXCEPT ![r] = [rec EXCEPT !.released = TRUE]]
    /\ semaphore' = IF rec.released THEN semaphore ELSE semaphore + 1
    /\ running' = (running /\ rec.released)
    /\ UNCHANGED active

\* record.release of run r once it is rec: the guards go back once, the record
\* leaves its slot if it is still there, and nothing happens while it is blocked.
ReleaseAs(r, rec) ==
    IF rec.blocked
    THEN /\ run' = [run EXCEPT ![r] = rec]
         /\ UNCHANGED <<running, semaphore, active>>
    ELSE /\ run' = [run EXCEPT ![r] = [rec EXCEPT !.released = TRUE]]
         /\ semaphore' = IF rec.released THEN semaphore ELSE semaphore + 1
         /\ running' = (running /\ rec.released)
         /\ active' = IF active = r THEN NoRun ELSE active

Broken(p) == worker[p] = "dead"

\* The executor a run submits to: the singleton, or a new one.
GetPool(p) ==
    IF singleton # NoPool /\ ~Broken(singleton)
    THEN p = singleton
    ELSE /\ worker[p] = "absent"
         /\ \A q \in Pools : q < p => worker[q] # "absent"

InFlight(p) == {r \in Runs : run[r].pool = p /\ run[r].job = "running"}

\* A termination that leaves the executor in the singleton's place.
BugTerminate(p, r) ==
    /\ singleton' = singleton
    /\ worker' = [worker EXCEPT ![p] = IF @ = "alive" THEN "signalled" ELSE @]
    /\ victims' = victims

\* _terminate_backtest_pool(p) on behalf of run r: signal the worker, and
\* detach the singleton only if it is this executor.
Terminate(p, r) ==
    /\ singleton' = IF singleton = p THEN NoPool ELSE singleton
    /\ worker' = [worker EXCEPT ![p] = IF @ = "alive" THEN "signalled" ELSE @]
    /\ victims' = IF worker[p] = "alive" THEN victims \cup (InFlight(p) \ {r}) ELSE victims

\* _record_completed_run: a bounded registry, the oldest goes first.  A result
\* that carries an error is not recorded.
Record(r) ==
    IF run[r].job = "finished" /\ run[r].kind \in {"backtest", "stream"}
    THEN LET longer == Append(registry, r)
         IN registry' \in {registry, IF Len(longer) > MaxCompleted THEN Tail(longer) ELSE longer}
    ELSE registry' = registry

-----------------------------------------------------------------------------
(* The endpoints.  A request that finds the guards taken is answered 429   *)
(* and changes nothing.  The semaphore is free whenever the flag is, so    *)
(* its acquire does not suspend.                                           *)

TakeGuards(r, kind, rec) ==
    /\ run[r].handler = "idle"
    /\ ~running
    /\ semaphore > 0
    /\ running' = TRUE
    /\ semaphore' = semaphore - 1
    /\ active' = r
    /\ run' = [run EXCEPT ![r] = [rec EXCEPT !.kind = kind]]
    /\ UNCHANGED <<singleton, worker, stop, registry, victims>>

Waiting   == [NewRun EXCEPT !.handler = "waiting", !.task = "created"]
Preparing == [NewRun EXCEPT !.handler = "preparing"]

ApiBacktest(r)    == TakeGuards(r, "backtest", Waiting)
ApiSweep(r)       == TakeGuards(r, "sweep", Waiting)
ApiStream(r)      == TakeGuards(r, "stream", Preparing)
ApiSweepStream(r) == TakeGuards(r, "sweepStream", Preparing)

\* The progress queue of a streaming run: it may fail, it may take long enough
\* for a stop to land, or the submitting task is created.
QueueReady(r) ==
    /\ run[r].handler = "preparing"
    /\ \/ ReleaseAs(r, [run[r] EXCEPT !.handler = "over"])
       \/ /\ ~run[r].cancelled
          /\ run' = [run EXCEPT ![r].handler = "streaming", ![r].task = "created"]
          /\ UNCHANGED <<running, semaphore, active>>
    /\ UNCHANGED <<singleton, worker, stop, registry, victims>>

\* First step of the task: nothing is submitted for a run that was stopped.
StartTask(r) ==
    /\ run[r].task = "created"
    /\ IF run[r].cancelled
       THEN /\ ReleaseAs(r, [run[r] EXCEPT !.task = "done"])
            /\ UNCHANGED <<singleton, worker>>
       ELSE \E p \in Pools :
            /\ GetPool(p)
            /\ singleton' = p
            /\ worker' = [worker EXCEPT ![p] = "alive"]
            /\ run' = [run EXCEPT ![r].task = "running", ![r].job = "running", ![r].pool = p]
            /\ UNCHANGED <<running, semaphore, active>>
    /\ UNCHANGED <<stop, registry, victims>>

\* The worker process does its job, even one that has been signalled in vain.
WorkerFinishes(r) ==
    /\ run[r].job = "running"
    /\ run' = [run EXCEPT ![r].job = "finished"]
    /\ UNCHANGED <<running, semaphore, active, singleton, worker, stop, registry, victims>>

\* The worker process dies, of a signal or on its own, and its jobs with it.
WorkerDies(p) ==
    /\ worker[p] \in {"alive", "signalled"}
    /\ worker' = [worker EXCEPT ![p] = "dead"]
    /\ run' = [r \in Runs |-> IF r \in InFlight(p) THEN [run[r] EXCEPT !.job = "lost"] ELSE run[r]]
    /\ UNCHANGED <<running, semaphore, active, singleton, stop, registry, victims>>

\* A task whose failure skips the release.
BugTaskEnds(r) ==
    /\ run[r].task = "running"
    /\ run[r].job \in {"finished", "lost"}
    /\ IF run[r].job = "finished"
       THEN ReleaseAs(r, [run[r] EXCEPT !.task = "done"])
       ELSE /\ run' = [run EXCEPT ![r].task = "done"]
            /\ UNCHANGED <<running, semaphore, active>>
    /\ UNCHANGED <<singleton, worker, stop, registry, victims>>

\* The task wakes with a result or with BrokenProcessPool; its finally releases.
TaskEnds(r) ==
    /\ run[r].task = "running"
    /\ run[r].job \in {"finished", "lost"}
    /\ ReleaseAs(r, [run[r] EXCEPT !.task = "done"])
    /\ UNCHANGED <<singleton, worker, stop, registry, victims>>

\* A blocking handler answers with the outcome of its task ...
HandlerReturns(r) ==
    /\ run[r].handler = "waiting"
    /\ run[r].task = "done"
    /\ run' = [run EXCEPT ![r].handler = "over"]
    /\ Record(r)
    /\ UNCHANGED <<running, semaphore, active, singleton, worker, stop, victims>>

\* ... or gives up at BACKTEST_TIMEOUT_SEC and leaves the guards to the task.
HandlerTimesOut(r) ==
    /\ run[r].handler = "waiting"
    /\ run[r].task = "running"
    /\ Terminate(run[r].pool, r)
    /\ run' = [run EXCEPT ![r].handler = "over"]
    /\ UNCHANGED <<running, semaphore, active, stop, registry>>

\* A generator that saw its task done drains the queue and sends the final event.
StreamEnds(r) ==
    /\ run[r].handler = "streaming"
    /\ run[r].task = "done"
    /\ run' = [run EXCEPT ![r].handler = "over"]
    /\ Record(r)
    /\ UNCHANGED <<running, semaphore, active, singleton, worker, stop, victims>>

\* A generator closed before that: the client is gone or the deadline is over.
\* It may have been suspended in a read or a send since before the task ended.
StreamCloses(r) ==
    /\ run[r].handler = "streaming"
    /\ run[r].task \in {"running", "done"}
    /\ ReleaseAs(r, [run[r] EXCEPT !.handler = "over"])
    /\ IF run[r].pool # NoPool THEN Terminate(run[r].pool, r)
                               ELSE UNCHANGED <<singleton, worker, victims>>
    /\ UNCHANGED <<stop, registry>>

\* A response nobody reads never starts its generator.
StreamNeverStarts(r) ==
    /\ run[r].handler = "streaming"
    /\ run' = [run EXCEPT ![r].handler = "over"]
    /\ UNCHANGED <<running, semaphore, active, singleton, worker, stop, registry, victims>>

-----------------------------------------------------------------------------
(* /api/backtest/cancel.                                                   *)

\* The first step, up to the kill walk in a thread.  A run without a pool is
\* released at once.
Cancel(s) ==
    /\ stop[s].at = "idle"
    /\ active # NoRun
    /\ LET r == active IN
       IF run[r].pool = NoPool
       THEN /\ ReleaseAs(r, [run[r] EXCEPT !.cancelled = TRUE, !.said = "stopped"])
            /\ UNCHANGED stop
       ELSE /\ run' = [run EXCEPT ![r].cancelled = TRUE]
            /\ stop' = [stop EXCEPT ![s] = [at |-> "thread", run |-> r, dead |-> FALSE]]
            /\ UNCHANGED <<running, semaphore, active>>
    /\ UNCHANGED <<singleton, worker, registry, victims>>

\* _terminate_backtest_pool_confirmed, in its thread: signal ...
KillWalk(s) ==
    /\ stop[s].at = "thread"
    /\ Terminate(run[stop[s].run].pool, stop[s].run)
    /\ stop' = [stop EXCEPT ![s].at = "joining"]
    /\ UNCHANGED <<running, semaphore, active, run, registry>>

\* ... join, kill and join again, and see whether the worker is dead.
KillVerdict(s) ==
    /\ stop[s].at = "joining"
    /\ stop' = [stop EXCEPT ![s].at = "judged",
                            ![s].dead = (worker[run[stop[s].run].pool] = "dead")]
    /\ UNCHANGED <<running, semaphore, active, singleton, worker, run, registry, victims>>

\* The handler resumes with the verdict.
CancelAnswers(s) ==
    /\ stop[s].at = "judged"
    /\ LET r == stop[s].run IN
       IF stop[s].dead
       THEN ReleaseAs(r, [run[r] EXCEPT !.blocked = FALSE, !.said = "stopped"])
       ELSE /\ run' = [run EXCEPT ![r].blocked = TRUE, ![r].said = "stopping"]
            /\ UNCHANGED <<running, semaphore, active>>
    /\ stop' = [stop EXCEPT ![s] = NoStop]
    /\ UNCHANGED <<singleton, worker, registry, victims>>

-----------------------------------------------------------------------------

Next ==
    \/ \E r \in Runs :
        \/ ApiBacktest(r) \/ ApiSweep(r) \/ ApiStream(r) \/ ApiSweepStream(r)
        \/ QueueReady(r) \/ StartTask(r) \/ WorkerFinishes(r) \/ TaskEnds(r)
        \/ HandlerReturns(r) \/ HandlerTimesOut(r)
        \/ StreamEnds(r) \/ StreamCloses(r) \/ StreamNeverStarts(r)
    \/ \E p \in Pools : WorkerDies(p)
    \/ \E s \in Stops : Cancel(s) \/ KillWalk(s) \/ KillVerdict(s) \/ CancelAnswers(s)

Spec == Init /\ [][Next]_vars

\* The event loop runs what is ready, a request has a deadline and a signalled
\* worker dies; a worker need not finish, a client need not disconnect.
FairSpec ==
    /\ Spec
    /\ \A r \in Runs : /\ WF_vars(QueueReady(r))
                       /\ WF_vars(StartTask(r))
                       /\ WF_vars(TaskEnds(r))
                       /\ WF_vars(HandlerTimesOut(r))
                       /\ WF_vars(StreamCloses(r) \/ StreamEnds(r))
    /\ \A p \in Pools : WF_vars(worker[p] = "signalled" /\ WorkerDies(p))

-----------------------------------------------------------------------------
(* Properties.                                                             *)

TypeOK ==
    /\ running \in BOOLEAN
    /\ semaphore \in {0, 1}
    /\ active \in Runs \cup {NoRun}
    /\ singleton \in Pools \cup {NoPool}
    /\ worker \in [Pools -> {"absent", "alive", "signalled", "dead"}]
    /\ run \in [Runs -> [kind : Kinds,
                         handler : {"idle", "preparing", "waiting", "streaming", "over"},
                         task : {"none", "created", "running", "done"},
                         job : {"none", "running", "finished", "lost"},
                         pool : Pools \cup {NoPool}, released : BOOLEAN, cancelled : BOOLEAN,
                         blocked : BOOLEAN, said : {"nothing", "stopped", "stopping"}]]
    /\ stop \in [Stops -> [at : {"idle", "thread", "joining", "judged"},
                           run : Runs \cup {NoRun}, dead : BOOLEAN]]
    /\ registry \in Seq(Runs)
    /\ victims \subseteq Runs

\* The flag, the semaphore and the record stand for the same single run: the one
\* that took the guards and has not given them back.  Late clean-ups, second stops
\* and stale tasks neither free the guards of a newer run nor free them twice.
GuardsAgree ==
    /\ \A r, q \in Runs : Holds(r) /\ Holds(q) => r = q
    /\ running = (\E r \in Runs : Holds(r))
    /\ semaphore = IF running THEN 0 ELSE 1
    /\ \A r \in Runs : Holds(r) = (active = r)

\* The one-worker pool never queues a run behind one that is still working, and
\* an answer "stopped" is true for good: the worker of that run is not working and
\* no worker is ever submitted for it.
JobsSound ==
    /\ \A r, q \in Runs :
        run[r].job = "running" /\ run[q].job = "running" /\ run[r].pool = run[q].pool => r = q
    /\ \A r \in Runs : run[r].said = "stopped" => run[r].job # "running"

\* A worker at a job nobody waits for: the generator that has the deadline never
\* started, so nothing bounds the job and nobody will signal the worker.
Abandoned(r) ==
    /\ run[r].handler = "over" /\ run[r].kind \in {"stream", "sweepStream"}
    /\ run[r].job = "running" /\ worker[run[r].pool] = "alive"

\* A run gives its guards back, or a stop that could not kill its worker keeps them,
\* or its worker is still at a job that was abandoned: when that ends, or is stopped,
\* the guards come back too.
GuardsComeBack == \A r \in Runs : Holds(r) ~> (run[r].released \/ run[r].blocked \/ Abandoned(r))

\* The comment on BACKTEST_TIMEOUT_SEC promises more, of any run, a wedged one too:
\* exceeding it "aborts the request and releases the guards".
DeadlineFreesGuards == \A r \in Runs : Holds(r) ~> (run[r].released \/ run[r].blocked)

\* _terminate_backtest_pool: "Late cleanup of run A must not terminate run B's pool".
LateCleanupSparesNewerRun == victims = {}

\* "a deliberate stop never produces a result - the worker was never submitted, or
\* was killed": a run that was stopped is not recorded as completed.
StoppedRunHasNoResult ==
    \A i \in DOMAIN registry : run[registry[i]].said # "stopped"

=============================================================================
