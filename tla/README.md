# Formal models of crypto-spread

crypto-spread quotes both legs of short up-or-down markets: in every 5 or 15
minute window it rests one buy order on UP and one on DOWN, merges them into a
dollar when both fill, and gets rid of a leg that fills alone. Around that
engine stand a collector that records the markets, a backtest that replays the
recordings, scripts that verify them and search for parameters, and a dashboard
that runs all of it. This directory holds TLA+ models of these parts, the TLC
configurations that check them, and proofs that TLAPS checks. Run
`tlc -config <cfg> <module>` and `tlapm <module>` in this directory.

The source is the reference. Where a document, a comment or a test says something
the code does not do, the model follows the code and `PROJECT.json` lists the
difference under `findings`.

## 1. Inventory

| Component | State it keeps | Operations | What is hard |
|---|---|---|---|
| Live engine, `strategy/live_trader.py` | one `MarketLiveState` per market; `is_running`, `quoting_halted`, configuration; trades in memory and on disk | tick, rollover, stop exit, spot tick, print, book update, order event, start, stop, panic, configuration, reset, wallet sync | two to four threads over one round; late polls; refused calls and lost answers; a crash during a save |
| Trading rules, `strategy/book_math.py` | none | mid, fill rule, chase cap and ladder, dead zone | cents against mills, rounding, boundaries of the clock |
| Streams, `strategy/streaming.py` | books, print buffers, tokens, sessions, open and completed orders, worker threads | frames, rotation, reconnect, drain, buffered reconciliation, start and stop | gaps, stale pongs, replay order, a start beside a worker that is ending |
| Backtest, `backtest/` | the round of a replayed window, open windows of a stream, templates | simulate a window, stream, select, report, save and load templates | must decide as the engine does; windows that complete out of order |
| Dashboard, `server/osc_dash.py` | backtest pool, semaphore and run record; collector child; upload staging; report caches | run, cancel, stream, time out; start and stop the collector; chunks; verify | late clean-up of one run under the next; a retry of what is already being assembled |
| Collector and watchdog, `scripts/collect_ticks.py`, `collector_watchdog.py` | market cache, prewarm, tape of each window, manifest, process list | poll, resolve, write, detect and restart | two writers of one file; a print that comes from two sources, or from none |
| Verification and sweeps, `scripts/verify_tick_data.py`, `tick_safety.py`, `sweep_backtest.py`, `run_overnight_sweep.py` | streaming counters, hash store, event log, CSV of a night | verify a file, cross-check its bytes, search, confirm, resume | a check beside a rewrite; a night that is killed between two rows |

How they interact. The engine's ticker (an asyncio task) polls every market in a
thread pool, waits for all polls, and updates each market in turn by the clock it
read *before* the polls. The stream bridge runs in a thread of its own and calls
into the engine with prints, books, spot ticks and order events. HTTP handlers call
start, stop, panic and configuration. `_engine_lock` guards short sections of these
handlers, not the handlers. The collector is a process of its own that resolves the
market of every series, drains the bridge's prints and appends to the day file; the
watchdog and the dashboard both start it and know it by its manifest. The verifier
reads what it wrote, the backtest replays it with the same `book_math`, one run at a
time in a one-worker pool, and the dashboard shows what comes out.

## 2. How the modules are put together

A component is a module with its state as VARIABLES, one action per handler or
section of one, and constants for its inputs and bounds. A harness `MC...` gives
several components, each under one or more settings, to one run of TLC: its variable
`part` is chosen in the initial state and never changes, the component of that part
steps and every other one keeps its initial state. Components that share no state in
the code share none here; where they do share state (the ticker and the stream
thread; the round and the venue; the watchdog, the dashboard and the collectors; the
client and the server of an upload) they are one module.

| Harness, cfg | Components |
|---|---|
| `MCPaper`, `Paper.cfg` | `PaperRound` (with `BookMath`) |
| `MCChaseLadder`, `ChaseLadder.cfg` | `ChaseLadder` (with `BookMath`) |
| `MCLive`, `Live.cfg` | `LiveRound` |
| `MCEngine`, `Engine.cfg` | `EngineConfig`, `TradesStore` |
| `MCStreams`, `Streams.cfg` | `MarketFeed`, `UserStream`, `StreamBridge` |
| `MCCollector`, `Collector.cfg` | `CollectorProcess`, `CollectorTape`, `MarketResolver` |
| `MCBacktest`, `Backtest.cfg` | `BacktestWindow` (with `BookMath`, `RoundRules`), `TickReplay`, `ParameterSearch`, `OvernightSweep` |
| `MCEvidence`, `Evidence.cfg` | `HashCheck`, `TickVerify`, `VerifyCache` |
| `MCDashboard`, `Dashboard.cfg` | `BacktestGuard`, `WindowReports`, `BacktestRequest`, `TemplateStore`, `ChunkUpload`, `TickManifest` |
| `MCCloses`, `Closes.cfg` | `StopExitRace`; liveness of `PaperRound` and `BacktestGuard` |
| `MCServices`, `Services.cfg` | liveness of `MarketFeed`, `StreamBridge`, `CollectorProcess`, `VerifyCache` |
| `LiveRound`, `ExitSells.cfg` | the disagreement shown as a violation |

`map` in `PROJECT.json` names the lines behind every definition.

## 3. The models

### The engine

**PaperRound**, one market in paper mode, one action per handler. `m` is the market's
`MarketLiveState`. A field per leg is a function of the leg: `filled` is
`filled_up`/`filled_down`, `ordId` and `ordStatus` say whether an order handle exists
and what its status is, `resting` and `original` are the quotes, `fillPrice` the
entry, `breached` says that `max_down_drift` or `max_up_drift` has reached the
threshold, `reversal` is the mercy flag, `stopSide` and `stopPrice` the staged stop,
`pair` and `exit` are `pair_captured` and `exit_taken`, `lateSkip`, `seen` and
`entryCancelled` the window's latches, `nextCid` and `nextQuoted` the next window's
slot. `held`, `repriced` and `unchased` are auxiliary: `held` counts what the recorded
fills and the booked trades leave in each leg, `repriced` says that a round was requoted
under another configuration, and `unchased` is the highest quote a leg had in its round
that the chase did not give it.

| Action | Handler |
|---|---|
| `StartEngine`, `StopEngine`, `CancelAll`, `UpdateConfig` | `start`, `stop`, `cancel_all_orders`, `update_config` (offset) |
| `BeginTick`, `PollOk`, `PollFails` | `_run_loop`, `_tick_all_markets`, `_poll_single_market`, `_update_market_strategy` |
| `OnBookUpdate`, `OnWsTrade`, `OnSpotTick` | the callbacks of the stream bridge |
| `AdvanceClock` | the wall clock, which runs during a poll too |

A tick is `Tick`: next-window slot, pre-quote, rollover, metadata and book, then `Idle`
or `Trade`, and `Trade` is the composition of the phases of `_update_market_strategy`
in the order of the code, each an operator from a market to a market. The branches for a
poll without a clock (live_trader.py:4407-4428, 4739) are left out: a poll hands a window over
only when it has found `start <= now < end` (561-622). `BeginTick`
keeps the clock of the top of the tick in `tickNow`; the poll may name the window of
any moment until now. Window identities are window numbers; the reconciliation of
socket and REST books is an arbitrary book of `Books`; rungs 3 to 5 of
`_resolve_exit_bid` (a quote latched less than 30 seconds ago) are a free choice; PnL,
telemetry and messages are left out. `restart` is stop and start.

**ChaseLadder**, the life of one naked leg: each `Chase` sees any ask and raises the
quote to the smaller of ask and ceiling, each `Wait` moves the clock. `Ceiling` is
`chase_ceiling` of `chase_cap` and `chase_progress`, with the progress as a fraction so
that no division is lost.

**StopExitRace**, the two threads of a paper round: a step is a section the code holds
`_engine_lock` for, or an unlocked read or write between two of them. The stop exit and
the merge are subroutines both threads run.

**LiveRound**, one market in live mode beside the venue. `orders` is external: an order
is live until it is matched or cancelled; a call may be refused, or carried out and its
answer lost; the user stream tells of an order late, twice, in any order or never. The
tick is split into its phases (`BeginTick`, `Roll`, `Settle`, `Reset`, `Decide`, `Quote`,
`Poll`, `Close`, `Leg`), and between two of them orders are matched (`VenueMatches`) and
events come in (`OnUserOrderEvent`, which takes no lock). A stop exit,
`_execute_stop_exit`, is steps too: it reads the handles, cancels the other leg
(`CancelOther`), sells unless it had read that this was done (`Submit`), and asks for the
fill (`AskFill`). `exits` says where each thread's exit is and what it has read: the tick
runs one when it stops a leg out and whenever it takes a pending one up again, and
`SpotTrigger` gives one to a thread of the executor, which reads the handles when it gets to
run (`ReadHandles`). Only some sections hold the lock, so any two exits may interleave.
A stop is `Stop` (the one call that cancels all: carried out, carried out for some orders,
or raising) and `StopClears` (the handles, whatever they hold by then); `Start` and
`AdvanceClock` are the operator and the clock. Prices are abstract: in range, out of range
or unknown; the stop breached or not; a bid to sell at or none. A stop that rests at the
venue is not modelled: `place_stop_order` only stages it, and the branch that polls one
(live_trader.py:5075) is dead in live mode.

`lost`, `dropped` and `raced` are auxiliary. The first two are the orders the engine no longer
has a handle of: those whose answer was lost, and those whose handle it overwrites or clears
with the order behind it (the next window's, when the data of another window comes in; an
entry or an exit at a fresh start; what a rollover could not cancel; what a stop or an exit
clears that is newer than what it cancelled). `raced` says that an exit has sold, or has
booked, on a reading that was no longer so: a handle that had changed, another window, an
exit that was booked already.

**EngineConfig**, `update_config`, `start`, `stop`, the panic button and the balance
fetches, over the markets, their order handles and legs, and what rests at the venue;
a request may reselect markets, change mode, wallet or a parameter, alone or together.
`loose` is auxiliary: the orders a deselection found in flight, and those whose handle the
panic button let go though the venue did not cancel, which the properties name as exceptions.
A fetch gives a wallet that was left blank the address it was for. `amiss` is auxiliary too:
nothing was fetched yet, a fetch failed, a background fetch came over another wallet's value,
or a request was refused after it had changed the wallet.

**TradesStore**, the trades in memory, the total of each market, that of the deselected
markets, and `trades.jsonl` with its metadata. A save is three steps (`SaveOpen`,
`SaveLines`, `SaveMeta`) and the process may die between them; a settlement adds to the
total (`SettleTotal`) before it appends the trade (`SettleTrade`); a reset and a wallet
sync are three steps each.

### The streams

**MarketFeed**, `CLOBMarketWSClient` with both transports. The socket's thread connects,
subscribes, reduces frames into books and print buffers, and waits out its backoff; the
collector's thread rotates tokens in four steps (`SetFilter`, `BumpVersion`,
`DropBuffers`, `DropBooks`), drains and reads. A frame is taken from the wire and then reduced (`hand`), so that a
rotation can come between. The venue owns the true books and sends each session a snapshot
and then changes; `ghosts` are the levels it took away without telling that session.

**UserStream**, `UserSpecStreamClient`: order events reduced into open and completed
orders, and the buffer-first reconciliation (`StartBuffering`, `Fetch`, `StopBuffering`,
`Seed`, `Replay`). **StreamBridge**, `start` and `stop` of the bridges and their worker
threads, each with its event loop: a worker may still be ending when the next one starts.

### The collector

**CollectorTape**: a round of `poll_once` is `RoundStart`, `ReadStatus`, `RoundDrain`,
`FetchTape`, `RoundWrite`, `RoundSync`; prints, lost connections, rotations and a dead
thread fall between them. **MarketResolver**: the cache, the prewarm and its promotion,
windows opened and closed, the aligned start; `Round` is one `poll_once`, with lookups
that fail or come late (`RoundWith`). **CollectorProcess**: the watchdog's loop (`Probe`, `Kill`,
`StartCollector`), the dashboard's child, its adoption of a collector it can only see by
the manifest, and the rebuild of the window records; collectors die, wedge, fail to start and
leave a torn manifest.

### The backtest, searches and reports

**BacktestWindow**, `_simulate_window`: a tick is the composition of the phases of the
loop's body, `ReplayUntimed` a tick without a clock, `Close` the valuation of what is
open. A bid may be a price, missing, or a recorded 0.0, which the stop takes for a price and
the other readers for a missing one. **RoundRules** is the abstract specification: a leg is bought at most once in a
round, a second leg makes a pair, a single leg is sold or settled, nothing opens in the
dead zone. **TickReplay**: files read line by line, windows handed out when their market
opens the next, the filters of `selection.py`, batched progress and its queue.
**WindowReports**: the four places that fold the same window results. **BacktestRequest**:
registry, `BacktestParams`, clamping and sweep points. **ParameterSearch**: split, descent,
confirmation on the held-out windows. **OvernightSweep**: load, sample, evaluate, append
row by row, summarise; its compile stage may fail, and it is killed and started again on the
same file.

### Evidence and dashboard

**TickVerify**: a record per window while the file streams by, the statuses, and the
directory's verdict. **HashCheck**: the guarded rewrite (backup, landing, event) and the
cross-check that remembers verified bytes, by two checkers that read and write one store.
**VerifyCache**: the caches in memory and on disk and the background scans of a file that
grows. **TickManifest**: the list of files, told from their sidecars; a scan starts and ends,
and the file may be written or removed between the two. **ChunkUpload**: the
page's attempts and the server's requests, which go on after the client gave them up.
**TemplateStore**: runs remembered for a while, saved, loaded against the registry of today.
**BacktestGuard**: an action is what one coroutine does between two suspensions; the flag,
the semaphore, the active record, the singleton pool and its workers; four endpoints,
their clean-up, and the cancel endpoint with its kill walk in a thread.


## 4. Runs

| Run | Asks | Parts | Size |
|---|---|---|---|
| `paper` | are a round's flags its position, is a lone leg armed, is a pair's cost bounded; may quotes, entries and gates move otherwise than told? | `trading` (two windows, prints, lagging polls), `delayed` (entry delay, one-sided book, stop and start), `operated` (panic, configuration) | 404 000 |
| `chase_ladder` | cap, ladder and rounding, for 101 original quotes | – | 120 000 |
| `live` | does the market know its orders, and is no leg sold twice? | `faulty` (a call refused, or its answer lost), `ahead` (a second window quoted ahead), `stopped` (stop and start, a leg held to the end), `late` (the rounds of one window, with events that come late), `spot` (a thread of the executor beside the tick, over a rollover) | 1 998 000 |
| `exit_sells` | *(violation)* is an exit that is booked the sale of this window's leg? | – | stops at the trace |
| `engine` | is a deselected market's order ever left to nobody; is the profit shown that of the trades listed and saved; is the balance that of the wallet in use? | `config`, `twice` (two requests in a row), `faulty` (late fetch, refused cancel); `booking`, `syncing`, `resetting`, `seeding` | 1 493 000 |
| `streams` | is the socket subscribed to what was asked for last; is a print handed over once, a ladder the venue's, a table of orders the venue's; does a bridge know its worker's loop? | `subscription`, `prints`, `books`, `sdk`; `boot`, `reconnect`; `bridge` | 851 000 |
| `collector` | does one process write, and is a healthy one left alone; what does a window's tape hold; which market is it recorded under? | `guarded`; `faulty`, `steady`, `gappy`; `single`, `join`, `roll` | 851 000 |
| `backtest` | does a replayed round follow the rules, and its profit the ledger; are windows handed out whole and once; is a search confirmed on windows it never saw? | `window`, `careful` (gates on); `all`, `selected`; `searched`, `halved`; `files`, `cut`, `night`, `rough` | 1 302 000 |
| `evidence` | can bytes be replaced unseen, can a file pass that does not cover its windows, can a report be of another file than it says? | `races`, `quietly`; `file`, `files`, `mixed`; `still`, `growing` | 886 000 |
| `dashboard` | do flag, semaphore and record stand for one run, and has a stopped run no worker; do the four reports of a run agree; is a file of one upload? | `guard`; `whole`, `mixed`, `earliest`; `request`; `templates`; `upload`, `uploads`, `stream`; `manifest`, `days` | 1 018 000 |
| `closes` | is a pair booked once and by somebody, is a held leg closed in the end, and are a run's guards given back? | `threads` (lock sections of ticker and stream), `round`, `guard` | 276 000 |
| `services` | do the socket, the bridge and its workers settle, does capture resume, is a pending report given? | `feed`, `bridge`, `guarded`, `shared`, `cache` | 59 000 |

Sizes are distinct states; the longest run takes under four minutes on two workers. A property of a harness is a conjunction of the components'
own properties, each guarded by the parts it is meant for; the components' modules
state them one by one, with their reasons.

### Properties worth a word

- `PositionKnown` relates `held`, what fills and bookings leave in a leg, to the flags
  through every handler: what a missing reset or a double merge would break.
- `PairCostBounded` is what the code does guarantee of a merged pair: when it costs more
  than the cap, no leg of it was paid more than what it was quoted without the chase, up to
  the half cent the chase rounds by. A bound on the sum alone does not hold, for the
  quotes of a one-sided opening add up to more than the cap.
- `EntryGates` is stated for the tick's own clock, which is what the code acts by; a
  poll that takes seconds makes that clock late.
- `OrdersKnown` and `SoldOnce` name the exceptions: an order whose answer was lost, a handle
  knowingly let go, an exit whose handle a stop dropped. `OrdersKnown` also asks that a leg
  that counts as filled was bought in this window; `SoldOnce` asks that a booked exit was a
  sale and, while no answer was lost and nobody stopped the engine, that no more of a leg is
  on sale or sold than was bought. It asks so until two exits race: a spot tick's and
  the tick's own do sell a leg twice (a finding). The third part of `SoldOnce`,
  `OnlySpotRaces`, keeps that exception small: the tick's exit, retried over polls, events
  and rollovers, races with nothing unless a spot tick or a stop comes between.
- `LedgerSound` is about what the replay books: the cost of its pairs (`PairCostBounded`) and
  a mark for every leg it settles. That the profit is the sum of the ledger (`LedgerIsPnl`)
  is part of `ReplaySound`.
- `NothingUnmanaged`, in `MarketsManaged`, is about a deselection beside an order that is
  being submitted or cancelled, by the handles *and* by what rests at the venue.
- `ReplayIsGrouping`, in `ReplaySound`, compares a stream that hands windows out as they
  complete with the grouping that reads everything first; `StreamingIsBatch`, in
  `PassIsEarned`, does the same for the verifier's counters.
- `FeedSound`: a session at rest is subscribed to the tokens asked for last, its ladders are
  the venue's up to removals nobody told it of, and no print is handed over twice. It is
  guarded by `SendsUndisturbed`, since a rotation during a send is one of the findings.
- `NothingForgotten` is two things: bytes replaced outside the guarded rewrite stay
  detectable until an alarm was given, through any order of checks and appends
  (`EvidenceKept`), and what the log explains is there (`LoggedIsKept`). That a change is
  alarmed once (`FlagsOnce`) holds of a quiet directory and is in `ToldIsTrue`.
- `MarketIsLive`: no market is taken for the live one before it opens or after it has ended,
  though the next one is parked beside it; a replaced one is dropped within the age of the
  cache; a window is opened and closed once, and none is recorded that was under way at an
  aligned start. That a window's tape begins in time (`OpensOnTime`) is part of `TapeSound`.
- `GuardsAgree` and `JobsSound` are about clean-up that comes late: the release of one
  run may not open the guards of the next, and a stopped run is not put to work again. The
  kill of a clean-up that comes late may strike the next run's worker (a finding).
- `GuardsComeBack` names the case the deadline does not cover (a finding): a stream whose
  client is gone before its generator starts leaves its worker to itself (`Abandoned`), and
  the guards with it for as long as it is wedged.
- `CaptureResumes` names the collector that is not replaced: one that wedged while there was no
  manifest, whose age nobody can tell (`Unseen`, a finding).
- `TapeSound` tells the exceptions too: trust in a leg is earned only while connections last
  (`steady`, see the findings), the socket's levels are forgotten after a minute,
  and a reply for one leg swallows the prints of the other.

Every property of a passing run has a mutant in `PROJECT.json`: the operators named
`Bug...` replace a definition by a plausible mistake, which the property then catches
under the run's own cfg.

### Bounds

- *Time.* Two windows (`LastWindow = 1`) give a window, its rollover and the opening of
  the next, where everything is reset, settled or promoted; `ahead`, `spot` and `exit_sells`
  have one more. A window of 3 units with a dead zone of 1 (6 and 2 in the backtest) has a
  time to enter, one to chase and the dead zone; `PollLag = 1` lets a poll that began in
  one window end in the next. The clocks of `MarketResolver` run over three windows or a
  long one, far enough for every lead, cooldown and expiry to happen and to miss.
- *Prices.* The books are the ones the code tells apart: balanced, one leg cheap, the
  same firmer (room for the chase), outside the quotable range, without two sides.
- *Faults.* `MaxFaults` of 1 to 3, `MaxLost`, `MaxRestarts` of 1 and so on count what the
  environment does to the code; one fault shows what one handler makes of it, the second
  what the retry does. `collector` allows three: a death, and another of its replacement,
  and a failed probe between.
- *Actors.* Two legs, two threads (ticker and stream, or ticker and executor), two series, two runs with two overlapping stops, two
  checkers, three process ids (the dying one, its replacement, one more), two uploads
  of one name. The theorems hold for any number of runs and stops (`BacktestGuardProofs`), of
  ticks, markets and requests (`EngineProofs`, `BacktestWindowProofs`), of processes, series,
  faults and any times (`CollectorProofs`), of orders, faults, stops, windows and threads that
  run exits (`LiveRoundProofs`), of tokens, levels and workers (`StreamProofs`), and of blocks, events and
  checks (`HashCheckProofs`).
- *Data.* Two tokens, one or two price levels, files of three to five lines, windows of
  the outcomes the reports distinguish, `MaxPrints = 3`. A property about order or
  duplication needs two of a thing and a third to come between.

`Dashboard.cfg` takes the runs and the stops as symmetric: they are model values no
definition distinguishes, and the run checks invariants only.

`CHECK_DEADLOCK FALSE` stands where things end: a round is over, an upload has been
answered, a search is done, a file read, a bounded number of calls made. `ChaseLadder`
has no end, and deadlock is checked there.

### Fairness

Only `closes` and `services` assume any.

- *Round.* Weak fairness of `BeginTick` (the loop sleeps a second and goes on), strong
  fairness of `AdvanceClock` (time passes whatever the ticker does), every poll ends
  (requests have timeouts, `gather` waits for them only), and of infinitely many polls
  infinitely many are answered: without an answer the engine does not act at all. It is
  not assumed that a book ever has two sides, that a print arrives, or that an operator
  does anything.
- *Guard.* Weak fairness of what the event loop runs (a queued task, a future that is
  ready, the deadline of a request, a generator that is closed) and of a signalled
  worker's death. No worker need finish: it may be wedged.
- *Services.* Weak fairness of the socket's task, of a rotation under way, of threads, of
  time, the watchdog's loop, the collectors' heartbeat, and of a client that asks again.
  Strong fairness only of taking a lock or the scan semaphore and of a loop that is asked
  to stop: others go on taking it, and Python's locks and asyncio's semaphores serve those
  who wait. Frames, faults, starts and requests of operators are not fair.

### The abstract round

`RoundRules` states what `docs/engine-decision-rules.md` promises of a round as a state
machine over what is held, how many pairs were made and what was sold or settled.
`FollowsRules` in `BacktestWindow` is that specification as a PROPERTY under the
refinement mapping (`held`, `pairs`, `sold`, `settled`, `late`, `closed` from the replay's
round); the `window` and `careful` parts are checked against it, and `ReplayFollowsRules`
proves it for all parameters and ticks. The live engine is not checked against it: after a
stop exit it may place the cancelled partner again, which is the first of the findings.

## 5. Proofs

TLAPS checks the eight proof modules without an open obligation. Each theorem is about the
specification the runs check, with its constants left open.

**PaperRoundProofs**: `RoundTyped`, `PositionAlwaysKnown`, `StopAlwaysArmed` and
`PendingAlwaysNaked`, for all books, offsets, geometries of the window, delays,
commands and lags allowed by `MarketAssumption` and `ClockAssumption`. None of the
three safety properties is inductive. The invariant is `IInv == TypeOK /\ RoundOK(m)`,
and `RoundOK` adds what the handlers rely on: a pair has two filled legs; an exit
belongs to a round with a filled leg; a staged stop belongs to a filled leg. Between
the second fill and the merge it is broken inside one handler: `MergeDue` names that
interval, and the merge restores `RoundOK` before the handler returns. `Same` says
that a phase leaves the round alone.
It is stated of a *market* and not of the state, so that each phase has one lemma,
"from a market that is all right to a market that is all right", and the tick's proof
is the chain of the phases. `StopArmed` needs that a leg alone is the leg of the stop:
the DOWN fill stages nothing beside a filled UP leg, the UP fill finds a stop staged.

Its second part goes on from there: `PairCostAlwaysBounded`, `RoundStepsHold` (entry
prices latch, an anchored quote moves only up and only beside a filled leg, a merged pair is
not stopped out) and `OrdersKeepToTheirTimes` (no entry is placed in the dead zone or during
the delay, by the tick's clock). The invariant `QInv` adds to `IInv` what a market's prices
are (`PricesOK`): each leg is quoted `Within` its bound, which is what it was quoted without
the chase or, beside a filled leg, what the cap leaves for it; and it must say so of a leg
that is not filled yet too, for its quote is the price it will be paid. A tick is again a
chain of phases: those that leave prices alone (`Quiet`), and those that, within one round,
only fill a leg or chase beside a filled one (`Goes`).

**BacktestWindowProofs**: `WindowTypes`, `PairCostHolds`, `SettlementAlwaysFindsMark` and,
of both, `LedgerHolds`; `QuotesAreHeld` and `NakedLegsAreClosed`, the two halves of what the
run asks under `QuotesHoldAndClose`; and `ReplayFollowsRules`, the refinement of
`RoundRules`, step by step: a tick is a sequence of fills, then a merge or a sale, and maps
to one step of the rules or to a stutter. They rest on `ParamsAssumption` (what
`BacktestParams` accepts) and on the shape of the ticks (`SnapsAssumption`). The invariant
`WInv` has the round of the loop (`RoundOK`), that the loop never leaves two filled legs
unpaired between ticks, and that an anchored round has four remembered quotes (`MarksKnown`),
which is why a leg that is open at the end finds a mark. A phase of the loop's body leaves
every leg and the ledger alone (`Base`), takes legs at their quotes (`Fills`), or ends the
tick (`Steps`).

**EngineProofs**, of three modules of the engine. Of `ChaseLadder`: `LadderTyped`,
`WithinCap`, `NeverAboveOriginal`, `CapReached`, `LadderRises`, and `ChaseExcludesStop`, the
argument of rule 12 that a leg down by the stop threshold has a partner the cap cannot buy.
They rest on `LadderAssumption`, on lemmas about `FloorCents` and on the monotonicity of
integer division; the cap is a whole number of cents because it is floored, and that is why
the flooring of the ceiling cannot overshoot it.

Of `StopExitRace`: `RaceTyped`, `BookedOnce`, `NotAbandoned`, `Unprotected`, for any number of
ticks (`TicksAssumption`). The invariant says where each thread may stand: a thread at the
merge has both legs filled (`MergeIsReal`); two filled legs without a pair are in the hands of
a thread that has yet to decide or claim (`PairInHand`); a stop staged beside two filled legs
is in the hands of a thread that will drop it (`StopInHand`).

Of `EngineConfig`: `MarketsAlwaysManaged` and `BalanceStaysLocked`, for any markets and wallets and
any number of requests: an answered order at the venue belongs to a market that is there and
has its handle, unless it is `loose`; a leg that is filled alone belongs to a market that is
there; and the balance of a live engine is that of the wallet in use, or a fetch of it is under
way, unless it is `amiss`. That holds because an answer for another address than the one in use
goes without a trace, and is inductive as it stands. For the first, the invariant `ConfigInv` adds that all the engine holds
(handles, orders in flight, legs, paired or not) is of markets that are there (`OfMarkets`), and
that whatever rests at the venue has its handle, is in flight or is loose (`Answered`).

**BacktestGuardProofs**: `GuardInvHolds`, `GuardTypeHolds`, `GuardsAgreeHolds` and
`JobsSoundHolds`, for any finite set of runs, any set of stops and any cap on finished
runs (`GuardAssumption`). Neither property is inductive, for what saves the guards is
what each coroutine remembers. `GuardInv` says it run by run and stop by stop. Of a run
(`RunSound`): one that has not begun has no task (`Started`), one that was not submitted
no executor and one without an executor no job (`Submitted`); a task that is created or
being prepared has its guards unless it was cancelled (`Unreleased`); one reported stopped
is cancelled and has no job (`Stopped`); a job that runs has a live worker (`Worked`); and
one whose guards are released is not of the executor the next run is given (`Detached`).
Of a stop (`StopSound`): one under way is of a run that was submitted and is cancelled, and
a worker it judged dead stays dead. And no executor has two jobs (`OneJob`). The proof has a
lemma for each kind of step: steps of a run that leave the others alone, releases,
submissions, deaths of workers, and the phases of a cancel.

**CollectorProofs**. Of the processes: `OneWriterHolds`, for any number of processes and
faults, and `HealthyIsKeptHolds`. Their hypotheses are the settings of the run: nobody but the
watchdog starts a collector (`Unattended`), and for the first the system carries a kill out
(`KillsWork`), for the second a collector writes its manifest in time (`InTime`: the
intervals in the code are 10, 60 and 180 seconds). Without them the statements are false,
and `findings` says how. The watchdog decides on what it found and acts later; the first
invariant says that what it found is still so (`FoundStaysTrue`), the second relates the
clocks (`Timed`): the manifest is not older than the last beat of any collector at work, and
a collector that is starting was started since the last look, so that a stale manifest is
that of a wedged one (`StaleIsWedged`).

Of the markets: `MarketIsLiveHolds`, for any number of series and any durations, leads, ages,
gaps between rounds, late or failed lookups and replacements. It rests on `ResolverAssumption`:
every duration divides the boundary (5 and 15 minutes), and a lookup comes no later than the
next round. The invariant `ResolverInv` adds what makes the cache safe: a cached market was
listed when it was cached, or was promoted within a round of its start (`CacheOK`), because the
next round comes in time for what is parked (`RoundsOK`); a closed window has ended before the
last round, so that no lookup names it again (`ClosedOK`); and the cutoff stands until a round
has passed it (`JoinOK`), after which a window that is still open began at the boundary or
later, since no window lies across one (`NoneStraddles`).

**StreamProofs**. Of the market socket: `FeedTyped`, `FeedSoundHolds`, `PrintsAreOnce`,
`NoGhostsOnTop` and `PongsAreOwn`, for any tokens, levels, buffers and backoffs. Only the second
has a hypothesis, the direct transport or no rotation during a send (`SendsUndisturbed`). The
invariant says what a session's subscription is worth (`SessionOK`, `FilteredOK`); that a level
which truly is there, or truly gone, is so in the book or will be made so by a frame in hand or
on the wire (`KeptOK`), and a frame that says otherwise is followed by one that says so
(`ToldOK`); that a book has no level above its declared best bid (`PrunedOK`); and that prints
travel in the order they are numbered, recorded, in hand, on the wire (`OrderOK`, `OnceOK`).
Of the bridges: `KnowsItsLoopHolds`, for any number of starts (`BridgeAssumption`): a worker
boots only for the start that waits for it, so that a late one cannot make its loop the
bridge's (`BootsInTime`).

**HashCheckProofs**: `EvidenceTyped` and `EvidenceHolds`, for any blocks, rewrites and checks,
where no generation given up is restored (`~Restores`) and there is one checker or none is
beside another (`Solitary`); both exceptions are findings. Every block written is older than the
next one (`FreshOK`), so that what a file does not begin with it never begins with again: a
generation that a guarded rewrite gave up begins with an older block than the file that followed
it (`HeadsOK`). On this rest the other parts of the invariant: an entry is of bytes that were
there (`StoreOK`); the entry of a day that was replaced silently is no prefix of the file, and
no rewrite, logged or under way, speaks for it (`SilentOK`); a check under way that will not flag
the day has hashed the bytes of before the replacement (`CheckOK`), and there is one at a time
(`OneCheck`). That the replaced bytes are in the backup is `BackedUp`.

**LiveRoundProofs**: `LiveInvHolds`, `OrdersAreKnown` and `SoldOnceHolds`, for any number of
orders, faults, stops, windows and threads of the executor, with or without the stream.
Of the constants they need only that no thread of the executor is the ticker
(`LiveAssumption`). The invariant `LiveInv` is about a *world*, the record that a call to the
venue takes and leaves (the market, the orders, what was lost or dropped): `Sound` says
that every handle is of an order of its leg and window (`Handled`), that every live order has
a handle or is lost or dropped (`Known`), that a filled leg was bought (`Backed`), that what
an exit under way has read of the other leg is a purchase (`Purchases`), that a
booked exit is matched (`Booked`), and that of each leg what is sold *and what is yet to be
sold* is no more than what was bought (`Counted`, with `Left`). The last is what makes the
retry safe: a leg may be sold only while it is counted as yet to be sold, and the handle of
its sale ends that. The last two are promised only in a `Context` where they are true: until
an exit has raced and, for the counts, until a stop.

The rest of the invariant is about what runs beside these calls. `UnderWay` types the exits
and dates what they read. `Windows` says which window the phases of the tick are about while
other steps come between. `OwnExit` is why the tick's own exit does not race: where there is
no spot tick and no stop (`Alone`), the exit of the tick is `OnCourse`, that is, its reading
is still true and its leg still `Exiting`, for the stream and the venue write nothing an exit
reads but what it waits for. With a thread of the executor that is false, and nothing of the
kind is claimed. There is a lemma for each kind of change a call makes (`Added`, `Turned`, a
handle taken or let go), one for each call, one for each phase or step, and one for each action.

Only model-checked, and why.

- *Liveness, under fairness*: all properties of `closes` and `services` but the three safety
  properties of `StopExitRace`. ENABLED and fairness are out of the prover's reach.
- *Inductions over data*, what a recursive definition or a fold computes for every input:
  `LedgerIsPnl` and the rest of `ReplaySound`, the reports, searches and queues
  (`WindowReports`, `ParameterSearch`, `OvernightSweep`, `TickReplay`, `TickVerify`,
  `TemplateStore`, `ChunkUpload`), the totals of `TradesStore`, the drain of `CollectorTape`,
  the sorted buffer of `UserStream`, and `PrintsConserved`, which counts the prints of every
  buffer.
- *Properties of a run that are guarded by a part*: `EntryGates` and `QuotesHoldAndClose` are
  stated of the harness; what they say of their components is proved as
  `OrdersKeepToTheirTimes`, `QuotesAreHeld` and `NakedLegsAreClosed`. So is `ClientsSound`, of
  which `KnowsItsLoop` is proved.
- *Statements under settings of a run*: `FlagsOnce` of `HashCheck` and `OpensOnTime` of
  `MarketResolver`.
- *Not attempted*: `VerifyCache`, `BacktestRequest` and `TickManifest`, and what else
  `TradesStore`, `UserStream` and `CollectorTape` promise. Nothing in them is known to be out of
  reach.

## 6. What the code does otherwise than it says

`findings` in `PROJECT.json` quotes each place. `exit_sells` shows one as a violation; the
others were met while modelling, and the properties above are stated so that they hold of
the code as it is, with the exception named.

- *Rounds.* A partner that was cancelled by a stop exit is placed again, fills beside the
  sold leg, or rests through the close; a thread books a stop exit over the other's merge;
  a poll overwrites the slot of the pre-quote before it is promoted; a one-sided opening
  latches the placeholder as the original quote; the first rung rounds up half a cent. The
  replay's stop sells at a recorded bid of 0.0, which its other readers take for no bid.
- *Live orders.* An exit whose order has matched keeps its handle over the rollover, and
  the next window's exit books it again (`exit_sells`); a stop lets the handle of an exit
  go, and a start sells the leg again; the next window's handles are overwritten with
  orders behind them; an order the user stream calls LIVE is not cancelled in the dead
  zone; a late event of the filled leg writes over `STOP_EXIT_PENDING`, the other leg is placed
  again beside the pending exit, and a merge drops that exit's handle uncancelled. An exit
  started by a spot tick and the tick's retry of it both read that nothing is submitted yet,
  and both sell; an exit clears a quote of the other leg that is newer than the one it
  cancelled; and `cancel_all_orders` does not look at what the venue did not cancel before it
  clears every handle.
- *Configuration and trades.* A refused request has modified fields; a removed paper market
  or a tick under way leaves an order to nobody; the balance may be the old wallet's; a
  crash in a save, a reset beside a booking and a settlement in two parts lose or split
  trades; a sync leaves activities of unknown markets out.
- *Streams.* A subscription may be that of the version before; a frame re-creates a dropped
  buffer; a stop does not end a worker that has yet to run its loop, or ends the next
  bridge's; an event during reconciliation is overtaken by the snapshot.
- *Collector.* A collector that wedges before there is a manifest is never replaced; two writers while a manifest is yet to be written, or after a kill that was
  refused; a survivor that is wedged; prints reported by both sources or by none at the
  edges of the warm-up; a warm-up that a rotation, a new bridge or a connection lost while a
  round begins does not restart; more than two lookups in a round.
- *Verification and reports.* A rewrite passes for an append in a check beside it, an
  event explains later edits, one change is flagged twice; a file passes with one bad
  record in twenty; a cached report tells of another file, and one on disk is filed under
  bytes that were written while it was made; a window with a pair and an
  exit is counted differently by two reports; two searches rank with and without fees.
- *Dashboard.* A late kill strikes the executor of the next run; a stopped run's result is
  streamed; a run without a client has no deadline; a retried last chunk truncates its
  file, or is taken for done; parameters are reported as asked for and not as run, and a
  delay as a fraction that a request reads as a percentage; a
  template without its tick file is not compared with the registry.

## 7. Not modelled, and why

- *Book authority* (`ws_book_authority`, ages and drift of socket against REST books, torn
  mids): `PaperRound` takes an arbitrary book of its set at every poll and `LiveRound` an
  arbitrary verdict, which includes every outcome of the choice; the choice itself is
  arithmetic on ages.
- *Window records, dataset builders, golden data, replay, shadow and latency scripts,
  research sweeps and results*: they read files and write files once, keep no state between
  calls, and nothing runs beside them. What they share with the rest (the grouping of a
  day into windows, the rebuild beside a collector) is in `TickReplay`, `TickVerify` and
  `CollectorProcess`.
- *The dashboard's HTML and JavaScript*, which are most of `osc_dash.py`: markup; the
  client's retries of an upload and of a pending report are in `ChunkUpload` and
  `VerifyCache`.
- *Queue depth, fees and PnL to the cent, telemetry, logging, HTTP and JSON parsing, the spot
  and RTDS clients' frames*: data no property tells apart. A queue too deep is a flag of a
  tick (`deep`); a spot tick is an arbitrary trigger, in `PaperRound` of an exit at once and in
  `LiveRound` of one that a thread of the executor carries out.
- *Partly modelled* components say in `PROJECT.json` what is left out; hazards no property
  covers carry a note with the reason.
