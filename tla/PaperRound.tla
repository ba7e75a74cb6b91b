----------------------------- MODULE PaperRound -----------------------------
(***************************************************************************)
(* One market of LiveTraderEngine (strategy/live_trader.py) in paper mode: *)
(* the round of two buy orders it quotes in every window of an up-or-down  *)
(* market, until the legs are merged as a pair, a single filled leg is     *)
(* stopped out, or the window is settled.                                  *)
(*                                                                         *)
(* Every handler of the engine is one action: the tick that follows a      *)
(* poll, a print and a book of the market socket, a spot tick, the         *)
(* operator's start, stop, panic button and configuration.  The tick is    *)
(* the composition of its phases, each an operator from a market to a      *)
(* market that is named for what it does.  The handlers run on two threads *)
(* that interleave inside a tick as well; that is StopExitRace.            *)
(*                                                                         *)
(* m.held is not in the code: it is the position the recorded fills and    *)
(* the booked trades leave in each leg.  m.repriced remembers that the     *)
(* configuration was applied in the middle of a round, and m.unchased is   *)
(* the highest price a leg was quoted at in it other than by the chase.    *)
(*                                                                         *)
(* A definition named Bug... is not part of the model: it is the operator  *)
(* that follows with a plausible mistake, which a property must catch.     *)
(***************************************************************************)
EXTENDS BookMath

CONSTANTS
    Books,          \* the quotes of the two legs a feed may deliver
    Offsets,        \* the offsets the operator may configure
    ExitThresh, ExitReversal, MaxPairCost, QuoteLo, QuoteHi,
    WindowLen, DeadZone, EntryDelay,    \* in units of the model's clock
    NakedAtExpiry,  \* "close" or "hold"
    EnableLegChase,
    Commands,       \* what the operator does after starting the engine
    LastWindow,     \* the clock stops when this window opens
    PollLag         \* how far the clock may move during one poll

Legs == {"UP", "DOWN"}
Opp(l) == IF l = "UP" THEN "DOWN" ELSE "UP"
BothLegs(v) == [l \in Legs |-> v]

Quotes == [bid : Nat, ask : Nat]

ASSUME MarketAssumption ==
    /\ Books \subseteq [Legs -> Quotes]
    /\ Offsets \subseteq 10 .. 4900 /\ Offsets # {}
    /\ ExitThresh \in Nat /\ ExitReversal \in Nat
    /\ MaxPairCost \in Dollar \div 2 .. Dollar
    /\ QuoteLo \in 0 .. Dollar /\ QuoteHi \in 0 .. Dollar /\ QuoteLo < QuoteHi
    /\ EnableLegChase \in BOOLEAN
    /\ NakedAtExpiry \in {"close", "hold"}

ASSUME ClockAssumption ==
    /\ WindowLen \in Nat \ {0} /\ DeadZone \in Nat /\ EntryDelay \in Nat
    /\ LastWindow \in Nat /\ PollLag \in Nat

VARIABLES
    m,          \* the market's MarketLiveState
    running, halted, offset,    \* the engine's is_running, quoting_halted, offset
    now,        \* the wall clock
    loop,       \* the ticker: "off", "sleep", or "polling" since tickNow
    tickNow

vars == <<m, running, halted, offset, now, loop, tickNow>>

NoWindow == -1
NoTime   == -1
NoLeg    == "NONE"

Start(w)  == w * WindowLen
End(w)    == (w + 1) * WindowLen
WindowAt(t) == t \div WindowLen

OrderStatuses == {"NONE", "RESTING", "FILLED", "CANCELLED"}
Statuses == {"IDLE", "QUOTING", "NO_BOOK", "LATE_START_SKIPPED", "NO_BOOK_SKIPPED",
             "DEAD_ZONE_NO_FILL", "FILLED_UP", "FILLED_DOWN", "PAIR_MERGED",
             "STOP_EXIT_PENDING", "STOP_EXIT"}
\* The statuses stop() and an expired tick put back to IDLE.
ActiveStatuses == {"QUOTING", "STOP_EXIT_PENDING"}

-----------------------------------------------------------------------------
(* Readings of a market *)

Mid(k)       == TwoSidedMid(k.book["UP"], k.book["DOWN"])
LegMid(k, l) == IF l = "UP" THEN Mid(k) ELSE Dollar - Mid(k)
InRange(p)   == QuoteLo <= p /\ p <= QuoteHi

AnyFilled(k)  == \E l \in Legs : k.filled[l]
BothFilled(k) == \A l \in Legs : k.filled[l]
NakedLeg(k, l) == k.filled[l] /\ ~k.filled[Opp(l)]
HasOrders(k)  == \E l \in Legs : k.ordId[l]

Elapsed(k, t)   == MaxOf(0, t - Start(k.cid))
DeadZoneAt(k, t) ==
    InDeadZone(MaxOf(0, WindowLen - Elapsed(k, t)), WindowLen, DeadZone)

\* _resolve_exit_bid: the leg's bid, the other leg's ask, or a quote latched
\* less than 30 seconds ago, which the model leaves to chance.
HasMark(k, l, latched) ==
    k.book[l].bid # NoPrice \/ k.book[Opp(l)].ask # NoPrice \/ latched

-----------------------------------------------------------------------------
(* What the handlers do to a round *)

\* A booked trade gives up a position that is held, and invents none.
Less(h) == MaxOf(0, h - 1)

ClearStop(k) == [k EXCEPT !.stopSide = NoLeg, !.stopPrice = NoPrice]

\* The stop measured from 0.50, as before issue #209.
BugStageStop(k, l) ==
    IF k.stopSide # NoLeg THEN k
    ELSE [k EXCEPT !.stopSide = l, !.stopPrice = RoundCents(Dollar \div 2 - ExitThresh)]

\* place_stop_order is a no-op while a stop is staged.
StageStop(k, l) ==
    IF k.stopSide # NoLeg THEN k
    ELSE [k EXCEPT !.stopSide = l,
                   !.stopPrice = RoundCents(ClampQuote(k.fillPrice[l] - ExitThresh))]

\* A leg is filled at its resting price; only the first leg starts the naked
\* clock and, for DOWN, only the first leg stages a stop.
FillLeg(k, l, t) ==
    LET first  == ~k.filled[Opp(l)]
        filled == [k EXCEPT !.filled[l] = TRUE,
                            !.fillPrice[l] = k.resting[l],
                            !.ordStatus[l] = "FILLED",
                            !.status = IF l = "UP" THEN "FILLED_UP"
                                       ELSE IF first THEN "FILLED_DOWN" ELSE "PAIR_MERGED",
                            !.nakedSince = IF first /\ k.nakedSince = NoTime
                                           THEN t ELSE k.nakedSince,
                            !.held[l] = k.held[l] + 1]
    IN IF l = "UP" \/ first THEN StageStop(filled, l) ELSE filled

\* The merge: the stop goes first, and the pair is claimed once.
CompletePair(k) ==
    IF k.pair THEN ClearStop(k)
    ELSE [ClearStop(k) EXCEPT !.pair = TRUE, !.status = "PAIR_MERGED",
                              !.nakedSince = NoTime,
                              !.held = [l \in Legs |-> Less(k.held[l])]]

\* _execute_stop_exit in paper mode, once it has a price to sell at.
StopExit(k, l) ==
    [k EXCEPT !.ordStatus[Opp(l)] = "CANCELLED", !.ordId[Opp(l)] = FALSE,
              !.exit = TRUE, !.status = "STOP_EXIT", !.held[l] = Less(k.held[l])]

\* A pending exit is retried on the leg that is filled, and held with no mark.
PendingLeg(k) == IF k.filled["UP"] THEN "UP" ELSE "DOWN"
RetryPending(k, latched) ==
    IF k.status = "STOP_EXIT_PENDING" /\ ~k.exit /\ HasMark(k, PendingLeg(k), latched)
    THEN StopExit(k, PendingLeg(k)) ELSE k

\* A quote of both legs that is not the chase's.
QuoteAt(k, prices) ==
    [k EXCEPT !.resting = prices,
              !.unchased = [l \in Legs |-> MaxOf(k.unchased[l], prices[l])]]

ResetRound(k) ==
    [k EXCEPT !.filled = BothLegs(FALSE), !.fillPrice = BothLegs(NoPrice),
              !.ordId = BothLegs(FALSE), !.ordStatus = BothLegs("NONE"),
              !.resting = BothLegs(NoPrice), !.original = BothLegs(NoPrice),
              !.unchased = BothLegs(NoPrice), !.anchored = NoPrice, !.pair = FALSE, !.exit = FALSE,
              !.breached = BothLegs(FALSE), !.reversal = BothLegs(FALSE),
              !.nakedSince = NoTime, !.stopSide = NoLeg, !.stopPrice = NoPrice,
              !.repriced = FALSE]

-----------------------------------------------------------------------------
(* The phases of _update_market_strategy, in the order of the code *)

\* Metadata of the next window; a new one drops the pre-quote of the old one.
NextWindow(k, next) ==
    IF next = NoWindow \/ next = k.nextCid THEN k
    ELSE [k EXCEPT !.nextCid = next, !.nextQuoted = FALSE]

PreQuote(k) ==
    IF running /\ ~halted /\ EntryDelay = 0 /\ k.nextCid # NoWindow
    THEN [k EXCEPT !.nextQuoted = TRUE] ELSE k

\* The rollover forgets the leg the round left open.
BugSettle(k) == k

\* _handle_window_rollover to window cid.  A leg the round left open is
\* settled, at the mark or as a loss of its whole cost.
Settle(k) ==
    IF AnyFilled(k) /\ ~k.pair /\ ~k.exit
    THEN [k EXCEPT !.held = [l \in Legs |-> IF k.filled[l] THEN Less(k.held[l])
                                                            ELSE k.held[l]]]
    ELSE k

Promotes(k, cid) == k.nextQuoted /\ k.nextCid = cid

Rollover(k, cid, latched) ==
    LET promoted == Promotes(k, cid)
        price    == IF promoted THEN Dollar \div 2 - offset ELSE NoPrice
        settled  == Settle(RetryPending(k, latched))
    IN [QuoteAt(ResetRound(settled), BothLegs(price)) EXCEPT
            !.ordId = BothLegs(promoted),
            !.ordStatus = BothLegs(IF promoted THEN "RESTING" ELSE "NONE"),
            !.nextQuoted = FALSE,
            !.entryCancelled = FALSE, !.seen = FALSE, !.lateSkip = FALSE,
            !.status = IF running THEN "QUOTING" ELSE "IDLE"]

\* A tick of a stopped engine, or past the window's end, does no more.
Idle(k) == IF k.status \in ActiveStatuses THEN [k EXCEPT !.status = "IDLE"] ELSE k

FreshStart(k, dz) ==
    IF (k.pair \/ k.exit) /\ ~dz /\ ~halted /\ Mid(k) # NoPrice /\ InRange(Mid(k))
    THEN ResetRound(k) ELSE k

OpeningQuote(k, l) == RoundMills(ClampQuote(LegMid(k, l) - offset))

\* Set and wait: the anchor latches once per clean round.
Anchor(k, dz) ==
    LET latches == /\ ~HasOrders(k) /\ ~AnyFilled(k) /\ ~dz
                   /\ k.anchored = NoPrice /\ Mid(k) # NoPrice /\ InRange(Mid(k))
                   /\ \A l \in Legs : InRange(OpeningQuote(k, l))
    IN IF latches THEN [QuoteAt(k, [l \in Legs |-> OpeningQuote(k, l)]) EXCEPT !.anchored = Mid(k)]
       ELSE k

KeepOriginal(k) ==
    [k EXCEPT !.original = [l \in Legs |-> IF k.original[l] = NoPrice
                                           THEN k.resting[l] ELSE k.original[l]]]

\* The chase pays the ask, whatever it is.
BugChaseTarget(k, l, t) == k.book[Opp(l)].ask

\* Leg l is filled and the other leg's quote may be raised, never lowered.
ChaseTarget(k, l, t) ==
    LET dzStart == DeadZoneStart(Start(k.cid), End(k.cid), DeadZone)
        nakedAt == IF k.nakedSince = NoTime THEN t ELSE k.nakedSince
    IN MinOf(k.book[Opp(l)].ask,
             ChaseCeiling(k.original[Opp(l)], ChaseCap(MaxPairCost, k.fillPrice[l]),
                          ProgressNum(t, nakedAt, dzStart), ProgressDen(nakedAt, dzStart)))

\* The chase follows the ask down as well as up.
BugChases(k, l, t) ==
    /\ EnableLegChase
    /\ NakedLeg(k, l) /\ k.book[Opp(l)].ask # NoPrice
    /\ ChaseTarget(k, l, t) # k.resting[Opp(l)]

Chases(k, l, t) ==
    /\ EnableLegChase
    /\ NakedLeg(k, l) /\ k.book[Opp(l)].ask # NoPrice
    /\ ChaseTarget(k, l, t) > k.resting[Opp(l)]

ChaseFrom(k, l, t) ==
    IF Chases(k, l, t) THEN [k EXCEPT !.resting[Opp(l)] = ChaseTarget(k, l, t)] ELSE k

Chase(k, t) ==
    IF k.pair \/ k.exit THEN k
    ELSE IF NakedLeg(k, "UP") THEN ChaseFrom(k, "UP", t)
    ELSE ChaseFrom(k, "DOWN", t)

\* Excursion of a naked leg against its own entry price.
TrackDrift(k) ==
    LET against(l) == k.fillPrice[l] - LegMid(k, l)
        tracked(l) == NakedLeg(k, l) /\ Mid(k) # NoPrice
        breached   == [l \in Legs |-> k.breached[l] \/ (tracked(l) /\ against(l) >= ExitThresh)]
    IN [k EXCEPT !.breached = breached,
                 !.reversal = [l \in Legs |-> k.reversal[l] \/
                                 (tracked(l) /\ breached[l] /\ against(l) < ExitReversal)]]

\* The first running tick of a window decides whether the engine came late.
LateStart(k, dz) ==
    IF k.seen THEN k
    ELSE IF HasOrders(k) \/ AnyFilled(k) \/ \E l \in Legs : k.ordStatus[l] = "RESTING"
    THEN [k EXCEPT !.seen = TRUE]
    ELSE [k EXCEPT !.seen = TRUE, !.lateSkip = dz]

LateSkip(k) ==
    IF k.lateSkip /\ ~k.entryCancelled /\ ~AnyFilled(k) /\ ~HasOrders(k)
    THEN [k EXCEPT !.entryCancelled = TRUE, !.status = "LATE_START_SKIPPED"] ELSE k

CancelInDeadZone(k, dz) ==
    IF (dz \/ k.lateSkip) /\ ~k.entryCancelled /\ ~AnyFilled(k)
    THEN [k EXCEPT !.ordStatus = BothLegs("CANCELLED"), !.entryCancelled = TRUE,
                   !.status = IF k.lateSkip THEN "LATE_START_SKIPPED"
                              ELSE IF Mid(k) = NoPrice THEN "NO_BOOK_SKIPPED"
                              ELSE "DEAD_ZONE_NO_FILL"]
    ELSE k

DelayPending(k, t) == EntryDelay > 0 /\ Elapsed(k, t) < EntryDelay /\ ~AnyFilled(k)
RangeHold(k) == Mid(k) # NoPrice /\ ~InRange(Mid(k)) /\ ~HasOrders(k) /\ ~AnyFilled(k)

\* Nothing is said of the dead zone.
BugCanPlace(k, t, dz) ==
    /\ ~halted /\ ~k.entryCancelled /\ ~k.lateSkip
    /\ ~DelayPending(k, t) /\ ~RangeHold(k)
    /\ Mid(k) # NoPrice /\ k.anchored # NoPrice
    /\ k.status # "STOP_EXIT_PENDING" /\ ~BothFilled(k)

CanPlace(k, t, dz) ==
    /\ ~halted /\ ~k.entryCancelled /\ ~dz /\ ~k.lateSkip
    /\ ~DelayPending(k, t) /\ ~RangeHold(k)
    /\ Mid(k) # NoPrice /\ k.anchored # NoPrice
    /\ k.status # "STOP_EXIT_PENDING" /\ ~BothFilled(k)

Placed(k, l) == ~k.filled[l] /\ k.ordStatus[l] # "RESTING"

PlaceOrders(k) ==
    [k EXCEPT !.ordId = [l \in Legs |-> k.ordId[l] \/ Placed(k, l)],
              !.ordStatus = [l \in Legs |-> IF Placed(k, l) THEN "RESTING" ELSE k.ordStatus[l]],
              !.status = IF k.status \in {"IDLE", "NO_BOOK"} THEN "QUOTING" ELSE k.status]

HoldForBook(k, t, dz) ==
    IF /\ Mid(k) = NoPrice /\ ~k.entryCancelled /\ ~dz /\ ~k.lateSkip
       /\ ~DelayPending(k, t) /\ k.status = "IDLE"
    THEN [k EXCEPT !.status = "NO_BOOK"] ELSE k

\* The paper fill check: UP, then DOWN, then UP again behind a fresh DOWN.
\* new holds the legs whose quote reached the book on this tick.
Takes(k, l, new) == AskFills(k.resting[l], k.book[l].ask, l \in new)

SimUp(k, new, can, t) ==
    IF ~k.filled["UP"] /\ (k.filled["DOWN"] \/ can) /\ Takes(k, "UP", new)
    THEN FillLeg(k, "UP", t) ELSE k

SimDown(k, new, can, t) ==
    IF ~k.filled["DOWN"] /\ (k.filled["UP"] \/ can) /\ Takes(k, "DOWN", new)
    THEN FillLeg(k, "DOWN", t) ELSE k

\* After a fill of leg l on this tick, the other leg is chased at once.
ChaseAfterFill(before, k, l, t) ==
    IF ~before.filled[l] /\ k.filled[l] THEN ChaseFrom(k, l, t) ELSE k

RaisedLegs(before, k) == {l \in Legs : k.resting[l] # before.resting[l]}

\* The second look at UP needs the chase switched on and an ask to meet.
SimUpAgain(before, k, new, can, t) ==
    IF /\ ~before.filled["DOWN"] /\ k.filled["DOWN"] /\ ~k.filled["UP"]
       /\ can /\ EnableLegChase
    THEN SimUp(k, new, can, t) ELSE k

DetectFills(k, new, can, t) ==
    IF k.status = "STOP_EXIT_PENDING" THEN k
    ELSE LET up     == SimUp(k, new, can, t)
             afterUp == ChaseAfterFill(k, up, "UP", t)
             newUp  == new \cup RaisedLegs(k, afterUp)
             down   == SimDown(afterUp, newUp, can, t)
             afterDown == ChaseAfterFill(afterUp, down, "DOWN", t)
         IN SimUpAgain(afterUp, afterDown, newUp \cup RaisedLegs(afterUp, afterDown), can, t)

\* The exits of a single filled leg.
Triggered(k, l) ==
    /\ \/ NakedLeg(k, l) /\ k.breached[l]
       \/ k.stopSide = l /\ k.book[l].bid <= k.stopPrice
    /\ k.book[l].bid # NoPrice
    /\ ~k.reversal[l] /\ ~k.exit

StopTrigger(k) ==
    IF Triggered(k, "UP") THEN StopExit(ClearStop(k), "UP")
    ELSE IF Triggered(k, "DOWN") THEN StopExit(ClearStop(k), "DOWN")
    ELSE k

CancelOpposite(k, l) ==
    IF k.ordId[Opp(l)] /\ k.ordStatus[Opp(l)] = "RESTING"
    THEN [k EXCEPT !.ordStatus[Opp(l)] = "CANCELLED"] ELSE k

CloseAtDeadZone(k, l, latched) ==
    LET cancelled == CancelOpposite(k, l)
    IN IF NakedAtExpiry = "hold" THEN StopTrigger(cancelled)
       ELSE IF HasMark(k, l, latched) THEN StopExit(ClearStop(cancelled), l)
       ELSE cancelled

Exits(k, dz, latched) ==
    IF k.status = "STOP_EXIT_PENDING" /\ ~k.exit THEN RetryPending(k, latched)
    ELSE IF dz /\ ~k.exit /\ NakedLeg(k, "UP") THEN CloseAtDeadZone(k, "UP", latched)
    ELSE IF dz /\ ~k.exit /\ NakedLeg(k, "DOWN") THEN CloseAtDeadZone(k, "DOWN", latched)
    ELSE StopTrigger(k)

\* The tick of a window the engine trades.  The poll delivers a window only while
\* start_ts <= now < end_ts (fetch_live_and_upcoming_markets), so it has a clock
\* (_window_clock) and the branch for a window without one is never taken.
Trade(k, t, latched) ==
    LET dz       == DeadZoneAt(k, t)
        anchored == KeepOriginal(Anchor(FreshStart(k, dz), dz))
        chased   == Chase(anchored, t)
        gated    == CancelInDeadZone(LateSkip(LateStart(TrackDrift(chased), dz)), dz)
        can      == CanPlace(gated, t, dz)
        placed   == IF can THEN PlaceOrders(gated) ELSE HoldForBook(gated, t, dz)
        new      == RaisedLegs(anchored, chased) \cup
                        {l \in Legs : can /\ Placed(gated, l)}
        filled   == DetectFills(placed, new, can, t)
    IN IF BothFilled(filled) THEN CompletePair(filled) ELSE Exits(filled, dz, latched)

\* The whole tick of time t, with the poll's current and next window and the
\* book as the reconciliation of socket and REST leaves it.
Tick(t, cur, next, book, latched) ==
    LET quoted == PreQuote(NextWindow(m, next))
        rolled == IF quoted.cid # NoWindow /\ quoted.cid # cur
                  THEN Rollover(quoted, cur, latched) ELSE quoted
        fresh  == [rolled EXCEPT !.cid = cur, !.book = book]
    IN IF cur = NoWindow THEN quoted
       ELSE IF ~running \/ t >= End(cur) THEN Idle(fresh)
       ELSE Trade(fresh, t, latched)

-----------------------------------------------------------------------------
(* The actions *)

\* LiveTraderEngine.start
StartEngine ==
    /\ ~running
    /\ running' = TRUE /\ halted' = FALSE
    /\ loop' = IF loop = "off" THEN "sleep" ELSE loop
    /\ UNCHANGED <<m, offset, now, tickNow>>

\* LiveTraderEngine.stop
StopEngine ==
    /\ running /\ "stop" \in Commands
    /\ running' = FALSE /\ m' = Idle(m)
    /\ UNCHANGED <<halted, offset, now, loop, tickNow>>

\* cancel_all_orders with no venue client
CancelAll ==
    /\ "cancel_all" \in Commands
    /\ running' = FALSE /\ halted' = TRUE
    /\ m' = Idle([m EXCEPT !.ordId = BothLegs(FALSE), !.ordStatus = BothLegs("CANCELLED"),
                           !.anchored = NoPrice, !.nextQuoted = FALSE])
    /\ UNCHANGED <<offset, now, loop, tickNow>>

\* update_config rewrites the resting prices of every market.
UpdateConfig ==
    /\ ~running /\ "update_config" \in Commands
    /\ \E o \in Offsets :
        /\ offset' = o
        /\ m' = [QuoteAt(m, BothLegs(Dollar \div 2 - o)) EXCEPT
                          !.repriced = m.repriced \/ AnyFilled(m) \/
                                       \E l \in Legs : m.original[l] # NoPrice]
    /\ UNCHANGED <<running, halted, now, loop, tickNow>>

\* _run_loop: the top of its loop, and the poll's end.
BeginTick ==
    /\ loop = "sleep"
    /\ IF running THEN loop' = "polling" /\ tickNow' = now
                  ELSE loop' = "off" /\ UNCHANGED tickNow
    /\ UNCHANGED <<m, running, halted, offset, now>>

\* The poll asked for the markets at some moment at between its two ends, and was
\* answered with the window open at that moment, the next one, or neither.
FinishTick(at, cur, next) ==
    /\ loop = "polling" /\ loop' = "sleep"
    /\ IF cur = NoWindow /\ next = NoWindow THEN UNCHANGED m
       ELSE \E book \in Books, latched \in BOOLEAN : m' = Tick(tickNow, cur, next, book, latched)
    /\ UNCHANGED <<running, halted, offset, now, tickNow>>

PollFails == \E at \in tickNow .. now :
                \E next \in {NoWindow, WindowAt(at) + 1} : FinishTick(at, NoWindow, next)
PollOk    == \E at \in tickNow .. now :
                \E next \in {NoWindow, WindowAt(at) + 1} : FinishTick(at, WindowAt(at), next)

\* on_book_update, of a token the first poll has made known
OnBookUpdate(l) ==
    /\ m.cid # NoWindow
    /\ \E book \in Books : m' = [m EXCEPT !.book[l] = book[l]]
    /\ UNCHANGED <<running, halted, offset, now, loop, tickNow>>

\* on_ws_trade: a print within a tick of the resting price fills the leg.
OnWsTrade(l) ==
    /\ running /\ ~halted
    /\ ~m.filled[l] /\ m.ordId[l] /\ m.ordStatus[l] = "RESTING"
    /\ PrintFills(m.resting[l], m.resting[l])
    /\ ~m.entryCancelled /\ ~m.lateSkip
    /\ LET filled == FillLeg(m, l, now)
       IN m' = IF BothFilled(filled) THEN CompletePair(filled) ELSE filled
    /\ UNCHANGED <<running, halted, offset, now, loop, tickNow>>

\* on_spot_tick: a spot move against a naked leg starts its exit at once.  The
\* move may itself be as large as the stop threshold.
OnSpotTick(l) ==
    /\ running /\ ~halted
    /\ NakedLeg(m, l) /\ ~m.exit /\ m.status # "STOP_EXIT_PENDING"
    /\ \E large, latched \in BOOLEAN :
        m' = RetryPending([m EXCEPT !.status = "STOP_EXIT_PENDING",
                                    !.breached[l] = m.breached[l] \/ large], latched)
    /\ UNCHANGED <<running, halted, offset, now, loop, tickNow>>

AdvanceClock ==
    /\ now < Start(LastWindow)
    /\ loop = "polling" => now - tickNow < PollLag
    /\ now' = now + 1
    /\ UNCHANGED <<m, running, halted, offset, loop, tickNow>>

NewMarket ==
    [cid |-> NoWindow, nextCid |-> NoWindow, nextQuoted |-> FALSE,
     seen |-> FALSE, lateSkip |-> FALSE, entryCancelled |-> FALSE,
     book |-> BothLegs([bid |-> NoPrice, ask |-> NoPrice]), anchored |-> NoPrice,
     resting |-> BothLegs(Dollar \div 2 - offset), unchased |-> BothLegs(Dollar \div 2 - offset),
     original |-> BothLegs(NoPrice),
     ordId |-> BothLegs(FALSE), ordStatus |-> BothLegs("NONE"),
     filled |-> BothLegs(FALSE), fillPrice |-> BothLegs(NoPrice), nakedSince |-> NoTime,
     stopSide |-> NoLeg, stopPrice |-> NoPrice,
     breached |-> BothLegs(FALSE), reversal |-> BothLegs(FALSE),
     pair |-> FALSE, exit |-> FALSE, status |-> "IDLE",
     held |-> BothLegs(0), repriced |-> FALSE]

Init ==
    /\ offset \in Offsets
    /\ m = NewMarket
    /\ running = FALSE /\ halted = FALSE
    /\ now = 0 /\ loop = "off" /\ tickNow = 0

Operator == StartEngine \/ StopEngine \/ CancelAll \/ UpdateConfig
Ticker   == BeginTick \/ PollFails \/ PollOk
Stream   == \E l \in Legs : OnBookUpdate(l) \/ OnWsTrade(l) \/ OnSpotTick(l)

Next == Operator \/ Ticker \/ Stream \/ AdvanceClock

Spec == Init /\ [][Next]_vars

\* The ticker runs as long as the engine does, time passes whatever the ticker
\* does, every poll ends (it has a timeout), and of endlessly many polls
\* endlessly many are answered.
FairSpec ==
    /\ Spec
    /\ WF_vars(BeginTick) /\ SF_vars(AdvanceClock)
    /\ []<>(loop # "polling")
    /\ []<>(loop = "polling") => []<><<PollOk>>_vars

-----------------------------------------------------------------------------
(* Properties *)

Market ==
    [cid : -1 .. LastWindow, nextCid : -1 .. LastWindow + 1, nextQuoted : BOOLEAN,
     seen : BOOLEAN, lateSkip : BOOLEAN, entryCancelled : BOOLEAN,
     book : [Legs -> Quotes], anchored : Int,
     resting : [Legs -> Int], unchased : [Legs -> Int], original : [Legs -> Int],
     ordId : [Legs -> BOOLEAN], ordStatus : [Legs -> OrderStatuses],
     filled : [Legs -> BOOLEAN], fillPrice : [Legs -> Int],
     nakedSince : Int, stopSide : Legs \cup {NoLeg}, stopPrice : Int,
     breached : [Legs -> BOOLEAN], reversal : [Legs -> BOOLEAN],
     pair : BOOLEAN, exit : BOOLEAN, status : Statuses,
     held : [Legs -> Nat], repriced : BOOLEAN]

\* The types of the engine's state.
TypeOK ==
    /\ m \in Market
    /\ running \in BOOLEAN /\ halted \in BOOLEAN /\ offset \in Offsets
    /\ now \in 0 .. Start(LastWindow) /\ tickNow \in 0 .. now
    /\ loop \in {"off", "sleep", "polling"}

\* The flags a round decides with are its true position: a leg is held exactly
\* when it is filled and neither merged nor stopped out.  No reset, rollover,
\* stop or panic button forgets a leg that is held or claims one that is gone.
PositionKnown ==
    \A l \in Legs : m.held[l] = IF m.filled[l] /\ ~m.pair /\ ~m.exit THEN 1 ELSE 0

\* A leg that is filled alone has its own stop staged, at its entry less the
\* stop threshold, whichever of the two threads saw the fill (issue #87).
StopArmed ==
    \A l \in Legs : NakedLeg(m, l) /\ ~m.exit =>
        /\ m.stopSide = l
        /\ m.stopPrice = RoundCents(ClampQuote(m.fillPrice[l] - ExitThresh))

\* An exit is pending only for a leg that is filled alone and still held.
PendingIsNaked ==
    m.status = "STOP_EXIT_PENDING" => ~m.exit /\ \E l \in Legs : NakedLeg(m, l)

\* The cap binds the chase: a leg of a pair above the cap was never paid more than the
\* highest quote its round gave it before and beside the chase, up to the rounding of
\* the venue's prices, whatever was reset or reconfigured meanwhile (rules 4 and 12).
PairCost == m.fillPrice["UP"] + m.fillPrice["DOWN"]
PairCostBounded ==
    m.pair => \A l \in Legs : \/ PairCost <= MaxPairCost
                              \/ m.fillPrice[l] <= m.unchased[l] + 50

SameRound == m'.cid = m.cid /\ ~m.pair /\ ~m.exit

\* The entry price latches on the tick it fills and never moves (rule 3).
EntryPriceFixed ==
    [][\A l \in Legs : SameRound /\ m.filled[l] =>
            m'.filled[l] /\ m'.fillPrice[l] = m.fillPrice[l]]_vars

\* Set and wait: an anchored quote stands through every gate; only the chase
\* moves it, only upwards and only beside a filled leg (rules 1 and 12).
StandingQuoteMoves ==
    /\ SameRound /\ ~m'.repriced /\ m.anchored # NoPrice /\ m'.anchored # NoPrice
    /\ \E l \in Legs : /\ m'.resting[l] # m.resting[l]
                       /\ ~(m'.resting[l] > m.resting[l] /\ m'.filled[Opp(l)])
QuotesHold == [][~ StandingQuoteMoves]_vars

\* A pair that was merged is never stopped out, nor is it by the step that merges it;
\* only the other leg of a round that was stopped out may be bought late (rule 2).
PairNotStoppedOut == [][m'.pair /\ m'.exit => m.exit]_vars

RoundSteps == EntryPriceFixed /\ QuotesHold /\ PairNotStoppedOut

\* Rule 8: no tick of a trading engine puts an order on the book in the dead zone.
Rests(l) == m.ordStatus[l] # "RESTING" /\ m'.ordStatus[l] = "RESTING"
OpensInDeadZone ==
    running /\ DeadZoneAt(m', tickNow) /\ \E l \in Legs : Rests(l)

\* Issue #137: while the entry delay of a window runs, none of its quotes rests,
\* whether it was quoted in the window or before it opened.
OpensDuringDelay == DelayPending(m', tickNow) /\ \E l \in Legs : Rests(l)

\* Every position of a window that ends is merged, stopped out or settled, as
\* long as the engine runs.
EveryLegCloses ==
    \A l \in Legs : (m.held[l] > 0 /\ m.cid < LastWindow) ~> (m.held[l] = 0 \/ ~running)
=============================================================================
