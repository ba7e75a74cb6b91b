------------------------------ MODULE LiveRound ------------------------------
(***************************************************************************)
(* One market of LiveTraderEngine (strategy/live_trader.py) in live mode:  *)
(* what the engine knows of its orders, beside the orders themselves.      *)
(*                                                                         *)
(* Several threads act on it: the tick on the event loop, the threads of   *)
(* the executor that a spot tick hands a stop exit to, the user stream and *)
(* whoever stops the engine.  A stop exit is made of calls and of sections *)
(* under the lock, and what it has read may be out of date when it acts.   *)
(*                                                                         *)
(* The venue is external: an order is live until it is matched or          *)
(* cancelled; a call may be refused, or be carried out and its answer      *)
(* lost; and what happens to an order is told by the user stream late, in  *)
(* any order, twice, or never.  The tick is split into its phases, and     *)
(* between two of them orders are matched and events come in.              *)
(*                                                                         *)
(* Prices are abstract: a tick finds the mid in range, out of range or     *)
(* nowhere; the stop breached or not; the quote of the open leg raised by  *)
(* the chase or not; a bid to sell at or none.                             *)
(*                                                                         *)
(* A definition named Bug... is not part of the model: it is a plausible   *)
(* mistake in the definition after it, which one of the properties catches.*)
(***************************************************************************)
EXTENDS Integers, Sequences, FiniteSets

CONSTANTS
    Stream,         \* does the user stream deliver events?
    Faults,         \* subset of {"refuse", "lost"}: of the venue's calls
    NakedAtExpiry,  \* "close" or "hold"
    PreQuotes,      \* is the next window quoted in advance (no entry delay)?
    Executors,      \* threads of the executor that runs the exits of spot ticks
    MaxOrders, MaxFaults, MaxStops, LastWindow   \* bounds

ASSUME LiveAssumption ==
    /\ {Stream, PreQuotes} \subseteq BOOLEAN /\ Faults \subseteq {"refuse", "lost"}
    /\ NakedAtExpiry \in {"close", "hold"} /\ "ticker" \notin Executors

VARIABLES
    m,          \* MarketLiveState
    running, halted,
    stopping,   \* has a stop cancelled the orders, and their handles not yet?
    pc,         \* the tick: idle, roll, settle, reset, decide, quote, poll, close, leg
    tick,       \* the window and the clock this tick has read
    exits,      \* each thread's stop exit: where it is and what it has read
    clock,      \* [win, at: "open", "dead", "over"]
    orders,     \* external: the orders the venue has ever accepted
    lost, dropped,  \* auxiliary: orders whose answer was lost; whose handle was let go
    raced,      \* auxiliary: has an exit acted on what another one had made untrue?
    spent       \* [faults, stops]

vars == <<m, running, halted, stopping, pc, tick, exits, clock, orders, lost, dropped,
          raced, spent>>
engine == <<running, halted, stopping>>
ticker == <<pc, tick>>

Legs == {"UP", "DOWN"}
Opp(l) == IF l = "UP" THEN "DOWN" ELSE "UP"
Both(v) == [l \in Legs |-> v]
None == 0       \* no order, no window
Threads == {"ticker"} \cup Executors
NoExit == [at |-> "none", leg |-> "none", other |-> None, id |-> None, win |-> None]
Ids == DOMAIN orders
Live(i) == i \in Ids /\ orders[i].st = "live"
Matched(i) == i \in Ids /\ orders[i].st = "matched"

OneFilled(s) == s.filled["UP"] # s.filled["DOWN"]
Naked(s) == CHOOSE l \in Legs : s.filled[l]
BothFilled(s) == \A l \in Legs : s.filled[l]
NoEntry(s) == \A l \in Legs : s.entry[l] = None /\ ~ s.filled[l]

Market ==
    [cid |-> None, next |-> Both(None), nextCid |-> None, nextQuoted |-> FALSE,
     status |-> "IDLE", timeout |-> FALSE,
     entry |-> Both(None), est |-> Both("NONE"), filled |-> Both(FALSE),
     exit |-> Both(None), xst |-> Both("NONE"), stop |-> "none", chased |-> "none",
     anchored |-> FALSE, pair |-> FALSE, taken |-> "none"]

\* What both a new window and a new round forget.
Forget(s) ==
    [s EXCEPT !.filled = Both(FALSE), !.stop = "none", !.chased = "none",
              !.anchored = FALSE, !.pair = FALSE, !.taken = "none"]

Init ==
    /\ m = Market /\ running = TRUE /\ halted = FALSE /\ stopping = FALSE /\ pc = "idle"
    /\ exits = [t \in Threads |-> NoExit] /\ raced = FALSE
    /\ clock = [win |-> 1, at |-> "open"] /\ tick = clock /\ orders = <<>>
    /\ lost = {} /\ dropped = {} /\ spent = [faults |-> 0, stops |-> 0]

-----------------------------------------------------------------------------
(* The venue.  A call takes a world to the set of the worlds it may leave:  *)
(* s is the market's state, os the orders, f the faults so far.             *)

World == [s |-> m, os |-> orders, lost |-> lost, dropped |-> dropped, f |-> spent.faults]
Fault(w, kind) == kind \in Faults /\ w.f < MaxFaults
Then(ws, F(_)) == UNION {F(w) : w \in ws}
LetGo(os, ids) == {i \in ids : i # None /\ os[i].st = "live"}

\* place_live_quote and the handle its caller keeps; one it had is let go.
Accepted(l, side, win) == [leg |-> l, side |-> side, win |-> win, st |-> "live"]
Noted(s, field, l, id) ==
    CASE field = "entry" -> [s EXCEPT !.entry[l] = id, !.est[l] = "RESTING"]
      [] field = "next" -> [s EXCEPT !.next[l] = id]
      [] field = "exit" -> [s EXCEPT !.exit[l] = id, !.xst[l] = "RESTING"]
Place(w, field, l, side, win) ==
    LET id == Len(w.os) + 1
        accepted == [w EXCEPT !.os = Append(@, Accepted(l, side, win))]
    IN  {[accepted EXCEPT !.s = Noted(@, field, l, id),
                          !.dropped = @ \cup LetGo(w.os, {w.s[field][l]})]}
        \cup {x \in {[w EXCEPT !.f = @ + 1]} : Fault(w, "refuse")}
        \cup {x \in {[accepted EXCEPT !.lost = @ \cup {id}, !.f = @ + 1]} : Fault(w, "lost")}

\* _clear_order_handles
BugCleared(s, i) == [s EXCEPT !.entry = Both(None)]
Cleared(s, i) ==
    [s EXCEPT !.entry = [l \in Legs |-> IF @[l] = i THEN None ELSE @[l]],
              !.est = [l \in Legs |-> IF s.entry[l] = i THEN "CANCELLED" ELSE @[l]],
              !.next = [l \in Legs |-> IF @[l] = i THEN None ELSE @[l]],
              !.exit = [l \in Legs |-> IF @[l] = i THEN None ELSE @[l]]]

\* cancel_live_order: no order, or one that is no longer live, is not cancelled,
\* and the handles are cleared only on a success.
Cancel(w, i) ==
    LET gone == [w EXCEPT !.os[i].st = "canceled"]
    IN  IF i = None \/ w.os[i].st # "live" THEN {w}
        ELSE {[gone EXCEPT !.s = Cleared(@, i)]}
             \cup {x \in {[w EXCEPT !.f = @ + 1]} : Fault(w, "refuse")}
             \cup {x \in {[gone EXCEPT !.f = @ + 1]} : Fault(w, "lost")}
Holds(s, i) == \E l \in Legs : i \in {s.entry[l], s.next[l], s.exit[l]}
CancelIf(w, cond, i) == IF cond THEN Cancel(w, i) ELSE {w}

-----------------------------------------------------------------------------
(* The stop exit (_execute_stop_exit), of the tick or of a thread of the    *)
(* executor: read the handles, cancel the other leg, sell this one if that  *)
(* was not yet submitted when they were read, ask for the fill.             *)

Become(w) ==
    /\ m' = w.s /\ orders' = w.os /\ lost' = w.lost /\ dropped' = w.dropped
    /\ spent' = [spent EXCEPT !.faults = w.f]
    /\ Len(w.os) <= MaxOrders
    /\ UNCHANGED <<engine, clock>>

Pending(w) == [w EXCEPT !.s.status = "STOP_EXIT_PENDING"]
Taken(w, l) == [w EXCEPT !.s.taken = l, !.s.status = "STOP_EXIT", !.s.xst[l] = "FILLED"]

Reading(s, l) ==
    LET other == s.entry[Opp(l)]
        id == s.exit[l]
    IN  [at |-> IF other # None THEN "cancel" ELSE "submit",
         leg |-> l, other |-> other, id |-> id, win |-> s.cid]

\* What exit e has read is no longer so.
Stale(e) ==
    \/ m.exit[e.leg] # e.id \/ m.cid # e.win \/ m.taken # "none"
    \/ e.id = None /\ ~ m.filled[e.leg]

\* on_spot_tick: the exit is pending, and a thread of the executor is to carry it out.
SpotTrigger(t) ==
    /\ exits[t].at = "none" /\ running /\ ~ halted
    /\ OneFilled(m) /\ m.taken = "none" /\ m.status # "STOP_EXIT_PENDING"
    /\ m' = [m EXCEPT !.status = "STOP_EXIT_PENDING"]
    /\ exits' = [exits EXCEPT ![t] = [NoExit EXCEPT !.at = "read", !.leg = Naked(m)]]
    /\ UNCHANGED <<engine, ticker, clock, orders, lost, dropped, raced, spent>>

\* Without a bid, nor one latched, the exit is held.
ReadHandles(t) ==
    /\ exits[t].at = "read"
    /\ \E bid \in BOOLEAN : exits' = [exits EXCEPT ![t] = IF bid THEN Reading(m, @.leg) ELSE NoExit]
    /\ UNCHANGED <<m, engine, ticker, clock, orders, lost, dropped, raced, spent>>

CancelOther(t) ==
    LET i == exits[t].other
        agreed(x) == Live(i) /\ x.os[i].st = "canceled" /\ x.f = spent.faults
    IN  /\ exits[t].at = "cancel"
        /\ \E x \in Cancel(World, i) :
            IF agreed(x) THEN Become(x) /\ exits' = [exits EXCEPT ![t].at = "submit"]
                         ELSE Become(Pending(x)) /\ exits' = [exits EXCEPT ![t] = NoExit]
        /\ UNCHANGED <<ticker, raced>>

\* The handle of the other leg goes, whichever order it is of by now.
Unhand(w, l) ==
    [w EXCEPT !.s.entry[l] = None, !.s.est[l] = "CANCELLED",
              !.dropped = @ \cup LetGo(w.os, {w.s.entry[l]})]

\* A SELL at the bid may match at once, and the answer say so.
AtOnce(w, l, i) ==
    {w} \cup {x \in {[w EXCEPT !.os[i].st = "matched", !.s.xst[l] = "FILLED"]} : w.s.exit[l] = i}
Sell(w, e) ==
    Then(Place(w, "exit", e.leg, "SELL", e.win), LAMBDA x : AtOnce(x, e.leg, Len(w.os) + 1))

BugSubmitted(w, e) == Sell(w, e)
Submitted(w, e) == IF e.id = None THEN Sell(w, e) ELSE {w}

Submit(t) ==
    LET e == exits[t]
        w == IF e.other = None THEN World ELSE Unhand(World, Opp(e.leg))
        own == Len(orders) + 1
    IN  /\ e.at = "submit"
        /\ \E x \in Submitted(w, e) :
            /\ Become(x)
            /\ exits' = [exits EXCEPT ![t].at = "ask",
                                      ![t].id = IF x.s.exit[e.leg] = own THEN own ELSE @]
        /\ raced' = (raced \/ (e.id = None /\ Stale(e)))
        /\ UNCHANGED ticker

AskFill(t) ==
    LET e == exits[t]
        known == m.xst[e.leg] = "FILLED"
    IN  /\ e.at = "ask" /\ exits' = [exits EXCEPT ![t] = NoExit]
        /\ \/ /\ known \/ Matched(e.id)
              /\ Become(Taken(World, e.leg)) /\ raced' = (raced \/ Stale(e))
           \/ /\ ~ known /\ ~ Matched(e.id)
              /\ Become(Pending(World)) /\ UNCHANGED raced
           \/ /\ ~ known /\ e.id # None /\ Fault(World, "lost")
              /\ Become([Pending(World) EXCEPT !.f = @ + 1]) /\ UNCHANGED raced
        /\ UNCHANGED ticker

ExitStep(t) == CancelOther(t) \/ Submit(t) \/ AskFill(t)

-----------------------------------------------------------------------------
(* The tick (_update_market_strategy).                                      *)

\* A tick goes on when its exit is over.
TickAt(at) == pc = at /\ exits["ticker"].at = "none"
Goes(w, at) == Become(w) /\ pc' = at /\ UNCHANGED <<exits, raced>>

\* The next window's data: a new one lets the handles of the one before go.
NextWindow(w, next) ==
    IF next = w.s.nextCid THEN w
    ELSE [w EXCEPT !.s.nextCid = next, !.s.next = Both(None), !.s.nextQuoted = FALSE,
                   !.dropped = @ \cup LetGo(w.os, {w.s.next[l] : l \in Legs})]

PlaceIf(w, cond, field, l, win) == IF cond THEN Place(w, field, l, "BUY", win) ELSE {w}
QuoteAhead(w) ==
    IF ~ (running /\ ~ halted /\ PreQuotes /\ w.s.nextCid # None /\ ~ w.s.nextQuoted) THEN {w}
    ELSE Then(Then(PlaceIf(w, w.s.next["UP"] = None, "next", "UP", w.s.nextCid),
                   LAMBDA x : PlaceIf(x, x.s.next["DOWN"] = None, "next", "DOWN", x.s.nextCid)),
              LAMBDA y : {[y EXCEPT !.s.nextQuoted = \A l \in Legs : y.s.next[l] # None]})

BeginTick ==
    /\ TickAt("idle")
    /\ \E known \in BOOLEAN, w \in {World} :
        \E x \in QuoteAhead(IF known THEN NextWindow(w, clock.win + 1) ELSE w) :
            IF m.cid \notin {None, clock.win} THEN Goes(x, "roll")
            ELSE Goes([x EXCEPT !.s.cid = clock.win], "decide")
    /\ tick' = clock

\* Which leg a pending exit is of.  It sells at the price it was submitted at,
\* or at a bid.
PendingSide(s) == IF s.exit["UP"] # None \/ s.filled["UP"] THEN "UP" ELSE "DOWN"
PendingExit(s) == s.status = "STOP_EXIT_PENDING" /\ s.taken = "none"
Priced(s, l) == s.exit[l] # None /\ orders[s.exit[l]].win = s.cid
Retry(at) ==
    LET l == PendingSide(m)
    IN  \E bid \in BOOLEAN :
        /\ exits' = IF bid \/ Priced(m, l) THEN [exits EXCEPT !["ticker"] = Reading(m, l)] ELSE exits
        /\ Become(World) /\ pc' = at /\ UNCHANGED raced

\* _handle_window_rollover, to the settlement: a pending exit once more, and the
\* orders of the window that has ended.
Roll ==
    /\ TickAt("roll")
    /\ IF PendingExit(m) THEN Retry("settle") ELSE Goes(World, "settle")
    /\ UNCHANGED tick
Settle ==
    /\ TickAt("settle")
    /\ \E x \in CancelIf(World, ~ m.filled["UP"], m.entry["UP"]) :
        \E y \in CancelIf(x, ~ x.s.filled["DOWN"], x.s.entry["DOWN"]) :
            Goes([y EXCEPT !.s.stop = "none"], "reset")
    /\ UNCHANGED tick

\* From the promotion on.
Promoted(s) == s.nextQuoted /\ s.nextCid = tick.win
Promote(w) ==
    IF Promoted(w.s)
    THEN {[w EXCEPT !.s.entry = w.s.next, !.s.est = Both("RESTING"), !.s.next = Both(None),
                    !.s.nextQuoted = FALSE,
                    !.dropped = @ \cup LetGo(w.os, {w.s.entry[l] : l \in Legs})]}
    ELSE Then(Then(Cancel(w, w.s.next["UP"]), LAMBDA x : Cancel(x, x.s.next["DOWN"])),
              LAMBDA y : {[y EXCEPT !.s.next = Both(None), !.s.nextQuoted = FALSE,
                                    !.s.entry = Both(None), !.s.est = Both("NONE"),
                                    !.dropped = @ \cup LetGo(y.os,
                                        {y.s.entry[l] : l \in Legs} \cup {y.s.next[l] : l \in Legs})]})
NewWindow(w) == [w EXCEPT !.s = [Forget(@) EXCEPT !.timeout = FALSE]]
ClearExit(w, l) ==
    {[x EXCEPT !.s.xst[l] = IF x.s.exit[l] = None THEN "NONE" ELSE @]
        : x \in Cancel(w, w.s.exit[l])}
Reset ==
    /\ TickAt("reset")
    /\ \E x \in Then(Then(Promote(World), LAMBDA v : ClearExit(NewWindow(v), "UP")),
                     LAMBDA v : ClearExit(v, "DOWN")) :
        Goes([x EXCEPT !.s.status = IF running THEN "QUOTING" ELSE "IDLE", !.s.cid = tick.win],
             "decide")
    /\ UNCHANGED tick

\* _reset_round_to_clean: no order is cancelled, the exit's included.
FreshStart(w, mid) ==
    IF (w.s.pair \/ w.s.taken # "none") /\ tick.at = "open" /\ mid = "in" /\ ~ halted
    THEN [w EXCEPT !.s = [Forget(@) EXCEPT !.entry = Both(None), !.est = Both("NONE"),
                                           !.exit = Both(None), !.xst = Both("NONE")],
                   !.dropped = @ \cup LetGo(w.os, {w.s.entry[l] : l \in Legs}
                                                       \cup {w.s.exit[l] : l \in Legs})]
    ELSE w

\* The anchor, and the chase of the open leg.
Latch(s, mid) ==
    [s EXCEPT !.anchored = @ \/ (NoEntry(s) /\ mid = "in" /\ tick.at # "dead")]
Chase(s, raise) ==
    [s EXCEPT !.chased =
        IF s.pair \/ s.taken # "none" \/ ~ OneFilled(s) THEN "none"
        ELSE IF raise THEN Opp(Naked(s)) ELSE @]

\* In the dead zone what rests is cancelled while nothing is filled.
DeadZoneCancel(w) ==
    LET resting(l) == w.s.entry[l] # None /\ w.s.est[l] = "RESTING"
        done == Then(CancelIf(w, resting("UP"), w.s.entry["UP"]),
                     LAMBDA x : CancelIf(x, resting("DOWN"), x.s.entry["DOWN"]))
        failed(x) == \E l \in Legs : resting(l) /\ x.s.entry[l] # None
    IN  IF tick.at # "dead" \/ w.s.timeout \/ \E l \in Legs : w.s.filled[l] THEN {w}
        ELSE {IF failed(x) THEN x
              ELSE [x EXCEPT !.s.timeout = TRUE, !.s.status = "DEAD_ZONE_NO_FILL"] : x \in done}

CanPlace(s, mid) ==
    /\ ~ halted /\ ~ s.timeout /\ tick.at = "open"
    /\ mid # "none" /\ ~ (mid = "out" /\ NoEntry(s)) /\ s.anchored
    /\ s.status # "STOP_EXIT_PENDING" /\ ~ BothFilled(s)

\* A chased order that rests is cancelled, to be placed again at the new price.
Requote(w) ==
    LET l == w.s.chased
    IN  IF l = "none" THEN {w} ELSE CancelIf(w, w.s.est[l] = "RESTING", w.s.entry[l])
PlaceEntries(w) ==
    Then(Then(Requote(w), LAMBDA x : PlaceIf(x, x.s.entry["UP"] = None, "entry", "UP", x.s.cid)),
         LAMBDA y : {[z EXCEPT !.s.status = IF @ = "IDLE" THEN "QUOTING" ELSE @]
                     : z \in PlaceIf(y, y.s.entry["DOWN"] = None, "entry", "DOWN", y.s.cid)})

\* What may be placed is decided before the calls that place it.
Decide ==
    /\ TickAt("decide")
    /\ IF ~ running \/ tick.at = "over"
       THEN Goes([World EXCEPT !.s.status =
                      IF @ \in {"QUOTING", "STOP_EXIT_PENDING"} THEN "IDLE" ELSE @], "idle")
       ELSE \E mid \in {"in", "out", "none"}, raise \in BOOLEAN :
            LET w == FreshStart(World, mid)
                v == [w EXCEPT !.s = Chase(Latch(@, mid), raise)]
            IN  \E x \in DeadZoneCancel(v) :
                    Goes(x, IF CanPlace(x.s, mid) THEN "quote" ELSE "poll")
    /\ UNCHANGED tick
Quote ==
    /\ TickAt("quote")
    /\ \E x \in PlaceEntries(World) : Goes(x, "poll")
    /\ UNCHANGED tick

\* What a fill means for the market, told by a poll or by the stream.
Fill(s, l) ==
    [s EXCEPT !.filled[l] = TRUE, !.status = IF l = "UP" THEN "FILLED_UP" ELSE "FILLED_DOWN"]
Stage(s, l) == [s EXCEPT !.stop = IF @ = "none" THEN l ELSE @]

\* get_order for each leg, unless both are filled or an exit is pending.
AskEntry(w, l) ==
    LET i == w.s.entry[l]
        s == [Fill(w.s, l) EXCEPT !.est[l] = "FILLED"]
    IN  IF w.s.filled[l] \/ i = None \/ w.os[i].st # "matched" THEN {w}
        ELSE {[w EXCEPT !.s = IF l = "DOWN" /\ s.filled["UP"]
                              THEN [s EXCEPT !.status = "PAIR_MERGED"] ELSE Stage(s, l)]}
             \cup {x \in {[w EXCEPT !.f = @ + 1]} : Fault(w, "lost")}
Poll ==
    /\ TickAt("poll")
    /\ IF BothFilled(m) \/ m.status = "STOP_EXIT_PENDING" THEN Goes(World, "close")
       ELSE \E x \in Then(AskEntry(World, "UP"), LAMBDA y : AskEntry(y, "DOWN")) : Goes(x, "close")
    /\ UNCHANGED tick

\* The pair is merged; or a pending exit is taken up again; or the open leg is
\* closed in the dead zone, or stopped out.
Merge(w) ==
    [w EXCEPT !.s.chased = "none", !.s.stop = IF w.s.pair THEN @ ELSE "none", !.s.pair = TRUE,
              !.s.status = IF w.s.pair THEN @ ELSE "PAIR_MERGED"]
Trigger(w) == [w EXCEPT !.s.status = "STOP_EXIT_PENDING", !.s.stop = "none"]
Exposed(s) == OneFilled(s) /\ s.taken = "none" /\ s.status # "STOP_EXIT_PENDING"

CloseLeg ==
    LET l == Naked(m)
        dead == tick.at = "dead"
    IN  IF ~ Exposed(m) THEN Goes(World, "idle")
        ELSE \E breach \in BOOLEAN, bid \in BOOLEAN :
             \E x \in CancelIf(World, dead /\ m.est[Opp(l)] = "RESTING", m.entry[Opp(l)]) :
                IF bid /\ (breach \/ (dead /\ NakedAtExpiry = "close"))
                THEN /\ Become(Trigger(x)) /\ pc' = "idle" /\ UNCHANGED raced
                     /\ exits' = [exits EXCEPT !["ticker"] = Reading(x.s, l)]
                ELSE Goes(x, "idle")
Close ==
    /\ TickAt("close")
    /\ IF BothFilled(m) THEN Goes(Merge(World), "idle")
       ELSE IF PendingExit(m) THEN Retry("leg")
       ELSE CloseLeg
    /\ UNCHANGED tick
\* After the pending exit.
Leg ==
    /\ TickAt("leg")
    /\ IF m.taken # "none" THEN Goes(World, "idle") ELSE CloseLeg
    /\ UNCHANGED tick

-----------------------------------------------------------------------------
(* The stream thread, the operator, the clock and the venue.                *)

\* on_user_order_event: the market is written without the lock.
Event(s, i, st) ==
    LET legs == {l \in Legs : s.entry[l] = i}
        l == CHOOSE k \in legs : TRUE
        told == [s EXCEPT !.est[l] = st]
        full == IF st = "MATCHED" THEN Fill(told, l) ELSE told
    IN  IF legs # {}
        THEN IF OneFilled(full) /\ full.taken = "none" THEN Stage(full, Naked(full)) ELSE full
        ELSE [s EXCEPT !.xst = [k \in Legs |-> IF s.exit[k] = i THEN st ELSE @[k]]]
Told(i) ==
    {"LIVE"} \cup (IF orders[i].st = "matched" THEN {"MATCHED"}
                   ELSE IF orders[i].st = "canceled" THEN {"CANCELED"} ELSE {})
OnUserOrderEvent(i) ==
    /\ Stream
    /\ \E st \in Told(i) : m' = Event(m, i, st)
    /\ UNCHANGED <<engine, ticker, exits, clock, orders, lost, dropped, raced, spent>>

\* stop and the panic button (cancel_all_orders).  What the venue says to the one
\* call that cancels all is not looked at; a call that raises keeps the handles.
Calmed(s) == [s EXCEPT !.status = IF @ \in {"QUOTING", "STOP_EXIT_PENDING"} THEN "IDLE" ELSE @]
Resting == {i \in Ids : Live(i)}
CancelAll(gone) ==
    orders' = [i \in Ids |-> IF i \in gone THEN [orders[i] EXCEPT !.st = "canceled"] ELSE orders[i]]
Stop ==
    /\ running /\ spent.stops < MaxStops
    /\ running' = FALSE /\ halted' = TRUE
    /\ \/ /\ CancelAll(Resting) /\ stopping' = TRUE /\ UNCHANGED m
          /\ spent' = [spent EXCEPT !.stops = @ + 1]
       \/ /\ spent.faults < MaxFaults /\ spent' = [faults |-> spent.faults + 1, stops |-> spent.stops + 1]
          /\ \/ /\ "refuse" \in Faults
                /\ \E gone \in SUBSET Resting : CancelAll(gone)
                /\ stopping' = TRUE /\ UNCHANGED m
             \/ /\ "lost" \in Faults
                /\ \E gone \in {{}, Resting} : CancelAll(gone)
                /\ m' \in {m, Calmed(m)} /\ UNCHANGED stopping
    /\ UNCHANGED <<ticker, exits, clock, lost, dropped, raced>>

\* Under the lock every handle goes, one that was kept since the call included.
StopClears ==
    /\ stopping /\ stopping' = FALSE
    /\ m' = [Calmed(m) EXCEPT !.entry = Both(None), !.est = Both("CANCELLED"), !.exit = Both(None),
                              !.xst = Both("CANCELLED"), !.anchored = FALSE, !.next = Both(None),
                              !.nextQuoted = FALSE]
    /\ dropped' = dropped \cup {i \in Ids : Live(i) /\ Holds(m, i)}
    /\ UNCHANGED <<running, halted, ticker, exits, clock, orders, lost, raced, spent>>
Start ==
    /\ ~ running /\ running' = TRUE /\ halted' = FALSE
    /\ UNCHANGED <<m, stopping, ticker, exits, clock, orders, lost, dropped, raced, spent>>

\* External: time, and who trades with an order of a window that has not ended.
AdvanceClock ==
    /\ clock.at = "over" => clock.win < LastWindow
    /\ clock' = CASE clock.at = "open" -> [clock EXCEPT !.at = "dead"]
                  [] clock.at = "dead" -> [clock EXCEPT !.at = "over"]
                  [] clock.at = "over" -> [win |-> clock.win + 1, at |-> "open"]
    /\ UNCHANGED <<m, engine, ticker, exits, orders, lost, dropped, raced, spent>>
VenueMatches(i) ==
    /\ orders[i].st = "live" /\ orders[i].win >= clock.win
    /\ orders' = [orders EXCEPT ![i].st = "matched"]
    /\ UNCHANGED <<m, engine, ticker, exits, clock, lost, dropped, raced, spent>>

Next ==
    \/ BeginTick \/ Roll \/ Settle \/ Reset \/ Decide \/ Quote \/ Poll \/ Close \/ Leg
    \/ \E t \in Threads : ExitStep(t)
    \/ \E t \in Executors : SpotTrigger(t) \/ ReadHandles(t)
    \/ Stop \/ StopClears \/ Start \/ AdvanceClock
    \/ \E i \in Ids : OnUserOrderEvent(i) \/ VenueMatches(i)

Spec == Init /\ [][Next]_vars

-----------------------------------------------------------------------------
Orders(l, side, sts) ==
    {i \in Ids : orders[i].leg = l /\ orders[i].side = side /\ orders[i].win = m.cid /\ orders[i].st \in sts}

(* Every order that is live at the venue can be found from the market's     *)
(* handles, but for one whose answer was lost and one whose handle was let  *)
(* go: by the next window's data, a fresh start, a refused cancel, a stop,  *)
(* or an exit that clears or writes over a handle newer than its reading.   *)
Managed == \A i \in Ids : Live(i) => Holds(m, i) \/ i \in lost \cup dropped

(* A leg that is recorded as filled was bought.                             *)
FilledWasBought == \A l \in Legs : m.filled[l] => Orders(l, "BUY", {"matched"}) # {}

(* However often an exit is retried, no more is offered than was bought,    *)
(* unless an answer of the venue was lost, a stop let the exit's handle go, *)
(* or two exits raced.                                                      *)
NeverOversold ==
    lost = {} /\ spent.stops = 0 /\ ~ raced =>
        \A l \in Legs : Cardinality(Orders(l, "SELL", {"live", "matched"}))
                            <= Cardinality(Orders(l, "BUY", {"matched"}))

(* An exit that is booked was a sale at the venue.                          *)
ExitWasSold ==
    ~ raced /\ m.taken # "none" /\ m.exit[m.taken] # None => Matched(m.exit[m.taken])

(* The tick's own retries race with nothing: without spot ticks none does.  *)
OnlySpotRaces == DOMAIN exits = {"ticker"} /\ spent.stops = 0 => ~ raced

(* No live order is unknown to the market, but for one whose answer was     *)
(* lost or whose handle was let go; and a leg counts as filled only if it   *)
(* was bought.                                                              *)
OrdersKnown == Managed /\ FilledWasBought

(* Within a window an exit that is booked was a sale, and however often it  *)
(* is retried no more is sold than was bought, unless a spot tick's exit    *)
(* acted on a reading that another exit had made untrue.                    *)
SoldOnce == ExitWasSold /\ NeverOversold /\ OnlySpotRaces

(* "Market sell the filled leg if not yet submitted" (live_trader.py:1802): *)
(* what an exit books is the sale of the leg of this window.                *)
ExitIsOfThisWindow ==
    m.taken # "none" /\ m.exit[m.taken] # None => orders[m.exit[m.taken]].win = m.cid

(* "In the dead zone: open nothing, and cancel unfilled resting quotes"     *)
(* (live_trader.py:4616): a market that timed out has no order on the book. *)
TimeoutLeavesNothing ==
    m.timeout /\ pc = "idle" => \A l \in Legs : ~ Live(m.entry[l])
=============================================================================
