---------------------------- MODULE StopExitRace ----------------------------
(***************************************************************************)
(* The threads that share a round of the paper engine                      *)
(* (strategy/live_trader.py): the ticker thread in _update_market_strategy *)
(* and the stream thread in on_ws_trade and on_spot_tick.  PaperRound takes *)
(* each handler in one step; here a step is a section the code holds       *)
(* _engine_lock for, or an unlocked read or write between two of them.     *)
(*                                                                         *)
(* The round is inside one window, ahead of the dead zone, with both quotes *)
(* resting and nothing filled; what the book, the tape and the spot feed   *)
(* say is left to chance.  A stop exit is a subroutine of both threads.    *)
(* Definitions named Bug... are mistakes a property must catch.            *)
(***************************************************************************)
EXTENDS Naturals

CONSTANT MaxTicks       \* a bound on the ticks of the round
ASSUME TicksAssumption == MaxTicks \in Nat

Threads == {"ticker", "stream"}
Legs == {"UP", "DOWN"}
Opp(l) == IF l = "UP" THEN "DOWN" ELSE "UP"
None == "NONE"

VARIABLES
    filled, resting,    \* per leg: filled_up, order_status_up = "RESTING"
    pair, exit,         \* pair_captured, exit_taken
    pending,            \* status = "STOP_EXIT_PENDING"
    staged,             \* stop_side, or None
    pc, leg,            \* per thread: what it does next, and for which leg
    canFill,            \* the ticker's can_sim_up and can_sim_dn
    ticks,
    pairsCount, stopsCount      \* the merges and the stop exits booked

counts == <<pairsCount, stopsCount>>

vars == <<filled, resting, pair, exit, pending, staged, pc, leg, canFill, ticks, counts>>

Naked(l) == filled[l] /\ ~filled[Opp(l)]

Goto(p, at) == pc' = [pc EXCEPT ![p] = at]
Turn(p, at, l) == Goto(p, at) /\ leg' = [leg EXCEPT ![p] = l]

-----------------------------------------------------------------------------
(* The fill of a leg, on either thread *)

Fill(l) ==
    /\ filled' = [filled EXCEPT ![l] = TRUE]
    /\ resting' = [resting EXCEPT ![l] = FALSE]
    /\ pending' = FALSE
    /\ staged' = IF staged = None /\ (l = "UP" \/ ~filled["UP"]) THEN l ELSE staged

\* The ticker reads the flags of its fill check without the lock: an entry
\* leg or the partner of a filled leg, in any status but a pending exit.  A
\* tick that finds the round over starts another, which is not this module's.
TickBegins ==
    /\ pc["ticker"] = "idle" /\ ticks < MaxTicks /\ ~pair /\ ~exit
    /\ ticks' = ticks + 1
    /\ canFill' = [l \in Legs |-> ~pending /\ ~filled[l]]
    /\ Goto("ticker", "fill")
    /\ UNCHANGED <<filled, resting, pair, exit, pending, staged, leg, counts>>

\* The book fills a leg the ticker found open; the stream may have been there.
TickFills(l) ==
    /\ pc["ticker"] = "fill" /\ canFill[l]
    /\ Fill(l) /\ canFill' = [canFill EXCEPT ![l] = FALSE]
    /\ UNCHANGED <<pair, exit, pc, leg, ticks, counts>>

TickDecides ==
    /\ pc["ticker"] = "fill"
    /\ Goto("ticker", IF filled["UP"] /\ filled["DOWN"] THEN "unstage" ELSE "reconcile")
    /\ UNCHANGED <<filled, resting, pair, exit, pending, staged, leg, canFill, ticks, counts>>

\* on_ws_trade looks at the round under the lock, and again when it fills.
PrintSeen(l) ==
    /\ pc["stream"] = "idle" /\ ~filled[l] /\ resting[l]
    /\ Turn("stream", "fill", l)
    /\ UNCHANGED <<filled, resting, pair, exit, pending, staged, canFill, ticks, counts>>

TapeFill ==
    /\ pc["stream"] = "fill"
    /\ LET l == leg["stream"] IN
        IF filled[l] \/ ~resting[l]
        THEN Goto("stream", "idle") /\ UNCHANGED <<filled, resting, pending, staged>>
        ELSE Fill(l) /\ Goto("stream", "filled")
    /\ UNCHANGED <<pair, exit, leg, canFill, ticks, counts>>

\* The merge is left to the ticker.
BugPrintDecides ==
    /\ pc["stream"] = "filled" /\ Goto("stream", "idle")
    /\ UNCHANGED <<filled, resting, pair, exit, pending, staged, leg, canFill, ticks, counts>>

PrintDecides ==
    /\ pc["stream"] = "filled"
    /\ Goto("stream", IF filled["UP"] /\ filled["DOWN"] THEN "unstage" ELSE "idle")
    /\ UNCHANGED <<filled, resting, pair, exit, pending, staged, leg, canFill, ticks, counts>>

-----------------------------------------------------------------------------
(* The merge, on either thread: drop the stop, then claim the pair *)

\* A stop of the other leg stays.
BugUnstage(p) ==
    /\ pc[p] = "unstage" /\ Goto(p, "claim")
    /\ staged' = IF staged = leg[p] THEN None ELSE staged
    /\ UNCHANGED <<filled, resting, pair, exit, pending, leg, canFill, ticks, counts>>

Unstage(p) ==
    /\ pc[p] = "unstage"
    /\ staged' = None /\ Goto(p, "claim")
    /\ UNCHANGED <<filled, resting, pair, exit, pending, leg, canFill, ticks, counts>>

\* The claim without the look at pair_captured.
BugClaim(p) ==
    /\ pc[p] = "claim" /\ Goto(p, "idle")
    /\ pair' = TRUE /\ pending' = FALSE
    /\ pairsCount' = pairsCount + 1
    /\ UNCHANGED <<filled, resting, exit, staged, leg, canFill, ticks, stopsCount>>

Claim(p) ==
    /\ pc[p] = "claim" /\ Goto(p, "idle")
    /\ IF pair THEN UNCHANGED <<pair, pending, pairsCount>>
       ELSE pair' = TRUE /\ pending' = FALSE /\ pairsCount' = pairsCount + 1
    /\ UNCHANGED <<filled, resting, exit, staged, leg, canFill, ticks, stopsCount>>

-----------------------------------------------------------------------------
(* The stop exit, on either thread *)

\* on_spot_tick decides under the lock that a naked leg leaves.
SpotTriggers(l) ==
    /\ pc["stream"] = "idle"
    /\ Naked(l) /\ ~exit /\ ~pending
    /\ pending' = TRUE /\ Turn("stream", "price", l)
    /\ UNCHANGED <<filled, resting, pair, exit, staged, canFill, ticks, counts>>

\* The ticker takes up a pending exit that is not booked yet.
TickReconciles ==
    /\ pc["ticker"] = "reconcile" /\ pending /\ ~exit
    /\ Turn("ticker", "price", IF filled["UP"] THEN "UP" ELSE "DOWN")
    /\ UNCHANGED <<filled, resting, pair, exit, pending, staged, canFill, ticks, counts>>

\* A drift breach or a touched stop makes the ticker start an exit.
TickTriggers(l) ==
    /\ pc["ticker"] = "reconcile" /\ ~pending /\ ~exit
    /\ Naked(l) \/ staged = l
    /\ Turn("ticker", "trigger", l)
    /\ UNCHANGED <<filled, resting, pair, exit, pending, staged, canFill, ticks, counts>>

TickStartsExit ==
    /\ pc["ticker"] = "trigger"
    /\ pending' = TRUE /\ staged' = None /\ Goto("ticker", "price")
    /\ UNCHANGED <<filled, resting, pair, exit, leg, canFill, ticks, counts>>

TickEnds ==
    /\ pc["ticker"] = "reconcile" /\ (~pending \/ exit)
    /\ Goto("ticker", "idle")
    /\ UNCHANGED <<filled, resting, pair, exit, pending, staged, leg, canFill, ticks, counts>>

\* _execute_stop_exit: the price (or none, and the exit stays pending), the
\* opposite order, and the books, with nothing looked at again.
ExitPriced(p) ==
    /\ pc[p] = "price"
    /\ \E marked \in BOOLEAN : Goto(p, IF marked THEN "cancel" ELSE "idle")
    /\ UNCHANGED <<filled, resting, pair, exit, pending, staged, leg, canFill, ticks, counts>>

ExitCancels(p) ==
    /\ pc[p] = "cancel"
    /\ resting' = [resting EXCEPT ![Opp(leg[p])] = FALSE] /\ Goto(p, "book")
    /\ UNCHANGED <<filled, pair, exit, pending, staged, leg, canFill, ticks, counts>>

ExitBooked(p) ==
    /\ pc[p] = "book"
    /\ exit' = TRUE /\ pending' = FALSE
    /\ stopsCount' = stopsCount + 1 /\ Goto(p, "idle")
    /\ UNCHANGED <<filled, resting, pair, staged, leg, canFill, ticks, pairsCount>>

-----------------------------------------------------------------------------
Init ==
    /\ filled = [l \in Legs |-> FALSE] /\ resting = [l \in Legs |-> TRUE]
    /\ pair = FALSE /\ exit = FALSE /\ pending = FALSE /\ staged = None
    /\ pc = [p \in Threads |-> "idle"] /\ leg = [p \in Threads |-> "UP"]
    /\ canFill = [l \in Legs |-> FALSE]
    /\ ticks = 0 /\ pairsCount = 0 /\ stopsCount = 0

Ticker == TickBegins \/ TickDecides \/ TickReconciles \/ TickStartsExit \/ TickEnds
            \/ \E l \in Legs : TickFills(l) \/ TickTriggers(l)
Stream == TapeFill \/ PrintDecides \/ \E l \in Legs : PrintSeen(l) \/ SpotTriggers(l)
Either(p) == Unstage(p) \/ Claim(p) \/ ExitPriced(p) \/ ExitCancels(p) \/ ExitBooked(p)

Next == Ticker \/ Stream \/ \E p \in Threads : Either(p)

Spec == Init /\ [][Next]_vars

-----------------------------------------------------------------------------
(* Properties *)

Steps == {"idle", "fill", "filled", "unstage", "claim", "reconcile", "trigger",
          "price", "cancel", "book"}

\* The types of the round and of its threads.
TypeOK ==
    /\ filled \in [Legs -> BOOLEAN] /\ resting \in [Legs -> BOOLEAN]
    /\ pair \in BOOLEAN /\ exit \in BOOLEAN /\ pending \in BOOLEAN
    /\ staged \in Legs \cup {None}
    /\ pc \in [Threads -> Steps] /\ leg \in [Threads -> Legs]
    /\ canFill \in [Legs -> BOOLEAN] /\ ticks \in 0 .. MaxTicks
    /\ pairsCount \in Nat /\ stopsCount \in Nat

\* Whichever threads complete the pair, it is booked once and only with both
\* legs filled (_complete_ws_pair: "atomic vs ticker path").
PairBookedOnce ==
    /\ pairsCount = IF pair THEN 1 ELSE 0
    /\ pair => filled["UP"] /\ filled["DOWN"]

Quiet == \A p \in Threads : pc[p] = "idle"

\* When both handlers have returned, a round with both legs filled is booked:
\* neither thread leaves the merge to the other (issue #166).
PairNotAbandoned == Quiet /\ filled["UP"] /\ filled["DOWN"] => pair

\* And no stop works against one leg of a merged pair (issue #87), although a
\* late fill of the ticker may stage one behind the other thread's merge.
MergedPairUnprotected == Quiet /\ pair => staged = None

\* Rule 2: a leg that is filled alone ends in exactly one of two outcomes.
OneOutcomeBooked == pairsCount + stopsCount <= 1
=============================================================================
