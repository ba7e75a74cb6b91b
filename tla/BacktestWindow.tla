--------------------------- MODULE BacktestWindow ---------------------------
(***************************************************************************)
(* _simulate_window of backtest/engine.py: the replay of one window of     *)
(* recorded ticks under one set of parameters.  A tick is the composition  *)
(* of the phases of the loop's body, each an operator from the loop's      *)
(* variables k to their next values; Close values what is still open when  *)
(* the ticks are over.                                                     *)
(*                                                                         *)
(* A price is an integer, see BookMath.  pnl is in the same unit, and      *)
(* fees are the prices a taker fee was charged at.  A tick may carry no    *)
(* time, and no order of the book is kept but the best: deep says that     *)
(* the queue ahead of us is unknown or beyond the gate.  A bid of 0 with   *)
(* zero set is a recorded 0.0, which a mid and a stop take for a price and *)
(* a mark (_quote) does not; without zero there is no bid (None).          *)
(*                                                                         *)
(* A definition named Bug... is not part of the model: it is the operator  *)
(* that follows with a plausible mistake, which a property must catch.     *)
(***************************************************************************)
EXTENDS BookMath, Sequences, FiniteSets, SequencesExt

CONSTANTS
    Snaps,          \* what a tick may hold: [book, prints, deep]
    Offset, ExitThresh, ExitReversal, MaxPairCost, QuoteLo, QuoteHi,
    WindowLen, DeadZone, EntryDelay,    \* in units of the model's clock
    NakedAtExpiry,  \* "close" or "hold"
    EnableLegChase,
    QueueGate, PairCostGate,    \* 0: off
    MaxTicks, MaxStep           \* the ticks of a window, and the time between two

Legs == {"UP", "DOWN"}
Opp(l) == IF l = "UP" THEN "DOWN" ELSE "UP"
BothLegs(v) == [l \in Legs |-> v]

Quotes == [bid : Nat, ask : Nat, zero : BOOLEAN]
Marks  == [bid : Nat, ask : Nat]

ASSUME SnapsAssumption ==
    /\ Snaps \subseteq [book : [Legs -> Quotes], prints : [Legs -> SUBSET Nat], deep : BOOLEAN]
    /\ \A s \in Snaps, l \in Legs : s.book[l].zero => s.book[l].bid = NoPrice

\* __post_init__ of BacktestParams.
ASSUME ParamsAssumption ==
    /\ Offset \in Nat /\ ExitThresh \in Nat /\ ExitReversal \in Nat
    /\ MaxPairCost \in Dollar \div 2 .. Dollar
    /\ QuoteLo \in 0 .. Dollar /\ QuoteHi \in 0 .. Dollar /\ QuoteLo < QuoteHi
    /\ WindowLen \in Nat \ {0} /\ DeadZone \in Nat /\ EntryDelay \in Nat
    /\ NakedAtExpiry \in {"close", "hold"} /\ EnableLegChase \in BOOLEAN
    /\ QueueGate \in Nat /\ PairCostGate \in 0 .. 2 * Dollar
    /\ MaxTicks \in Nat /\ MaxStep \in Nat

VARIABLES
    k,          \* the loop's variables: the round, and the window's result so far
    at,         \* elapsed: the time of the last tick that has one
    latest,     \* the last tick's book
    latched,    \* the last marks of the window, per leg
    ticks,      \* how many were replayed
    closed      \* the loop is over and the result returned

vars == <<k, at, latest, latched, ticks, closed>>

NoTime == -1

-----------------------------------------------------------------------------
(* Readings of a tick                                                      *)

\* best_bid is not None
HasBid(q) == q.bid # NoPrice \/ q.zero

\* A lone quote is nudged half a cent towards the side that is missing.
MidOf(q) == IF HasBid(q) /\ q.ask # NoPrice THEN (q.bid + q.ask) \div 2
            ELSE IF HasBid(q) THEN q.bid + 50
            ELSE IF q.ask # NoPrice THEN q.ask - 50
            ELSE NoPrice

UpMid(s) == MidOf(s.book["UP"])
AnchorMid(s) ==
    IF \A l \in Legs : HasBid(s.book[l]) /\ s.book[l].ask # NoPrice
    THEN MidOfFour(s.book["UP"], s.book["DOWN"]) ELSE NoPrice
InRange(p) == QuoteLo <= p /\ p <= QuoteHi
InZone(t) == InDeadZone(MaxOf(0, WindowLen - t), WindowLen, DeadZone)

NoneFilled(r) == \A l \in Legs : ~r.filled[l]
Naked(r, l) == r.filled[l] /\ ~r.filled[Opp(l)]

-----------------------------------------------------------------------------
(* The phases of a tick                                                    *)

\* Every way a round ends forgets all of it, and only the round.
ResetRound(r) ==
    [r EXCEPT !.live = FALSE, !.anchored = NoPrice, !.resting = BothLegs(NoPrice),
              !.original = BothLegs(NoPrice), !.filled = BothLegs(FALSE),
              !.entry = BothLegs(NoPrice), !.nakedSince = NoTime,
              !.breached = BothLegs(FALSE), !.reversed = BothLegs(FALSE)]

CancelEntry(r, zone) == IF zone /\ NoneFilled(r) THEN [r EXCEPT !.cancelled = TRUE] ELSE r

QuoteAt(l, mid) ==
    RoundMills(ClampQuote((IF l = "UP" THEN mid ELSE Dollar - mid) - Offset))

\* Set and wait: the first two-sided mid in range of a clean round is its anchor.
Anchor(r, s, zone) ==
    IF /\ r.anchored = NoPrice /\ AnchorMid(s) # NoPrice /\ NoneFilled(r) /\ ~zone
       /\ InRange(AnchorMid(s)) /\ \A l \in Legs : InRange(QuoteAt(l, AnchorMid(s)))
    THEN [r EXCEPT !.anchored = AnchorMid(s)] ELSE r

\* The quote is priced off the anchor, whatever the market does while it is held.
Quote(r, t, zone, s) ==
    IF /\ ~zone /\ NoneFilled(r) /\ t >= EntryDelay
       /\ r.cancelled \/ ~r.live
       /\ r.anchored # NoPrice /\ \A l \in Legs : r.resting[l] = NoPrice
    THEN [r EXCEPT !.resting = [l \in Legs |-> QuoteAt(l, r.anchored)]] ELSE r

\* How far the market has moved against a leg that is filled alone.
TrackDrift(r, s) ==
    LET mid(l) == IF l = "UP" THEN UpMid(s) ELSE Dollar - UpMid(s)
        against(l) == r.entry[l] - mid(l)
        breached == [l \in Legs |-> r.breached[l] \/ (Naked(r, l) /\ against(l) >= ExitThresh)]
    IN [r EXCEPT !.breached = breached,
                 !.reversed = [l \in Legs |-> r.reversed[l] \/
                     (Naked(r, l) /\ breached[l] /\ against(l) < ExitReversal)]]

\* The chase of leg l's partner: up to its ask, under the ceiling of the moment.
BugChaseTarget(r, l, s, t) == s.book[Opp(l)].ask

ChaseTarget(r, l, s, t) ==
    LET zoneStart == WindowLen - CutoffSeconds(WindowLen, DeadZone)
        nakedAt   == IF r.nakedSince = NoTime THEN t ELSE r.nakedSince
        o         == Opp(l)
    IN MinOf(s.book[o].ask,
             ChaseCeiling(IF r.original[o] # NoPrice THEN r.original[o] ELSE r.resting[o],
                          ChaseCap(MaxPairCost, r.entry[l]),
                          ProgressNum(t, nakedAt, zoneStart), ProgressDen(nakedAt, zoneStart)))

\* It never lowers a quote.
BugChases(r, l, s, t) ==
    /\ EnableLegChase /\ Naked(r, l) /\ r.resting[Opp(l)] # NoPrice
    /\ s.book[Opp(l)].ask # NoPrice
    /\ ChaseTarget(r, l, s, t) # r.resting[Opp(l)]

Chases(r, l, s, t) ==
    /\ EnableLegChase /\ Naked(r, l) /\ r.resting[Opp(l)] # NoPrice
    /\ s.book[Opp(l)].ask # NoPrice
    /\ ChaseTarget(r, l, s, t) > r.resting[Opp(l)]

Chased(r, s, t) == {l \in Legs : Chases(r, Opp(l), s, t)}

Chase(r, s, t) ==
    [r EXCEPT !.resting = [l \in Legs |->
        IF l \in Chased(r, s, t)
        THEN RoundMills(ClampQuote(ChaseTarget(r, Opp(l), s, t))) ELSE r.resting[l]]]

\* The entry gates of a tick: the touch of both asks, and the queue ahead.
TouchOk(s) ==
    \/ PairCostGate = 0
    \/ \E l \in Legs : s.book[l].ask = NoPrice
    \/ s.book["UP"].ask + s.book["DOWN"].ask <= PairCostGate

QueueOk(r, s) ==
    \/ QueueGate = 0
    \/ (\A l \in Legs : r.resting[l] # NoPrice) /\ ~s.deep

Gated(r, s) == NoneFilled(r) /\ ~(TouchOk(s) /\ QueueOk(r, s))

\* A quote that is not live is held on a tick that cannot be priced or is out of range.
Quotable(r, s) ==
    /\ \A l \in Legs : r.resting[l] # NoPrice
    /\ r.live \/ (AnchorMid(s) # NoPrice /\ InRange(AnchorMid(s)))

\* In the dead zone a leg opens nothing.
BugCanFill(r, l, s, zone) ==
    /\ ~r.filled[l] /\ Quotable(r, s)

CanFill(r, l, s, zone) ==
    /\ ~r.filled[l] /\ Quotable(r, s)
    /\ (~zone /\ ~r.cancelled) \/ r.filled[Opp(l)]

Takes(r, l, s, new) ==
    \/ \E p \in s.prints[l] : PrintFills(r.resting[l], p)
    \/ AskFills(r.resting[l], s.book[l].ask, new)

\* new are the legs the chase has just moved; a quote not live yet is new as well.
Fill(r, s, zone, new) ==
    LET can == {l \in Legs : CanFill(r, l, s, zone)}
        got == {l \in can : Takes(r, l, s, ~r.live \/ l \in new)}
        out == can # {} \/ ~NoneFilled(r)
    IN [r EXCEPT !.live = r.live \/ out,
                 !.entered = r.entered \/ out,
                 !.original = [l \in Legs |-> IF out /\ r.original[l] = NoPrice
                                              THEN r.resting[l] ELSE r.original[l]],
                 !.filled = [l \in Legs |-> r.filled[l] \/ l \in got],
                 !.entry = [l \in Legs |-> IF l \in got THEN r.resting[l] ELSE r.entry[l]]]

CompletePair(r) ==
    LET cost == r.resting["UP"] + r.resting["DOWN"]
    IN ResetRound([r EXCEPT !.pairs = Append(@, [cost |-> cost, original |-> r.original,
                                                 entry |-> r.entry]),
                            !.pnl = @ + Dollar - cost])

NakedClock(r, t) ==
    [r EXCEPT !.nakedSince = IF NoneFilled(r) THEN NoTime
                             ELSE IF @ = NoTime THEN t ELSE @]

\* The leg is sold at the bid, with the taker's fee, and recorded.
BugSellLeg(r, l, bid, kind) ==
    ResetRound([r EXCEPT !.stops = Append(@, [kind |-> kind, side |-> l, entry |-> r.resting[l],
                                              exit |-> bid, pnl |-> bid - r.resting[l]]),
                         !.pnl = @ + bid - r.resting[Opp(l)],
                         !.fees = Append(@, bid)])

SellLeg(r, l, bid, kind) ==
    ResetRound([r EXCEPT !.stops = Append(@, [kind |-> kind, side |-> l, entry |-> r.resting[l],
                                              exit |-> bid, pnl |-> bid - r.resting[l]]),
                         !.pnl = @ + bid - r.resting[l],
                         !.fees = Append(@, bid)])

StopTriggered(r, l, s) ==
    Naked(r, l) /\ r.breached[l] /\ ~r.reversed[l] /\ HasBid(s.book[l])

\* The dead zone closes a naked leg at its bid, or holds it; the stop comes after,
\* and sells at a recorded 0.0 too.
Exits(r, s, zone) ==
    LET cut   == {l \in Legs : zone /\ Naked(r, l)}
        after == IF cut # {} THEN [r EXCEPT !.cancelled = TRUE] ELSE r
        close == {l \in cut : NakedAtExpiry = "close" /\ s.book[l].bid # NoPrice}
        stop  == {l \in Legs : StopTriggered(r, l, s)}
    IN IF close # {} THEN LET l == CHOOSE x \in close : TRUE
                          IN SellLeg(after, l, s.book[l].bid, "dead_zone_close")
       ELSE IF stop # {} THEN LET l == CHOOSE x \in stop : TRUE
                              IN SellLeg(after, l, s.book[l].bid, "stop")
       ELSE after

\* The body of the loop for a tick that has a time.
Step(r, s, t) ==
    LET zone   == InZone(t)
        quoted == Quote(Anchor(CancelEntry(r, zone), s, zone), t, zone, s)
    IN IF UpMid(s) = NoPrice THEN quoted
       ELSE LET tracked == TrackDrift(quoted, s)
                chased  == Chase(tracked, s, t)
                filled  == Fill(chased, s, zone, Chased(tracked, s, t))
            IN IF Gated(chased, s) THEN chased
               ELSE IF \A l \in Legs : filled.filled[l] THEN CompletePair(filled)
               ELSE Exits(NakedClock(filled, t), s, zone)

-----------------------------------------------------------------------------
(* The value of a leg that is still open, resolve_naked_settlement          *)

\* _clamp_mark
Clamped(p) == MinOf(9999, MaxOf(1, p))

\* resolve_redemption: the side the last mids name, if they name one.
RedeemedMid(l) ==
    IF MidOf(latest[l]) # NoPrice THEN MidOf(latest[l])
    ELSE IF MidOf(latest[Opp(l)]) # NoPrice THEN Dollar - MidOf(latest[Opp(l)])
    ELSE Dollar \div 2

\* The first stage that resolves: [mark, value, source].
Settlement(l) ==
    LET marked(p, src) == [mark |-> p, value |-> p, source |-> src]
    IN IF latest[l].bid # NoPrice THEN marked(latest[l].bid, "direct_bid")
       ELSE IF latest[Opp(l)].ask # NoPrice
       THEN marked(Clamped(Dollar - latest[Opp(l)].ask), "complement_ask")
       ELSE IF latched[l].bid # NoPrice THEN marked(latched[l].bid, "latched_bid")
       ELSE IF latched[Opp(l)].ask # NoPrice
       THEN marked(Clamped(Dollar - latched[Opp(l)].ask), "latched_complement_ask")
       ELSE IF RedeemedMid(l) = Dollar \div 2
       THEN [mark |-> NoPrice, value |-> k.resting[l], source |-> "unresolved"]
       ELSE [mark |-> NoPrice, value |-> IF RedeemedMid(l) > Dollar \div 2 THEN Dollar ELSE 0,
             source |-> "redeemed"]

\* A leg that is open at the end pays the fee of a sale at 0.50, and of its mark.
SettleLeg(r, l) ==
    LET out == Settlement(l)
    IN [r EXCEPT !.pnl = @ + out.value - r.resting[l],
                 !.fees = Append(@, Dollar \div 2) \o
                          (IF out.mark = NoPrice THEN <<>> ELSE <<out.mark>>),
                 !.stops = Append(@, [kind |-> "settle", side |-> l, entry |-> r.resting[l],
                                      exit |-> out.mark, pnl |-> out.value - r.resting[l]]),
                 !.source = out.source]

-----------------------------------------------------------------------------
(* The actions                                                             *)

NewWindow(first) ==
    [anchored |-> NoPrice, resting |-> BothLegs(NoPrice), original |-> BothLegs(NoPrice),
     live |-> FALSE, filled |-> BothLegs(FALSE), entry |-> BothLegs(NoPrice),
     nakedSince |-> NoTime, breached |-> BothLegs(FALSE), reversed |-> BothLegs(FALSE),
     cancelled |-> InZone(first), entered |-> FALSE,
     pairs |-> <<>>, stops |-> <<>>, pnl |-> 0, fees |-> <<>>, source |-> ""]

\* A window whose first tick lies in the dead zone is not entered at all.
Init ==
    /\ \E first \in 0 .. WindowLen : k = NewWindow(first) /\ at = first
    /\ latest = BothLegs([bid |-> NoPrice, ask |-> NoPrice, zero |-> FALSE])
    /\ latched = BothLegs([bid |-> NoPrice, ask |-> NoPrice])
    /\ ticks = 0 /\ closed = FALSE

See(book) ==
    LET last(old, new) == IF new # NoPrice THEN new ELSE old
    IN /\ latest' = book
       /\ latched' = [l \in Legs |-> [bid |-> last(latched[l].bid, book[l].bid),
                                      ask |-> last(latched[l].ask, book[l].ask)]]

Replay ==
    /\ ~closed /\ ticks < MaxTicks
    /\ \E s \in Snaps, step \in 0 .. MaxStep :
        /\ at' = at + step
        /\ k' = Step(k, s, at')
        /\ See(s.book)
    /\ ticks' = ticks + 1
    /\ UNCHANGED closed

\* A tick without a time decides nothing, but it is part of the window.
ReplayUntimed ==
    /\ ~closed /\ ticks < MaxTicks
    /\ \E s \in Snaps : See(s.book)
    /\ ticks' = ticks + 1
    /\ UNCHANGED <<k, at, closed>>

Open == {l \in Legs : k.filled[l]}

Close ==
    /\ ~closed /\ ticks > 0
    /\ closed' = TRUE
    /\ k' = IF Open = {} THEN k ELSE SettleLeg(k, CHOOSE l \in Legs : k.filled[l])
    /\ UNCHANGED <<at, latest, latched, ticks>>

Next == Replay \/ ReplayUntimed \/ Close

Spec == Init /\ [][Next]_vars

-----------------------------------------------------------------------------
(* Properties                                                              *)

Kinds == {"stop", "dead_zone_close", "settle"}
Sources == {"", "direct_bid", "complement_ask", "latched_bid", "latched_complement_ask",
            "unresolved", "redeemed"}

Window ==
    [anchored : Int, resting : [Legs -> Int], original : [Legs -> Int],
     live : BOOLEAN, filled : [Legs -> BOOLEAN], entry : [Legs -> Int],
     nakedSince : Int, breached : [Legs -> BOOLEAN], reversed : [Legs -> BOOLEAN],
     cancelled : BOOLEAN, entered : BOOLEAN,
     pairs : Seq([cost : Int, original : [Legs -> Int], entry : [Legs -> Int]]),
     stops : Seq([kind : Kinds, side : Legs, entry : Int, exit : Int, pnl : Int]),
     pnl : Int, fees : Seq(Int), source : Sources]

\* The types of the loop's variables.
TypeOK ==
    /\ k \in Window
    /\ at \in Nat /\ ticks \in Nat /\ closed \in BOOLEAN
    /\ latest \in [Legs -> Quotes] /\ latched \in [Legs -> Marks]

\* The rounds of the replay are rounds of the agreed rules: no leg bought is ever
\* forgotten, sold twice or bought in the dead zone, whichever way a round ends.
Exited(r, l)  == {i \in DOMAIN r.stops : r.stops[i].side = l /\ r.stops[i].kind # "settle"}
Settled(r, l) == {i \in DOMAIN r.stops : r.stops[i].side = l /\ r.stops[i].kind = "settle"}
Rules == INSTANCE RoundRules WITH
    held <- IF closed THEN {} ELSE Open,
    pairs <- Len(k.pairs),
    sold <- [l \in Legs |-> Cardinality(Exited(k, l))],
    settled <- [l \in Legs |-> Cardinality(Settled(k, l))],
    late <- InZone(at)
FollowsRules == Rules!RuleSpec

ZeroRecorded(l) == \E s \in Snaps : s.book[l].zero

\* The window's profit is what its ledger of pairs and exits adds up to.
LedgerIsPnl ==
    LET paired == FoldLeft(LAMBDA a, p : a + Dollar - p.cost, 0, k.pairs)
    IN k.pnl = FoldLeft(LAMBDA a, x : a + x.pnl, paired, k.stops)

\* The cap binds the chase: a leg of a pair above it was never paid more than its
\* original quote, up to the rounding of the venue's prices (rules 4 and 12).
PairCostBounded ==
    \A i \in DOMAIN k.pairs : \A l \in Legs :
        k.pairs[i].cost <= MaxPairCost \/ k.pairs[i].entry[l] <= k.pairs[i].original[l] + 50

\* Set and wait: within a round a resting quote moves only up, only beside a filled
\* leg, and the price of a filled leg never moves.
SameRound == k'.anchored = k.anchored /\ k.anchored # NoPrice /\ k'.pairs = k.pairs
                /\ k'.stops = k.stops
QuotesHold ==
    [][SameRound => \A l \in Legs :
        /\ (k.resting[l] # NoPrice /\ k'.resting[l] # k.resting[l]) =>
               k'.resting[l] > k.resting[l] /\ k.filled[Opp(l)] /\ ~k.filled[l]
        /\ k.filled[l] => k'.filled[l] /\ k'.entry[l] = k.entry[l]]_vars

\* A leg that is open at the end always finds a mark: the anchor needed both asks,
\* so the last stage of the ladder but redemption resolves.  No leg is sold for
\* nothing but by a stop, and that only where its own book recorded a bid of 0.0.
SettlementFindsMark ==
    \A i \in DOMAIN k.stops :
        \/ k.stops[i].exit # NoPrice
        \/ k.stops[i].kind = "stop" /\ ZeroRecorded(k.stops[i].side)

\* What the window records is possible: no pair above the cap was made by the chase,
\* and no exit was at a price nobody quoted, but for a stop at a recorded 0.0.
LedgerSound == PairCostBounded /\ SettlementFindsMark

\* A leg that is carried to the end with the switch at close had no bid to be sold
\* at on the last tick of the dead zone it was priced on.
LeftOpenInDeadZone ==
    /\ ~closed /\ ~closed' /\ NakedAtExpiry = "close" /\ at' # at /\ InZone(at')
    /\ MidOf(latest'["UP"]) # NoPrice
    /\ \E l \in Legs : k'.filled[l] /\ latest'[l].bid # NoPrice
=============================================================================
