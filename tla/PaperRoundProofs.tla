-------------------------- MODULE PaperRoundProofs --------------------------
(***************************************************************************)
(* The promises of PaperRound for every book, configuration and clock.     *)
(*                                                                         *)
(* RoundOK is the inductive invariant of a market.  A handler is a chain of *)
(* phases: most leave the round alone (Same), a few end it or start one,   *)
(* and a fill breaks it for as long as both legs are filled and the merge  *)
(* is due (MergeDue), which is repaired in the same handler.               *)
(***************************************************************************)
EXTENDS PaperRound, TLAPS

HeldOK(k) ==
    \A l \in Legs : k.held[l] = IF k.filled[l] /\ ~k.pair /\ ~k.exit THEN 1 ELSE 0

ArmedOK(k) ==
    \A l \in Legs : NakedLeg(k, l) /\ ~k.exit =>
        /\ k.stopSide = l
        /\ k.stopPrice = RoundCents(ClampQuote(k.fillPrice[l] - ExitThresh))

PendingOK(k) ==
    k.status = "STOP_EXIT_PENDING" => ~k.exit /\ \E l \in Legs : NakedLeg(k, l)

RoundOK(k) ==
    /\ k \in Market
    /\ HeldOK(k) /\ ArmedOK(k) /\ PendingOK(k)
    /\ k.pair => BothFilled(k)
    /\ k.exit => AnyFilled(k)
    /\ \A l \in Legs : k.stopSide = l => k.filled[l]

\* The last leg is filled and the pair is not claimed yet.
MergeDue(k) ==
    /\ k \in Market
    /\ BothFilled(k) /\ ~k.pair /\ \A l \in Legs : k.held[l] <= 1

\* r is k with the round left alone.
Same(k, r) ==
    /\ r \in Market
    /\ r.filled = k.filled /\ r.fillPrice = k.fillPrice /\ r.held = k.held
    /\ r.pair = k.pair /\ r.exit = k.exit
    /\ r.stopSide = k.stopSide /\ r.stopPrice = k.stopPrice
    /\ r.status = k.status \/ r.status # "STOP_EXIT_PENDING"

\* Whatever the market trades, nothing of it is in hand.
Flat(k) == k \in Market /\ \A l \in Legs : k.held[l] = 0

LEMMA SameOK ==
    ASSUME NEW k, NEW r, RoundOK(k), Same(k, r)
    PROVE  RoundOK(r)
BY DEF RoundOK, Same, HeldOK, ArmedOK, PendingOK, NakedLeg, AnyFilled, BothFilled

LEMMA SameDue ==
    ASSUME NEW k, NEW r, MergeDue(k), Same(k, r)
    PROVE  MergeDue(r)
BY DEF MergeDue, Same, BothFilled

LEMMA SameTransitive ==
    ASSUME NEW k, NEW q, NEW r, Same(k, q), Same(q, r)
    PROVE  Same(k, r)
BY DEF Same

LEMMA SameSelf == ASSUME NEW k \in Market PROVE Same(k, k)
BY DEF Same

-----------------------------------------------------------------------------
(* Numbers *)

LEMMA Params ==
    /\ ExitThresh \in Nat /\ MaxPairCost \in Int
    /\ \A o \in Offsets : o \in Int
    /\ \A b \in Books : b \in [Legs -> Quotes]
<1>1. ExitThresh \in Nat BY MarketAssumption
<1>2. MaxPairCost \in Int BY MarketAssumption DEF Dollar
<1>3. \A o \in Offsets : o \in Int BY MarketAssumption
<1>4. \A b \in Books : b \in [Legs -> Quotes] BY MarketAssumption
<1> QED BY <1>1, <1>2, <1>3, <1>4

LEMMA Rounded ==
    \A x \in Int : /\ RoundCents(x) \in Int /\ RoundMills(x) \in Int
                   /\ FloorCents(x) \in Int /\ ClampQuote(x) \in Int
BY DEF RoundCents, RoundMills, FloorCents, ClampQuote, MinOf, MaxOf

LEMMA OppLeg == \A l \in Legs : Opp(l) \in Legs /\ Opp(l) # l
BY DEF Opp, Legs

LEMMA LessHeld ==
    ASSUME NEW k \in Market
    PROVE  \A l \in Legs : /\ k.held[l] \in Nat /\ Less(k.held[l]) \in Nat
                           /\ k.held[l] <= 1 => Less(k.held[l]) = 0
<1>1. \A l \in Legs : k.held[l] \in Nat BY DEF Market
<1>2. \A h \in Nat : Less(h) \in Nat /\ (h <= 1 => Less(h) = 0) BY DEF Less, MaxOf
<1> QED BY <1>1, <1>2

LEMMA MidInt ==
    ASSUME NEW k \in Market
    PROVE  Mid(k) \in Int /\ \A l \in Legs : LegMid(k, l) \in Int
<1>1. \A l \in Legs : k.book[l].bid \in Nat /\ k.book[l].ask \in Nat BY DEF Market, Quotes
<1>2. "UP" \in Legs /\ "DOWN" \in Legs BY DEF Legs
<1>3. Mid(k) \in Int BY <1>1, <1>2 DEF Mid, TwoSidedMid, MidOfFour, NoPrice, Dollar
<1> QED BY <1>3 DEF LegMid, Dollar

LEMMA CeilingInt ==
    ASSUME NEW original \in Int, NEW affordable \in Int, NEW t \in Int, NEW since \in Int,
           NEW dzStart \in Int
    PROVE  ChaseCeiling(original, affordable, ProgressNum(t, since, dzStart),
                        ProgressDen(since, dzStart)) \in Int
<1> DEFINE num == ProgressNum(t, since, dzStart)
           den == ProgressDen(since, dzStart)
<1>1. num \in Int BY DEF ProgressNum, MinOf, MaxOf
<1>2. den \in Nat \ {0} BY DEF ProgressDen
<1> HIDE DEF num, den
<1>3. num * (affordable - original) \in Int BY <1>1
<1>4. (num * (affordable - original)) \div den \in Int BY <1>2, <1>3
<1>5. original + (num * (affordable - original)) \div den \in Int BY <1>4
<1>6. ChaseCeiling(original, affordable, num, den) \in Int BY <1>5, Rounded DEF ChaseCeiling
<1> QED BY <1>6 DEF num, den

-----------------------------------------------------------------------------
(* Updates that leave the round alone *)

LEMMA SetStatus ==
    ASSUME NEW k \in Market, NEW s \in Statuses \ {"STOP_EXIT_PENDING"}
    PROVE  Same(k, [k EXCEPT !.status = s])
BY DEF Market, Same

LEMMA SetNext ==
    ASSUME NEW k \in Market, NEW w \in -1 .. LastWindow + 1, NEW b \in BOOLEAN
    PROVE  /\ Same(k, [k EXCEPT !.nextCid = w, !.nextQuoted = b])
           /\ Same(k, [k EXCEPT !.nextQuoted = b])
BY DEF Market, Same

LEMMA SetAnchor ==
    ASSUME NEW k \in Market, NEW p \in Int, NEW r \in [Legs -> Int]
    PROVE  /\ Same(k, [k EXCEPT !.anchored = p])
           /\ Same(k, [k EXCEPT !.original = r])
BY DEF Market, Same

LEMMA SetQuotes ==
    ASSUME NEW k \in Market, NEW r \in [Legs -> Int], NEW u \in [Legs -> Int]
    PROVE  Same(k, [k EXCEPT !.resting = r, !.unchased = u])
BY DEF Market, Same

LEMMA QuoteAtSame ==
    ASSUME NEW k \in Market, NEW prices \in [Legs -> Int]
    PROVE  Same(k, QuoteAt(k, prices))
<1> DEFINE u == [l \in Legs |-> MaxOf(k.unchased[l], prices[l])]
<1>1. u \in [Legs -> Int] BY DEF Market, MaxOf
<1>2. QuoteAt(k, prices) = [k EXCEPT !.resting = prices, !.unchased = u] BY DEF QuoteAt
<1> HIDE DEF u
<1>3. Same(k, [k EXCEPT !.resting = prices, !.unchased = u]) BY <1>1, SetQuotes, Zenon
<1> QED BY <1>2, <1>3

LEMMA SetQuote ==
    ASSUME NEW k \in Market, NEW l \in Legs, NEW p \in Int
    PROVE  Same(k, [k EXCEPT !.resting[l] = p])
BY DEF Market, Same

LEMMA SetDrift ==
    ASSUME NEW k \in Market, NEW b \in [Legs -> BOOLEAN], NEW r \in [Legs -> BOOLEAN]
    PROVE  Same(k, [k EXCEPT !.breached = b, !.reversal = r])
BY DEF Market, Same

LEMMA SetSeen ==
    ASSUME NEW k \in Market, NEW a \in BOOLEAN, NEW b \in BOOLEAN
    PROVE  Same(k, [k EXCEPT !.seen = a]) /\ Same(k, [k EXCEPT !.seen = a, !.lateSkip = b])
BY DEF Market, Same

LEMMA SetCancelled ==
    ASSUME NEW k \in Market, NEW o \in [Legs -> OrderStatuses], NEW b \in BOOLEAN,
           NEW s \in Statuses \ {"STOP_EXIT_PENDING"}
    PROVE  /\ Same(k, [k EXCEPT !.ordStatus = o, !.entryCancelled = b, !.status = s])
           /\ Same(k, [k EXCEPT !.entryCancelled = b, !.status = s])
BY DEF Market, Same

LEMMA SetOrders ==
    ASSUME NEW k \in Market, NEW i \in [Legs -> BOOLEAN], NEW o \in [Legs -> OrderStatuses],
           NEW s \in Statuses, s = k.status \/ s # "STOP_EXIT_PENDING"
    PROVE  Same(k, [k EXCEPT !.ordId = i, !.ordStatus = o, !.status = s])
BY DEF Market, Same

LEMMA SetOrder ==
    ASSUME NEW k \in Market, NEW l \in Legs, NEW o \in OrderStatuses
    PROVE  Same(k, [k EXCEPT !.ordStatus[l] = o])
BY DEF Market, Same

LEMMA SetWindow ==
    ASSUME NEW k \in Market, NEW w \in -1 .. LastWindow, NEW b \in [Legs -> Quotes]
    PROVE  Same(k, [k EXCEPT !.cid = w, !.book = b])
BY DEF Market, Same

LEMMA SetBook ==
    ASSUME NEW k \in Market, NEW l \in Legs, NEW q \in Quotes
    PROVE  Same(k, [k EXCEPT !.book[l] = q])
BY DEF Market, Same

-----------------------------------------------------------------------------
(* The phases that leave the round alone *)

LEMMA FlatFunctions ==
    /\ \A x : BothLegs(x) = [l \in Legs |-> x]
    /\ \A x \in Int : BothLegs(x) \in [Legs -> Int]
    /\ \A x \in BOOLEAN : BothLegs(x) \in [Legs -> BOOLEAN]
    /\ \A x \in OrderStatuses : BothLegs(x) \in [Legs -> OrderStatuses]
BY DEF BothLegs

LEMMA NextWindowSame ==
    ASSUME NEW k \in Market, NEW next \in -1 .. LastWindow + 1
    PROVE  Same(k, NextWindow(k, next))
<1>1. FALSE \in BOOLEAN OBVIOUS
<1>2. Same(k, [k EXCEPT !.nextCid = next, !.nextQuoted = FALSE]) BY <1>1, SetNext, Zenon
<1> QED BY <1>2, SameSelf DEF NextWindow

LEMMA PreQuoteSame == ASSUME NEW k \in Market PROVE Same(k, PreQuote(k))
<1>1. TRUE \in BOOLEAN /\ k.nextCid \in -1 .. LastWindow + 1 BY DEF Market
<1>2. Same(k, [k EXCEPT !.nextQuoted = TRUE]) BY <1>1, SetNext, Zenon
<1> QED BY <1>2, SameSelf DEF PreQuote

LEMMA IdleSame == ASSUME NEW k \in Market PROVE Same(k, Idle(k))
<1>1. "IDLE" \in Statuses \ {"STOP_EXIT_PENDING"} BY DEF Statuses
<1>2. Same(k, [k EXCEPT !.status = "IDLE"]) BY <1>1, SetStatus, Zenon
<1> QED BY <1>2, SameSelf DEF Idle

LEMMA AnchorSame ==
    ASSUME NEW k \in Market, NEW dz, offset \in Int
    PROVE  Same(k, Anchor(k, dz))
<1> DEFINE quotes == [l \in Legs |-> OpeningQuote(k, l)]
<1>1. \A l \in Legs : OpeningQuote(k, l) \in Int BY MidInt, Rounded DEF OpeningQuote
<1>2. quotes \in [Legs -> Int] /\ Mid(k) \in Int BY <1>1, MidInt
<1> DEFINE q == QuoteAt(k, quotes)
<1>3. Same(k, q) BY <1>2, QuoteAtSame
<1>4. Anchor(k, dz) = k \/ Anchor(k, dz) = [q EXCEPT !.anchored = Mid(k)] BY DEF Anchor
<1> HIDE DEF q
<1>5. q \in Market BY <1>3 DEF Same
<1>6. Same(q, [q EXCEPT !.anchored = Mid(k)]) BY <1>2, <1>5, SetAnchor, Zenon
<1>7. Same(k, [q EXCEPT !.anchored = Mid(k)]) BY <1>3, <1>6, SameTransitive
<1> QED BY <1>4, <1>7, SameSelf

LEMMA KeepOriginalSame == ASSUME NEW k \in Market PROVE Same(k, KeepOriginal(k))
<1> DEFINE quotes == [l \in Legs |-> IF k.original[l] = NoPrice THEN k.resting[l] ELSE k.original[l]]
<1>1. quotes \in [Legs -> Int] BY DEF Market
<1>2. 0 \in Int OBVIOUS
<1>3. Same(k, [k EXCEPT !.original = quotes]) BY <1>1, <1>2, SetAnchor, Zenon
<1> QED BY <1>3 DEF KeepOriginal

LEMMA ChaseFromSame ==
    ASSUME NEW k \in Market, NEW l \in Legs, NEW t \in Int
    PROVE  Same(k, ChaseFrom(k, l, t))
<1> DEFINE dzStart == DeadZoneStart(Start(k.cid), End(k.cid), DeadZone)
           nakedAt == IF k.nakedSince = NoTime THEN t ELSE k.nakedSince
           cap == ChaseCap(MaxPairCost, k.fillPrice[l])
           ceiling == ChaseCeiling(k.original[Opp(l)], cap,
                                   ProgressNum(t, nakedAt, dzStart), ProgressDen(nakedAt, dzStart))
<1>1. dzStart \in Int
    <2>1. Start(k.cid) \in Int /\ End(k.cid) \in Int BY ClockAssumption DEF Start, End, Market
    <2>2. DeadZone \in Int BY ClockAssumption
    <2> QED BY <2>1, <2>2 DEF DeadZoneStart, CutoffSeconds, MinOf
<1>2. nakedAt \in Int BY DEF Market
<1>3. cap \in Int
    <2>1. k.fillPrice[l] \in Int BY DEF Market
    <2>2. MaxPairCost - k.fillPrice[l] \in Int BY <2>1, Params
    <2> QED BY <2>2, Rounded DEF ChaseCap
<1>4. Opp(l) \in Legs BY OppLeg
<1>5. k.original[Opp(l)] \in Int /\ k.book[Opp(l)].ask \in Int BY <1>4 DEF Market, Quotes
<1>6. ChaseTarget(k, l, t) = MinOf(k.book[Opp(l)].ask, ceiling) BY DEF ChaseTarget
<1> HIDE DEF dzStart, nakedAt, cap
<1>7. ceiling \in Int BY <1>1, <1>2, <1>3, <1>5, CeilingInt
<1> HIDE DEF ceiling
<1>8. ChaseTarget(k, l, t) \in Int BY <1>5, <1>6, <1>7 DEF MinOf
<1>9. Same(k, [k EXCEPT !.resting[Opp(l)] = ChaseTarget(k, l, t)])
    BY <1>4, <1>8, SetQuote, Zenon
<1> QED BY <1>9, SameSelf DEF ChaseFrom

LEMMA ChaseSame ==
    ASSUME NEW k \in Market, NEW t \in Int
    PROVE  Same(k, Chase(k, t))
BY ChaseFromSame, SameSelf DEF Chase, Legs

LEMMA TrackDriftSame == ASSUME NEW k \in Market PROVE Same(k, TrackDrift(k))
<1> DEFINE against(l) == k.fillPrice[l] - LegMid(k, l)
           tracked(l) == NakedLeg(k, l) /\ Mid(k) # NoPrice
           breached   == [l \in Legs |-> k.breached[l] \/ (tracked(l) /\ against(l) >= ExitThresh)]
           reversal   == [l \in Legs |-> k.reversal[l] \/
                             (tracked(l) /\ breached[l] /\ against(l) < ExitReversal)]
<1>1. k.breached \in [Legs -> BOOLEAN] /\ k.reversal \in [Legs -> BOOLEAN] BY DEF Market
<1>2. breached \in [Legs -> BOOLEAN] BY <1>1, Zenon
<1>3. reversal \in [Legs -> BOOLEAN] BY <1>1, Zenon
<1>4. TrackDrift(k) = [k EXCEPT !.breached = breached, !.reversal = reversal] BY DEF TrackDrift
<1> HIDE DEF breached, reversal
<1>5. Same(k, [k EXCEPT !.breached = breached, !.reversal = reversal])
    BY <1>2, <1>3, SetDrift, Zenon
<1> QED BY <1>4, <1>5

LEMMA LateStartSame ==
    ASSUME NEW k \in Market, NEW dz \in BOOLEAN
    PROVE  Same(k, LateStart(k, dz))
<1>1. TRUE \in BOOLEAN OBVIOUS
<1>2. Same(k, [k EXCEPT !.seen = TRUE]) /\ Same(k, [k EXCEPT !.seen = TRUE, !.lateSkip = dz])
    BY <1>1, SetSeen, Zenon
<1> QED BY <1>2, SameSelf DEF LateStart

LEMMA LateSkipSame == ASSUME NEW k \in Market PROVE Same(k, LateSkip(k))
<1>1. TRUE \in BOOLEAN /\ k.ordStatus \in [Legs -> OrderStatuses] BY DEF Market
<1>2. "LATE_START_SKIPPED" \in Statuses \ {"STOP_EXIT_PENDING"} BY DEF Statuses
<1>3. Same(k, [k EXCEPT !.entryCancelled = TRUE, !.status = "LATE_START_SKIPPED"])
    BY <1>1, <1>2, SetCancelled, Zenon
<1> QED BY <1>3, SameSelf DEF LateSkip

LEMMA CancelInDeadZoneSame ==
    ASSUME NEW k \in Market, NEW dz
    PROVE  Same(k, CancelInDeadZone(k, dz))
<1> DEFINE s == IF k.lateSkip THEN "LATE_START_SKIPPED"
                ELSE IF Mid(k) = NoPrice THEN "NO_BOOK_SKIPPED" ELSE "DEAD_ZONE_NO_FILL"
           r == [k EXCEPT !.ordStatus = BothLegs("CANCELLED"), !.entryCancelled = TRUE, !.status = s]
<1>1. TRUE \in BOOLEAN OBVIOUS
<1>2. BothLegs("CANCELLED") \in [Legs -> OrderStatuses] BY FlatFunctions DEF OrderStatuses
<1>3. s \in Statuses \ {"STOP_EXIT_PENDING"} BY DEF Statuses
<1>4. CancelInDeadZone(k, dz) = r \/ CancelInDeadZone(k, dz) = k BY DEF CancelInDeadZone
<1> HIDE DEF s
<1>5. Same(k, r) BY <1>1, <1>2, <1>3, SetCancelled, Zenon
<1> QED BY <1>4, <1>5, SameSelf

LEMMA PlaceOrdersSame == ASSUME NEW k \in Market PROVE Same(k, PlaceOrders(k))
<1> DEFINE i == [l \in Legs |-> k.ordId[l] \/ Placed(k, l)]
           o == [l \in Legs |-> IF Placed(k, l) THEN "RESTING" ELSE k.ordStatus[l]]
           s == IF k.status \in {"IDLE", "NO_BOOK"} THEN "QUOTING" ELSE k.status
<1>1. k.ordId \in [Legs -> BOOLEAN] /\ k.ordStatus \in [Legs -> OrderStatuses] /\ k.status \in Statuses
    BY DEF Market
<1>2. i \in [Legs -> BOOLEAN] BY <1>1, Zenon DEF Placed
<1>3. o \in [Legs -> OrderStatuses] BY <1>1 DEF OrderStatuses
<1>4. s \in Statuses /\ (s = k.status \/ s # "STOP_EXIT_PENDING") BY <1>1 DEF Statuses
<1>5. PlaceOrders(k) = [k EXCEPT !.ordId = i, !.ordStatus = o, !.status = s] BY DEF PlaceOrders
<1> HIDE DEF i, o, s
<1>6. Same(k, [k EXCEPT !.ordId = i, !.ordStatus = o, !.status = s])
    BY <1>2, <1>3, <1>4, SetOrders, Zenon
<1> QED BY <1>5, <1>6

LEMMA HoldForBookSame ==
    ASSUME NEW k \in Market, NEW t, NEW dz
    PROVE  Same(k, HoldForBook(k, t, dz))
<1>1. "NO_BOOK" \in Statuses \ {"STOP_EXIT_PENDING"} BY DEF Statuses
<1>2. Same(k, [k EXCEPT !.status = "NO_BOOK"]) BY <1>1, SetStatus, Zenon
<1> QED BY <1>2, SameSelf DEF HoldForBook

LEMMA CancelOppositeSame ==
    ASSUME NEW k \in Market, NEW l \in Legs
    PROVE  Same(k, CancelOpposite(k, l))
<1>1. "CANCELLED" \in OrderStatuses /\ Opp(l) \in Legs BY OppLeg DEF OrderStatuses
<1>2. Same(k, [k EXCEPT !.ordStatus[Opp(l)] = "CANCELLED"]) BY <1>1, SetOrder, Zenon
<1> QED BY <1>2, SameSelf DEF CancelOpposite


-----------------------------------------------------------------------------
(* A fill *)

\* What a fill and a stop change of the round.
Fills(k, r, l, p, s, h) ==
    /\ r \in Market
    /\ r.filled = [k.filled EXCEPT ![l] = TRUE] /\ r.held = [k.held EXCEPT ![l] = h]
    /\ r.fillPrice = [k.fillPrice EXCEPT ![l] = p]
    /\ r.pair = k.pair /\ r.exit = k.exit /\ r.status = s
    /\ r.stopSide = k.stopSide /\ r.stopPrice = k.stopPrice

Stages(k, r, l, p) ==
    /\ r \in Market
    /\ r.filled = k.filled /\ r.held = k.held /\ r.fillPrice = k.fillPrice
    /\ r.pair = k.pair /\ r.exit = k.exit /\ r.status = k.status
    /\ r.stopSide = l /\ r.stopPrice = p

LEMMA SetFill ==
    ASSUME NEW k \in Market, NEW l \in Legs, NEW p \in Int, NEW s \in Statuses, NEW t \in Int,
           NEW h \in Nat, NEW o \in OrderStatuses
    PROVE  Fills(k, [k EXCEPT !.filled[l] = TRUE, !.fillPrice[l] = p, !.ordStatus[l] = o,
                              !.status = s, !.nakedSince = t, !.held[l] = h], l, p, s, h)
BY DEF Market, Fills

LEMMA SetStop ==
    ASSUME NEW k \in Market, NEW l \in Legs \cup {NoLeg}, NEW p \in Int
    PROVE  Stages(k, [k EXCEPT !.stopSide = l, !.stopPrice = p], l, p)
BY DEF Market, Stages

LEMMA ClearStopFacts ==
    ASSUME NEW k \in Market
    PROVE  Stages(k, ClearStop(k), NoLeg, NoPrice)
<1>1. NoPrice \in Int /\ NoLeg \in Legs \cup {NoLeg} BY DEF NoPrice
<1>2. Stages(k, [k EXCEPT !.stopSide = NoLeg, !.stopPrice = NoPrice], NoLeg, NoPrice)
    BY <1>1, SetStop, Zenon
<1> QED BY <1>2 DEF ClearStop

StopOf(k, l) == RoundCents(ClampQuote(k.fillPrice[l] - ExitThresh))

LEMMA StageStopFacts ==
    ASSUME NEW k \in Market, NEW l \in Legs
    PROVE  \/ k.stopSide # NoLeg /\ StageStop(k, l) = k
           \/ k.stopSide = NoLeg /\ Stages(k, StageStop(k, l), l, StopOf(k, l))
<1>1. k.fillPrice[l] \in Int BY DEF Market
<1>2. k.fillPrice[l] - ExitThresh \in Int BY <1>1, Params
<1>3. StopOf(k, l) \in Int BY <1>2, Rounded DEF StopOf
<1>4. l \in Legs \cup {NoLeg} OBVIOUS
<1>5. Stages(k, [k EXCEPT !.stopSide = l, !.stopPrice = StopOf(k, l)], l, StopOf(k, l))
    BY <1>3, <1>4, SetStop, Zenon
<1> QED BY <1>5 DEF StageStop, StopOf

\* A fill arms the leg that is alone, and makes the merge due otherwise.
LEMMA FillKeeps ==
    ASSUME NEW k, NEW l \in Legs, NEW t \in Int, RoundOK(k), ~k.filled[l]
    PROVE  LET r == FillLeg(k, l, t) IN RoundOK(r) \/ MergeDue(r)
<1> DEFINE first == ~k.filled[Opp(l)]
           s == IF l = "UP" THEN "FILLED_UP" ELSE IF first THEN "FILLED_DOWN" ELSE "PAIR_MERGED"
           n == IF first /\ k.nakedSince = NoTime THEN t ELSE k.nakedSince
           h == k.held[l] + 1
           f == [k EXCEPT !.filled[l] = TRUE, !.fillPrice[l] = k.resting[l],
                          !.ordStatus[l] = "FILLED", !.status = s, !.nakedSince = n, !.held[l] = h]
           r == FillLeg(k, l, t)
<1>0. k \in Market BY DEF RoundOK
<1>1. s \in Statuses /\ s # "STOP_EXIT_PENDING" BY DEF Statuses
<1>2. n \in Int BY <1>0 DEF Market
<1>3. h \in Nat /\ k.resting[l] \in Int BY <1>0 DEF Market
<1>4. "FILLED" \in OrderStatuses /\ TRUE \in BOOLEAN BY DEF OrderStatuses
<1>5. r = IF l = "UP" \/ first THEN StageStop(f, l) ELSE f BY DEF FillLeg
<1> HIDE DEF s, n, h
<1>6. Fills(k, f, l, k.resting[l], s, h)
    BY <1>0, <1>1, <1>2, <1>3, <1>4, SetFill, Zenon
<1> HIDE DEF f
<1>7. /\ r \in Market
      /\ r.filled = [k.filled EXCEPT ![l] = TRUE] /\ r.held = [k.held EXCEPT ![l] = h]
      /\ r.pair = k.pair /\ r.exit = k.exit /\ r.status # "STOP_EXIT_PENDING"
    BY <1>1, <1>5, <1>6, StageStopFacts DEF Fills, Stages
<1>8. h = 1 /\ ~k.pair
    <2>1. k.held[l] = 0 BY DEF RoundOK, HeldOK
    <2>2. h = 1 BY <2>1 DEF h
    <2>3. ~k.pair BY DEF RoundOK, BothFilled
    <2> QED BY <2>2, <2>3
<1>9. k.filled \in [Legs -> BOOLEAN] /\ k.held \in [Legs -> Nat] BY <1>0 DEF Market
<1>10. CASE k.filled[Opp(l)]
    <2>1. \A q \in Legs : r.held[q] <= 1 BY <1>7, <1>8, <1>9 DEF RoundOK, HeldOK
    <2>2. BothFilled(r) BY <1>7, <1>9, <1>10 DEF BothFilled, Opp, Legs
    <2> QED BY <1>7, <1>8, <2>1, <2>2 DEF MergeDue
<1>11. CASE ~k.filled[Opp(l)]
    <2>1. \A q \in Legs : ~k.filled[q] BY <1>11 DEF Opp, Legs
    <2>2. ~k.exit /\ k.stopSide = NoLeg
        BY <1>0, <2>1 DEF RoundOK, AnyFilled, Market
    <2>3. \A q \in Legs : k.held[q] = 0 BY <2>1 DEF RoundOK, HeldOK
    <2>4. r = StageStop(f, l) BY <1>5, <1>11
    <2>5. r.stopSide = l /\ r.stopPrice = StopOf(r, l)
        BY <2>2, <2>4, <1>6, StageStopFacts DEF Fills, Stages, StopOf
    <2>6. HeldOK(r) BY <1>7, <1>8, <1>9, <2>1, <2>2, <2>3 DEF HeldOK
    <2>7. ArmedOK(r) BY <1>7, <1>9, <2>1, <2>5 DEF ArmedOK, NakedLeg, StopOf
    <2>8. r.filled[l] BY <1>7, <1>9
    <2> QED BY <1>7, <1>8, <2>2, <2>5, <2>6, <2>7, <2>8 DEF RoundOK, PendingOK
<1> QED BY <1>10, <1>11


\* The merge restores the round.
Merges(k, r, s, h) ==
    /\ r \in Market
    /\ r.filled = k.filled /\ r.held = h /\ r.exit = k.exit /\ r.pair
    /\ r.status = s /\ r.stopSide = k.stopSide

LEMMA SetPair ==
    ASSUME NEW k \in Market, NEW s \in Statuses, NEW t \in Int, NEW h \in [Legs -> Nat]
    PROVE  Merges(k, [k EXCEPT !.pair = TRUE, !.status = s, !.nakedSince = t, !.held = h], s, h)
BY DEF Market, Merges

LEMMA CompletePairKeeps ==
    ASSUME NEW k, BothFilled(k), RoundOK(k) \/ MergeDue(k)
    PROVE  RoundOK(CompletePair(k))
<1> DEFINE c == ClearStop(k)
           h == [l \in Legs |-> Less(c.held[l])]
           r == [c EXCEPT !.pair = TRUE, !.status = "PAIR_MERGED", !.nakedSince = NoTime, !.held = h]
<1>1. k \in Market BY DEF RoundOK, MergeDue
<1>2. Stages(k, c, NoLeg, NoPrice) BY <1>1, ClearStopFacts
<1>3. NoLeg \notin Legs BY DEF NoLeg, Legs
<1> HIDE DEF c
<1>4. CompletePair(k) = IF k.pair THEN c ELSE r
    BY <1>2 DEF CompletePair, Stages, c
<1>5. CASE k.pair
    <2>1. CompletePair(k) = c BY <1>4, <1>5
    <2>2. RoundOK(k) BY <1>5 DEF MergeDue
    <2> QED BY <2>1, <2>2, <1>2, <1>3, <1>5
            DEF Stages, RoundOK, HeldOK, ArmedOK, PendingOK, NakedLeg, BothFilled, AnyFilled, Legs, Opp
<1>6. CASE ~k.pair
    <2>1. \A l \in Legs : k.held[l] <= 1 BY <1>1, LessHeld DEF RoundOK, HeldOK, MergeDue
    <2>2. h \in [Legs -> Nat] /\ \A l \in Legs : h[l] = 0
        BY <2>1, <1>2, LessHeld DEF Stages
    <2>3. "PAIR_MERGED" \in Statuses /\ NoTime \in Int /\ c \in Market BY <1>2 DEF Statuses, NoTime, Stages
    <2> HIDE DEF h
    <2>4. Merges(c, r, "PAIR_MERGED", h) BY <2>2, <2>3, SetPair, Zenon
    <2> HIDE DEF r
    <2>5. r.filled = k.filled /\ r.stopSide = NoLeg BY <2>4, <1>2 DEF Stages, Merges
    <2>6. \A l \in Legs : r.filled[l] BY <2>5 DEF BothFilled
    <2> QED BY <2>2, <2>4, <2>5, <2>6, <1>3, <1>4, <1>6, OppLeg
            DEF Merges, RoundOK, HeldOK, ArmedOK, PendingOK, NakedLeg, BothFilled, AnyFilled, Legs
<1> QED BY <1>5, <1>6

-----------------------------------------------------------------------------
(* A stop exit *)

Leaves(k, r, l, s, h) ==
    /\ r \in Market
    /\ r.filled = k.filled /\ r.held = [k.held EXCEPT ![l] = h]
    /\ r.pair = k.pair /\ r.exit /\ r.status = s /\ r.stopSide = k.stopSide

LEMMA SetExit ==
    ASSUME NEW k \in Market, NEW l \in Legs, NEW q \in Legs, NEW o \in OrderStatuses,
           NEW i \in BOOLEAN, NEW s \in Statuses, NEW h \in Nat
    PROVE  Leaves(k, [k EXCEPT !.ordStatus[q] = o, !.ordId[q] = i, !.exit = TRUE,
                               !.status = s, !.held[l] = h], l, s, h)
BY DEF Market, Leaves

\* Only a leg that is filled alone is stopped out; its stop may be gone.
Unarmed(k) ==
    /\ k \in Market /\ HeldOK(k)
    /\ k.pair => BothFilled(k)
    /\ \A l \in Legs : k.stopSide = l => k.filled[l]

LEMMA StopExitKeeps ==
    ASSUME NEW k, NEW l \in Legs, Unarmed(k), NakedLeg(k, l)
    PROVE  RoundOK(StopExit(k, l))
<1> DEFINE r == StopExit(k, l)
           h == Less(k.held[l])
<1>0. k \in Market BY DEF Unarmed
<1>1. "CANCELLED" \in OrderStatuses /\ "STOP_EXIT" \in Statuses /\ FALSE \in BOOLEAN
    BY DEF OrderStatuses, Statuses
<1>2. Opp(l) \in Legs /\ h \in Nat BY <1>0, OppLeg, LessHeld
<1>3. \A q \in Legs : k.held[q] <= 1 /\ (q # l => k.held[q] = 0)
    BY DEF Unarmed, HeldOK, NakedLeg, Opp, Legs
<1>4. h = 0 BY <1>0, <1>3, LessHeld
<1> HIDE DEF h
<1>5. r = [k EXCEPT !.ordStatus[Opp(l)] = "CANCELLED", !.ordId[Opp(l)] = FALSE, !.exit = TRUE,
                    !.status = "STOP_EXIT", !.held[l] = h]
    BY DEF StopExit, h
<1>6. Leaves(k, [k EXCEPT !.ordStatus[Opp(l)] = "CANCELLED", !.ordId[Opp(l)] = FALSE,
                          !.exit = TRUE, !.status = "STOP_EXIT", !.held[l] = h], l, "STOP_EXIT", h)
    BY <1>0, <1>1, <1>2, SetExit, Zenon
<1> HIDE DEF r
<1>7. Leaves(k, r, l, "STOP_EXIT", h) BY <1>5, <1>6
<1>8. \A q \in Legs : r.held[q] = 0
    BY <1>0, <1>3, <1>4, <1>7 DEF Market, Leaves
<1>9. RoundOK(r)
    BY <1>7, <1>8 DEF Leaves, Unarmed, RoundOK, HeldOK, ArmedOK, PendingOK, BothFilled, AnyFilled, NakedLeg
<1> QED BY <1>9 DEF r

LEMMA RetryKeeps ==
    ASSUME NEW k, NEW latched, RoundOK(k)
    PROVE  RoundOK(RetryPending(k, latched))
<1>1. CASE k.status = "STOP_EXIT_PENDING" /\ ~k.exit /\ HasMark(k, PendingLeg(k), latched)
    <2>1. PendingLeg(k) \in Legs /\ NakedLeg(k, PendingLeg(k))
        BY <1>1 DEF RoundOK, PendingOK, PendingLeg, NakedLeg, Legs, Opp
    <2>2. Unarmed(k) BY DEF RoundOK, Unarmed
    <2> QED BY <1>1, <2>1, <2>2, StopExitKeeps DEF RetryPending
<1>2. CASE ~(k.status = "STOP_EXIT_PENDING" /\ ~k.exit /\ HasMark(k, PendingLeg(k), latched))
    BY <1>2 DEF RetryPending
<1> QED BY <1>1, <1>2


LEMMA ClearedExitKeeps ==
    ASSUME NEW k, NEW l \in Legs, RoundOK(k), NakedLeg(k, l)
    PROVE  RoundOK(StopExit(ClearStop(k), l))
<1>1. Stages(k, ClearStop(k), NoLeg, NoPrice) BY ClearStopFacts DEF RoundOK
<1>2. NoLeg \notin Legs BY DEF NoLeg, Legs
<1>3. Unarmed(ClearStop(k)) /\ NakedLeg(ClearStop(k), l)
    BY <1>1, <1>2 DEF Stages, RoundOK, Unarmed, HeldOK, BothFilled, NakedLeg
<1> QED BY <1>3, StopExitKeeps

LEMMA StopTriggerKeeps ==
    ASSUME NEW k, RoundOK(k), ~BothFilled(k)
    PROVE  RoundOK(StopTrigger(k))
<1>1. ASSUME NEW l \in Legs, Triggered(k, l) PROVE RoundOK(StopExit(ClearStop(k), l))
    <2>1. NakedLeg(k, l) BY <1>1 DEF Triggered, RoundOK, NakedLeg, BothFilled, Opp, Legs
    <2> QED BY <2>1, ClearedExitKeeps
<1>2. "UP" \in Legs /\ "DOWN" \in Legs BY DEF Legs
<1> QED BY <1>1, <1>2 DEF StopTrigger

LEMMA SameReadings ==
    ASSUME NEW k, NEW r, Same(k, r)
    PROVE  /\ BothFilled(r) <=> BothFilled(k)
           /\ \A l \in Legs : NakedLeg(r, l) <=> NakedLeg(k, l)
BY DEF Same, BothFilled, NakedLeg

LEMMA CloseKeeps ==
    ASSUME NEW k, NEW l \in Legs, NEW latched, RoundOK(k), NakedLeg(k, l)
    PROVE  RoundOK(CloseAtDeadZone(k, l, latched))
<1> DEFINE c == CancelOpposite(k, l)
<1>1. Same(k, c) BY CancelOppositeSame DEF RoundOK
<1>2. RoundOK(c) BY <1>1, SameOK
<1>3. NakedLeg(c, l) /\ ~BothFilled(c)
    BY <1>1, SameReadings, OppLeg DEF NakedLeg, BothFilled
<1> HIDE DEF c
<1>4. RoundOK(StopTrigger(c)) BY <1>2, <1>3, StopTriggerKeeps
<1>5. RoundOK(StopExit(ClearStop(c), l)) BY <1>2, <1>3, ClearedExitKeeps
<1> QED BY <1>2, <1>4, <1>5 DEF CloseAtDeadZone, c

LEMMA ExitsKeep ==
    ASSUME NEW k, NEW dz, NEW latched, RoundOK(k), ~BothFilled(k)
    PROVE  RoundOK(Exits(k, dz, latched))
<1>1. RoundOK(RetryPending(k, latched)) BY RetryKeeps
<1>2. \A l \in Legs : NakedLeg(k, l) => RoundOK(CloseAtDeadZone(k, l, latched)) BY CloseKeeps
<1>3. RoundOK(StopTrigger(k)) BY StopTriggerKeeps
<1>4. "UP" \in Legs /\ "DOWN" \in Legs BY DEF Legs
<1> QED BY <1>1, <1>2, <1>3, <1>4 DEF Exits

-----------------------------------------------------------------------------
(* A round that ends *)

Clean(r) ==
    /\ r \in Market
    /\ \A l \in Legs : ~r.filled[l] /\ r.held[l] = 0
    /\ ~r.pair /\ ~r.exit /\ r.stopSide = NoLeg

Resets(k, r, f, s) ==
    /\ r \in Market
    /\ r.filled = f /\ ~r.pair /\ ~r.exit /\ r.stopSide = s
    /\ r.held = k.held /\ r.status = k.status

LEMMA SetReset ==
    ASSUME NEW k \in Market, NEW n \in [Legs -> Int], NEW o \in [Legs -> OrderStatuses],
           NEW f \in [Legs -> BOOLEAN], NEW p \in Int, NEW t \in Int, NEW s \in Legs \cup {NoLeg}
    PROVE  Resets(k, [k EXCEPT !.filled = f, !.fillPrice = n, !.ordId = f, !.ordStatus = o,
                               !.resting = n, !.original = n, !.unchased = n, !.anchored = p,
                               !.pair = FALSE,
                               !.exit = FALSE, !.breached = f, !.reversal = f,
                               !.nakedSince = t, !.stopSide = s, !.stopPrice = p,
                               !.repriced = FALSE], f, s)
BY DEF Market, Resets

LEMMA ResetFacts ==
    ASSUME NEW k \in Market
    PROVE  Resets(k, ResetRound(k), BothLegs(FALSE), NoLeg)
<1> DEFINE f == BothLegs(FALSE)
           n == BothLegs(NoPrice)
           o == BothLegs("NONE")
           r == [k EXCEPT !.filled = f, !.fillPrice = n, !.ordId = f, !.ordStatus = o,
                          !.resting = n, !.original = n, !.unchased = n, !.anchored = NoPrice, !.pair = FALSE,
                          !.exit = FALSE, !.breached = f, !.reversal = f,
                          !.nakedSince = NoTime, !.stopSide = NoLeg, !.stopPrice = NoPrice,
                          !.repriced = FALSE]
<1>1. NoPrice \in Int /\ NoTime \in Int /\ NoLeg \in Legs \cup {NoLeg} BY DEF NoPrice, NoTime
<1>2. f \in [Legs -> BOOLEAN] /\ n \in [Legs -> Int] BY <1>1, FlatFunctions
<1>3. o \in [Legs -> OrderStatuses] BY FlatFunctions DEF OrderStatuses
<1>4. ResetRound(k) = r BY DEF ResetRound
<1> HIDE DEF f, n, o
<1>5. Resets(k, r, f, NoLeg) BY <1>1, <1>2, <1>3, SetReset, Zenon
<1> HIDE DEF r
<1> QED BY <1>4, <1>5 DEF f

LEMMA ResetClean ==
    ASSUME NEW k, Flat(k)
    PROVE  Clean(ResetRound(k)) /\ ResetRound(k).status = k.status
<1>1. Resets(k, ResetRound(k), BothLegs(FALSE), NoLeg) BY ResetFacts DEF Flat
<1> QED BY <1>1, FlatFunctions DEF Resets, Clean, Flat

LEMMA CleanOK ==
    ASSUME NEW k, Clean(k), k.status # "STOP_EXIT_PENDING"
    PROVE  RoundOK(k)
<1>1. NoLeg \notin Legs BY DEF NoLeg, Legs
<1> QED BY <1>1 DEF Clean, RoundOK, HeldOK, ArmedOK, PendingOK, NakedLeg

\* A fresh start needs a round that is over, of which nothing is held.
LEMMA FreshStartKeeps ==
    ASSUME NEW k, NEW dz, RoundOK(k)
    PROVE  RoundOK(FreshStart(k, dz))
<1>1. CASE k.pair \/ k.exit
    <2>1. Flat(k) BY <1>1 DEF Flat, RoundOK, HeldOK
    <2>2. k.status # "STOP_EXIT_PENDING"
        BY <1>1, OppLeg DEF RoundOK, PendingOK, NakedLeg, BothFilled
    <2>3. RoundOK(ResetRound(k)) BY <2>1, <2>2, ResetClean, CleanOK
    <2> QED BY <2>3 DEF FreshStart
<1>2. CASE ~(k.pair \/ k.exit) BY <1>2 DEF FreshStart
<1> QED BY <1>1, <1>2

LEMMA SetHeld ==
    ASSUME NEW k \in Market, NEW h \in [Legs -> Nat]
    PROVE  LET r == [k EXCEPT !.held = h] IN r \in Market /\ r.held = h
BY DEF Market

\* The rollover settles what the round left open.
LEMMA SettleFlat ==
    ASSUME NEW k, RoundOK(k)
    PROVE  Flat(Settle(k))
<1> DEFINE h == [l \in Legs |-> IF k.filled[l] THEN Less(k.held[l]) ELSE k.held[l]]
<1>0. k \in Market BY DEF RoundOK
<1>1. CASE AnyFilled(k) /\ ~k.pair /\ ~k.exit
    <2>1. \A l \in Legs : k.held[l] <= 1 /\ (~k.filled[l] => k.held[l] = 0)
        BY DEF RoundOK, HeldOK
    <2>2. h \in [Legs -> Nat] /\ \A l \in Legs : h[l] = 0 BY <1>0, <2>1, LessHeld
    <2>3. Settle(k) = [k EXCEPT !.held = h] BY <1>1 DEF Settle
    <2> HIDE DEF h
    <2>4. Settle(k) \in Market /\ Settle(k).held = h BY <1>0, <2>2, <2>3, SetHeld
    <2> QED BY <2>2, <2>4 DEF Flat
<1>2. CASE ~(AnyFilled(k) /\ ~k.pair /\ ~k.exit)
    <2>1. Settle(k) = k BY <1>2 DEF Settle
    <2>2. \A l \in Legs : k.held[l] = 0 BY <1>2 DEF RoundOK, HeldOK, AnyFilled
    <2> QED BY <1>0, <2>1, <2>2 DEF Flat
<1> QED BY <1>1, <1>2

Rolls(k, r, s) ==
    /\ r \in Market
    /\ r.filled = k.filled /\ r.held = k.held /\ r.pair = k.pair /\ r.exit = k.exit
    /\ r.stopSide = k.stopSide /\ r.status = s

LEMMA SetRollover ==
    ASSUME NEW k \in Market, NEW i \in [Legs -> BOOLEAN], NEW o \in [Legs -> OrderStatuses],
           NEW s \in Statuses
    PROVE  Rolls(k, [k EXCEPT !.ordId = i, !.ordStatus = o, !.nextQuoted = FALSE,
                              !.entryCancelled = FALSE, !.seen = FALSE, !.lateSkip = FALSE,
                              !.status = s], s)
BY DEF Market, Rolls

LEMMA RolloverKeeps ==
    ASSUME NEW k, NEW cid, NEW latched, RoundOK(k), offset \in Int
    PROVE  RoundOK(Rollover(k, cid, latched))
<1> DEFINE p == Promotes(k, cid)
           c == ResetRound(Settle(RetryPending(k, latched)))
           i == BothLegs(p)
           o == BothLegs(IF p THEN "RESTING" ELSE "NONE")
           n == BothLegs(IF p THEN Dollar \div 2 - offset ELSE NoPrice)
           s == IF running THEN "QUOTING" ELSE "IDLE"
           q == QuoteAt(c, n)
           r == [q EXCEPT !.ordId = i, !.ordStatus = o, !.nextQuoted = FALSE,
                          !.entryCancelled = FALSE, !.seen = FALSE, !.lateSkip = FALSE, !.status = s]
<1>1. Clean(c) BY RetryKeeps, SettleFlat, ResetClean
<1>2. p \in BOOLEAN BY DEF Promotes, RoundOK, Market
<1>3. i \in [Legs -> BOOLEAN] BY <1>2, FlatFunctions
<1>4. o \in [Legs -> OrderStatuses] BY FlatFunctions DEF OrderStatuses
<1>5. n \in [Legs -> Int] BY FlatFunctions DEF Dollar, NoPrice
<1>6. s \in Statuses /\ s # "STOP_EXIT_PENDING" /\ FALSE \in BOOLEAN BY DEF Statuses
<1>7. Rollover(k, cid, latched) = r BY DEF Rollover
<1> HIDE DEF p, c, i, o, n, s
<1>8. Same(c, q) BY <1>1, <1>5, QuoteAtSame DEF Clean
<1> HIDE DEF q
<1>9. Rolls(q, r, s) BY <1>3, <1>4, <1>6, <1>8, SetRollover, Zenon DEF Same
<1> HIDE DEF r
<1>10. Clean(r) BY <1>1, <1>8, <1>9 DEF Clean, Rolls, Same
<1> QED BY <1>6, <1>7, <1>9, <1>10, CleanOK DEF Rolls

-----------------------------------------------------------------------------
(* The tick *)

FillOK(k) == RoundOK(k) \/ MergeDue(k)

LEMMA FillSame ==
    ASSUME NEW k, NEW r, FillOK(k), k \in Market => Same(k, r)
    PROVE  FillOK(r)
<1>1. k \in Market BY DEF FillOK, RoundOK, MergeDue
<1> QED BY <1>1, SameOK, SameDue DEF FillOK

LEMMA OpenFillKeeps ==
    ASSUME NEW k, NEW l \in Legs, NEW t \in Int, FillOK(k), ~k.filled[l]
    PROVE  FillOK(FillLeg(k, l, t))
<1>1. RoundOK(k) BY DEF FillOK, MergeDue, BothFilled
<1> QED BY <1>1, FillKeeps DEF FillOK

LEMMA SimKeeps ==
    ASSUME NEW k, NEW new, NEW can, NEW t \in Int, FillOK(k)
    PROVE  FillOK(SimUp(k, new, can, t)) /\ FillOK(SimDown(k, new, can, t))
<1>1. "UP" \in Legs /\ "DOWN" \in Legs BY DEF Legs
<1>2. FillOK(SimUp(k, new, can, t)) BY <1>1, OpenFillKeeps DEF SimUp
<1>3. FillOK(SimDown(k, new, can, t)) BY <1>1, OpenFillKeeps DEF SimDown
<1> QED BY <1>2, <1>3

LEMMA ChaseAfterFillKeeps ==
    ASSUME NEW before, NEW k, NEW l \in Legs, NEW t \in Int, FillOK(k)
    PROVE  FillOK(ChaseAfterFill(before, k, l, t))
<1>1. FillOK(ChaseFrom(k, l, t)) BY ChaseFromSame, FillSame
<1> QED BY <1>1 DEF ChaseAfterFill

LEMMA DetectFillsKeeps ==
    ASSUME NEW k, NEW new, NEW can, NEW t \in Int, RoundOK(k)
    PROVE  FillOK(DetectFills(k, new, can, t))
<1> DEFINE up == SimUp(k, new, can, t)
           afterUp == ChaseAfterFill(k, up, "UP", t)
           newUp == new \cup RaisedLegs(k, afterUp)
           down == SimDown(afterUp, newUp, can, t)
           afterDown == ChaseAfterFill(afterUp, down, "DOWN", t)
           newDown == newUp \cup RaisedLegs(afterUp, afterDown)
           again == SimUpAgain(afterUp, afterDown, newDown, can, t)
<1>0. "UP" \in Legs /\ "DOWN" \in Legs BY DEF Legs
<1>1. DetectFills(k, new, can, t) = IF k.status = "STOP_EXIT_PENDING" THEN k ELSE again
    BY DEF DetectFills
<1>2. FillOK(k) BY DEF FillOK
<1>3. FillOK(up) BY <1>2, SimKeeps
<1> HIDE DEF up
<1>4. FillOK(afterUp) BY <1>0, <1>3, ChaseAfterFillKeeps
<1> HIDE DEF afterUp, newUp
<1>5. FillOK(down) BY <1>4, SimKeeps
<1> HIDE DEF down
<1>6. FillOK(afterDown) BY <1>0, <1>5, ChaseAfterFillKeeps
<1> HIDE DEF afterDown, newDown
<1>7. FillOK(again) BY <1>6, SimKeeps DEF SimUpAgain
<1> HIDE DEF again
<1> QED BY <1>1, <1>2, <1>7

\* A chain of phases that leave the round alone.
LEMMA SameKeeps ==
    ASSUME NEW k, NEW r, RoundOK(k), k \in Market => Same(k, r)
    PROVE  RoundOK(r)
<1>1. k \in Market BY DEF RoundOK
<1> QED BY <1>1, SameOK

LEMMA TradeKeeps ==
    ASSUME NEW k, NEW t \in Int, NEW latched, RoundOK(k), offset \in Int
    PROVE  RoundOK(Trade(k, t, latched))
<1> DEFINE dz == DeadZoneAt(k, t)
           fresh == FreshStart(k, dz)
           latch == Anchor(fresh, dz)
           anchored == KeepOriginal(latch)
           chased == Chase(anchored, t)
           drift == TrackDrift(chased)
           late == LateStart(drift, dz)
           skip == LateSkip(late)
           gated == CancelInDeadZone(skip, dz)
           can == CanPlace(gated, t, dz)
           placed == IF can THEN PlaceOrders(gated) ELSE HoldForBook(gated, t, dz)
           new == RaisedLegs(anchored, chased) \cup {l \in Legs : can /\ Placed(gated, l)}
           filled == DetectFills(placed, new, can, t)
<1>1. Trade(k, t, latched) =
        IF BothFilled(filled) THEN CompletePair(filled) ELSE Exits(filled, dz, latched)
    BY DEF Trade
<1>2. dz \in BOOLEAN BY DEF DeadZoneAt, InDeadZone
<1> HIDE DEF dz
<1>3. RoundOK(fresh) BY FreshStartKeeps
<1> HIDE DEF fresh
<1>4. RoundOK(latch) BY <1>3, AnchorSame, SameKeeps
<1> HIDE DEF latch
<1>5. RoundOK(anchored) BY <1>4, KeepOriginalSame, SameKeeps
<1> HIDE DEF anchored
<1>6. RoundOK(chased) BY <1>5, ChaseSame, SameKeeps
<1> HIDE DEF chased
<1>7. RoundOK(drift) BY <1>6, TrackDriftSame, SameKeeps
<1> HIDE DEF drift
<1>8. RoundOK(late) BY <1>2, <1>7, LateStartSame, SameKeeps
<1> HIDE DEF late
<1>9. RoundOK(skip) BY <1>8, LateSkipSame, SameKeeps
<1> HIDE DEF skip
<1>10. RoundOK(gated) BY <1>9, CancelInDeadZoneSame, SameKeeps
<1> HIDE DEF gated, can, new
<1>11. RoundOK(placed) BY <1>10, PlaceOrdersSame, HoldForBookSame, SameKeeps
<1> HIDE DEF placed
<1>12. FillOK(filled) BY <1>11, DetectFillsKeeps
<1> HIDE DEF filled
<1>13. BothFilled(filled) => RoundOK(CompletePair(filled))
    BY <1>12, CompletePairKeeps DEF FillOK
<1>14. ~BothFilled(filled) => RoundOK(Exits(filled, dz, latched))
    BY <1>12, ExitsKeep DEF FillOK, MergeDue
<1> QED BY <1>1, <1>13, <1>14

LEMMA TickKeeps ==
    ASSUME NEW t \in Int, NEW cur \in -1 .. LastWindow, NEW next \in -1 .. LastWindow + 1,
           NEW book \in Books, NEW latched, RoundOK(m), offset \in Int
    PROVE  RoundOK(Tick(t, cur, next, book, latched))
<1> DEFINE named == NextWindow(m, next)
           quoted == PreQuote(named)
           rolled == IF quoted.cid # NoWindow /\ quoted.cid # cur
                     THEN Rollover(quoted, cur, latched) ELSE quoted
           fresh == [rolled EXCEPT !.cid = cur, !.book = book]
<1>1. Tick(t, cur, next, book, latched) =
        IF cur = NoWindow THEN quoted
        ELSE IF ~running \/ t >= End(cur) THEN Idle(fresh) ELSE Trade(fresh, t, latched)
    BY DEF Tick
<1>2. RoundOK(named) BY NextWindowSame, SameKeeps
<1> HIDE DEF named
<1>3. RoundOK(quoted) BY <1>2, PreQuoteSame, SameKeeps
<1> HIDE DEF quoted
<1>4. RoundOK(rolled) BY <1>3, RolloverKeeps
<1> HIDE DEF rolled
<1>5. book \in [Legs -> Quotes] BY Params
<1>6. RoundOK(fresh) BY <1>4, <1>5, SetWindow, SameKeeps
<1> HIDE DEF fresh
<1>7. RoundOK(Idle(fresh)) BY <1>6, IdleSame, SameKeeps
<1>8. RoundOK(Trade(fresh, t, latched)) BY <1>6, TradeKeeps
<1> QED BY <1>1, <1>3, <1>7, <1>8

-----------------------------------------------------------------------------
(* The handlers *)

IInv == TypeOK /\ RoundOK(m)

LEMMA SetSpot ==
    ASSUME NEW k, NEW l \in Legs, NEW b \in BOOLEAN, RoundOK(k), NakedLeg(k, l), ~k.exit
    PROVE  RoundOK([k EXCEPT !.status = "STOP_EXIT_PENDING", !.breached[l] = b])
<1> DEFINE r == [k EXCEPT !.status = "STOP_EXIT_PENDING", !.breached[l] = b]
<1>0. k \in Market BY DEF RoundOK
<1>1. "STOP_EXIT_PENDING" \in Statuses BY DEF Statuses
<1>2. /\ r \in Market
      /\ r.filled = k.filled /\ r.fillPrice = k.fillPrice /\ r.held = k.held
      /\ r.pair = k.pair /\ r.exit = k.exit
      /\ r.stopSide = k.stopSide /\ r.stopPrice = k.stopPrice
    BY <1>0, <1>1 DEF Market
<1> HIDE DEF r
<1>3. RoundOK(r)
    BY <1>2 DEF RoundOK, HeldOK, ArmedOK, PendingOK, NakedLeg, BothFilled, AnyFilled
<1> QED BY <1>3 DEF r

LEMMA SetCancelAll ==
    ASSUME NEW k \in Market, NEW i \in [Legs -> BOOLEAN], NEW o \in [Legs -> OrderStatuses],
           NEW p \in Int
    PROVE  Same(k, [k EXCEPT !.ordId = i, !.ordStatus = o, !.anchored = p, !.nextQuoted = FALSE])
BY DEF Market, Same

LEMMA SetConfig ==
    ASSUME NEW k \in Market, NEW b \in BOOLEAN
    PROVE  Same(k, [k EXCEPT !.repriced = b])
BY DEF Market, Same

LEMMA WindowAtRange ==
    ASSUME NEW t \in 0 .. Start(LastWindow)
    PROVE  WindowAt(t) \in 0 .. LastWindow
BY ClockAssumption DEF WindowAt, Start

LEMMA OperatorKeeps ==
    ASSUME IInv, Operator
    PROVE  RoundOK(m')
<1>0. m \in Market /\ RoundOK(m) BY DEF IInv, RoundOK
<1>1. CASE StartEngine BY <1>0, <1>1 DEF StartEngine
<1>2. CASE StopEngine BY <1>0, <1>2, IdleSame, SameKeeps DEF StopEngine
<1>3. CASE CancelAll
    <2> DEFINE k == [m EXCEPT !.ordId = BothLegs(FALSE), !.ordStatus = BothLegs("CANCELLED"),
                              !.anchored = NoPrice, !.nextQuoted = FALSE]
    <2>1. BothLegs(FALSE) \in [Legs -> BOOLEAN] /\ BothLegs("CANCELLED") \in [Legs -> OrderStatuses]
        BY FlatFunctions DEF OrderStatuses
    <2>2. NoPrice \in Int BY DEF NoPrice
    <2>3. Same(m, k) BY <1>0, <2>1, <2>2, SetCancelAll, Zenon
    <2>4. m' = Idle(k) BY <1>3 DEF CancelAll
    <2> HIDE DEF k
    <2>5. RoundOK(k) BY <1>0, <2>3, SameKeeps
    <2> QED BY <2>4, <2>5, IdleSame, SameKeeps
<1>4. CASE UpdateConfig
    <2>1. PICK o \in Offsets :
            m' = [QuoteAt(m, BothLegs(Dollar \div 2 - o)) EXCEPT
                           !.repriced = m.repriced \/ AnyFilled(m) \/
                                        \E l \in Legs : m.original[l] # NoPrice]
        BY <1>4 DEF UpdateConfig
    <2> DEFINE n == BothLegs(Dollar \div 2 - o)
               b == m.repriced \/ AnyFilled(m) \/ \E l \in Legs : m.original[l] # NoPrice
    <2>2. n \in [Legs -> Int] BY Params, FlatFunctions DEF Dollar
    <2>3. b \in BOOLEAN OBVIOUS
    <2> DEFINE q == QuoteAt(m, n)
    <2>4. m' = [q EXCEPT !.repriced = b] BY <2>1
    <2> HIDE DEF n, b
    <2>5. Same(m, q) BY <1>0, <2>2, QuoteAtSame
    <2> HIDE DEF q
    <2>6. Same(m, m')
        <3>1. q \in Market BY <2>5 DEF Same
        <3>2. Same(q, [q EXCEPT !.repriced = b]) BY <3>1, <2>3, SetConfig, Zenon
        <3> QED BY <2>4, <2>5, <3>2, SameTransitive
    <2> QED BY <1>0, <2>6, SameKeeps
<1> QED BY <1>1, <1>2, <1>3, <1>4 DEF Operator

LEMMA TickerKeeps ==
    ASSUME IInv, Ticker
    PROVE  RoundOK(m')
<1>0. m \in Market /\ RoundOK(m) BY DEF IInv, RoundOK
<1>1. CASE BeginTick BY <1>0, <1>1 DEF BeginTick
<1>2. ASSUME NEW at \in tickNow .. now, NEW cur \in {NoWindow, WindowAt(at)},
             NEW next \in {NoWindow, WindowAt(at) + 1}, FinishTick(at, cur, next)
      PROVE  RoundOK(m')
    <2>1. tickNow \in Int /\ at \in 0 .. Start(LastWindow) /\ offset \in Int
        <3>1. tickNow \in 0 .. now /\ now \in 0 .. Start(LastWindow) /\ offset \in Offsets
            BY DEF IInv, TypeOK
        <3>2. Start(LastWindow) \in Int BY ClockAssumption DEF Start
        <3> QED BY <3>1, <3>2, Params
    <2>2. WindowAt(at) \in 0 .. LastWindow BY <2>1, WindowAtRange
    <2>3. cur \in -1 .. LastWindow /\ next \in -1 .. LastWindow + 1
        BY <2>2, ClockAssumption DEF NoWindow
    <2>4. CASE UNCHANGED m BY <1>0, <2>4
    <2>5. CASE \E book \in Books, latched \in BOOLEAN : m' = Tick(tickNow, cur, next, book, latched)
        BY <1>0, <2>1, <2>3, <2>5, TickKeeps
    <2> QED BY <1>2, <2>4, <2>5 DEF FinishTick
<1>3. CASE PollFails BY <1>2, <1>3 DEF PollFails
<1>4. CASE PollOk BY <1>2, <1>4 DEF PollOk
<1> QED BY <1>1, <1>3, <1>4 DEF Ticker

LEMMA StreamKeeps ==
    ASSUME IInv, Stream
    PROVE  RoundOK(m')
<1>0. m \in Market /\ RoundOK(m) BY DEF IInv, RoundOK
<1>1. ASSUME NEW l \in Legs, OnBookUpdate(l) PROVE RoundOK(m')
    <2>1. PICK book \in Books : m' = [m EXCEPT !.book[l] = book[l]] BY <1>1 DEF OnBookUpdate
    <2>2. book[l] \in Quotes BY Params
    <2>3. Same(m, [m EXCEPT !.book[l] = book[l]]) BY <1>0, <2>2, SetBook, Zenon
    <2> QED BY <1>0, <2>1, <2>3, SameKeeps
<1>2. ASSUME NEW l \in Legs, OnWsTrade(l) PROVE RoundOK(m')
    <2> DEFINE k == FillLeg(m, l, now)
    <2>1. ~m.filled[l] /\ m' = IF BothFilled(k) THEN CompletePair(k) ELSE k
        BY <1>2 DEF OnWsTrade
    <2>2. now \in Int
        BY ClockAssumption DEF IInv, TypeOK, Start
    <2>3. FillOK(m) BY <1>0 DEF FillOK
    <2>4. FillOK(k) BY <2>1, <2>2, <2>3, OpenFillKeeps
    <2> HIDE DEF k
    <2> QED BY <2>1, <2>4, CompletePairKeeps DEF FillOK, MergeDue
<1>3. ASSUME NEW l \in Legs, OnSpotTick(l) PROVE RoundOK(m')
    <2>1. PICK large \in BOOLEAN, latched \in BOOLEAN :
            m' = RetryPending([m EXCEPT !.status = "STOP_EXIT_PENDING",
                                        !.breached[l] = m.breached[l] \/ large], latched)
        BY <1>3 DEF OnSpotTick
    <2> DEFINE b == m.breached[l] \/ large
    <2>2. b \in BOOLEAN /\ NakedLeg(m, l) /\ ~m.exit BY <1>3 DEF OnSpotTick
    <2>3. m' = RetryPending([m EXCEPT !.status = "STOP_EXIT_PENDING", !.breached[l] = b], latched)
        BY <2>1
    <2> HIDE DEF b
    <2>4. RoundOK([m EXCEPT !.status = "STOP_EXIT_PENDING", !.breached[l] = b])
        BY <1>0, <2>2, SetSpot, Zenon
    <2> QED BY <2>3, <2>4, RetryKeeps
<1> QED BY <1>1, <1>2, <1>3 DEF Stream

-----------------------------------------------------------------------------
(* The theorems *)

LEMMA InitInv == Init => IInv
<1> SUFFICES ASSUME Init PROVE IInv
    OBVIOUS
<1>1. offset \in Offsets /\ offset \in Int BY Params DEF Init
<1>2. m \in Market
    <2>1. m = NewMarket BY DEF Init
    <2>2. BothLegs(Dollar \div 2 - offset) \in [Legs -> Int] BY <1>1, FlatFunctions DEF Dollar
    <2>3. BothLegs([bid |-> NoPrice, ask |-> NoPrice]) \in [Legs -> Quotes]
        BY FlatFunctions DEF NoPrice, Quotes
    <2>4. BothLegs("NONE") \in [Legs -> OrderStatuses]
        BY FlatFunctions DEF OrderStatuses
    <2>5. BothLegs(NoPrice) \in [Legs -> Int] BY FlatFunctions DEF NoPrice
    <2>6. BothLegs(0) \in [Legs -> Nat] /\ BothLegs(FALSE) \in [Legs -> BOOLEAN] BY FlatFunctions
    <2>7. NoWindow \in -1 .. LastWindow /\ NoWindow \in -1 .. LastWindow + 1
        BY ClockAssumption DEF NoWindow
    <2>8. NoPrice \in Int /\ NoTime \in Int /\ "IDLE" \in Statuses BY DEF NoPrice, NoTime, Statuses
    <2> QED BY <2>1, <2>2, <2>3, <2>4, <2>5, <2>6, <2>7, <2>8 DEF NewMarket, Market
<1>3. Clean(m) /\ m.status # "STOP_EXIT_PENDING"
    BY <1>2, FlatFunctions DEF Init, NewMarket, Clean
<1>4. RoundOK(m) BY <1>3, CleanOK
<1>5. now \in 0 .. Start(LastWindow) BY ClockAssumption DEF Init, Start
<1>6. tickNow \in 0 .. now BY DEF Init
<1>7. running \in BOOLEAN /\ halted \in BOOLEAN /\ loop \in {"off", "sleep", "polling"}
    BY DEF Init
<1> QED BY <1>1, <1>2, <1>4, <1>5, <1>6, <1>7 DEF IInv, TypeOK

LEMMA StepInv == IInv /\ [Next]_vars => IInv'
<1> SUFFICES ASSUME IInv, [Next]_vars PROVE IInv'
    OBVIOUS
<1>1. RoundOK(m')
    <2>1. RoundOK(m) BY DEF IInv
    <2>2. CASE AdvanceClock BY <2>1, <2>2 DEF AdvanceClock
    <2>3. CASE UNCHANGED vars BY <2>1, <2>3 DEF vars
    <2> QED BY <2>2, <2>3, OperatorKeeps, TickerKeeps, StreamKeeps DEF Next
<1>2. /\ running' \in BOOLEAN /\ halted' \in BOOLEAN /\ offset' \in Offsets
      /\ loop' \in {"off", "sleep", "polling"}
    BY DEF IInv, TypeOK, Next, vars, Operator, StartEngine, StopEngine, CancelAll, UpdateConfig,
           Ticker, BeginTick, PollFails, PollOk, FinishTick, Stream, OnBookUpdate, OnWsTrade,
           OnSpotTick, AdvanceClock
<1>3. now' \in 0 .. Start(LastWindow) /\ tickNow' \in 0 .. now'
    <2>1. now \in 0 .. Start(LastWindow) /\ tickNow \in 0 .. now /\ Start(LastWindow) \in Nat
        BY ClockAssumption DEF IInv, TypeOK, Start
    <2>2. CASE AdvanceClock BY <2>1, <2>2 DEF AdvanceClock
    <2>3. CASE BeginTick BY <2>1, <2>3 DEF BeginTick
    <2>4. CASE UNCHANGED <<now, tickNow>> BY <2>1, <2>4
    <2>5. [Next]_vars => AdvanceClock \/ BeginTick \/ UNCHANGED <<now, tickNow>>
        BY DEF Next, vars, Operator, StartEngine, StopEngine, CancelAll, UpdateConfig,
               Ticker, PollFails, PollOk, FinishTick, Stream, OnBookUpdate, OnWsTrade, OnSpotTick
    <2> QED BY <2>2, <2>3, <2>4, <2>5
<1> QED BY <1>1, <1>2, <1>3 DEF IInv, TypeOK, RoundOK

\* The engine's state keeps its types, for every book, configuration and clock.
THEOREM RoundTyped == Spec => []TypeOK
<1>1. IInv => TypeOK BY DEF IInv
<1> QED BY <1>1, InitInv, StepInv, PTL DEF Spec

\* The flags the engine decides with are its true position: no reset, rollover,
\* stop or panic button forgets a leg that is held or claims one that is gone.
THEOREM PositionAlwaysKnown == Spec => []PositionKnown
<1>1. IInv => PositionKnown BY DEF IInv, RoundOK, HeldOK, PositionKnown
<1> QED BY <1>1, InitInv, StepInv, PTL DEF Spec

\* Issue #87: a leg that is filled alone has its stop staged at its own entry
\* less the threshold, whichever thread saw the fill.
THEOREM StopAlwaysArmed == Spec => []StopArmed
<1>1. IInv => StopArmed BY DEF IInv, RoundOK, ArmedOK, StopArmed
<1> QED BY <1>1, InitInv, StepInv, PTL DEF Spec

\* An exit is pending only for a leg that is filled alone and still held.
THEOREM PendingAlwaysNaked == Spec => []PendingIsNaked
<1>1. IInv => PendingIsNaked BY DEF IInv, RoundOK, PendingOK, PendingIsNaked
<1> QED BY <1>1, InitInv, StepInv, PTL DEF Spec

-----------------------------------------------------------------------------
(***************************************************************************)
(* What PaperRound quotes, for every book, configuration and clock: which  *)
(* prices move, when orders are put on the book, and what a pair costs.    *)
(*                                                                         *)
(* PricesOK is the inductive invariant of a market's prices: each leg is   *)
(* quoted within its bound, which is the highest quote the chase did not   *)
(* give it or, beside a filled leg, what the cap leaves for it.  A tick is *)
(* a chain of phases.  Most leave the prices alone (Quiet); within a round *)
(* the others only fill a leg or chase beside a filled one (Goes).         *)
(***************************************************************************)


\* Price p of leg l is one the engine may pay for it.
Within(k, l, p) ==
    \/ p <= k.unchased[l] + 50
    \/ k.filled[Opp(l)] /\ p + k.fillPrice[Opp(l)] <= MaxPairCost

PricesOK(k) ==
    /\ \A l \in Legs : k.resting[l] >= 0
    /\ \A l, q \in Legs : k.resting[l] = NoPrice => k.resting[q] = NoPrice
    /\ AnyFilled(k) => \A l \in Legs : k.resting[l] # NoPrice
    /\ k.anchored # NoPrice => \A l \in Legs : k.resting[l] # NoPrice
    /\ \A l \in Legs : k.original[l] <= k.unchased[l]
    /\ \A l \in Legs : k.original[l] = NoPrice => k.resting[l] <= k.unchased[l]
    /\ \A l \in Legs : Within(k, l, k.resting[l])
    /\ \A l \in Legs : k.filled[l] => Within(k, l, k.fillPrice[l])

\* Every quote has its original, from KeepOriginal to the end of the tick.
Kept(k) == \A l \in Legs : k.original[l] = NoPrice => k.resting[l] = NoPrice

\* The same at the end of a handler, when the configuration may have been applied.
AnchorKept(k) == k.anchored # NoPrice => \A l \in Legs : k.original[l] # NoPrice

\* No window is quoted before it opens while there is an entry delay.
DelayOK(k) == EntryDelay > 0 => ~k.nextQuoted

-----------------------------------------------------------------------------
(* What a phase leaves alone *)

Quiet(k, r) ==
    /\ r.cid = k.cid /\ r.anchored = k.anchored /\ r.repriced = k.repriced
    /\ r.filled = k.filled /\ r.fillPrice = k.fillPrice
    /\ r.resting = k.resting /\ r.original = k.original /\ r.unchased = k.unchased
    /\ r.nextQuoted = k.nextQuoted

\* No order is put on the book.
Rested(k, r) == \A l \in Legs : r.ordStatus[l] = "RESTING" => k.ordStatus[l] = "RESTING"

Still(k, r) == Quiet(k, r) /\ Rested(k, r)

\* Within a round entry prices stay, and only the chase moves a quote, upwards.
Climbs(k, r) ==
    /\ r.cid = k.cid /\ r.anchored = k.anchored /\ r.repriced = k.repriced
    /\ r.original = k.original /\ r.unchased = k.unchased /\ r.nextQuoted = k.nextQuoted
    /\ \A l \in Legs : k.filled[l] => r.filled[l] /\ r.fillPrice[l] = k.fillPrice[l]
    /\ \A l \in Legs : \/ r.resting[l] = k.resting[l]
                       \/ r.resting[l] > k.resting[l] /\ r.filled[Opp(l)]

\* What fills and the chase do.
Goes(k, r) == Climbs(k, r) /\ Rested(k, r) /\ r.pair = k.pair /\ r.exit = k.exit

LEMMA StillSelf == ASSUME NEW k PROVE Still(k, k)
BY DEF Still, Quiet, Rested

LEMMA StillTransitive ==
    ASSUME NEW k, NEW q, NEW r, Still(k, q), Still(q, r)
    PROVE  Still(k, r)
BY DEF Still, Quiet, Rested

LEMMA RestedTransitive ==
    ASSUME NEW k, NEW q, NEW r, Rested(k, q), Rested(q, r)
    PROVE  Rested(k, r)
BY DEF Rested

LEMMA QuietClimbs == ASSUME NEW k, NEW r, Quiet(k, r) PROVE Climbs(k, r)
BY DEF Quiet, Climbs

LEMMA ClimbsTransitive ==
    ASSUME NEW k \in Market, NEW q \in Market, NEW r \in Market, Climbs(k, q), Climbs(q, r)
    PROVE  Climbs(k, r)
<1>1. \A l \in Legs : /\ k.resting[l] \in Int /\ q.resting[l] \in Int /\ r.resting[l] \in Int
                      /\ Opp(l) \in Legs
    BY OppLeg DEF Market
<1>2. \A l \in Legs : \/ r.resting[l] = k.resting[l]
                      \/ r.resting[l] > k.resting[l] /\ r.filled[Opp(l)]
    BY <1>1 DEF Climbs
<1> QED BY <1>2 DEF Climbs

LEMMA GoesSelf == ASSUME NEW k PROVE Goes(k, k)
BY DEF Goes, Climbs, Rested

LEMMA GoesTransitive ==
    ASSUME NEW k \in Market, NEW q \in Market, NEW r \in Market, Goes(k, q), Goes(q, r)
    PROVE  Goes(k, r)
BY ClimbsTransitive, RestedTransitive DEF Goes

LEMMA StillPrices ==
    ASSUME NEW k, NEW r, Still(k, r)
    PROVE  /\ PricesOK(k) => PricesOK(r)
           /\ Kept(k) => Kept(r)
           /\ AnchorKept(k) => AnchorKept(r)
           /\ DelayOK(k) => DelayOK(r)
BY DEF Still, Quiet, PricesOK, Kept, AnchorKept, DelayOK, Within, AnyFilled

-----------------------------------------------------------------------------
(* The phases that are still *)

LEMMA IdleStill == ASSUME NEW k \in Market PROVE Still(k, Idle(k))
BY StillSelf DEF Idle, Market, Still, Quiet, Rested

LEMMA ClearStopStill == ASSUME NEW k \in Market PROVE Still(k, ClearStop(k))
BY DEF ClearStop, Market, Still, Quiet, Rested

LEMMA StageStopStill == ASSUME NEW k \in Market, NEW l PROVE Still(k, StageStop(k, l))
BY StillSelf DEF StageStop, Market, Still, Quiet, Rested

LEMMA CancelOppositeStill ==
    ASSUME NEW k \in Market, NEW l \in Legs
    PROVE  Still(k, CancelOpposite(k, l))
<1>1. Opp(l) \in Legs BY OppLeg
<1>2. Still(k, [k EXCEPT !.ordStatus[Opp(l)] = "CANCELLED"])
    BY <1>1 DEF Market, Still, Quiet, Rested
<1> QED BY <1>2, StillSelf DEF CancelOpposite

LEMMA StopExitStill ==
    ASSUME NEW k \in Market, NEW l \in Legs
    PROVE  Still(k, StopExit(k, l))
<1> DEFINE h == Less(k.held[l])
           r == [k EXCEPT !.ordStatus[Opp(l)] = "CANCELLED", !.ordId[Opp(l)] = FALSE,
                          !.exit = TRUE, !.status = "STOP_EXIT", !.held[l] = h]
<1>1. Opp(l) \in Legs BY OppLeg
<1>2. StopExit(k, l) = r BY DEF StopExit
<1> HIDE DEF h
<1>3. Still(k, r) BY <1>1 DEF Market, Still, Quiet, Rested
<1> QED BY <1>2, <1>3

LEMMA CompletePairStill == ASSUME NEW k \in Market PROVE Still(k, CompletePair(k))
<1> DEFINE c == ClearStop(k)
           h == [l \in Legs |-> Less(c.held[l])]
           r == [c EXCEPT !.pair = TRUE, !.status = "PAIR_MERGED", !.nakedSince = NoTime, !.held = h]
<1>1. Still(k, c) BY ClearStopStill
<1>2. c \in Market /\ c.held = k.held BY ClearStopFacts DEF Stages
<1>3. CompletePair(k) = c \/ CompletePair(k) = r BY <1>2 DEF CompletePair
<1> HIDE DEF c, h
<1>4. Still(c, r) BY <1>2 DEF Market, Still, Quiet, Rested
<1> HIDE DEF r
<1> QED BY <1>1, <1>3, <1>4, StillTransitive

LEMMA RetryStill == ASSUME NEW k \in Market, NEW latched PROVE Still(k, RetryPending(k, latched))
BY StopExitStill, StillSelf DEF RetryPending, PendingLeg, Legs

LEMMA ClearedExitStill ==
    ASSUME NEW k \in Market, NEW l \in Legs
    PROVE  Still(k, StopExit(ClearStop(k), l))
<1>1. Still(k, ClearStop(k)) /\ ClearStop(k) \in Market
    BY ClearStopStill, ClearStopFacts DEF Stages
<1>2. Still(ClearStop(k), StopExit(ClearStop(k), l)) BY <1>1, StopExitStill
<1> QED BY <1>1, <1>2, StillTransitive

LEMMA StopTriggerStill == ASSUME NEW k \in Market PROVE Still(k, StopTrigger(k))
BY ClearedExitStill, StillSelf DEF StopTrigger, Legs

LEMMA CloseStill ==
    ASSUME NEW k \in Market, NEW l \in Legs, NEW latched
    PROVE  Still(k, CloseAtDeadZone(k, l, latched))
<1> DEFINE c == CancelOpposite(k, l)
<1>1. Still(k, c) /\ c \in Market BY CancelOppositeStill, CancelOppositeSame DEF Same
<1> HIDE DEF c
<1>2. Still(c, StopTrigger(c)) /\ Still(c, StopExit(ClearStop(c), l)) /\ Still(c, c)
    BY <1>1, StopTriggerStill, ClearedExitStill, StillSelf
<1>3. \/ CloseAtDeadZone(k, l, latched) = StopTrigger(c)
      \/ CloseAtDeadZone(k, l, latched) = StopExit(ClearStop(c), l)
      \/ CloseAtDeadZone(k, l, latched) = c
    BY DEF CloseAtDeadZone, c
<1> QED BY <1>1, <1>2, <1>3, StillTransitive

LEMMA ExitsStill ==
    ASSUME NEW k \in Market, NEW dz, NEW latched
    PROVE  Still(k, Exits(k, dz, latched))
BY RetryStill, CloseStill, StopTriggerStill DEF Exits, Legs

LEMMA TrackDriftStill == ASSUME NEW k \in Market PROVE Still(k, TrackDrift(k))
<1>1. PICK b, v : TrackDrift(k) = [k EXCEPT !.breached = b, !.reversal = v]
    BY Zenon DEF TrackDrift
<1>2. Still(k, [k EXCEPT !.breached = b, !.reversal = v])
    BY DEF Market, Still, Quiet, Rested
<1> QED BY <1>1, <1>2

LEMMA GatesStill ==
    ASSUME NEW k \in Market, NEW dz, NEW t
    PROVE  /\ Still(k, LateStart(k, dz)) /\ Still(k, LateSkip(k))
           /\ Still(k, HoldForBook(k, t, dz))
<1>1. Still(k, [k EXCEPT !.seen = TRUE]) /\ Still(k, [k EXCEPT !.seen = TRUE, !.lateSkip = dz])
    BY DEF Market, Still, Quiet, Rested
<1>2. \A s : Still(k, [k EXCEPT !.entryCancelled = TRUE, !.status = s]) /\ Still(k, [k EXCEPT !.status = s])
    BY DEF Market, Still, Quiet, Rested
<1> QED BY <1>1, <1>2, StillSelf DEF LateStart, LateSkip, HoldForBook

LEMMA CancelInDeadZoneStill ==
    ASSUME NEW k \in Market, NEW dz
    PROVE  Still(k, CancelInDeadZone(k, dz))
<1>1. \A s : Still(k, [k EXCEPT !.ordStatus = BothLegs("CANCELLED"), !.entryCancelled = TRUE, !.status = s])
    BY FlatFunctions DEF Market, Still, Quiet, Rested
<1> QED BY <1>1, StillSelf DEF CancelInDeadZone

\* Orders are placed at the prices that stand.
LEMMA PlaceOrdersQuiet == ASSUME NEW k \in Market PROVE Quiet(k, PlaceOrders(k))
<1>1. PICK i, o, s : PlaceOrders(k) = [k EXCEPT !.ordId = i, !.ordStatus = o, !.status = s]
    BY Zenon DEF PlaceOrders
<1>2. Quiet(k, [k EXCEPT !.ordId = i, !.ordStatus = o, !.status = s])
    BY DEF Market, Quiet
<1> QED BY <1>1, <1>2

-----------------------------------------------------------------------------
(* The phases that quote, fill or chase *)

\* The prices of a market and everything that is to be known about them.
Priced(k) == k \in Market /\ PricesOK(k) /\ Kept(k)

LEMMA StillPriced ==
    ASSUME NEW k, NEW r \in Market, Priced(k), Still(k, r)
    PROVE  Priced(r)
BY StillPrices DEF Priced

\* A leg is filled at the price it is quoted at.
LEMMA FillPrices ==
    ASSUME NEW k, NEW l \in Legs, NEW t \in Int, FillOK(k), k \in Market, PricesOK(k),
           ~k.filled[l], k.resting[l] # NoPrice
    PROVE  LET r == FillLeg(k, l, t) IN r \in Market /\ PricesOK(r) /\ Goes(k, r)
<1> DEFINE first == ~k.filled[Opp(l)]
           s == IF l = "UP" THEN "FILLED_UP" ELSE IF first THEN "FILLED_DOWN" ELSE "PAIR_MERGED"
           n == IF first /\ k.nakedSince = NoTime THEN t ELSE k.nakedSince
           h == k.held[l] + 1
           f == [k EXCEPT !.filled[l] = TRUE, !.fillPrice[l] = k.resting[l],
                          !.ordStatus[l] = "FILLED", !.status = s, !.nakedSince = n, !.held[l] = h]
           r == FillLeg(k, l, t)
<1>0. k \in Market OBVIOUS
<1>1. r = IF l = "UP" \/ first THEN StageStop(f, l) ELSE f BY DEF FillLeg
<1>2. r \in Market BY OpenFillKeeps DEF FillOK, RoundOK, MergeDue
<1>3. f \in Market
    <2>1. s \in Statuses /\ n \in Int /\ h \in Nat /\ k.resting[l] \in Int /\ "FILLED" \in OrderStatuses
        BY <1>0 DEF Statuses, Market, OrderStatuses
    <2> HIDE DEF s, n, h
    <2>2. Fills(k, f, l, k.resting[l], s, h) BY <1>0, <2>1, SetFill, Zenon
    <2> QED BY <2>2 DEF Fills
<1>4. /\ f.cid = k.cid /\ f.anchored = k.anchored /\ f.repriced = k.repriced
      /\ f.filled = [k.filled EXCEPT ![l] = TRUE]
      /\ f.fillPrice = [k.fillPrice EXCEPT ![l] = k.resting[l]]
      /\ f.resting = k.resting /\ f.original = k.original /\ f.unchased = k.unchased
      /\ f.nextQuoted = k.nextQuoted /\ Rested(k, f) /\ f.pair = k.pair /\ f.exit = k.exit
    <2> HIDE DEF s, n, h
    <2> QED BY <1>0 DEF Market, Rested
<1> HIDE DEF f
<1>5. /\ k.filled \in [Legs -> BOOLEAN] /\ k.fillPrice \in [Legs -> Int] /\ Opp(l) \in Legs
      /\ \A q \in Legs : Opp(q) \in Legs /\ Opp(q) # q
    BY <1>0, OppLeg DEF Market
<1>6. Goes(k, f) BY <1>4, <1>5 DEF Goes, Climbs
<1>7. PricesOK(f)
    <2>1. \A q \in Legs : \A p : Within(k, q, p) => Within(f, q, p)
        BY <1>4, <1>5 DEF Within
    <2>2. \A q \in Legs : k.resting[q] # NoPrice BY DEF PricesOK
    <2>3. \A q \in Legs : f.filled[q] => Within(k, q, f.fillPrice[q])
        BY <1>4, <1>5 DEF PricesOK
    <2> QED BY <1>4, <2>1, <2>2, <2>3 DEF PricesOK
<1>8. Still(f, StageStop(f, l)) /\ Goes(f, StageStop(f, l))
    BY <1>3, StageStopStill, StageStopFacts, QuietClimbs DEF Still, Goes, Stages
<1>9. Goes(k, r) /\ PricesOK(r)
    <2>1. CASE r = f BY <2>1, <1>6, <1>7
    <2>2. CASE r = StageStop(f, l)
        BY <2>2, <1>0, <1>2, <1>3, <1>6, <1>7, <1>8, StillPrices, GoesTransitive
    <2> QED BY <1>1, <2>1, <2>2
<1> QED BY <1>2, <1>9

LEMMA FillGoes ==
    ASSUME NEW k, NEW l \in Legs, NEW t \in Int, FillOK(k), Priced(k),
           ~k.filled[l], k.resting[l] # NoPrice
    PROVE  LET r == FillLeg(k, l, t) IN Priced(r) /\ Goes(k, r)
<1> DEFINE r == FillLeg(k, l, t)
<1>1. r \in Market /\ PricesOK(r) /\ Goes(k, r) BY FillPrices DEF Priced
<1> HIDE DEF r
<1>2. \A q \in Legs : k.resting[q] # NoPrice BY DEF Priced, PricesOK
<1>3. Kept(r) BY <1>1, <1>2 DEF Priced, Kept, Goes, Climbs
<1> QED BY <1>1, <1>3 DEF Priced, r

\* A part of a step towards a price is no more than the step.
LEMMA PartOfStep ==
    ASSUME NEW num \in Int, NEW den \in Int, NEW step \in Int, 0 <= num, num < den, 0 < step
    PROVE  (num * step) \div den <= step /\ (num * step) \div den \in Int
<1> DEFINE x == num * step
           d == x \div den
<1>1. x \in Int /\ x <= den * step
    <2>1. (den - num) * step >= 0 OBVIOUS
    <2>2. (den - num) * step = den * step - num * step OBVIOUS
    <2>3. den * step \in Int OBVIOUS
    <2> QED BY <2>1, <2>2, <2>3
<1> HIDE DEF x
<1>2. d \in Int /\ den * d <= x BY <1>1
<1> HIDE DEF d
<1>3. den * d <= den * step /\ den > 0 BY <1>1, <1>2
<1>4. d <= step BY <1>2, <1>3
<1> QED BY <1>2, <1>4 DEF d, x

\* The ceiling of the chase is the quote the leg started from, rounded, or within the cap.
LEMMA CeilingBounded ==
    ASSUME NEW original \in Int, NEW affordable \in Int, affordable % 100 = 0,
           NEW num \in Int, NEW den \in Int, 0 <= num, 0 < den
    PROVE  LET c == ChaseCeiling(original, affordable, num, den)
           IN c <= original + 50 \/ c <= affordable
<1> DEFINE c == ChaseCeiling(original, affordable, num, den)
<1>1. CASE affordable <= original \/ num = 0
    BY <1>1 DEF ChaseCeiling, RoundCents
<1>2. CASE ~(affordable <= original \/ num = 0) /\ num >= den
    <2>1. c = RoundCents(affordable) BY <1>2 DEF ChaseCeiling
    <2>2. RoundCents(affordable) = affordable BY DEF RoundCents
    <2> QED BY <2>1, <2>2
<1>3. CASE ~(affordable <= original \/ num = 0) /\ num < den
    <2> DEFINE d == (num * (affordable - original)) \div den
    <2>1. affordable - original \in Int /\ 0 < affordable - original BY <1>3
    <2>2. d <= affordable - original /\ d \in Int BY <1>3, <2>1, PartOfStep
    <2>3. c = FloorCents(original + d) BY <1>3 DEF ChaseCeiling
    <2> HIDE DEF d
    <2>4. FloorCents(original + d) <= original + d BY <2>2 DEF FloorCents
    <2>5. FloorCents(original + d) \in Int BY <2>2 DEF FloorCents
    <2>6. c <= affordable BY <2>2, <2>3, <2>4, <2>5
    <2> QED BY <2>6
<1> QED BY <1>1, <1>2, <1>3

\* The target of the chase is within the bound of the leg it is for.
LEMMA TargetWithin ==
    ASSUME NEW k, NEW l \in Legs, NEW t \in Int, Priced(k), k.filled[l]
    PROVE  Within(k, Opp(l), ChaseTarget(k, l, t)) /\ ChaseTarget(k, l, t) \in Int
<1> DEFINE dzStart == DeadZoneStart(Start(k.cid), End(k.cid), DeadZone)
           nakedAt == IF k.nakedSince = NoTime THEN t ELSE k.nakedSince
           num == ProgressNum(t, nakedAt, dzStart)
           den == ProgressDen(nakedAt, dzStart)
           cap == ChaseCap(MaxPairCost, k.fillPrice[l])
           orig == k.original[Opp(l)]
           ceiling == ChaseCeiling(orig, cap, num, den)
<1>0. k \in Market BY DEF Priced
<1>1. dzStart \in Int
    <2>1. Start(k.cid) \in Int /\ End(k.cid) \in Int BY <1>0, ClockAssumption DEF Start, End, Market
    <2>2. DeadZone \in Int BY ClockAssumption
    <2> QED BY <2>1, <2>2 DEF DeadZoneStart, CutoffSeconds, MinOf
<1>2. nakedAt \in Int BY <1>0 DEF Market
<1>3. ChaseTarget(k, l, t) = MinOf(k.book[Opp(l)].ask, ceiling) BY DEF ChaseTarget
<1> HIDE DEF dzStart, nakedAt
<1>4. num \in Int /\ den \in Int /\ 0 <= num /\ 0 < den
    BY <1>1, <1>2 DEF ProgressNum, ProgressDen, MinOf, MaxOf
<1>5. /\ Opp(l) \in Legs /\ Opp(Opp(l)) = l /\ k.fillPrice[l] \in Int
      /\ orig \in Int /\ k.book[Opp(l)].ask \in Int /\ k.unchased[Opp(l)] \in Int
    BY <1>0, OppLeg DEF Market, Quotes, Opp, Legs
<1>6. cap \in Int /\ cap % 100 = 0 /\ cap + k.fillPrice[l] <= MaxPairCost
    <2>1. MaxPairCost - k.fillPrice[l] \in Int BY <1>5, Params
    <2>2. \A x \in Int : FloorCents(x) \in Int /\ FloorCents(x) % 100 = 0 /\ FloorCents(x) <= x
        BY DEF FloorCents
    <2>3. MaxPairCost \in Int BY Params
    <2> QED BY <2>1, <2>2, <2>3, <1>5 DEF ChaseCap
<1> HIDE DEF num, den, cap, orig
<1>7. ceiling \in Int
    <2>1. num * (cap - orig) \in Int BY <1>4, <1>5, <1>6
    <2>2. (num * (cap - orig)) \div den \in Int BY <1>4, <2>1
    <2>3. orig + (num * (cap - orig)) \div den \in Int BY <1>5, <2>2
    <2> QED BY <2>3, <1>5, <1>6, Rounded DEF ChaseCeiling
<1>8. ceiling <= orig + 50 \/ ceiling <= cap BY <1>4, <1>5, <1>6, CeilingBounded
<1> HIDE DEF ceiling
<1>9. ChaseTarget(k, l, t) \in Int /\ ChaseTarget(k, l, t) <= ceiling BY <1>3, <1>5, <1>7 DEF MinOf
<1>10. orig <= k.unchased[Opp(l)] BY <1>5 DEF Priced, PricesOK, orig
<1>11. MaxPairCost \in Int BY Params
<1> QED BY <1>5, <1>6, <1>7, <1>8, <1>9, <1>10, <1>11 DEF Within

LEMMA ChaseFromGoes ==
    ASSUME NEW k, NEW l \in Legs, NEW t \in Int, Priced(k)
    PROVE  Priced(ChaseFrom(k, l, t)) /\ Goes(k, ChaseFrom(k, l, t))
<1> DEFINE target == ChaseTarget(k, l, t)
           r == [k EXCEPT !.resting[Opp(l)] = target]
<1>0. k \in Market BY DEF Priced
<1>1. CASE ~Chases(k, l, t)
    BY <1>1, GoesSelf DEF ChaseFrom
<1>2. CASE Chases(k, l, t)
    <2>1. ChaseFrom(k, l, t) = r BY <1>2 DEF ChaseFrom
    <2>2. /\ k.filled[l] /\ target > k.resting[Opp(l)]
        BY <1>2 DEF Chases, NakedLeg
    <2>3. target \in Int /\ Within(k, Opp(l), target) BY <2>2, TargetWithin
    <2> HIDE DEF target
    <2>4. Opp(l) \in Legs /\ Opp(Opp(l)) = l BY DEF Opp, Legs
    <2>5. r \in Market BY <1>0, <2>3, <2>4, SetQuote DEF Same
    <2>6. /\ r.cid = k.cid /\ r.anchored = k.anchored /\ r.repriced = k.repriced
          /\ r.filled = k.filled /\ r.fillPrice = k.fillPrice
          /\ r.resting = [k.resting EXCEPT ![Opp(l)] = target]
          /\ r.original = k.original /\ r.unchased = k.unchased
          /\ r.nextQuoted = k.nextQuoted /\ Rested(k, r) /\ r.pair = k.pair /\ r.exit = k.exit
        BY <1>0, <2>4 DEF Market, Rested
    <2> HIDE DEF r
    <2>7. k.resting \in [Legs -> Int] BY <1>0 DEF Market
    <2>8. Goes(k, r) BY <2>2, <2>4, <2>6, <2>7 DEF Goes, Climbs
    \* A leg is filled, so that both are quoted and have their originals.
    <2>9. \A q \in Legs : k.resting[q] # NoPrice /\ k.resting[q] >= 0 /\ k.original[q] # NoPrice
        BY <2>2 DEF Priced, PricesOK, Kept, AnyFilled
    <2>10. \A q \in Legs : r.resting[q] > 0
        BY <2>2, <2>3, <2>4, <2>6, <2>7, <2>9 DEF NoPrice
    <2>11. \A q \in Legs : \A p : Within(k, q, p) => Within(r, q, p) BY <2>6 DEF Within
    <2>12. \A q \in Legs : Within(k, q, r.resting[q]) BY <2>3, <2>6, <2>7 DEF Priced, PricesOK
    <2>13. PricesOK(r)
        <3>1. \A q \in Legs : r.resting[q] >= 0 /\ r.resting[q] # NoPrice
            BY <2>5, <2>10 DEF NoPrice, Market
        <3> QED BY <2>6, <2>9, <2>11, <2>12, <3>1 DEF Priced, PricesOK
    <2>14. Kept(r) BY <2>6, <2>9 DEF Kept
    <2> QED BY <2>1, <2>5, <2>8, <2>13, <2>14 DEF Priced
<1> QED BY <1>1, <1>2

LEMMA ChaseGoes ==
    ASSUME NEW k, NEW t \in Int, Priced(k)
    PROVE  Priced(Chase(k, t)) /\ Goes(k, Chase(k, t))
BY ChaseFromGoes, GoesSelf DEF Chase, Legs

LEMMA SimGoes ==
    ASSUME NEW k, NEW new, NEW can, NEW t \in Int, FillOK(k), Priced(k)
    PROVE  /\ Priced(SimUp(k, new, can, t)) /\ Goes(k, SimUp(k, new, can, t))
           /\ Priced(SimDown(k, new, can, t)) /\ Goes(k, SimDown(k, new, can, t))
<1>1. \A l \in Legs : Takes(k, l, new) => k.resting[l] # NoPrice BY DEF Takes, AskFills
<1>2. "UP" \in Legs /\ "DOWN" \in Legs BY DEF Legs
<1>3. Priced(SimUp(k, new, can, t)) /\ Goes(k, SimUp(k, new, can, t))
    BY <1>1, <1>2, FillGoes, GoesSelf DEF SimUp
<1>4. Priced(SimDown(k, new, can, t)) /\ Goes(k, SimDown(k, new, can, t))
    BY <1>1, <1>2, FillGoes, GoesSelf DEF SimDown
<1> QED BY <1>3, <1>4

LEMMA ChaseAfterFillGoes ==
    ASSUME NEW before, NEW k, NEW l \in Legs, NEW t \in Int, Priced(k)
    PROVE  LET r == ChaseAfterFill(before, k, l, t) IN Priced(r) /\ Goes(k, r)
BY ChaseFromGoes, GoesSelf DEF ChaseAfterFill

LEMMA DetectFillsGoes ==
    ASSUME NEW k, NEW new, NEW can, NEW t \in Int, RoundOK(k), Priced(k)
    PROVE  LET r == DetectFills(k, new, can, t) IN Priced(r) /\ Goes(k, r)
<1> DEFINE up == SimUp(k, new, can, t)
           afterUp == ChaseAfterFill(k, up, "UP", t)
           newUp == new \cup RaisedLegs(k, afterUp)
           down == SimDown(afterUp, newUp, can, t)
           afterDown == ChaseAfterFill(afterUp, down, "DOWN", t)
           newDown == newUp \cup RaisedLegs(afterUp, afterDown)
           again == SimUpAgain(afterUp, afterDown, newDown, can, t)
<1>0. "UP" \in Legs /\ "DOWN" \in Legs BY DEF Legs
<1>1. DetectFills(k, new, can, t) = IF k.status = "STOP_EXIT_PENDING" THEN k ELSE again
    BY DEF DetectFills
<1>2. FillOK(k) BY DEF FillOK
<1>3. FillOK(up) /\ Priced(up) /\ Goes(k, up) BY <1>2, SimKeeps, SimGoes
<1> HIDE DEF up
<1>4. FillOK(afterUp) /\ Priced(afterUp) /\ Goes(up, afterUp)
    BY <1>0, <1>3, ChaseAfterFillKeeps, ChaseAfterFillGoes
<1> HIDE DEF afterUp, newUp
<1>5. FillOK(down) /\ Priced(down) /\ Goes(afterUp, down) BY <1>4, SimKeeps, SimGoes
<1> HIDE DEF down
<1>6. FillOK(afterDown) /\ Priced(afterDown) /\ Goes(down, afterDown)
    BY <1>0, <1>5, ChaseAfterFillKeeps, ChaseAfterFillGoes
<1> HIDE DEF afterDown, newDown
<1>7. Priced(again) /\ Goes(afterDown, again)
    BY <1>6, SimGoes, GoesSelf DEF SimUpAgain
<1> HIDE DEF again
<1>8. Goes(k, again)
    <2>1. Goes(k, afterUp) BY <1>3, <1>4, GoesTransitive DEF Priced
    <2>2. Goes(k, down) BY <2>1, <1>4, <1>5, GoesTransitive DEF Priced
    <2>3. Goes(k, afterDown) BY <2>2, <1>5, <1>6, GoesTransitive DEF Priced
    <2> QED BY <2>3, <1>6, <1>7, GoesTransitive DEF Priced
<1> QED BY <1>1, <1>7, <1>8, GoesSelf

\* Quotes that are not the chase's need no bound but themselves.
LEMMA QuoteAtFacts ==
    ASSUME NEW k \in Market, NEW prices \in [Legs -> Int]
    PROVE  LET r == QuoteAt(k, prices)
           IN /\ r \in Market
              /\ r.cid = k.cid /\ r.anchored = k.anchored /\ r.repriced = k.repriced
              /\ r.filled = k.filled /\ r.fillPrice = k.fillPrice /\ r.original = k.original
              /\ r.nextQuoted = k.nextQuoted /\ Rested(k, r) /\ r.resting = prices
              /\ \A l \in Legs : r.unchased[l] >= k.unchased[l] /\ r.unchased[l] >= prices[l]
<1> DEFINE u == [l \in Legs |-> MaxOf(k.unchased[l], prices[l])]
           r == [k EXCEPT !.resting = prices, !.unchased = u]
<1>1. QuoteAt(k, prices) = r BY DEF QuoteAt
<1>2. k.unchased \in [Legs -> Int] BY DEF Market
<1>3. \A l \in Legs : u[l] >= k.unchased[l] /\ u[l] >= prices[l] BY <1>2 DEF MaxOf
<1>4. r \in Market BY <1>1, QuoteAtSame DEF Same
<1> HIDE DEF u
<1>5. /\ r.cid = k.cid /\ r.anchored = k.anchored /\ r.repriced = k.repriced
      /\ r.filled = k.filled /\ r.fillPrice = k.fillPrice /\ r.original = k.original
      /\ r.nextQuoted = k.nextQuoted /\ Rested(k, r) /\ r.resting = prices /\ r.unchased = u
    BY DEF Market, Rested
<1> QED BY <1>1, <1>3, <1>4, <1>5

LEMMA QuoteAtPrices ==
    ASSUME NEW k \in Market, NEW prices \in [Legs -> Int], PricesOK(k),
           \/ \A l \in Legs : prices[l] > 0
           \/ (\A l \in Legs : prices[l] = NoPrice) /\ ~AnyFilled(k) /\ k.anchored = NoPrice
    PROVE  PricesOK(QuoteAt(k, prices))
<1> DEFINE r == QuoteAt(k, prices)
<1>1. /\ r \in Market /\ r.anchored = k.anchored
      /\ r.filled = k.filled /\ r.fillPrice = k.fillPrice /\ r.original = k.original
      /\ r.resting = prices
      /\ \A l \in Legs : r.unchased[l] >= k.unchased[l] /\ r.unchased[l] >= prices[l]
    BY QuoteAtFacts
<1> HIDE DEF r
<1>2. \A l \in Legs : /\ k.unchased[l] \in Int /\ r.unchased[l] \in Int /\ k.original[l] \in Int
                      /\ k.fillPrice[l] \in Int /\ prices[l] \in Int
    BY <1>1 DEF Market
<1>3. \A l \in Legs : Within(r, l, prices[l]) BY <1>1, <1>2 DEF Within
<1>4. \A l \in Legs : k.filled[l] => Within(r, l, k.fillPrice[l])
    BY <1>1, <1>2 DEF PricesOK, Within
<1>5. \A l \in Legs : k.original[l] <= r.unchased[l] BY <1>1, <1>2 DEF PricesOK
<1>6. \A l \in Legs : prices[l] >= 0 BY DEF NoPrice
<1>7. \A l, q \in Legs : prices[l] = NoPrice => prices[q] = NoPrice BY <1>2 DEF NoPrice
<1>8. AnyFilled(k) \/ k.anchored # NoPrice => \A l \in Legs : prices[l] # NoPrice
    BY <1>2 DEF NoPrice
<1>9. PricesOK(r)
    BY <1>1, <1>3, <1>4, <1>5, <1>6, <1>7, <1>8 DEF PricesOK, AnyFilled
<1> QED BY <1>9 DEF r

LEMMA AnchorPrices ==
    ASSUME NEW k \in Market, NEW dz, offset \in Int, PricesOK(k)
    PROVE  LET r == Anchor(k, dz)
           IN /\ PricesOK(r) /\ r.cid = k.cid /\ r.repriced = k.repriced
              /\ r.nextQuoted = k.nextQuoted /\ Rested(k, r)
              /\ k.anchored # NoPrice => r = k
<1> DEFINE quotes == [l \in Legs |-> OpeningQuote(k, l)]
           q == QuoteAt(k, quotes)
           r == [q EXCEPT !.anchored = Mid(k)]
<1>1. \A l \in Legs : OpeningQuote(k, l) \in Int /\ OpeningQuote(k, l) > 0
    <2>1. \A x \in Int : RoundMills(ClampQuote(x)) \in Int /\ RoundMills(ClampQuote(x)) > 0
        BY DEF RoundMills, ClampQuote, MinOf, MaxOf
    <2>2. \A l \in Legs : LegMid(k, l) - offset \in Int BY MidInt
    <2> QED BY <2>1, <2>2 DEF OpeningQuote
<1>2. quotes \in [Legs -> Int] /\ \A l \in Legs : quotes[l] > 0 BY <1>1
<1>3. PricesOK(q) BY <1>2, QuoteAtPrices
<1>4. /\ q \in Market /\ q.cid = k.cid /\ q.repriced = k.repriced
      /\ q.nextQuoted = k.nextQuoted /\ Rested(k, q) /\ q.resting = quotes
    BY <1>2, QuoteAtFacts
<1>5. \/ Anchor(k, dz) = k
      \/ Anchor(k, dz) = r /\ k.anchored = NoPrice
    BY DEF Anchor
<1> HIDE DEF q, quotes
<1>6. /\ r.cid = q.cid /\ r.repriced = q.repriced /\ r.nextQuoted = q.nextQuoted
      /\ r.filled = q.filled /\ r.fillPrice = q.fillPrice /\ r.resting = q.resting
      /\ r.original = q.original /\ r.unchased = q.unchased /\ r.ordStatus = q.ordStatus
    BY <1>4 DEF Market
<1> HIDE DEF r
<1>7. \A l \in Legs : r.resting[l] # NoPrice BY <1>2, <1>4, <1>6 DEF NoPrice
<1>8. PricesOK(r) BY <1>3, <1>6, <1>7 DEF PricesOK, AnyFilled, Within
<1> QED BY <1>4, <1>5, <1>6, <1>8 DEF Rested

LEMMA KeepOriginalPrices ==
    ASSUME NEW k \in Market, PricesOK(k)
    PROVE  LET r == KeepOriginal(k)
           IN /\ Priced(r) /\ r.cid = k.cid /\ r.repriced = k.repriced
              /\ r.anchored = k.anchored /\ r.resting = k.resting
              /\ r.nextQuoted = k.nextQuoted /\ Rested(k, r)
<1> DEFINE o == [l \in Legs |-> IF k.original[l] = NoPrice THEN k.resting[l] ELSE k.original[l]]
           r == [k EXCEPT !.original = o]
<1>1. KeepOriginal(k) = r BY DEF KeepOriginal
<1>2. r \in Market BY <1>1, KeepOriginalSame DEF Same
<1>3. \A l \in Legs :
        /\ o[l] <= k.unchased[l]
        /\ o[l] = NoPrice => k.resting[l] = NoPrice /\ k.resting[l] <= k.unchased[l]
    <2>1. \A l \in Legs : k.original[l] \in Int /\ k.resting[l] \in Int /\ k.unchased[l] \in Int
        BY DEF Market
    <2>2. \A l \in Legs : /\ k.original[l] <= k.unchased[l]
                          /\ k.original[l] = 0 => k.resting[l] <= k.unchased[l]
        BY DEF PricesOK, NoPrice
    <2> QED BY <2>1, <2>2 DEF NoPrice
<1> HIDE DEF o
<1>4. /\ r.cid = k.cid /\ r.repriced = k.repriced /\ r.nextQuoted = k.nextQuoted
      /\ r.filled = k.filled /\ r.fillPrice = k.fillPrice /\ r.resting = k.resting
      /\ r.original = o /\ r.unchased = k.unchased /\ r.ordStatus = k.ordStatus
      /\ r.anchored = k.anchored
    BY DEF Market
<1> HIDE DEF r
<1>5. PricesOK(r) /\ Kept(r) BY <1>3, <1>4 DEF PricesOK, Kept, AnyFilled, Within
<1> QED BY <1>1, <1>2, <1>4, <1>5 DEF Priced, Rested

\* A round that is reset has no prices.
LEMMA ResetPrices ==
    ASSUME NEW k \in Market
    PROVE  LET r == ResetRound(k)
           IN /\ PricesOK(r) /\ ~AnyFilled(r) /\ r.cid = k.cid /\ r.nextQuoted = k.nextQuoted
              /\ r.anchored = NoPrice /\ Rested(k, r) /\ ~r.exit
              /\ \A l \in Legs : r.ordStatus[l] = "NONE"
<1> DEFINE f == BothLegs(FALSE)
           n == BothLegs(NoPrice)
           o == BothLegs("NONE")
           r == [k EXCEPT !.filled = f, !.fillPrice = n, !.ordId = f, !.ordStatus = o,
                          !.resting = n, !.original = n, !.unchased = n, !.anchored = NoPrice, !.pair = FALSE,
                          !.exit = FALSE, !.breached = f, !.reversal = f,
                          !.nakedSince = NoTime, !.stopSide = NoLeg, !.stopPrice = NoPrice,
                          !.repriced = FALSE]
<1>0. ResetRound(k) = r BY DEF ResetRound
<1> HIDE DEF f, n, o
<1>1. /\ r.cid = k.cid /\ r.nextQuoted = k.nextQuoted /\ r.anchored = NoPrice
      /\ r.filled = f /\ r.resting = n /\ ~r.exit
      /\ r.original = n /\ r.unchased = n /\ r.ordStatus = o
    BY DEF Market
<1> HIDE DEF r
<1>2. \A l \in Legs : /\ ~r.filled[l] /\ r.resting[l] = NoPrice /\ r.original[l] = NoPrice
                      /\ r.unchased[l] = NoPrice /\ r.ordStatus[l] = "NONE"
    BY <1>1, FlatFunctions DEF f, n, o
<1>3. ~AnyFilled(r) BY <1>2 DEF AnyFilled
<1>4. \A l \in Legs : Within(r, l, r.resting[l]) BY <1>2 DEF Within, NoPrice
<1>5. NoPrice >= 0 /\ NoPrice <= NoPrice BY DEF NoPrice
<1>6. PricesOK(r) BY <1>1, <1>2, <1>3, <1>4, <1>5 DEF PricesOK
<1> QED BY <1>0, <1>1, <1>2, <1>3, <1>6 DEF Rested

-----------------------------------------------------------------------------
(* The tick *)

\* A new window's pre-quote, before the tick has looked at the clock.
Waiting(k) ==
    /\ \A l \in Legs : ~k.filled[l] /\ k.ordId[l]
    /\ ~k.entryCancelled /\ ~k.lateSkip

LEMMA WaitingWaits ==
    ASSUME NEW k \in Market, NEW dz, NEW t, Waiting(k)
    PROVE  /\ Waiting(Anchor(k, dz)) /\ Waiting(KeepOriginal(k)) /\ Waiting(Chase(k, t))
           /\ Waiting(TrackDrift(k)) /\ Waiting(LateStart(k, dz)) /\ Waiting(LateSkip(k))
<1> DEFINE OfGate(r) == /\ r.filled = k.filled /\ r.ordId = k.ordId
                        /\ r.entryCancelled = k.entryCancelled /\ r.lateSkip = k.lateSkip
<1>0. \A r : OfGate(r) => Waiting(r) BY DEF Waiting
<1>1. OfGate(Anchor(k, dz))
    <2> DEFINE quotes == [l \in Legs |-> OpeningQuote(k, l)]
               u == [l \in Legs |-> MaxOf(k.unchased[l], quotes[l])]
               r == [[k EXCEPT !.resting = quotes, !.unchased = u] EXCEPT !.anchored = Mid(k)]
    <2>1. Anchor(k, dz) = k \/ Anchor(k, dz) = r BY DEF Anchor, QuoteAt
    <2> HIDE DEF quotes, u
    <2>2. OfGate(r) BY DEF Market
    <2> QED BY <2>1, <2>2
<1>2. OfGate(KeepOriginal(k))
    <2>1. PICK o : KeepOriginal(k) = [k EXCEPT !.original = o] BY Zenon DEF KeepOriginal
    <2>2. OfGate([k EXCEPT !.original = o]) BY DEF Market
    <2> QED BY <2>1, <2>2
<1>3. Chase(k, t) = k
    <2>1. \A l \in Legs : ~NakedLeg(k, l) BY DEF Waiting, NakedLeg
    <2>2. \A l \in Legs : ChaseFrom(k, l, t) = k BY <2>1 DEF ChaseFrom, Chases
    <2> QED BY <2>2 DEF Chase, Legs
<1>4. OfGate(TrackDrift(k))
    <2>1. PICK b, v : TrackDrift(k) = [k EXCEPT !.breached = b, !.reversal = v]
        BY Zenon DEF TrackDrift
    <2>2. OfGate([k EXCEPT !.breached = b, !.reversal = v]) BY DEF Market
    <2> QED BY <2>1, <2>2
<1>5. OfGate(LateStart(k, dz))
    <2>1. HasOrders(k) BY DEF Waiting, HasOrders, Legs
    <2>2. OfGate([k EXCEPT !.seen = TRUE]) BY DEF Market
    <2> QED BY <2>1, <2>2 DEF LateStart
<1>6. LateSkip(k) = k BY DEF LateSkip, Waiting
<1> HIDE DEF OfGate
<1> QED BY <1>0, <1>1, <1>2, <1>3, <1>4, <1>5, <1>6

\* In the dead zone a pre-quote that waited is cancelled.
LEMMA WaitingIsCancelled ==
    ASSUME NEW k \in Market, Waiting(k)
    PROVE  \A l \in Legs : CancelInDeadZone(k, TRUE).ordStatus[l] = "CANCELLED"
<1>1. ~AnyFilled(k) /\ ~k.entryCancelled BY DEF Waiting, AnyFilled
<1>2. PICK s : CancelInDeadZone(k, TRUE) =
                 [k EXCEPT !.ordStatus = BothLegs("CANCELLED"), !.entryCancelled = TRUE, !.status = s]
    BY <1>1, Zenon DEF CancelInDeadZone
<1>3. CancelInDeadZone(k, TRUE).ordStatus = BothLegs("CANCELLED") BY <1>2 DEF Market
<1> QED BY <1>3, FlatFunctions

\* Which window a market is in decides how late it is.
LEMMA SameTime ==
    ASSUME NEW k, NEW r, NEW t, r.cid = k.cid
    PROVE  Elapsed(r, t) = Elapsed(k, t) /\ DeadZoneAt(r, t) = DeadZoneAt(k, t)
BY DEF Elapsed, DeadZoneAt

LEMMA CompletePairExit == ASSUME NEW k \in Market PROVE CompletePair(k).exit = k.exit
<1> DEFINE c == ClearStop(k)
           h == [l \in Legs |-> Less(c.held[l])]
           r == [c EXCEPT !.pair = TRUE, !.status = "PAIR_MERGED", !.nakedSince = NoTime, !.held = h]
<1>1. c \in Market /\ c.exit = k.exit BY ClearStopFacts DEF Stages
<1>2. CompletePair(k) = c \/ CompletePair(k) = r
    BY ClearStopFacts DEF CompletePair, Stages
<1> HIDE DEF c, h
<1>3. r.exit = c.exit BY <1>1 DEF Market
<1> QED BY <1>1, <1>2, <1>3

\* What a tick of a running engine does to a round.
TradesWell(k, r, t) ==
    /\ PricesOK(r) /\ AnchorKept(r)
    /\ r.cid = k.cid /\ r.nextQuoted = k.nextQuoted
    /\ ~k.pair /\ ~k.exit =>
        /\ r.repriced = k.repriced
        /\ \A l \in Legs : k.filled[l] => r.filled[l] /\ r.fillPrice[l] = k.fillPrice[l]
        /\ k.anchored # NoPrice =>
            \A l \in Legs : \/ r.resting[l] = k.resting[l]
                            \/ r.resting[l] > k.resting[l] /\ r.filled[Opp(l)]
    /\ r.pair /\ r.exit => k.exit
    /\ DeadZoneAt(k, t) \/ DelayPending(r, t) => Rested(k, r)
    /\ DeadZoneAt(k, t) /\ Waiting(k) => \A l \in Legs : r.ordStatus[l] # "RESTING"

LEMMA TradeTrades ==
    ASSUME NEW k, NEW t \in Int, NEW latched, RoundOK(k), PricesOK(k), offset \in Int
    PROVE  TradesWell(k, Trade(k, t, latched), t)
<1> DEFINE dz == DeadZoneAt(k, t)
           fresh == FreshStart(k, dz)
           latch == Anchor(fresh, dz)
           anchored == KeepOriginal(latch)
           chased == Chase(anchored, t)
           drift == TrackDrift(chased)
           late == LateStart(drift, dz)
           skip == LateSkip(late)
           gated == CancelInDeadZone(skip, dz)
           can == CanPlace(gated, t, dz)
           placed == IF can THEN PlaceOrders(gated) ELSE HoldForBook(gated, t, dz)
           new == RaisedLegs(anchored, chased) \cup {l \in Legs : can /\ Placed(gated, l)}
           filled == DetectFills(placed, new, can, t)
           r == Trade(k, t, latched)
<1>0. dz \in BOOLEAN /\ k \in Market BY DEF DeadZoneAt, InDeadZone, RoundOK
<1>1. r = IF BothFilled(filled) THEN CompletePair(filled) ELSE Exits(filled, dz, latched)
    BY DEF Trade
<1>2. can => ~dz /\ ~DelayPending(gated, t) BY DEF CanPlace
<1>3. dz = DeadZoneAt(k, t) OBVIOUS
<1> HIDE DEF dz
\* A fresh start forgets the round that is over, and its prices.
<1>4. /\ RoundOK(fresh) /\ PricesOK(fresh) /\ fresh.cid = k.cid /\ fresh.nextQuoted = k.nextQuoted
      /\ Rested(k, fresh) /\ (fresh.exit => k.exit)
      /\ dz \/ (~k.pair /\ ~k.exit) => fresh = k
    BY <1>0, FreshStartKeeps, ResetPrices, StillSelf DEF FreshStart, Rested
<1> HIDE DEF fresh
<1>5. /\ RoundOK(latch) /\ PricesOK(latch) /\ latch.cid = fresh.cid /\ latch.repriced = fresh.repriced
      /\ latch.nextQuoted = fresh.nextQuoted /\ Rested(fresh, latch) /\ Same(fresh, latch)
      /\ fresh.anchored # NoPrice => latch = fresh
    BY <1>4, AnchorPrices, AnchorSame, SameKeeps DEF RoundOK
<1>5a. Waiting(fresh) => Waiting(latch) BY <1>4, WaitingWaits DEF RoundOK
<1> HIDE DEF latch
<1>6. /\ RoundOK(anchored) /\ Priced(anchored) /\ anchored.cid = latch.cid
      /\ anchored.repriced = latch.repriced /\ anchored.anchored = latch.anchored
      /\ anchored.resting = latch.resting /\ anchored.nextQuoted = latch.nextQuoted
      /\ Rested(latch, anchored) /\ Same(latch, anchored)
    BY <1>5, KeepOriginalPrices, KeepOriginalSame, SameKeeps DEF RoundOK
<1>6a. Waiting(latch) => Waiting(anchored) BY <1>5, WaitingWaits DEF RoundOK
<1> HIDE DEF anchored
<1>7. /\ RoundOK(chased) /\ Priced(chased) /\ Goes(anchored, chased) /\ Same(anchored, chased)
    BY <1>6, ChaseGoes, ChaseSame, SameKeeps DEF Priced
<1>7a. Waiting(anchored) => Waiting(chased) BY <1>6, WaitingWaits DEF Priced
<1> HIDE DEF chased
<1>8. RoundOK(drift) /\ Still(chased, drift) /\ Same(chased, drift)
    BY <1>7, TrackDriftStill, TrackDriftSame, SameKeeps DEF Priced
<1>8a. Waiting(chased) => Waiting(drift) BY <1>7, WaitingWaits DEF Priced
<1> HIDE DEF drift
<1>9. RoundOK(late) /\ Still(drift, late) /\ Same(drift, late)
    BY <1>0, <1>8, GatesStill, LateStartSame, SameKeeps DEF RoundOK
<1>9a. Waiting(drift) => Waiting(late) BY <1>8, WaitingWaits DEF RoundOK
<1> HIDE DEF late
<1>10. RoundOK(skip) /\ Still(late, skip) /\ Same(late, skip)
    BY <1>9, GatesStill, LateSkipSame, SameKeeps DEF RoundOK
<1>10a. Waiting(late) => Waiting(skip) BY <1>9, WaitingWaits DEF RoundOK
<1> HIDE DEF skip
<1>11. RoundOK(gated) /\ Still(skip, gated) /\ Same(skip, gated)
    BY <1>10, CancelInDeadZoneStill, CancelInDeadZoneSame, SameKeeps DEF RoundOK
<1>11a. dz /\ Waiting(skip) => \A l \in Legs : gated.ordStatus[l] # "RESTING"
    BY <1>0, <1>10, WaitingIsCancelled DEF RoundOK
<1> HIDE DEF gated
<1>12. /\ RoundOK(placed) /\ Quiet(gated, placed) /\ Same(gated, placed)
       /\ ~can => Rested(gated, placed)
    BY <1>11, PlaceOrdersQuiet, GatesStill, PlaceOrdersSame, HoldForBookSame, SameKeeps
       DEF RoundOK, Still
<1> HIDE DEF can, new, placed
<1>13. Priced(gated)
    <2>1. Still(chased, late) BY <1>8, <1>9, StillTransitive
    <2>2. Still(chased, skip) BY <2>1, <1>10, StillTransitive
    <2>3. Still(chased, gated) BY <2>2, <1>11, StillTransitive
    <2> QED BY <2>3, <1>7, <1>11, StillPriced DEF RoundOK
<1>14. Priced(placed)
    BY <1>12, <1>13 DEF Priced, Quiet, PricesOK, Kept, AnyFilled, Within, RoundOK
<1>15. FillOK(filled) /\ Priced(filled) /\ Goes(placed, filled)
    BY <1>12, <1>14, DetectFillsKeeps, DetectFillsGoes
<1>16. BothFilled(filled) => CompletePair(filled).exit = filled.exit
    BY <1>15, CompletePairExit DEF Priced
<1> HIDE DEF filled
<1>17. RoundOK(r) /\ Still(filled, r) /\ Priced(r)
    <2>1. filled \in Market BY <1>15 DEF Priced
    <2>2. RoundOK(r) BY <1>1, <1>15, CompletePairKeeps, ExitsKeep DEF FillOK, MergeDue
    <2>3. Still(filled, r) BY <1>1, <2>1, CompletePairStill, ExitsStill
    <2> QED BY <1>15, <2>2, <2>3, StillPriced DEF RoundOK
<1>18. ~BothFilled(filled) => ~r.pair
    BY <1>17 DEF Still, Quiet, RoundOK, BothFilled
<1>19. r.pair /\ r.exit => filled.exit BY <1>1, <1>16, <1>18
<1> HIDE DEF r
<1>20. Quiet(chased, gated) /\ Rested(chased, gated)
    BY <1>8, <1>9, <1>10, <1>11, StillTransitive DEF Still
<1>21. /\ Climbs(anchored, r) /\ Climbs(gated, r) /\ Rested(placed, r)
    <2>1. Climbs(anchored, gated) BY <1>6, <1>7, <1>13, <1>20, QuietClimbs, ClimbsTransitive DEF Goes, Priced
    <2>2. Climbs(placed, r) BY <1>14, <1>15, <1>17, QuietClimbs, ClimbsTransitive DEF Goes, Still, Priced
    <2>3. Climbs(gated, r) BY <2>2, <1>12, <1>13, <1>14, <1>17, QuietClimbs, ClimbsTransitive DEF Priced
    <2>4. Climbs(anchored, r) BY <2>1, <2>3, <1>6, <1>13, <1>17, ClimbsTransitive DEF Priced
    <2>5. Rested(placed, r) BY <1>15, <1>17, RestedTransitive DEF Goes, Still
    <2> QED BY <2>3, <2>4, <2>5
<1>22. Rested(k, gated)
    <2>1. Rested(k, anchored) BY <1>4, <1>5, <1>6, RestedTransitive
    <2> QED BY <2>1, <1>7, <1>20, RestedTransitive DEF Goes
<1>23. PricesOK(r) /\ AnchorKept(r)
    BY <1>17 DEF Priced, PricesOK, Kept, AnchorKept
<1>24. r.cid = k.cid /\ r.nextQuoted = k.nextQuoted
    BY <1>4, <1>5, <1>6, <1>21 DEF Climbs
<1>25. ASSUME ~k.pair, ~k.exit
       PROVE  /\ r.repriced = k.repriced
              /\ \A l \in Legs : k.filled[l] => r.filled[l] /\ r.fillPrice[l] = k.fillPrice[l]
              /\ k.anchored # NoPrice =>
                    \A l \in Legs : \/ r.resting[l] = k.resting[l]
                                    \/ r.resting[l] > k.resting[l] /\ r.filled[Opp(l)]
    <2>1. fresh = k BY <1>4, <1>25
    <2>2. /\ anchored.repriced = k.repriced /\ anchored.filled = k.filled
          /\ anchored.fillPrice = k.fillPrice
          /\ k.anchored # NoPrice => anchored.resting = k.resting
        BY <2>1, <1>5, <1>6 DEF Same
    <2> QED BY <2>2, <1>21 DEF Climbs
<1>26. filled.exit => k.exit
    BY <1>4, <1>5, <1>6, <1>7, <1>8, <1>9, <1>10, <1>11, <1>12, <1>15 DEF Same, Goes
<1>27. dz \/ DelayPending(r, t) => Rested(k, r)
    <2>1. DelayPending(r, t) => DelayPending(gated, t)
        BY <1>21, SameTime DEF DelayPending, AnyFilled, Climbs
    <2>2. dz \/ DelayPending(r, t) => ~can BY <1>2, <2>1
    <2> QED BY <2>2, <1>12, <1>21, <1>22, RestedTransitive
<1>28. dz /\ Waiting(k) => \A l \in Legs : r.ordStatus[l] # "RESTING"
    <2> SUFFICES ASSUME dz, Waiting(k) PROVE \A l \in Legs : r.ordStatus[l] # "RESTING"
        OBVIOUS
    <2>1. Waiting(skip) BY <1>4, <1>5a, <1>6a, <1>7a, <1>8a, <1>9a, <1>10a
    <2>2. Rested(gated, r) BY <1>2, <1>12, <1>21, RestedTransitive
    <2> QED BY <2>1, <2>2, <1>11a DEF Rested
<1>29. r.pair /\ r.exit => k.exit BY <1>19, <1>26
<1>30. TradesWell(k, r, t)
    BY <1>3, <1>23, <1>24, <1>25, <1>27, <1>28, <1>29 DEF TradesWell
<1> QED BY <1>30 DEF r

-----------------------------------------------------------------------------
(* The rollover and the whole tick *)

\* A window starts with the prices of its pre-quote, or with none.
Starts(k, r) ==
    /\ PricesOK(r) /\ AnchorKept(r) /\ ~r.nextQuoted /\ ~r.pair /\ ~r.exit
    /\ \/ \A l \in Legs : r.ordStatus[l] # "RESTING"
       \/ k.nextQuoted /\ Waiting(r)

LEMMA RolloverStarts ==
    ASSUME NEW k, NEW cid, NEW latched, RoundOK(k), offset \in Int, offset < Dollar \div 2
    PROVE  Starts(k, Rollover(k, cid, latched))
<1> DEFINE p == Promotes(k, cid)
           w == Settle(RetryPending(k, latched))
           c == ResetRound(w)
           i == BothLegs(p)
           o == BothLegs(IF p THEN "RESTING" ELSE "NONE")
           n == BothLegs(IF p THEN Dollar \div 2 - offset ELSE NoPrice)
           s == IF running THEN "QUOTING" ELSE "IDLE"
           q == QuoteAt(c, n)
           r == [q EXCEPT !.ordId = i, !.ordStatus = o, !.nextQuoted = FALSE,
                          !.entryCancelled = FALSE, !.seen = FALSE, !.lateSkip = FALSE, !.status = s]
<1>1. w \in Market BY RetryKeeps, SettleFlat DEF Flat
<1> HIDE DEF w
<1>2. c \in Market /\ ~c.pair /\ ~c.exit BY <1>1, ResetFacts DEF Resets
<1>3. PricesOK(c) /\ ~AnyFilled(c) /\ c.anchored = NoPrice BY <1>1, ResetPrices
<1>4. n \in [Legs -> Int]
      /\ \/ \A l \in Legs : n[l] > 0
         \/ \A l \in Legs : n[l] = NoPrice
    BY FlatFunctions DEF Dollar, NoPrice
<1>5. /\ \A l \in Legs : i[l] = p
      /\ \A l \in Legs : o[l] = IF p THEN "RESTING" ELSE "NONE"
    BY FlatFunctions
<1>6. p => k.nextQuoted BY DEF Promotes
<1>7. Rollover(k, cid, latched) = r BY DEF Rollover, c, w
<1> HIDE DEF p, c, i, o, n, s
<1>8. PricesOK(q) BY <1>2, <1>3, <1>4, QuoteAtPrices
<1>9. q \in Market /\ q.filled = c.filled /\ q.anchored = c.anchored
    BY <1>2, <1>4, QuoteAtFacts
<1>9a. q.pair = c.pair /\ q.exit = c.exit BY <1>2, <1>4, QuoteAtSame DEF Same
<1> HIDE DEF q
<1>10. /\ r.filled = q.filled /\ r.fillPrice = q.fillPrice /\ r.anchored = q.anchored
       /\ r.resting = q.resting /\ r.original = q.original /\ r.unchased = q.unchased
       /\ r.ordId = i /\ r.ordStatus = o /\ ~r.nextQuoted /\ ~r.entryCancelled /\ ~r.lateSkip
       /\ r.pair = q.pair /\ r.exit = q.exit
    BY <1>9 DEF Market
<1> HIDE DEF r
<1>11. PricesOK(r) BY <1>8, <1>10 DEF PricesOK, AnyFilled, Within
<1>12. AnchorKept(r) BY <1>3, <1>9, <1>10 DEF AnchorKept
<1>13. CASE p
    <2>1. \A l \in Legs : ~r.filled[l] BY <1>3, <1>9, <1>10 DEF AnyFilled
    <2> QED BY <1>2, <1>5, <1>6, <1>7, <1>9a, <1>10, <1>11, <1>12, <1>13, <2>1 DEF Starts, Waiting
<1>14. CASE ~p
    <2>1. \A l \in Legs : r.ordStatus[l] # "RESTING" BY <1>5, <1>10, <1>14
    <2> QED BY <1>2, <1>7, <1>9a, <1>10, <1>11, <1>12, <2>1 DEF Starts
<1> QED BY <1>13, <1>14

\* What a handler does to a round, and what it leaves for the next one.
HoldsQuotes(k, r) ==
    r.cid = k.cid /\ ~k.pair /\ ~k.exit =>
        /\ \A l \in Legs : k.filled[l] => r.filled[l] /\ r.fillPrice[l] = k.fillPrice[l]
        /\ ~r.repriced /\ k.anchored # NoPrice /\ r.anchored # NoPrice =>
            \A l \in Legs : \/ r.resting[l] = k.resting[l]
                            \/ r.resting[l] > k.resting[l] /\ r.filled[Opp(l)]

OpensInTime(k, r) ==
    DelayPending(r, tickNow) \/ (running /\ DeadZoneAt(r, tickNow)) => Rested(k, r)

Lasting(k) == PricesOK(k) /\ AnchorKept(k) /\ DelayOK(k)

Handles(k, r) ==
    Lasting(r) /\ HoldsQuotes(k, r) /\ OpensInTime(k, r) /\ (r.pair /\ r.exit => k.exit)

LEMMA NamedQuoted ==
    ASSUME NEW k, NEW next, RoundOK(k), Lasting(k), next \in -1 .. LastWindow + 1
    PROVE  LET r == PreQuote(NextWindow(k, next))
           IN /\ RoundOK(r) /\ Lasting(r) /\ r.cid = k.cid /\ r.ordStatus = k.ordStatus
              /\ r.filled = k.filled /\ r.fillPrice = k.fillPrice /\ r.resting = k.resting
              /\ r.pair = k.pair /\ r.exit = k.exit
<1> DEFINE named == NextWindow(k, next)
           r == PreQuote(named)
           Kin(x) == /\ x.cid = k.cid /\ x.anchored = k.anchored /\ x.ordStatus = k.ordStatus
                     /\ x.filled = k.filled /\ x.fillPrice = k.fillPrice /\ x.resting = k.resting
                     /\ x.original = k.original /\ x.unchased = k.unchased
                     /\ x.pair = k.pair /\ x.exit = k.exit
<1>0. k \in Market BY DEF RoundOK
<1>1. RoundOK(named) BY NextWindowSame, SameKeeps
<1>2. Kin(named) /\ (named.nextQuoted => k.nextQuoted) BY <1>0 DEF NextWindow, Market
<1> HIDE DEF named
<1>3. RoundOK(r) /\ named \in Market BY <1>1, PreQuoteSame, SameKeeps DEF RoundOK
<1>4. Kin(r) /\ (EntryDelay > 0 => r.nextQuoted = named.nextQuoted)
    <2> DEFINE quoted == [named EXCEPT !.nextQuoted = TRUE]
    <2>1. Kin(quoted) BY <1>2, <1>3 DEF Market
    <2>2. r = named \/ (r = quoted /\ EntryDelay = 0) BY DEF PreQuote
    <2> HIDE DEF quoted, r
    <2> QED BY <1>2, <2>1, <2>2
<1> HIDE DEF r
<1>5. Lasting(r)
    BY <1>2, <1>4 DEF Lasting, PricesOK, AnchorKept, DelayOK, Within, AnyFilled
<1> QED BY <1>3, <1>4, <1>5 DEF r, named

LEMMA TickHandles ==
    ASSUME NEW at \in Int, NEW cur \in {NoWindow, WindowAt(at)}, NEW next \in -1 .. LastWindow + 1,
           NEW book \in Books, NEW latched, RoundOK(m), Lasting(m), cur \in -1 .. LastWindow,
           tickNow \in Int, tickNow <= at, offset \in Int, offset < Dollar \div 2, running \in BOOLEAN
    PROVE  Handles(m, Tick(tickNow, cur, next, book, latched))
<1> DEFINE quoted == PreQuote(NextWindow(m, next))
           rolled == IF quoted.cid # NoWindow /\ quoted.cid # cur
                     THEN Rollover(quoted, cur, latched) ELSE quoted
           fresh == [rolled EXCEPT !.cid = cur, !.book = book]
           r == Tick(tickNow, cur, next, book, latched)
<1>1. r = IF cur = NoWindow THEN quoted
          ELSE IF ~running \/ tickNow >= End(cur) THEN Idle(fresh) ELSE Trade(fresh, tickNow, latched)
    BY DEF Tick
<1>2. /\ RoundOK(quoted) /\ Lasting(quoted) /\ quoted.cid = m.cid /\ quoted.ordStatus = m.ordStatus
      /\ quoted.filled = m.filled /\ quoted.fillPrice = m.fillPrice /\ quoted.resting = m.resting
      /\ quoted.pair = m.pair /\ quoted.exit = m.exit
    BY NamedQuoted
<1>2a. quoted.anchored = m.anchored /\ quoted.repriced = m.repriced
    <2>1. m \in Market BY DEF RoundOK
    <2> QED BY <2>1 DEF PreQuote, NextWindow, Market
<1> HIDE DEF quoted, r
<1>3. CASE cur = NoWindow
    <2>1. r = quoted BY <1>1, <1>3
    <2> QED BY <1>2, <2>1 DEF r, Handles, HoldsQuotes, OpensInTime, Rested
<1>4. CASE cur # NoWindow
    <2>1. RoundOK(rolled) BY <1>2, RolloverKeeps
    <2>2. \/ rolled = quoted /\ (m.cid = NoWindow \/ m.cid = cur)
          \/ m.cid # cur /\ Starts(quoted, rolled)
        BY <1>2, RolloverStarts
    <2> HIDE DEF rolled
    <2>3. book \in [Legs -> Quotes] BY Params
    <2>4. rolled \in Market BY <2>1 DEF RoundOK
    <2>5. RoundOK(fresh) BY <2>1, <2>3, SetWindow, SameKeeps
    <2>6. /\ fresh.cid = cur /\ fresh.filled = rolled.filled /\ fresh.fillPrice = rolled.fillPrice
          /\ fresh.resting = rolled.resting /\ fresh.original = rolled.original
          /\ fresh.unchased = rolled.unchased /\ fresh.anchored = rolled.anchored
          /\ fresh.repriced = rolled.repriced /\ fresh.ordStatus = rolled.ordStatus
          /\ fresh.ordId = rolled.ordId /\ fresh.entryCancelled = rolled.entryCancelled
          /\ fresh.lateSkip = rolled.lateSkip /\ fresh.nextQuoted = rolled.nextQuoted
          /\ fresh.pair = rolled.pair /\ fresh.exit = rolled.exit
        BY <2>4 DEF Market
    <2> HIDE DEF fresh
    <2>7. Lasting(rolled) BY <1>2, <2>2 DEF Starts, Lasting, DelayOK
    <2>8. Lasting(fresh)
        BY <2>6, <2>7 DEF Lasting, PricesOK, AnchorKept, DelayOK, Within, AnyFilled
    <2>9. fresh.exit => m.exit BY <1>2, <2>2, <2>6 DEF Starts
    \* A window that opens with orders opens with those of its pre-quote.
    <2>10. Rested(m, fresh) \/ (Waiting(fresh) /\ EntryDelay <= 0)
        <3>1. CASE rolled = quoted BY <1>2, <2>6, <3>1 DEF Rested
        <3>2. CASE Starts(quoted, rolled)
            <4>1. CASE \A l \in Legs : rolled.ordStatus[l] # "RESTING" BY <2>6, <4>1 DEF Rested
            <4>2. CASE quoted.nextQuoted /\ Waiting(rolled)
                <5>1. ~(EntryDelay > 0) BY <1>2, <4>2 DEF Lasting, DelayOK
                <5>2. EntryDelay <= 0 BY <5>1, ClockAssumption
                <5> QED BY <2>6, <4>2, <5>2 DEF Waiting
            <4> QED BY <3>2, <4>1, <4>2 DEF Starts
        <3> QED BY <2>2, <3>1, <3>2
    <2>11. HoldsQuotes(m, fresh) /\ (fresh.cid = m.cid => rolled = quoted)
        BY <1>2, <1>4, <2>2, <2>6 DEF HoldsQuotes, Starts
    <2>12. CASE ~running
        <3>1. r = Idle(fresh) BY <1>1, <1>4, <2>12
        <3>2. Still(fresh, r) /\ r.pair = fresh.pair /\ r.exit = fresh.exit
            BY <2>5, <3>1, IdleStill, IdleSame DEF RoundOK, Same
        <3>3. Lasting(r) BY <2>8, <3>2, StillPrices DEF Lasting
        <3>4. HoldsQuotes(m, r) BY <2>11, <3>2 DEF HoldsQuotes, Still, Quiet
        <3>5. OpensInTime(m, r)
            <4>1. DelayPending(r, tickNow) => EntryDelay > 0 BY DEF DelayPending
            <4>2. DelayPending(r, tickNow) => Rested(m, fresh) BY <2>10, <4>1, ClockAssumption
            <4> QED BY <2>12, <3>2, <4>2, RestedTransitive DEF OpensInTime, Still
        <3>6. r.pair /\ r.exit => m.exit BY <2>9, <3>2
        <3> QED BY <3>3, <3>4, <3>5, <3>6 DEF Handles, r
    <2>13. CASE running
        <3>1. tickNow < End(cur)
            <4>1. cur = WindowAt(at) BY <1>4
            <4>2. at < End(WindowAt(at)) BY ClockAssumption DEF WindowAt, End
            <4>3. End(WindowAt(at)) \in Int BY ClockAssumption DEF WindowAt, End
            <4> QED BY <4>1, <4>2, <4>3
        <3>1a. End(cur) \in Int BY ClockAssumption, <1>4 DEF WindowAt, End
        <3>2. r = Trade(fresh, tickNow, latched) BY <1>1, <1>4, <2>13, <3>1, <3>1a
        <3>3. TradesWell(fresh, r, tickNow) BY <2>5, <2>8, <3>2, TradeTrades DEF Lasting
        <3>4. Lasting(r) BY <2>8, <3>3 DEF TradesWell, Lasting, DelayOK
        <3>5. HoldsQuotes(m, r)
            <4>1. r.cid = m.cid => fresh.cid = m.cid BY <3>3 DEF TradesWell
            <4>2. SUFFICES ASSUME fresh.cid = m.cid, ~m.pair, ~m.exit
                           PROVE  HoldsQuotes(m, r)
                BY <4>1 DEF HoldsQuotes
            <4>3. rolled = quoted BY <2>11, <4>2
            <4>4. /\ fresh.filled = m.filled /\ fresh.fillPrice = m.fillPrice
                  /\ fresh.resting = m.resting /\ ~fresh.pair /\ ~fresh.exit
                  /\ fresh.anchored = m.anchored
                BY <1>2, <1>2a, <2>6, <4>2, <4>3
            <4> QED BY <3>3, <4>4 DEF TradesWell, HoldsQuotes
        <3>6. OpensInTime(m, r)
            <4>0. DeadZoneAt(r, tickNow) = DeadZoneAt(fresh, tickNow)
                BY <3>3, SameTime DEF TradesWell
            <4>1. CASE DelayPending(r, tickNow)
                <5>1. EntryDelay > 0 BY <4>1 DEF DelayPending
                <5>2. Rested(m, fresh) BY <2>10, <5>1, ClockAssumption
                <5> QED BY <3>3, <4>1, <5>2, RestedTransitive DEF TradesWell, OpensInTime
            <4>2. CASE DeadZoneAt(r, tickNow)
                <5>1. CASE Rested(m, fresh)
                    BY <3>3, <4>0, <4>2, <5>1, RestedTransitive DEF TradesWell, OpensInTime
                <5>2. CASE Waiting(fresh)
                    BY <3>3, <4>0, <4>2, <5>2 DEF TradesWell, OpensInTime, Rested
                <5> QED BY <2>10, <5>1, <5>2
            <4> QED BY <4>1, <4>2 DEF OpensInTime
        <3>7. r.pair /\ r.exit => m.exit BY <2>9, <3>3 DEF TradesWell
        <3> QED BY <3>4, <3>5, <3>6, <3>7 DEF Handles, r
    <2> QED BY <2>12, <2>13
<1> QED BY <1>3, <1>4

-----------------------------------------------------------------------------
(* The handlers *)

QInv == IInv /\ Lasting(m)

LEMMA StillHandles ==
    ASSUME NEW r, Lasting(m), Still(m, r), r.pair = m.pair, r.exit = m.exit
    PROVE  Handles(m, r)
<1>1. Lasting(r) BY StillPrices DEF Lasting
<1> QED BY <1>1 DEF Handles, HoldsQuotes, OpensInTime, Still, Quiet

LEMMA OperatorHandles ==
    ASSUME QInv, Operator
    PROVE  Handles(m, m')
<1>0. m \in Market /\ Lasting(m) BY DEF QInv, IInv, RoundOK
<1>1. CASE StartEngine
    BY <1>0, <1>1, StillSelf, StillHandles DEF StartEngine
<1>2. CASE StopEngine
    <2>1. m' = Idle(m) BY <1>2 DEF StopEngine
    <2>2. Still(m, m') /\ m'.pair = m.pair /\ m'.exit = m.exit
        BY <1>0, <2>1, IdleStill, IdleSame DEF Same
    <2> QED BY <1>0, <2>2, StillHandles
<1>3. CASE CancelAll
    <2> DEFINE i == BothLegs(FALSE)
               o == BothLegs("CANCELLED")
               k == [m EXCEPT !.ordId = i, !.ordStatus = o, !.anchored = NoPrice, !.nextQuoted = FALSE]
    <2>1. m' = Idle(k) BY <1>3 DEF CancelAll
    <2>2. /\ i \in [Legs -> BOOLEAN] /\ o \in [Legs -> OrderStatuses] /\ NoPrice \in Int
          /\ \A l \in Legs : o[l] # "RESTING"
        <3>1. i \in [Legs -> BOOLEAN] BY FlatFunctions
        <3>2. o \in [Legs -> OrderStatuses] BY FlatFunctions DEF OrderStatuses
        <3>3. \A l \in Legs : o[l] = "CANCELLED" BY FlatFunctions
        <3>4. NoPrice \in Int BY DEF NoPrice
        <3> HIDE DEF i, o
        <3> QED BY <3>1, <3>2, <3>3, <3>4
    <2> HIDE DEF i, o
    <2>3. Same(m, k) BY <1>0, <2>2, SetCancelAll, Zenon
    <2>4. /\ k.cid = m.cid /\ k.anchored = NoPrice /\ k.repriced = m.repriced
          /\ k.filled = m.filled /\ k.fillPrice = m.fillPrice /\ k.resting = m.resting
          /\ k.original = m.original /\ k.unchased = m.unchased /\ ~k.nextQuoted
          /\ k.pair = m.pair /\ k.exit = m.exit /\ k.ordStatus = o
        BY <1>0 DEF Market
    <2> HIDE DEF k
    <2>5. k \in Market BY <2>3 DEF Same
    <2>6. Lasting(k)
        BY <1>0, <2>4 DEF Lasting, PricesOK, AnchorKept, DelayOK, Within, AnyFilled
    <2>7. Still(k, m') /\ m'.pair = k.pair /\ m'.exit = k.exit
        BY <2>1, <2>5, IdleStill, IdleSame DEF Same
    <2>8. Lasting(m') BY <2>6, <2>7, StillPrices DEF Lasting
    <2>9. Rested(m, m') BY <2>2, <2>4, <2>7 DEF Rested, Still
    <2> QED BY <2>4, <2>7, <2>8, <2>9 DEF Handles, HoldsQuotes, OpensInTime, Still, Quiet
<1>4. CASE UpdateConfig
    <2>1. PICK o \in Offsets :
            m' = [QuoteAt(m, BothLegs(Dollar \div 2 - o)) EXCEPT
                           !.repriced = m.repriced \/ AnyFilled(m) \/
                                        \E l \in Legs : m.original[l] # NoPrice]
        BY <1>4 DEF UpdateConfig
    <2> DEFINE n == BothLegs(Dollar \div 2 - o)
               b == m.repriced \/ AnyFilled(m) \/ \E l \in Legs : m.original[l] # NoPrice
               q == QuoteAt(m, n)
    <2>2. n \in [Legs -> Int] /\ \A l \in Legs : n[l] > 0
        <3>1. o \in 10 .. 4900 BY MarketAssumption
        <3>2. Dollar \div 2 - o \in Int /\ Dollar \div 2 - o > 0 BY <3>1 DEF Dollar
        <3> HIDE DEF n
        <3>3. n \in [Legs -> Int] /\ \A l \in Legs : n[l] = Dollar \div 2 - o
            BY <3>2, FlatFunctions DEF n
        <3> QED BY <3>2, <3>3
    <2>3. m.anchored # NoPrice => b BY <1>0 DEF Lasting, AnchorKept, Legs
    <2>4. m' = [q EXCEPT !.repriced = b] BY <2>1
    <2> HIDE DEF n, b
    <2>5. /\ q \in Market /\ q.cid = m.cid /\ q.anchored = m.anchored
          /\ q.filled = m.filled /\ q.fillPrice = m.fillPrice /\ q.original = m.original
          /\ q.nextQuoted = m.nextQuoted /\ Rested(m, q)
        BY <1>0, <2>2, QuoteAtFacts
    <2>5a. q.pair = m.pair /\ q.exit = m.exit BY <1>0, <2>2, QuoteAtSame DEF Same
    <2>6. PricesOK(q) BY <1>0, <2>2, QuoteAtPrices DEF Lasting
    <2> HIDE DEF q
    <2>7. /\ m'.cid = q.cid /\ m'.anchored = q.anchored /\ m'.repriced = b
          /\ m'.filled = q.filled /\ m'.fillPrice = q.fillPrice /\ m'.original = q.original
          /\ m'.resting = q.resting /\ m'.unchased = q.unchased /\ m'.ordStatus = q.ordStatus
          /\ m'.nextQuoted = q.nextQuoted /\ m'.pair = q.pair /\ m'.exit = q.exit
        BY <2>4, <2>5 DEF Market
    <2>8. Lasting(m')
        BY <1>0, <2>5, <2>6, <2>7 DEF Lasting, PricesOK, AnchorKept, DelayOK, Within, AnyFilled
    <2> QED BY <2>3, <2>5, <2>5a, <2>7, <2>8 DEF Handles, HoldsQuotes, OpensInTime, Rested
<1> QED BY <1>1, <1>2, <1>3, <1>4 DEF Operator

LEMMA TickerHandles ==
    ASSUME QInv, Ticker
    PROVE  Handles(m, m')
<1>0. m \in Market /\ RoundOK(m) /\ Lasting(m) BY DEF QInv, IInv, RoundOK
<1>1. CASE BeginTick
    BY <1>0, <1>1, StillSelf, StillHandles DEF BeginTick
<1>2. ASSUME NEW at \in tickNow .. now, NEW cur \in {NoWindow, WindowAt(at)},
             NEW next \in {NoWindow, WindowAt(at) + 1}, FinishTick(at, cur, next)
      PROVE  Handles(m, m')
    <2>0. Start(LastWindow) \in Int BY ClockAssumption DEF Start
    <2>1. tickNow \in 0 .. now /\ now \in 0 .. Start(LastWindow) /\ offset \in Offsets
          /\ running \in BOOLEAN
        BY DEF QInv, IInv, TypeOK
    <2>2. /\ tickNow \in Int /\ at \in Int /\ tickNow <= at
          /\ at \in 0 .. Start(LastWindow)
        BY <2>0, <2>1
    <2>3. offset \in Int /\ offset < Dollar \div 2
        <3>1. offset \in 10 .. 4900 BY <2>1, MarketAssumption
        <3> QED BY <3>1 DEF Dollar
    <2>4. WindowAt(at) \in 0 .. LastWindow BY <2>2, WindowAtRange
    <2>5. cur \in -1 .. LastWindow /\ next \in -1 .. LastWindow + 1
        BY <2>4, ClockAssumption DEF NoWindow
    <2>6. CASE UNCHANGED m BY <1>0, <2>6, StillSelf, StillHandles
    <2>7. CASE \E book \in Books, latched \in BOOLEAN : m' = Tick(tickNow, cur, next, book, latched)
        BY <1>0, <2>1, <2>2, <2>3, <2>5, <2>7, TickHandles
    <2> QED BY <1>2, <2>6, <2>7 DEF FinishTick
<1>3. CASE PollFails BY <1>2, <1>3 DEF PollFails
<1>4. CASE PollOk BY <1>2, <1>4 DEF PollOk
<1> QED BY <1>1, <1>3, <1>4 DEF Ticker

LEMMA StreamHandles ==
    ASSUME QInv, Stream
    PROVE  Handles(m, m')
<1>0. m \in Market /\ RoundOK(m) /\ Lasting(m) BY DEF QInv, IInv, RoundOK
<1>1. ASSUME NEW l \in Legs, OnBookUpdate(l) PROVE Handles(m, m')
    <2>1. PICK book \in Books : m' = [m EXCEPT !.book[l] = book[l]] BY <1>1 DEF OnBookUpdate
    <2>2. Still(m, m') /\ m'.pair = m.pair /\ m'.exit = m.exit
        BY <1>0, <2>1 DEF Market, Still, Quiet, Rested
    <2> QED BY <1>0, <2>2, StillHandles
<1>2. ASSUME NEW l \in Legs, OnWsTrade(l) PROVE Handles(m, m')
    <2> DEFINE k == FillLeg(m, l, now)
    <2>1. /\ ~m.filled[l] /\ m.resting[l] # NoPrice
          /\ m' = IF BothFilled(k) THEN CompletePair(k) ELSE k
        BY <1>2 DEF OnWsTrade, PrintFills
    <2>2. now \in Int BY ClockAssumption DEF QInv, IInv, TypeOK, Start
    <2>3. FillOK(m) BY <1>0 DEF FillOK
    <2>4. k \in Market /\ PricesOK(k) /\ Goes(m, k)
        BY <1>0, <2>1, <2>2, <2>3, FillPrices DEF Lasting
    <2> HIDE DEF k
    <2>5. Still(k, m') /\ m'.exit = k.exit
        BY <2>1, <2>4, StillSelf, CompletePairStill, CompletePairExit
    <2>6. Lasting(k)
        BY <1>0, <2>4 DEF Lasting, AnchorKept, DelayOK, Goes, Climbs
    <2>7. Lasting(m') BY <2>5, <2>6, StillPrices DEF Lasting
    <2>8. HoldsQuotes(m, m') /\ OpensInTime(m, m')
        BY <2>4, <2>5 DEF HoldsQuotes, OpensInTime, Goes, Climbs, Still, Quiet, Rested
    <2> QED BY <2>4, <2>5, <2>7, <2>8 DEF Handles, Goes
<1>3. ASSUME NEW l \in Legs, OnSpotTick(l) PROVE Handles(m, m')
    <2>1. PICK large \in BOOLEAN, latched \in BOOLEAN :
            m' = RetryPending([m EXCEPT !.status = "STOP_EXIT_PENDING",
                                        !.breached[l] = m.breached[l] \/ large], latched)
        BY <1>3 DEF OnSpotTick
    <2> DEFINE b == m.breached[l] \/ large
               k == [m EXCEPT !.status = "STOP_EXIT_PENDING", !.breached[l] = b]
    <2>2. b \in BOOLEAN /\ NakedLeg(m, l) /\ ~m.exit BY <1>3 DEF OnSpotTick
    <2>3. m' = RetryPending(k, latched) BY <2>1
    <2> HIDE DEF b
    <2>4. RoundOK(k) BY <1>0, <2>2, SetSpot, Zenon
    <2>5. Still(m, k) BY <1>0 DEF Market, Still, Quiet, Rested
    <2> HIDE DEF k
    <2>6. Still(m, m')
        <3>1. Still(k, m') BY <2>3, <2>4, RetryStill DEF RoundOK
        <3> QED BY <2>5, <3>1, StillTransitive
    <2>7. ~m'.pair
        <3>1. RoundOK(m') BY StreamKeeps DEF QInv
        <3>2. ~BothFilled(m)  BY <2>2, OppLeg DEF NakedLeg, BothFilled
        <3> QED BY <2>6, <3>1, <3>2 DEF RoundOK, BothFilled, Still, Quiet
    <2>8. Lasting(m') BY <1>0, <2>6, StillPrices DEF Lasting
    <2> QED BY <2>6, <2>7, <2>8 DEF Handles, HoldsQuotes, OpensInTime, Still, Quiet
<1> QED BY <1>1, <1>2, <1>3 DEF Stream

LEMMA StepHandles ==
    ASSUME QInv, [Next]_vars
    PROVE  Handles(m, m')
<1>1. CASE AdvanceClock \/ UNCHANGED vars
    <2>1. m' = m BY <1>1 DEF AdvanceClock, vars
    <2> QED BY <2>1, StillSelf, StillHandles DEF QInv
<1> QED BY <1>1, OperatorHandles, TickerHandles, StreamHandles DEF Next

-----------------------------------------------------------------------------
(* The theorems *)

LEMMA QuotesInit == Init => QInv
<1> SUFFICES ASSUME Init PROVE QInv
    OBVIOUS
<1>1. IInv BY InitInv
<1> DEFINE n == BothLegs(Dollar \div 2 - offset)
<1>2. m = NewMarket BY DEF Init
<1>3. n \in [Legs -> Int] /\ \A l \in Legs : n[l] > 0
    <2>1. offset \in 10 .. 4900 BY MarketAssumption DEF Init
    <2>2. Dollar \div 2 - offset \in Int /\ Dollar \div 2 - offset > 0 BY <2>1 DEF Dollar
    <2> HIDE DEF n
    <2>3. n \in [Legs -> Int] /\ \A l \in Legs : n[l] = Dollar \div 2 - offset
        BY <2>2, FlatFunctions DEF n
    <2> QED BY <2>2, <2>3
<1>4. m.resting = n /\ m.unchased = n BY <1>2 DEF NewMarket
<1> HIDE DEF n
<1>5. /\ \A l \in Legs : ~m.filled[l] /\ m.original[l] = NoPrice
      /\ m.anchored = NoPrice /\ ~m.nextQuoted
    BY <1>2, FlatFunctions DEF NewMarket
<1>6. \A l \in Legs : n[l] \in Int /\ n[l] >= 0 /\ n[l] <= n[l] /\ n[l] <= n[l] + 50 /\ n[l] # NoPrice /\ NoPrice <= n[l]
    BY <1>3 DEF NoPrice
<1>7. \A l \in Legs : Within(m, l, m.resting[l]) BY <1>4, <1>6 DEF Within
<1>8. PricesOK(m) BY <1>4, <1>5, <1>6, <1>7 DEF PricesOK, AnyFilled
<1> QED BY <1>1, <1>5, <1>8 DEF QInv, Lasting, AnchorKept, DelayOK

LEMMA QuotesStep == QInv /\ [Next]_vars => QInv'
<1> SUFFICES ASSUME QInv, [Next]_vars PROVE QInv'
    OBVIOUS
<1>1. IInv' BY StepInv DEF QInv
<1>2. Lasting(m') BY StepHandles DEF Handles
<1> QED BY <1>1, <1>2 DEF QInv, Lasting, PricesOK, AnchorKept, DelayOK, Within, AnyFilled

\* Rules 4 and 12: no leg of a pair above the cap was paid more than the highest
\* quote its round gave it otherwise than by the chase, rounded to the venue's cent.
THEOREM PairCostAlwaysBounded == Spec => []PairCostBounded
<1>1. QInv => PairCostBounded
    <2> SUFFICES ASSUME QInv, m.pair, NEW l \in Legs
                 PROVE  PairCost <= MaxPairCost \/ m.fillPrice[l] <= m.unchased[l] + 50
        BY DEF PairCostBounded
    <2>1. \A q \in Legs : m.filled[q] /\ m.fillPrice[q] \in Int
        BY DEF QInv, IInv, RoundOK, BothFilled, Market
    <2>2. Within(m, l, m.fillPrice[l]) BY <2>1 DEF QInv, Lasting, PricesOK
    <2>3. m.fillPrice["UP"] \in Int /\ m.fillPrice["DOWN"] \in Int BY <2>1 DEF Legs
    <2>4. CASE l = "UP"
        <3>1. Opp(l) = "DOWN" BY <2>4 DEF Opp
        <3> QED BY <2>2, <2>3, <2>4, <3>1 DEF Within, PairCost
    <2>5. CASE l = "DOWN"
        <3>1. Opp(l) = "UP" BY <2>5 DEF Opp
        <3>2. m.fillPrice["UP"] + m.fillPrice["DOWN"] = m.fillPrice["DOWN"] + m.fillPrice["UP"]
            BY <2>3
        <3> QED BY <2>2, <2>3, <2>5, <3>1, <3>2 DEF Within, PairCost
    <2> QED BY <2>4, <2>5 DEF Legs
<1> QED BY <1>1, QuotesInit, QuotesStep, PTL DEF Spec

\* Rules 1, 2, 3 and 12: a filled leg keeps its entry price, a standing quote is moved
\* by nothing but the chase, upwards and beside a filled leg, and a merged pair is not
\* stopped out.
THEOREM RoundStepsHold == Spec => RoundSteps
<1>1. QInv /\ [Next]_vars =>
        [\A l \in Legs : SameRound /\ m.filled[l] =>
            m'.filled[l] /\ m'.fillPrice[l] = m.fillPrice[l]]_vars
    <2> SUFFICES ASSUME QInv, [Next]_vars, NEW l \in Legs, SameRound, m.filled[l]
                 PROVE  m'.filled[l] /\ m'.fillPrice[l] = m.fillPrice[l]
        OBVIOUS
    <2> QED BY StepHandles DEF Handles, HoldsQuotes, SameRound
<1>2. QInv /\ [Next]_vars => [~ StandingQuoteMoves]_vars
    <2> SUFFICES ASSUME QInv, [Next]_vars, StandingQuoteMoves PROVE FALSE
        OBVIOUS
    <2> QED BY StepHandles DEF Handles, HoldsQuotes, StandingQuoteMoves, SameRound
<1>3. QInv /\ [Next]_vars => [m'.pair /\ m'.exit => m.exit]_vars
    BY StepHandles DEF Handles
<1>4. Spec => EntryPriceFixed BY <1>1, QuotesInit, QuotesStep, PTL DEF Spec, EntryPriceFixed
<1>5. Spec => QuotesHold BY <1>2, QuotesInit, QuotesStep, PTL DEF Spec, QuotesHold
<1>6. Spec => PairNotStoppedOut BY <1>3, QuotesInit, QuotesStep, PTL DEF Spec, PairNotStoppedOut
<1> QED BY <1>4, <1>5, <1>6, PTL DEF RoundSteps

\* Rule 8 and issue #137: no handler of a running engine puts an order on the book in
\* the dead zone of its window, nor any handler while the window's entry delay runs.
THEOREM OrdersKeepToTheirTimes == Spec => [][~OpensInDeadZone /\ ~OpensDuringDelay]_vars
<1>1. QInv /\ [Next]_vars => [~OpensInDeadZone /\ ~OpensDuringDelay]_vars
    <2> SUFFICES ASSUME QInv, [Next]_vars PROVE ~OpensInDeadZone /\ ~OpensDuringDelay
        OBVIOUS
    <2>1. OpensInTime(m, m') BY StepHandles DEF Handles
    <2> QED BY <2>1 DEF OpensInTime, OpensInDeadZone, OpensDuringDelay, Rests, Rested
<1> QED BY <1>1, QuotesInit, QuotesStep, PTL DEF Spec

=============================================================================
