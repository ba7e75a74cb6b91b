------------------------ MODULE BacktestWindowProofs ------------------------
(***************************************************************************)
(* The replay of a window keeps the rules of RoundRules, for every set of  *)
(* parameters and every sequence of ticks.                                 *)
(*                                                                         *)
(* RoundOK is the inductive invariant of the loop's variables.  The body   *)
(* of the loop is a chain of phases: the quoting phases leave every leg    *)
(* and the ledger alone (Base), the fill takes legs at their quotes        *)
(* (Fills), and a tick ends with the round open, paired or sold (Steps).   *)
(***************************************************************************)
EXTENDS BacktestWindow, FiniteSetTheorems, SequenceTheorems, TLAPS

AllFilled(r) == \A l \in Legs : r.filled[l]

\* A price that an order may have.
OrderPrice(p) == p \in 100 .. 9900 /\ p % 10 = 0
Price(p) == p = NoPrice \/ OrderPrice(p)

\* What the chase may have made of the quote of leg l.
Capped(r, l) ==
    \/ r.resting[l] <= r.original[l] + 50
    \/ r.filled[Opp(l)] /\ r.resting[l] + r.resting[Opp(l)] <= MaxPairCost

PairsOK(r) ==
    \A i \in DOMAIN r.pairs : \A l \in Legs :
        r.pairs[i].cost <= MaxPairCost \/ r.pairs[i].entry[l] <= r.pairs[i].original[l] + 50

\* An exit was at a bid or a mark, or is a stop at a recorded bid of 0.0.
Paid(kind, l, exit) == exit # NoPrice \/ (kind = "stop" /\ ZeroRecorded(l))
StopsOK(r) == \A i \in DOMAIN r.stops : Paid(r.stops[i].kind, r.stops[i].side, r.stops[i].exit)

RoundOK(r) ==
    /\ r \in Window
    /\ \A l \in Legs : Price(r.resting[l])
    /\ \A l \in Legs : r.filled[l] => r.entry[l] = r.resting[l]
    /\ \A l, q \in Legs : r.original[l] # NoPrice => r.resting[q] # NoPrice
    /\ ~NoneFilled(r) => \A l \in Legs : r.original[l] # NoPrice
    /\ \A l \in Legs : r.resting[l] # NoPrice => r.anchored # NoPrice
    /\ \A l \in Legs : r.original[l] # NoPrice => Capped(r, l)
    /\ PairsOK(r) /\ StopsOK(r)

\* The legs and the ledger are left alone.
Base(r, q) ==
    /\ q \in Window
    /\ q.filled = r.filled /\ q.entry = r.entry /\ q.original = r.original
    /\ q.pairs = r.pairs /\ q.stops = r.stops

-----------------------------------------------------------------------------
(* Numbers *)

LEMMA Params ==
    /\ Offset \in Int /\ MaxPairCost \in Int /\ WindowLen \in Int /\ DeadZone \in Int
    /\ \A s \in Snaps, l \in Legs : s.book[l].bid \in Nat /\ s.book[l].ask \in Nat
    /\ \A s \in Snaps : s.book \in [Legs -> Quotes]
<1>1. Offset \in Int /\ MaxPairCost \in Int /\ WindowLen \in Int /\ DeadZone \in Int
    BY ParamsAssumption DEF Dollar
<1>2. \A s \in Snaps : s.book \in [Legs -> Quotes] BY SnapsAssumption
<1>3. \A s \in Snaps, l \in Legs : s.book[l].bid \in Nat /\ s.book[l].ask \in Nat
    BY <1>2 DEF Quotes
<1> QED BY <1>1, <1>2, <1>3

LEMMA OppLeg == \A l \in Legs : Opp(l) \in Legs /\ Opp(l) # l /\ Opp(Opp(l)) = l
BY DEF Opp, Legs

LEMMA BothAre == \A v : BothLegs(v) = [l \in Legs |-> v] /\ \A l \in Legs : BothLegs(v)[l] = v
BY DEF BothLegs

LEMMA Flat == \A S : \A v \in S : BothLegs(v) \in [Legs -> S]
BY DEF BothLegs

\* An order's price is one of the venue's.
LEMMA Mills == \A x \in Int : OrderPrice(RoundMills(ClampQuote(x)))
<1> SUFFICES ASSUME NEW x \in Int PROVE OrderPrice(RoundMills(ClampQuote(x)))
    OBVIOUS
<1> DEFINE y == ClampQuote(x)
<1>1. y \in 100 .. 9900 BY DEF ClampQuote, MinOf, MaxOf
<1> HIDE DEF y
<1>2. RoundMills(y) \in 100 .. 9900 /\ RoundMills(y) % 10 = 0 BY <1>1 DEF RoundMills
<1> QED BY <1>2 DEF y, OrderPrice

LEMMA OrderPrices == \A p : OrderPrice(p) => p \in Int /\ p # NoPrice /\ p > 0
BY DEF OrderPrice, NoPrice

\* A part of a step towards a price is no more than the step.
LEMMA PartOfStep ==
    ASSUME NEW num \in Int, NEW den \in Int, NEW step \in Int, 0 <= num, num < den, 0 < step
    PROVE  (num * step) \div den <= step /\ (num * step) \div den \in Int
<1> DEFINE x == num * step
           d == x \div den
<1>1. x \in Int /\ x <= den * step
    <2>1. (den - num) * step >= 0 OBVIOUS
    <2>2. (den - num) * step = den * step - num * step OBVIOUS
    <2>3. den * step \in Int OBVIOUS
    <2> QED BY <2>1, <2>2, <2>3
<1> HIDE DEF x
<1>2. d \in Int /\ den * d <= x BY <1>1
<1> HIDE DEF d
<1>3. den * d <= den * step /\ den > 0 BY <1>1, <1>2
<1>4. d <= step BY <1>2, <1>3
<1> QED BY <1>2, <1>4 DEF d, x

LEMMA MidsInt ==
    ASSUME NEW s \in Snaps
    PROVE  AnchorMid(s) \in Int /\ UpMid(s) \in Int
<1>1. "UP" \in Legs /\ "DOWN" \in Legs BY DEF Legs
<1>2. \A l \in Legs : s.book[l].bid \in Int /\ s.book[l].ask \in Int BY Params
<1>3. AnchorMid(s) \in Int
    <2>1. MidOfFour(s.book["UP"], s.book["DOWN"]) \in Int BY <1>1, <1>2 DEF MidOfFour, Dollar
    <2> QED BY <2>1 DEF AnchorMid, NoPrice
<1>4. UpMid(s) \in Int BY <1>1, <1>2 DEF UpMid, MidOf, NoPrice
<1> QED BY <1>3, <1>4

-----------------------------------------------------------------------------
(* The quoting phases *)

LEMMA BaseOK ==
    ASSUME NEW r, NEW q, RoundOK(r), Base(r, q), q.resting = r.resting,
           r.anchored # NoPrice => q.anchored # NoPrice
    PROVE  RoundOK(q)
BY DEF RoundOK, Base, NoneFilled, Capped, PairsOK, StopsOK

LEMMA CancelEntryBase ==
    ASSUME NEW r \in Window, NEW zone
    PROVE  LET q == CancelEntry(r, zone)
           IN Base(r, q) /\ q.resting = r.resting /\ q.anchored = r.anchored
BY DEF CancelEntry, Window, Base

\* An anchor is latched on a tick that has both asks.
BothAsks(s) == \A l \in Legs : s.book[l].ask # NoPrice

LEMMA AnchorBase ==
    ASSUME NEW r \in Window, NEW s \in Snaps, NEW zone
    PROVE  LET q == Anchor(r, s, zone)
           IN /\ Base(r, q) /\ q.resting = r.resting
              /\ q.anchored = r.anchored \/ (r.anchored = NoPrice /\ BothAsks(s))
              /\ q.anchored \in Int
<1> DEFINE a == AnchorMid(s)
           q == [r EXCEPT !.anchored = a]
<1>1. a \in Int BY MidsInt
<1>2. a # NoPrice => BothAsks(s) BY DEF AnchorMid, BothAsks
<1>3. \/ Anchor(r, s, zone) = r
      \/ Anchor(r, s, zone) = q /\ r.anchored = NoPrice /\ a # NoPrice
    BY DEF Anchor
<1> HIDE DEF a
<1>4. Base(r, q) /\ q.resting = r.resting /\ q.anchored \in Int BY <1>1 DEF Window, Base
<1>5. Base(r, r) /\ r.anchored \in Int BY DEF Window, Base
<1> HIDE DEF q
<1> QED BY <1>2, <1>3, <1>4, <1>5

\* A quote is new as a whole.
Opens(r, q) ==
    /\ \A l \in Legs : r.resting[l] = NoPrice
    /\ \A l \in Legs : OrderPrice(q.resting[l])
    /\ r.anchored # NoPrice /\ NoneFilled(r)

LEMMA QuoteBase ==
    ASSUME NEW r \in Window, NEW s \in Snaps, NEW t, NEW zone
    PROVE  LET q == Quote(r, t, zone, s)
           IN Base(r, q) /\ q.anchored = r.anchored /\ (q.resting = r.resting \/ Opens(r, q))
<1> DEFINE n == [l \in Legs |-> QuoteAt(l, r.anchored)]
           q == [r EXCEPT !.resting = n]
<1>1. \/ Quote(r, t, zone, s) = r
      \/ /\ Quote(r, t, zone, s) = q /\ r.anchored # NoPrice /\ NoneFilled(r)
         /\ \A l \in Legs : r.resting[l] = NoPrice
    BY DEF Quote
<1>2. \A l \in Legs : OrderPrice(QuoteAt(l, r.anchored))
    <2>1. r.anchored \in Int BY DEF Window
    <2>2. \A l \in Legs : (IF l = "UP" THEN r.anchored ELSE Dollar - r.anchored) - Offset \in Int
        BY <2>1, Params DEF Dollar
    <2> QED BY <2>2, Mills DEF QuoteAt
<1>3. n \in [Legs -> Int]
    <2>1. \A l \in Legs : QuoteAt(l, r.anchored) \in Int BY <1>2, OrderPrices
    <2> QED BY <2>1
<1>3a. \A l \in Legs : OrderPrice(n[l]) BY <1>2
<1> HIDE DEF n
<1>4. Base(r, q) /\ q.anchored = r.anchored /\ q.resting = n BY <1>3 DEF Window, Base
<1>5. Base(r, r) BY DEF Base
<1> HIDE DEF q
<1> QED BY <1>1, <1>3a, <1>4, <1>5 DEF Opens

LEMMA QuoteOK ==
    ASSUME NEW r, NEW s \in Snaps, NEW t, NEW zone, RoundOK(r)
    PROVE  RoundOK(Quote(r, t, zone, s))
<1> DEFINE q == Quote(r, t, zone, s)
<1>1. r \in Window BY DEF RoundOK
<1>2. Base(r, q) /\ q.anchored = r.anchored /\ (q.resting = r.resting \/ Opens(r, q))
    BY <1>1, QuoteBase
<1> HIDE DEF q
<1>3. q.resting = r.resting => RoundOK(q) BY <1>2, BaseOK
<1>4. ASSUME Opens(r, q) PROVE RoundOK(q)
    <2>1. \A l \in Legs : Price(q.resting[l]) BY <1>4 DEF Opens, Price
    <2>2. \A l \in Legs : r.original[l] = NoPrice
        <3>1. \A l \in Legs : r.original[l] # NoPrice => r.resting[l] # NoPrice BY DEF RoundOK
        <3> QED BY <1>4, <3>1 DEF Opens
    <2> QED BY <1>2, <1>4, <2>1, <2>2 DEF RoundOK, Opens, Base, NoneFilled, Capped, PairsOK, StopsOK
<1> QED BY <1>2, <1>3, <1>4 DEF q

LEMMA TrackBase ==
    ASSUME NEW r \in Window, NEW s
    PROVE  LET q == TrackDrift(r, s)
           IN Base(r, q) /\ q.resting = r.resting /\ q.anchored = r.anchored
<1>1. PICK b, v : /\ TrackDrift(r, s) = [r EXCEPT !.breached = b, !.reversed = v]
                  /\ b \in [Legs -> BOOLEAN] /\ v \in [Legs -> BOOLEAN]
    <2> DEFINE mid(l) == IF l = "UP" THEN UpMid(s) ELSE Dollar - UpMid(s)
               against(l) == r.entry[l] - mid(l)
               b == [l \in Legs |-> r.breached[l] \/ (Naked(r, l) /\ against(l) >= ExitThresh)]
               v == [l \in Legs |-> r.reversed[l] \/ (Naked(r, l) /\ b[l] /\ against(l) < ExitReversal)]
    <2>1. TrackDrift(r, s) = [r EXCEPT !.breached = b, !.reversed = v] BY DEF TrackDrift
    <2>2. b \in [Legs -> BOOLEAN] /\ v \in [Legs -> BOOLEAN] OBVIOUS
    <2> QED BY <2>1, <2>2, Zenon
<1>2. LET q == [r EXCEPT !.breached = b, !.reversed = v]
      IN Base(r, q) /\ q.resting = r.resting /\ q.anchored = r.anchored
    BY <1>1 DEF Window, Base
<1> QED BY <1>1, <1>2
-----------------------------------------------------------------------------
(* The chase *)

\* Within the cap, or no more than the price it started from and the rounding.
LEMMA CeilingBounded ==
    ASSUME NEW original \in Int, NEW affordable \in Int, affordable % 100 = 0,
           NEW num \in Int, NEW den \in Int, 0 <= num, 0 < den
    PROVE  LET c == ChaseCeiling(original, affordable, num, den)
           IN c \in Int /\ c % 100 = 0 /\ (c <= original + 50 \/ c <= affordable)
<1> DEFINE c == ChaseCeiling(original, affordable, num, den)
<1>0. \A x \in Int : /\ RoundCents(x) \in Int /\ RoundCents(x) % 100 = 0 /\ RoundCents(x) <= x + 50
                     /\ FloorCents(x) \in Int /\ FloorCents(x) % 100 = 0 /\ FloorCents(x) <= x
    BY DEF RoundCents, FloorCents
<1>1. CASE affordable <= original \/ num = 0
    <2>1. c = RoundCents(original) BY <1>1 DEF ChaseCeiling
    <2> QED BY <1>0, <2>1
<1>2. CASE ~(affordable <= original \/ num = 0) /\ num >= den
    <2>1. c = RoundCents(affordable) BY <1>2 DEF ChaseCeiling
    <2>2. RoundCents(affordable) = affordable BY DEF RoundCents
    <2> QED BY <2>1, <2>2
<1>3. CASE ~(affordable <= original \/ num = 0) /\ ~(num >= den)
    <2> DEFINE step == affordable - original
               d == (num * step) \div den
               e == original + d
    <2>1. c = FloorCents(e) BY <1>3 DEF ChaseCeiling
    <2>2. step \in Int /\ 0 < step /\ num < den BY <1>3
    <2>3. d \in Int /\ d <= step
        <3> HIDE DEF step
        <3> QED BY <2>2, PartOfStep
    <2>4. e \in Int /\ e <= affordable
        <3> HIDE DEF d
        <3> QED BY <2>3
    <2> HIDE DEF e
    <2>5. FloorCents(e) \in Int /\ FloorCents(e) % 100 = 0 /\ FloorCents(e) <= e BY <1>0, <2>4
    <2>6. FloorCents(e) <= affordable BY <2>4, <2>5
    <2> QED BY <2>1, <2>5, <2>6
<1> QED BY <1>1, <1>2, <1>3

\* What a chase may pay for the other leg of l.
Payable(r, l, v) ==
    \E c \in Int : /\ v <= c /\ c % 100 = 0
                   /\ c <= r.original[Opp(l)] + 50 \/ c + r.entry[l] <= MaxPairCost

LEMMA TargetBounded ==
    ASSUME NEW r, NEW l \in Legs, NEW s \in Snaps, NEW t \in Int, RoundOK(r), r.filled[l]
    PROVE  ChaseTarget(r, l, s, t) \in Int /\ Payable(r, l, ChaseTarget(r, l, s, t))
<1> DEFINE zoneStart == WindowLen - CutoffSeconds(WindowLen, DeadZone)
           nakedAt == IF r.nakedSince = NoTime THEN t ELSE r.nakedSince
           num == ProgressNum(t, nakedAt, zoneStart)
           den == ProgressDen(nakedAt, zoneStart)
           cap == ChaseCap(MaxPairCost, r.entry[l])
           orig == r.original[Opp(l)]
           ceiling == ChaseCeiling(orig, cap, num, den)
           ask == s.book[Opp(l)].ask
           target == MinOf(ask, ceiling)
<1>1. zoneStart \in Int BY Params DEF CutoffSeconds, MinOf
<1>2. nakedAt \in Int BY DEF RoundOK, Window
<1>3. Opp(l) \in Legs /\ r.entry[l] \in Int /\ orig \in Int /\ ask \in Int /\ orig # NoPrice
    BY OppLeg, Params DEF RoundOK, Window, NoneFilled
<1>4. ChaseTarget(r, l, s, t) = target BY <1>3 DEF ChaseTarget
<1> HIDE DEF zoneStart, nakedAt
<1>5. num \in Int /\ den \in Int /\ 0 <= num /\ 0 < den
    BY <1>1, <1>2 DEF ProgressNum, ProgressDen, MinOf, MaxOf
<1>6. cap \in Int /\ cap % 100 = 0 /\ cap + r.entry[l] <= MaxPairCost
    <2>1. MaxPairCost \in Int /\ MaxPairCost - r.entry[l] \in Int BY <1>3, Params
    <2>2. \A x \in Int : FloorCents(x) \in Int /\ FloorCents(x) % 100 = 0 /\ FloorCents(x) <= x
        BY DEF FloorCents
    <2> QED BY <2>1, <2>2, <1>3 DEF ChaseCap
<1> HIDE DEF num, den, cap, orig, ask
<1>7. ceiling \in Int /\ ceiling % 100 = 0 /\ (ceiling <= orig + 50 \/ ceiling <= cap)
    BY <1>3, <1>5, <1>6, CeilingBounded
<1> HIDE DEF ceiling
<1>8. target \in Int /\ target <= ceiling BY <1>3, <1>7 DEF MinOf
<1> HIDE DEF target
<1>9. ceiling <= orig + 50 \/ ceiling + r.entry[l] <= MaxPairCost
    <2> SUFFICES ASSUME ceiling <= cap PROVE ceiling + r.entry[l] <= MaxPairCost
        BY <1>7
    <2>1. ceiling \in Int /\ cap \in Int /\ r.entry[l] \in Int BY <1>3, <1>6, <1>7
    <2>2. cap + r.entry[l] <= MaxPairCost BY <1>6
    <2>3. MaxPairCost \in Int BY Params
    <2> QED BY <2>1, <2>2, <2>3
<1> QED BY <1>4, <1>7, <1>8, <1>9 DEF Payable, orig

LEMMA MillsKeepOrder ==
    /\ \A x, y \in Int : x <= y => RoundMills(x) <= RoundMills(y)
    /\ \A y \in Int : y % 10 = 0 => RoundMills(y) = y
    /\ \A y \in Int : y % 100 = 0 => y % 10 = 0
BY DEF RoundMills

\* The order that a chase from price old to price v places.
LEMMA ChasedPrice ==
    ASSUME NEW old, OrderPrice(old), NEW v \in Int, v > old
    PROVE  LET p == RoundMills(ClampQuote(v))
           IN /\ OrderPrice(p) /\ p >= old
              /\ \A c \in Int : v <= c /\ c % 100 = 0 => p <= c
<1> DEFINE y == ClampQuote(v)
<1>1. old \in Int /\ 100 <= old /\ old <= 9900 /\ old % 10 = 0 BY DEF OrderPrice
<1>2. y \in Int /\ y <= v /\ old <= y BY <1>1 DEF ClampQuote, MinOf, MaxOf
<1>3. OrderPrice(RoundMills(y)) BY Mills
<1> HIDE DEF y
<1>4. RoundMills(old) <= RoundMills(y) /\ RoundMills(old) = old BY <1>1, <1>2, MillsKeepOrder
<1>5. ASSUME NEW c \in Int, v <= c, c % 100 = 0 PROVE RoundMills(y) <= c
    <2>1. RoundMills(c) = c BY <1>5, MillsKeepOrder
    <2>2. y <= c BY <1>2, <1>5
    <2>3. RoundMills(y) <= RoundMills(c) BY <1>2, <2>2, MillsKeepOrder
    <2> QED BY <2>1, <2>3
<1> QED BY <1>3, <1>4, <1>5 DEF y

\* What the chase does to a leg's quote.
Raised(r, q, l) ==
    /\ r.filled[Opp(l)] /\ ~r.filled[l] /\ r.resting[l] # NoPrice
    /\ OrderPrice(q.resting[l]) /\ q.resting[l] >= r.resting[l]
    /\ q.resting[Opp(l)] = r.resting[Opp(l)]
    /\ \/ q.resting[l] <= r.original[l] + 50
       \/ q.resting[l] + r.entry[Opp(l)] <= MaxPairCost

LEMMA ChaseBase ==
    ASSUME NEW r, NEW s \in Snaps, NEW t \in Int, RoundOK(r)
    PROVE  LET q == Chase(r, s, t)
           IN /\ Base(r, q) /\ q.anchored = r.anchored
              /\ \A l \in Legs : q.resting[l] = r.resting[l] \/ Raised(r, q, l)
<1> DEFINE price(l) == RoundMills(ClampQuote(ChaseTarget(r, Opp(l), s, t)))
           n == [l \in Legs |-> IF l \in Chased(r, s, t) THEN price(l) ELSE r.resting[l]]
           q == [r EXCEPT !.resting = n]
<1>0. r \in Window BY DEF RoundOK
<1>1. Chase(r, s, t) = q BY DEF Chase
<1>2. \A l \in Legs : l \in Chased(r, s, t) =>
        /\ r.filled[Opp(l)] /\ ~r.filled[l] /\ r.resting[l] # NoPrice
        /\ ChaseTarget(r, Opp(l), s, t) > r.resting[l]
    BY OppLeg DEF Chased, Chases, Naked
<1>3. ASSUME NEW l \in Legs, l \in Chased(r, s, t)
      PROVE  /\ OrderPrice(price(l)) /\ price(l) >= r.resting[l]
             /\ \/ price(l) <= r.original[l] + 50
                \/ price(l) + r.entry[Opp(l)] <= MaxPairCost
    <2> DEFINE v == ChaseTarget(r, Opp(l), s, t)
    <2>1. OrderPrice(r.resting[l]) BY <1>2, <1>3 DEF RoundOK, Price
    <2>2. Opp(l) \in Legs /\ Opp(Opp(l)) = l BY OppLeg
    <2>3. v \in Int /\ Payable(r, Opp(l), v) /\ v > r.resting[l]
        BY <1>2, <1>3, <2>2, TargetBounded
    <2> HIDE DEF v
    <2>4. PICK c \in Int : /\ v <= c /\ c % 100 = 0
                           /\ c <= r.original[l] + 50 \/ c + r.entry[Opp(l)] <= MaxPairCost
        BY <2>2, <2>3 DEF Payable
    <2> DEFINE p == RoundMills(ClampQuote(v))
    <2>5. OrderPrice(p) /\ p >= r.resting[l] /\ p <= c BY <2>1, <2>3, <2>4, ChasedPrice
    <2> HIDE DEF p
    <2>6. /\ p \in Int /\ r.original[l] \in Int /\ r.entry[Opp(l)] \in Int /\ MaxPairCost \in Int
        BY <1>0, <2>2, <2>5, OrderPrices, Params DEF Window
    <2>7. p <= r.original[l] + 50 \/ p + r.entry[Opp(l)] <= MaxPairCost
        BY <2>4, <2>5, <2>6
    <2> QED BY <2>5, <2>7 DEF p, v
<1>4. \A l \in Legs : n[l] \in Int
    <2>1. \A l \in Legs : l \in Chased(r, s, t) => price(l) \in Int BY <1>3, OrderPrices
    <2> HIDE DEF price
    <2> QED BY <1>0, <2>1 DEF Window
<1>5. \A l \in Legs : n[l] = r.resting[l] \/ (l \in Chased(r, s, t) /\ n[l] = price(l))
    OBVIOUS
<1>6. \A l \in Legs : l \in Chased(r, s, t) => n[Opp(l)] = r.resting[Opp(l)]
    BY <1>2, <1>5, OppLeg
<1>7. n \in [Legs -> Int] BY <1>4
<1> HIDE DEF n, price
<1>8. Base(r, q) /\ q.anchored = r.anchored /\ q.resting = n BY <1>0, <1>7 DEF Window, Base
<1> HIDE DEF q
<1>9. \A l \in Legs : q.resting[l] = r.resting[l] \/ Raised(r, q, l)
    BY <1>2, <1>3, <1>5, <1>6, <1>8 DEF Raised
<1> QED BY <1>1, <1>8, <1>9

LEMMA ChaseOK ==
    ASSUME NEW r, NEW s \in Snaps, NEW t \in Int, RoundOK(r)
    PROVE  RoundOK(Chase(r, s, t))
<1> DEFINE q == Chase(r, s, t)
<1>1. /\ Base(r, q) /\ q.anchored = r.anchored
      /\ \A l \in Legs : q.resting[l] = r.resting[l] \/ Raised(r, q, l)
    BY ChaseBase
<1> HIDE DEF q
<1>2. \A l \in Legs : Price(q.resting[l]) BY <1>1 DEF RoundOK, Raised, Price
<1>3. \A l \in Legs : r.filled[l] => q.entry[l] = q.resting[l]
    BY <1>1 DEF RoundOK, Raised, Base
<1>4. \A l \in Legs : (q.resting[l] = NoPrice) <=> (r.resting[l] = NoPrice)
    BY <1>1, OrderPrices DEF Raised
<1>5. ASSUME NEW l \in Legs, r.original[l] # NoPrice PROVE Capped(q, l)
    <2>0. Opp(l) \in Legs BY OppLeg
    <2>1. CASE Raised(r, q, l)
        BY <1>1, <2>0, <2>1 DEF Raised, Capped, RoundOK, Base
    <2>2. CASE q.resting[l] = r.resting[l]
        \* A leg is only ever raised beside a filled one, whose own quote stands.
        <3>1. Capped(r, l) BY <1>5 DEF RoundOK
        <3>2. r.filled[Opp(l)] => q.resting[Opp(l)] = r.resting[Opp(l)]
            BY <1>1, <2>0 DEF Raised
        <3> QED BY <1>1, <2>2, <3>1, <3>2 DEF Capped, Base
    <2> QED BY <1>1, <2>1, <2>2
<1>6. RoundOK(q)
    BY <1>1, <1>2, <1>3, <1>4, <1>5 DEF RoundOK, Base, NoneFilled, PairsOK, StopsOK
<1> QED BY <1>6 DEF q

-----------------------------------------------------------------------------
(* The fills *)

\* Legs are taken at their quotes, none for the first time in the dead zone.
Fills(r, q, zone) ==
    /\ q \in Window /\ q.anchored = r.anchored /\ q.resting = r.resting
    /\ q.pairs = r.pairs /\ q.stops = r.stops
    /\ \A l \in Legs : r.filled[l] => q.filled[l] /\ q.entry[l] = r.entry[l]
    /\ \A l \in Legs : q.filled[l] /\ ~r.filled[l] => q.entry[l] = r.resting[l]
    /\ zone /\ NoneFilled(r) => NoneFilled(q)
    /\ \/ q.original = r.original /\ q.filled = r.filled
       \/ \A l \in Legs : /\ r.resting[l] # NoPrice
                          /\ q.original[l] = IF r.original[l] = NoPrice THEN r.resting[l]
                                             ELSE r.original[l]

LEMMA FillFills ==
    ASSUME NEW r, NEW s, NEW zone \in BOOLEAN, NEW new, RoundOK(r)
    PROVE  Fills(r, Fill(r, s, zone, new), zone)
<1> DEFINE can == {l \in Legs : CanFill(r, l, s, zone)}
           got == {l \in can : Takes(r, l, s, ~r.live \/ l \in new)}
           out == can # {} \/ ~NoneFilled(r)
           v == r.live \/ out
           n == r.entered \/ out
           o == [l \in Legs |-> IF out /\ r.original[l] = NoPrice THEN r.resting[l] ELSE r.original[l]]
           f == [l \in Legs |-> r.filled[l] \/ l \in got]
           e == [l \in Legs |-> IF l \in got THEN r.resting[l] ELSE r.entry[l]]
           q == [r EXCEPT !.live = v, !.entered = n, !.original = o, !.filled = f, !.entry = e]
<1>0. r \in Window BY DEF RoundOK
<1>1. Fill(r, s, zone, new) = q BY DEF Fill
<1>2. \A l \in got : /\ ~r.filled[l] /\ out /\ ~(zone /\ NoneFilled(r))
    BY OppLeg DEF CanFill, NoneFilled
<1>3. out => \A l \in Legs : r.resting[l] # NoPrice
    <2>1. can # {} => \A l \in Legs : r.resting[l] # NoPrice BY DEF CanFill, Quotable
    <2>2. ~NoneFilled(r) => \A l \in Legs : r.resting[l] # NoPrice BY DEF RoundOK
    <2> QED BY <2>1, <2>2
<1>4. r.live \in BOOLEAN /\ r.entered \in BOOLEAN /\ out \in BOOLEAN BY <1>0 DEF Window
<1>5. \A l \in Legs : r.original[l] \in Int /\ r.resting[l] \in Int /\ r.entry[l] \in Int /\ r.filled[l] \in BOOLEAN
    BY <1>0 DEF Window
<1> HIDE DEF can, got, out
<1>6. v \in BOOLEAN /\ n \in BOOLEAN BY <1>4
<1>7. o \in [Legs -> Int] /\ f \in [Legs -> BOOLEAN] /\ e \in [Legs -> Int] BY <1>5
<1>8. /\ \A l \in Legs : r.filled[l] => f[l] /\ e[l] = r.entry[l]
      /\ \A l \in Legs : f[l] /\ ~r.filled[l] => e[l] = r.resting[l]
      /\ zone /\ NoneFilled(r) => \A l \in Legs : ~f[l]
    BY <1>2, <1>5 DEF NoneFilled
<1>9. \/ o = r.original /\ f = r.filled
      \/ \A l \in Legs : /\ r.resting[l] # NoPrice
                         /\ o[l] = IF r.original[l] = NoPrice THEN r.resting[l] ELSE r.original[l]
    <2>1. CASE out BY <1>3, <2>1
    <2>2. CASE ~out
        <3>1. r.original \in [Legs -> Int] /\ r.filled \in [Legs -> BOOLEAN] BY <1>0 DEF Window
        <3>2. \A l \in Legs : o[l] = r.original[l] BY <2>2
        <3>3. \A l \in Legs : f[l] = r.filled[l] BY <1>2, <1>5, <2>2
        <3> HIDE DEF o, f
        <3> QED BY <1>7, <3>1, <3>2, <3>3
    <2> QED BY <2>1, <2>2
<1> HIDE DEF v, n, o, f, e
<1>10. /\ q \in Window /\ q.anchored = r.anchored /\ q.resting = r.resting
       /\ q.pairs = r.pairs /\ q.stops = r.stops
       /\ q.original = o /\ q.filled = f /\ q.entry = e
    BY <1>0, <1>6, <1>7 DEF Window
<1> HIDE DEF q
<1>11. Fills(r, q, zone) BY <1>8, <1>9, <1>10 DEF Fills, NoneFilled
<1> QED BY <1>1, <1>11

LEMMA FillOK ==
    ASSUME NEW r, NEW q, NEW zone, RoundOK(r), Fills(r, q, zone)
    PROVE  RoundOK(q)
<1>0. \A l \in Legs : r.resting[l] \in Int BY DEF RoundOK, Window
<1>1. \A l \in Legs : q.filled[l] => q.entry[l] = q.resting[l] BY DEF RoundOK, Fills
<1>2. \A l \in Legs : q.original[l] = r.original[l] \/ q.original[l] = q.resting[l] BY DEF Fills
<1>3. \A l, x \in Legs : q.original[l] # NoPrice => q.resting[x] # NoPrice BY DEF RoundOK, Fills
<1>4. ~NoneFilled(q) => \A l \in Legs : q.original[l] # NoPrice
    BY DEF RoundOK, Fills, NoneFilled
<1>5. ASSUME NEW l \in Legs, q.original[l] # NoPrice PROVE Capped(q, l)
    <2>1. CASE q.original[l] = q.resting[l] BY <1>0, <2>1 DEF Capped, Fills
    <2>2. CASE q.original[l] = r.original[l]
        BY <1>5, <2>2, OppLeg DEF Capped, RoundOK, Fills
    <2> QED BY <1>2, <2>1, <2>2
<1> QED BY <1>1, <1>3, <1>4, <1>5 DEF RoundOK, Fills, PairsOK, StopsOK

-----------------------------------------------------------------------------
(* How a round ends *)

Forgets(r, q) ==
    /\ q \in Window /\ q.pairs = r.pairs /\ q.stops = r.stops /\ q.anchored = NoPrice
    /\ \A l \in Legs : ~q.filled[l] /\ q.resting[l] = NoPrice /\ q.original[l] = NoPrice

LEMMA ResetForgets == ASSUME NEW r \in Window PROVE Forgets(r, ResetRound(r))
<1> DEFINE f == BothLegs(FALSE)
           n == BothLegs(NoPrice)
           q == [r EXCEPT !.live = FALSE, !.anchored = NoPrice, !.resting = n, !.original = n,
                          !.filled = f, !.entry = n, !.nakedSince = NoTime,
                          !.breached = f, !.reversed = f]
<1>1. NoPrice \in Int /\ NoTime \in Int BY DEF NoPrice, NoTime
<1>2. f \in [Legs -> BOOLEAN] /\ n \in [Legs -> Int] BY <1>1, Flat
<1>3. \A l \in Legs : ~f[l] /\ n[l] = NoPrice BY BothAre
<1>4. ResetRound(r) = q BY DEF ResetRound
<1> HIDE DEF f, n
<1>5. /\ q \in Window /\ q.pairs = r.pairs /\ q.stops = r.stops /\ q.anchored = NoPrice
      /\ q.filled = f /\ q.resting = n /\ q.original = n
    BY <1>1, <1>2 DEF Window
<1> HIDE DEF q
<1>6. Forgets(r, q) BY <1>3, <1>5 DEF Forgets
<1> QED BY <1>4, <1>6

LEMMA ForgetsOK ==
    ASSUME NEW r, NEW q, Forgets(r, q), PairsOK(r), StopsOK(r)
    PROVE  RoundOK(q) /\ NoneFilled(q)
BY DEF Forgets, RoundOK, NoneFilled, PairsOK, StopsOK, Price

PairEntry == [cost : Int, original : [Legs -> Int], entry : [Legs -> Int]]
StopEntry == [kind : Kinds, side : Legs, entry : Int, exit : Int, pnl : Int]

\* What is appended is found at the end, and nothing else changes.
LEMMA Appended ==
    ASSUME NEW S, NEW seq \in Seq(S), NEW x \in S
    PROVE  LET a == Append(seq, x)
           IN /\ a \in Seq(S) /\ Len(a) = Len(seq) + 1 /\ a # seq
              /\ DOMAIN seq = 1 .. Len(seq) /\ DOMAIN a = DOMAIN seq \cup {Len(seq) + 1}
              /\ Len(seq) + 1 \notin DOMAIN seq /\ Len(seq) \in Nat
              /\ a[Len(seq) + 1] = x
              /\ \A i \in DOMAIN seq : a[i] = seq[i]
<1> DEFINE a == Append(seq, x)
           n == Len(seq)
<1>1. n \in Nat /\ DOMAIN seq = 1 .. n BY LenProperties
<1>2. /\ a \in Seq(S) /\ Len(a) = n + 1 /\ a[n + 1] = x
      /\ \A i \in 1 .. n : a[i] = seq[i]
    BY AppendProperties
<1>3. DOMAIN a = 1 .. n + 1 BY <1>2, LenProperties
<1>4. a = seq => Len(a) = n OBVIOUS
<1> HIDE DEF a, n
<1>4a. a # seq BY <1>1, <1>2, <1>4
<1>5. 1 .. n + 1 = 1 .. n \cup {n + 1} /\ n + 1 \notin 1 .. n BY <1>1
<1>6. /\ a \in Seq(S) /\ Len(a) = n + 1 /\ a # seq
      /\ DOMAIN seq = 1 .. n /\ DOMAIN a = DOMAIN seq \cup {n + 1}
      /\ n + 1 \notin DOMAIN seq /\ n \in Nat
      /\ a[n + 1] = x
      /\ \A i \in DOMAIN seq : a[i] = seq[i]
    BY <1>1, <1>2, <1>3, <1>4a, <1>5
<1> QED BY <1>6 DEF a, n

\* The round ends as a pair, and the window has one more.
Pairs(r, q) ==
    /\ NoneFilled(q) /\ q.stops = r.stops /\ q.pairs # r.pairs
    /\ Len(q.pairs) = Len(r.pairs) + 1

LEMMA CompletePairPairs ==
    ASSUME NEW r, RoundOK(r), AllFilled(r)
    PROVE  RoundOK(CompletePair(r)) /\ Pairs(r, CompletePair(r)) /\ CompletePair(r).anchored = NoPrice
<1> DEFINE cost == r.resting["UP"] + r.resting["DOWN"]
           x == [cost |-> cost, original |-> r.original, entry |-> r.entry]
           a == Append(r.pairs, x)
           n == r.pnl + Dollar - cost
           c == [r EXCEPT !.pairs = a, !.pnl = n]
           q == ResetRound(c)
<1>0. r \in Window BY DEF RoundOK
<1>1. CompletePair(r) = q BY <1>0 DEF CompletePair, Window
<1>2. /\ \A l \in Legs : r.resting[l] \in Int /\ r.original[l] \in Int /\ r.entry[l] = r.resting[l]
      /\ r.original \in [Legs -> Int] /\ r.entry \in [Legs -> Int]
    BY <1>0 DEF RoundOK, AllFilled, Window
<1>3. cost \in Int /\ \A l \in Legs : cost = r.resting[l] + r.resting[Opp(l)]
    BY <1>2 DEF Legs, Opp
<1>4. \A l \in Legs : cost <= MaxPairCost \/ x.entry[l] <= x.original[l] + 50
    <2>1. \A l \in Legs : Capped(r, l) BY DEF RoundOK, NoneFilled, AllFilled, Legs
    <2>2. x.entry = r.entry /\ x.original = r.original OBVIOUS
    <2> HIDE DEF x, cost
    <2> QED BY <1>2, <1>3, <2>1, <2>2 DEF Capped
<1>5. x \in PairEntry /\ x.cost = cost BY <1>2, <1>3 DEF PairEntry
<1>6. n \in Int BY <1>0, <1>3 DEF Window, Dollar
<1>7. r.pairs \in Seq(PairEntry) BY <1>0 DEF Window, PairEntry
<1> HIDE DEF cost, x, n
<1>8. /\ a \in Seq(PairEntry) /\ Len(a) = Len(r.pairs) + 1 /\ a # r.pairs
      /\ DOMAIN a = DOMAIN r.pairs \cup {Len(r.pairs) + 1} /\ a[Len(r.pairs) + 1] = x
      /\ \A i \in DOMAIN r.pairs : a[i] = r.pairs[i]
    BY <1>5, <1>7, Appended
<1>9. \A i \in DOMAIN a : \A l \in Legs : a[i].cost <= MaxPairCost \/ a[i].entry[l] <= a[i].original[l] + 50
    BY <1>4, <1>5, <1>8 DEF RoundOK, PairsOK
<1> HIDE DEF a
<1>10. c \in Window /\ c.pairs = a /\ c.stops = r.stops
    BY <1>0, <1>6, <1>8 DEF Window, PairEntry
<1> HIDE DEF c
<1>11. PairsOK(c) /\ StopsOK(c) BY <1>9, <1>10 DEF PairsOK, StopsOK, RoundOK
<1>12. Forgets(c, q) BY <1>10, ResetForgets
<1> HIDE DEF q
<1>13. RoundOK(q) /\ NoneFilled(q) BY <1>11, <1>12, ForgetsOK
<1> QED BY <1>1, <1>8, <1>10, <1>12, <1>13 DEF Pairs, Forgets

\* A leg filled alone was sold at a bid that was there, and recorded.
Sells(r, q, l) ==
    /\ NoneFilled(q) /\ q.pairs = r.pairs /\ q.anchored = NoPrice
    /\ \E x \in StopEntry : x.side = l /\ x.kind # "settle" /\ q.stops = Append(r.stops, x)

LEMMA SellLegSells ==
    ASSUME NEW r, NEW l \in Legs, NEW bid \in Int, NEW kind \in {"stop", "dead_zone_close"},
           RoundOK(r), Paid(kind, l, bid)
    PROVE  RoundOK(SellLeg(r, l, bid, kind)) /\ Sells(r, SellLeg(r, l, bid, kind), l)
<1> DEFINE x == [kind |-> kind, side |-> l, entry |-> r.resting[l],
                 exit |-> bid, pnl |-> bid - r.resting[l]]
           a == Append(r.stops, x)
           n == r.pnl + bid - r.resting[l]
           f == Append(r.fees, bid)
           c == [r EXCEPT !.stops = a, !.pnl = n, !.fees = f]
           q == ResetRound(c)
<1>0. r \in Window BY DEF RoundOK
<1>1. SellLeg(r, l, bid, kind) = q BY <1>0 DEF SellLeg, Window
<1>2. r.resting[l] \in Int /\ r.pnl \in Int BY <1>0 DEF Window
<1>3. x \in StopEntry /\ x.side = l /\ x.kind # "settle" /\ x.kind = kind /\ x.exit = bid
    BY <1>2 DEF StopEntry, Kinds
<1>4. n \in Int BY <1>2
<1>5. r.stops \in Seq(StopEntry) /\ r.fees \in Seq(Int) BY <1>0 DEF Window, StopEntry
<1>6. f \in Seq(Int) BY <1>5, Appended
<1> HIDE DEF x, n, f
<1>7. /\ a \in Seq(StopEntry)
      /\ DOMAIN a = DOMAIN r.stops \cup {Len(r.stops) + 1} /\ a[Len(r.stops) + 1] = x
      /\ \A i \in DOMAIN r.stops : a[i] = r.stops[i]
    BY <1>3, <1>5, Appended
<1>8. \A i \in DOMAIN a : Paid(a[i].kind, a[i].side, a[i].exit) BY <1>3, <1>7 DEF RoundOK, StopsOK
<1>9. a = Append(r.stops, x) OBVIOUS
<1> HIDE DEF a
<1>10. c \in Window /\ c.stops = a /\ c.pairs = r.pairs
    BY <1>0, <1>4, <1>6, <1>7 DEF Window, StopEntry
<1> HIDE DEF c
<1>11. PairsOK(c) /\ StopsOK(c) BY <1>8, <1>10 DEF PairsOK, StopsOK, RoundOK
<1>12. Forgets(c, q) BY <1>10, ResetForgets
<1> HIDE DEF q
<1>13. RoundOK(q) /\ NoneFilled(q) BY <1>11, <1>12, ForgetsOK
<1>14. q.pairs = r.pairs /\ q.stops = Append(r.stops, x) /\ q.anchored = NoPrice
    BY <1>9, <1>10, <1>12 DEF Forgets
<1>15. Sells(r, q, l) BY <1>3, <1>13, <1>14 DEF Sells
<1> QED BY <1>1, <1>13, <1>15

\* The round goes on as it was.
Goes(r, q) ==
    /\ Base(r, q) /\ q.resting = r.resting /\ q.anchored = r.anchored

LEMMA NakedClockGoes ==
    ASSUME NEW r \in Window, NEW t \in Int
    PROVE  Goes(r, NakedClock(r, t))
<1> DEFINE n == IF NoneFilled(r) THEN NoTime ELSE IF r.nakedSince = NoTime THEN t ELSE r.nakedSince
           q == [r EXCEPT !.nakedSince = n]
<1>1. NakedClock(r, t) = q BY DEF NakedClock, Window
<1>2. n \in Int BY DEF Window, NoTime
<1> HIDE DEF n
<1>3. Goes(r, q) BY <1>2 DEF Goes, Base, Window
<1> QED BY <1>1, <1>3

\* A tick's exits: a leg naked in the dead zone is left open only without a bid.
LEMMA ExitsSell ==
    ASSUME NEW r, NEW s \in Snaps, NEW zone \in BOOLEAN, RoundOK(r), ~AllFilled(r)
    PROVE  LET q == Exits(r, s, zone)
           IN /\ RoundOK(q)
              /\ \/ /\ Goes(r, q)
                    /\ \A l \in Legs : q.filled[l] /\ zone /\ NakedAtExpiry = "close" =>
                           s.book[l].bid = NoPrice
                 \/ \E l \in Legs : Naked(r, l) /\ Sells(r, q, l)
<1> DEFINE cut   == {l \in Legs : zone /\ Naked(r, l)}
           c     == [r EXCEPT !.cancelled = TRUE]
           after == IF cut # {} THEN c ELSE r
           close == {l \in cut : NakedAtExpiry = "close" /\ s.book[l].bid # NoPrice}
           stop  == {l \in Legs : StopTriggered(r, l, s)}
           q     == Exits(r, s, zone)
<1>0. r \in Window BY DEF RoundOK
<1>1. Goes(r, c) /\ Goes(r, r) BY <1>0 DEF Goes, Base, Window
<1>2. Goes(r, after) BY <1>1
<1>3. RoundOK(after) /\ after.pairs = r.pairs /\ after.stops = r.stops /\ after.filled = r.filled
    BY <1>2, BaseOK DEF Goes, Base
<1>4. q = IF close # {} THEN LET l == CHOOSE x \in close : TRUE
                             IN SellLeg(after, l, s.book[l].bid, "dead_zone_close")
          ELSE IF stop # {} THEN LET l == CHOOSE x \in stop : TRUE
                                 IN SellLeg(after, l, s.book[l].bid, "stop")
          ELSE after
    BY DEF Exits
<1>5. \A l \in close : l \in Legs /\ Naked(r, l) /\ Paid("dead_zone_close", l, s.book[l].bid)
    BY DEF Paid
<1>6. \A l \in stop : l \in Legs /\ Naked(r, l) /\ Paid("stop", l, s.book[l].bid)
    BY DEF StopTriggered, HasBid, Paid, ZeroRecorded
<1>7. close = {} => \A l \in Legs : r.filled[l] /\ zone /\ NakedAtExpiry = "close" => s.book[l].bid = NoPrice
    BY OppLeg DEF AllFilled, Naked, Legs, Opp
<1> HIDE DEF after, close, stop, cut, c, q
<1>8. ASSUME NEW l \in Legs, NEW kind \in {"stop", "dead_zone_close"}, Naked(r, l), Paid(kind, l, s.book[l].bid),
             q = SellLeg(after, l, s.book[l].bid, kind)
      PROVE  RoundOK(q) /\ \E y \in Legs : Naked(r, y) /\ Sells(r, q, y)
    <2>1. s.book[l].bid \in Int BY Params
    <2>2. RoundOK(q) /\ Sells(after, q, l) BY <1>3, <1>8, <2>1, SellLegSells
    <2>3. Sells(r, q, l) BY <1>3, <2>2 DEF Sells
    <2> QED BY <1>8, <2>2, <2>3
<1>9. CASE close # {}
    <2>1. PICK l \in close : q = SellLeg(after, l, s.book[l].bid, "dead_zone_close")
        BY <1>4, <1>9
    <2>2. RoundOK(q) /\ \E y \in Legs : Naked(r, y) /\ Sells(r, q, y) BY <1>5, <1>8, <2>1
    <2> QED BY <2>2 DEF q
<1>10. CASE close = {} /\ stop # {}
    <2>1. PICK l \in stop : q = SellLeg(after, l, s.book[l].bid, "stop")
        BY <1>4, <1>10
    <2>2. RoundOK(q) /\ \E y \in Legs : Naked(r, y) /\ Sells(r, q, y) BY <1>6, <1>8, <2>1
    <2> QED BY <2>2 DEF q
<1>11. CASE close = {} /\ stop = {}
    <2>1. q = after BY <1>4, <1>11
    <2>2. \A l \in Legs : q.filled[l] /\ zone /\ NakedAtExpiry = "close" => s.book[l].bid = NoPrice
        BY <1>3, <1>7, <1>11, <2>1
    <2> QED BY <1>2, <1>3, <2>1, <2>2 DEF q
<1> QED BY <1>9, <1>10, <1>11

-----------------------------------------------------------------------------
(* The body of the loop *)

\* Up to the fill, a quote moves only up and only beside a leg that is filled.
Kept(r, q, s) ==
    /\ q.pairs = r.pairs /\ q.stops = r.stops
    /\ \A l \in Legs : r.resting[l] # NoPrice /\ q.resting[l] # r.resting[l] =>
           q.resting[l] > r.resting[l] /\ r.filled[Opp(l)] /\ ~r.filled[l]
    /\ q.anchored # NoPrice => r.anchored # NoPrice \/ BothAsks(s)

Untaken(r, q) == q.filled = r.filled /\ q.entry = r.entry

LEMMA QuotedKeeps ==
    ASSUME NEW r, NEW s \in Snaps, NEW t \in Int, NEW zone, RoundOK(r)
    PROVE  LET q == Quote(Anchor(CancelEntry(r, zone), s, zone), t, zone, s)
           IN RoundOK(q) /\ Untaken(r, q) /\ Kept(r, q, s)
<1> DEFINE c == CancelEntry(r, zone)
           a == Anchor(c, s, zone)
           q == Quote(a, t, zone, s)
<1>1. Base(r, c) /\ c.resting = r.resting /\ c.anchored = r.anchored
    BY CancelEntryBase DEF RoundOK
<1> HIDE DEF c
<1>2. RoundOK(c) /\ c \in Window BY <1>1, BaseOK DEF RoundOK
<1>3. /\ Base(c, a) /\ a.resting = c.resting
      /\ a.anchored = c.anchored \/ (c.anchored = NoPrice /\ BothAsks(s))
    BY <1>2, AnchorBase
<1> HIDE DEF a
<1>4. RoundOK(a) /\ a \in Window BY <1>2, <1>3, BaseOK DEF RoundOK
<1>5. Base(a, q) /\ q.anchored = a.anchored /\ (q.resting = a.resting \/ Opens(a, q))
    BY <1>4, QuoteBase
<1>6. RoundOK(q) BY <1>4, QuoteOK
<1> HIDE DEF q
<1>7. Untaken(r, q) BY <1>1, <1>3, <1>5 DEF Untaken, Base
<1>8. Kept(r, q, s) BY <1>1, <1>3, <1>5 DEF Kept, Base, Opens
<1> QED BY <1>6, <1>7, <1>8 DEF q, a, c

LEMMA ChasedKeeps ==
    ASSUME NEW r, NEW s \in Snaps, NEW t \in Int, RoundOK(r)
    PROVE  LET q == Chase(TrackDrift(r, s), s, t)
           IN RoundOK(q) /\ Untaken(r, q) /\ Kept(r, q, s)
<1> DEFINE d == TrackDrift(r, s)
           q == Chase(d, s, t)
<1>0. r \in Window BY DEF RoundOK
<1>1. Base(r, d) /\ d.resting = r.resting /\ d.anchored = r.anchored BY <1>0, TrackBase
<1> HIDE DEF d
<1>2. RoundOK(d) BY <1>1, BaseOK
<1>3. /\ Base(d, q) /\ q.anchored = d.anchored
      /\ \A l \in Legs : q.resting[l] = d.resting[l] \/ Raised(d, q, l)
    BY <1>2, ChaseBase
<1>4. RoundOK(q) BY <1>2, ChaseOK
<1> HIDE DEF q
<1>5. Untaken(r, q) BY <1>1, <1>3 DEF Untaken, Base
<1>6. \A l \in Legs : r.resting[l] \in Int /\ q.resting[l] \in Int BY <1>0, <1>4 DEF RoundOK, Window
<1>7. Kept(r, q, s) BY <1>1, <1>3, <1>6 DEF Kept, Base, Raised
<1> QED BY <1>4, <1>5, <1>7 DEF q, d

\* A leg that is filled stays so, at the price it was filled at.
Holds(r, q) == \A l \in Legs : r.filled[l] => q.filled[l] /\ q.entry[l] = r.entry[l]

\* A round is paired, or a leg filled alone is sold: neither opens in the dead zone.
Paired(r, q) == Pairs(r, q) /\ q.anchored = NoPrice
SoldOut(r, q) == \E l \in Legs : Sells(r, q, l) /\ \A x \in Legs : r.filled[x] => x = l

\* What the body of the loop does to a round.
Steps(r, q, s, zone) ==
    /\ RoundOK(q) /\ ~AllFilled(q)
    /\ q.anchored # NoPrice => r.anchored # NoPrice \/ BothAsks(s)
    /\ \/ Kept(r, q, s) /\ Holds(r, q) /\ (zone /\ NoneFilled(r) => NoneFilled(q))
       \/ (Paired(r, q) \/ SoldOut(r, q)) /\ ~(zone /\ NoneFilled(r))

\* A leg left open on a tick of the dead zone that has a price had no bid to be sold at.
NoBidLeft(q, s, zone) ==
    zone /\ NakedAtExpiry = "close" /\ UpMid(s) # NoPrice =>
        \A l \in Legs : q.filled[l] => s.book[l].bid = NoPrice

LEMMA NotAll == \A r : NoneFilled(r) => ~AllFilled(r)
BY DEF NoneFilled, AllFilled, Legs

LEMMA KeptOnwards ==
    ASSUME NEW r, NEW q, NEW x, NEW s, RoundOK(r), RoundOK(q), RoundOK(x),
           Kept(r, q, s), Untaken(r, q), Kept(q, x, s)
    PROVE  Kept(r, x, s)
<1>1. \A l \in Legs : r.resting[l] \in Int /\ q.resting[l] \in Int /\ x.resting[l] \in Int
    BY DEF RoundOK, Window
<1>2. \A l \in Legs : r.resting[l] # NoPrice => q.resting[l] # NoPrice
    <2>1. \A l \in Legs : Price(r.resting[l]) BY DEF RoundOK
    <2>2. \A l \in Legs : r.resting[l] # NoPrice => r.resting[l] > 0 BY <2>1, OrderPrices DEF Price
    <2> QED BY <1>1, <2>2 DEF Kept, NoPrice
<1> QED BY <1>1, <1>2 DEF Kept, Untaken

\* A tick from the fill on.
LEMMA FilledSteps ==
    ASSUME NEW r, NEW c, NEW s \in Snaps, NEW t \in Int, NEW zone \in BOOLEAN, NEW new,
           RoundOK(r), RoundOK(c), ~AllFilled(r), Kept(r, c, s), Untaken(r, c)
    PROVE  LET f == Fill(c, s, zone, new)
               q == IF \A l \in Legs : f.filled[l] THEN CompletePair(f)
                    ELSE Exits(NakedClock(f, t), s, zone)
           IN Steps(r, q, s, zone) /\ NoBidLeft(q, s, zone)
<1> DEFINE f == Fill(c, s, zone, new)
           n == NakedClock(f, t)
           e == Exits(n, s, zone)
           p == CompletePair(f)
           q == IF AllFilled(f) THEN p ELSE e
<1> SUFFICES Steps(r, q, s, zone) /\ NoBidLeft(q, s, zone)
    BY DEF AllFilled
<1>1. Fills(c, f, zone) BY FillFills
<1> HIDE DEF f, q
<1>2. RoundOK(f) BY <1>1, FillOK
<1>3. Kept(r, f, s) BY <1>1 DEF Kept, Fills
<1>4. Holds(r, f) BY <1>1 DEF Holds, Untaken, Fills
<1>5. zone /\ NoneFilled(r) => NoneFilled(f) BY <1>1 DEF Untaken, Fills, NoneFilled
<1>6. CASE AllFilled(f)
    <2>1. RoundOK(p) /\ Pairs(f, p) /\ p.anchored = NoPrice BY <1>2, <1>6, CompletePairPairs
    <2> HIDE DEF p
    <2>2. NoneFilled(p) /\ ~AllFilled(p) BY <2>1, NotAll DEF Pairs
    <2>3. Paired(r, p) BY <1>3, <2>1 DEF Paired, Pairs, Kept
    <2>4. ~(zone /\ NoneFilled(r)) BY <1>5, <1>6, NotAll
    <2>5. Steps(r, p, s, zone) BY <2>1, <2>2, <2>3, <2>4 DEF Steps
    <2>6. NoBidLeft(p, s, zone) BY <2>2 DEF NoBidLeft, NoneFilled
    <2> QED BY <1>6, <2>5, <2>6 DEF q
<1>7. CASE ~AllFilled(f)
    <2>1. Goes(f, n) BY <1>2, NakedClockGoes DEF RoundOK
    <2> HIDE DEF n
    <2>2. RoundOK(n) /\ ~AllFilled(n) BY <1>2, <1>7, <2>1, BaseOK DEF Goes, Base, AllFilled
    <2>3. /\ RoundOK(e)
          /\ \/ /\ Goes(n, e)
                /\ \A l \in Legs : e.filled[l] /\ zone /\ NakedAtExpiry = "close" => s.book[l].bid = NoPrice
             \/ \E l \in Legs : Naked(n, l) /\ Sells(n, e, l)
        BY <2>2, ExitsSell
    <2> HIDE DEF e
    <2>4. CASE /\ Goes(n, e)
               /\ \A l \in Legs : e.filled[l] /\ zone /\ NakedAtExpiry = "close" => s.book[l].bid = NoPrice
        <3>1. ~AllFilled(e) BY <2>2, <2>4 DEF Goes, Base, AllFilled
        <3>2. Kept(r, e, s) /\ Holds(r, e) /\ (zone /\ NoneFilled(r) => NoneFilled(e))
            BY <1>3, <1>4, <1>5, <2>1, <2>4 DEF Goes, Base, Kept, Holds, NoneFilled
        <3>3. Steps(r, e, s, zone) BY <2>3, <3>1, <3>2 DEF Steps, Kept
        <3>4. NoBidLeft(e, s, zone) BY <2>4 DEF NoBidLeft
        <3> QED BY <1>7, <3>3, <3>4 DEF q
    <2>5. CASE \E l \in Legs : Naked(n, l) /\ Sells(n, e, l)
        <3>1. PICK l \in Legs : Naked(n, l) /\ Sells(n, e, l) BY <2>5
        <3>2. NoneFilled(e) /\ ~AllFilled(e) /\ e.anchored = NoPrice BY <3>1, NotAll DEF Sells
        <3>3. Sells(r, e, l) BY <1>3, <2>1, <3>1 DEF Sells, Goes, Base, Kept
        <3>4. Naked(f, l) BY <2>1, <3>1 DEF Naked, Goes, Base
        <3>5. \A x \in Legs : r.filled[x] => x = l
            <4>1. \A x \in Legs : x = l \/ x = Opp(l) BY DEF Legs, Opp
            <4> QED BY <1>4, <3>4, <4>1 DEF Naked, Holds
        <3>6. ~(zone /\ NoneFilled(r)) BY <1>5, <3>4 DEF Naked, NoneFilled
        <3>7. Steps(r, e, s, zone) BY <2>3, <3>2, <3>3, <3>5, <3>6 DEF Steps, SoldOut
        <3>8. NoBidLeft(e, s, zone) BY <3>2 DEF NoBidLeft, NoneFilled
        <3> QED BY <1>7, <3>7, <3>8 DEF q
    <2> QED BY <2>3, <2>4, <2>5
<1> QED BY <1>6, <1>7

LEMMA StepSteps ==
    ASSUME NEW r, NEW s \in Snaps, NEW t \in Int, RoundOK(r), ~AllFilled(r)
    PROVE  Steps(r, Step(r, s, t), s, InZone(t)) /\ NoBidLeft(Step(r, s, t), s, InZone(t))
<1> DEFINE zone == InZone(t)
           quoted == Quote(Anchor(CancelEntry(r, zone), s, zone), t, zone, s)
           d == TrackDrift(quoted, s)
           c == Chase(d, s, t)
           new == Chased(d, s, t)
           f == Fill(c, s, zone, new)
           p == IF \A l \in Legs : f.filled[l] THEN CompletePair(f)
                ELSE Exits(NakedClock(f, t), s, zone)
           q == Step(r, s, t)
<1>0. q = IF UpMid(s) = NoPrice THEN quoted ELSE IF Gated(c, s) THEN c ELSE p
    BY DEF Step
<1>1. zone \in BOOLEAN BY DEF InZone, InDeadZone
<1> HIDE DEF zone
<1>2. RoundOK(quoted) /\ Untaken(r, quoted) /\ Kept(r, quoted, s) BY QuotedKeeps
<1> HIDE DEF quoted
<1>3. RoundOK(c) /\ Untaken(quoted, c) /\ Kept(quoted, c, s) BY <1>2, ChasedKeeps
<1> HIDE DEF c, d, new
<1>4. Untaken(r, c) /\ Kept(r, c, s) BY <1>2, <1>3, KeptOnwards DEF Untaken
<1>5. Steps(r, p, s, zone) /\ NoBidLeft(p, s, zone) BY <1>1, <1>3, <1>4, FilledSteps
<1> HIDE DEF p, q
<1>6. ASSUME NEW x, RoundOK(x), Untaken(r, x), Kept(r, x, s) PROVE Steps(r, x, s, zone)
    BY <1>6 DEF Steps, Untaken, Kept, Holds, AllFilled, NoneFilled
<1>7. UpMid(s) = NoPrice => NoBidLeft(quoted, s, zone) BY DEF NoBidLeft
<1>8. Gated(c, s) => NoBidLeft(c, s, zone) BY DEF NoBidLeft, Gated, NoneFilled
<1>9. Steps(r, q, s, zone) /\ NoBidLeft(q, s, zone)
    BY <1>0, <1>2, <1>3, <1>4, <1>5, <1>6, <1>7, <1>8
<1> QED BY <1>9 DEF q, zone

-----------------------------------------------------------------------------
(* The window *)

\* The anchor needed both asks, which the window still remembers.
MarksKnown ==
    k.anchored # NoPrice => \A l \in Legs : latched[l].ask # NoPrice

WInv ==
    /\ TypeOK /\ RoundOK(k) /\ MarksKnown
    /\ ~closed => ~AllFilled(k)

LEMMA NewWindowOK ==
    ASSUME NEW first \in 0 .. WindowLen
    PROVE  /\ RoundOK(NewWindow(first)) /\ NoneFilled(NewWindow(first))
           /\ NewWindow(first).anchored = NoPrice
           /\ NewWindow(first).pairs = <<>> /\ NewWindow(first).stops = <<>>
<1> DEFINE f == BothLegs(FALSE)
           n == BothLegs(NoPrice)
           z == InZone(first)
           q == [anchored |-> NoPrice, resting |-> n, original |-> n,
                 live |-> FALSE, filled |-> f, entry |-> n,
                 nakedSince |-> NoTime, breached |-> f, reversed |-> f,
                 cancelled |-> z, entered |-> FALSE,
                 pairs |-> <<>>, stops |-> <<>>, pnl |-> 0, fees |-> <<>>, source |-> ""]
<1>1. NewWindow(first) = q BY DEF NewWindow
<1>2. NoPrice \in Int /\ NoTime \in Int /\ z \in BOOLEAN
    BY DEF NoPrice, NoTime, InZone, InDeadZone
<1>3. f \in [Legs -> BOOLEAN] /\ n \in [Legs -> Int] BY <1>2, Flat
<1>4. \A l \in Legs : ~f[l] /\ n[l] = NoPrice BY BothAre
<1> HIDE DEF f, n, z
<1>5. q \in Window BY <1>2, <1>3 DEF Window, Sources
<1>6. /\ q.filled = f /\ q.resting = n /\ q.original = n /\ q.anchored = NoPrice
      /\ q.pairs = <<>> /\ q.stops = <<>>
    OBVIOUS
<1> HIDE DEF q
<1>7. PairsOK(q) /\ StopsOK(q) BY <1>6 DEF PairsOK, StopsOK
<1>8. RoundOK(q) /\ NoneFilled(q) BY <1>4, <1>5, <1>6, <1>7 DEF RoundOK, NoneFilled, Price
<1> QED BY <1>1, <1>6, <1>8

LEMMA InitWindow == Init => WInv
<1> SUFFICES ASSUME Init PROVE WInv
    OBVIOUS
<1>1. PICK first \in 0 .. WindowLen : k = NewWindow(first) /\ at = first BY DEF Init
<1>2. first \in Nat BY Params
<1>3. /\ BothLegs([bid |-> NoPrice, ask |-> NoPrice, zero |-> FALSE]) \in [Legs -> Quotes]
      /\ BothLegs([bid |-> NoPrice, ask |-> NoPrice]) \in [Legs -> Marks]
    <2>1. [bid |-> NoPrice, ask |-> NoPrice, zero |-> FALSE] \in Quotes BY DEF Quotes, NoPrice
    <2>2. [bid |-> NoPrice, ask |-> NoPrice] \in Marks BY DEF Marks, NoPrice
    <2> QED BY <2>1, <2>2, Flat
<1>4. RoundOK(k) /\ NoneFilled(k) /\ k.anchored = NoPrice BY <1>1, NewWindowOK
<1>5. TypeOK BY <1>1, <1>2, <1>3, <1>4 DEF TypeOK, Init, RoundOK
<1> QED BY <1>4, <1>5, NotAll DEF WInv, MarksKnown

\* What a leg that is open at the end is worth.
LEMMA SettlementMarks ==
    ASSUME NEW l \in Legs, TypeOK,
           \A x \in Legs : latched[x].ask # NoPrice
    PROVE  LET out == Settlement(l)
           IN out.mark \in Int /\ out.mark # NoPrice /\ out.value \in Int /\ out.source \in Sources
<1>1. Opp(l) \in Legs BY OppLeg
<1>2. /\ latest[l].bid \in Int /\ latest[Opp(l)].ask \in Int
      /\ latched[l].bid \in Int /\ latched[Opp(l)].ask \in Int /\ latched[Opp(l)].ask # NoPrice
    BY <1>1 DEF TypeOK, Quotes, Marks
<1>3. \A p \in Int : Clamped(p) \in Int /\ Clamped(p) # NoPrice
    BY DEF Clamped, MinOf, MaxOf, NoPrice
<1>4. Dollar - latest[Opp(l)].ask \in Int /\ Dollar - latched[Opp(l)].ask \in Int BY <1>2 DEF Dollar
<1>5. CASE latest[l].bid # NoPrice
    <2>1. Settlement(l) = [mark |-> latest[l].bid, value |-> latest[l].bid, source |-> "direct_bid"]
        BY <1>5 DEF Settlement
    <2> QED BY <1>2, <1>5, <2>1 DEF Sources
<1>6. CASE latest[l].bid = NoPrice /\ latest[Opp(l)].ask # NoPrice
    <2> DEFINE p == Clamped(Dollar - latest[Opp(l)].ask)
    <2>1. Settlement(l) = [mark |-> p, value |-> p, source |-> "complement_ask"]
        BY <1>6 DEF Settlement
    <2>2. p \in Int /\ p # NoPrice BY <1>3, <1>4
    <2> HIDE DEF p
    <2> QED BY <2>1, <2>2 DEF Sources
<1>7. CASE latest[l].bid = NoPrice /\ latest[Opp(l)].ask = NoPrice /\ latched[l].bid # NoPrice
    <2>1. Settlement(l) = [mark |-> latched[l].bid, value |-> latched[l].bid, source |-> "latched_bid"]
        BY <1>7 DEF Settlement
    <2> QED BY <1>2, <1>7, <2>1 DEF Sources
<1>8. CASE latest[l].bid = NoPrice /\ latest[Opp(l)].ask = NoPrice /\ latched[l].bid = NoPrice
    <2> DEFINE p == Clamped(Dollar - latched[Opp(l)].ask)
    <2>1. Settlement(l) = [mark |-> p, value |-> p, source |-> "latched_complement_ask"]
        BY <1>2, <1>8 DEF Settlement
    <2>2. p \in Int /\ p # NoPrice BY <1>3, <1>4
    <2> HIDE DEF p
    <2> QED BY <2>1, <2>2 DEF Sources
<1> QED BY <1>5, <1>6, <1>7, <1>8

\* The open leg is recorded as settled, and nothing else changes.
LEMMA SettleLegSettles ==
    ASSUME NEW l \in Legs, WInv, k.filled[l]
    PROVE  LET q == SettleLeg(k, l)
           IN /\ RoundOK(q) /\ q.anchored = k.anchored
              /\ q.pairs = k.pairs
              /\ \E x \in StopEntry : x.side = l /\ x.kind = "settle" /\ q.stops = Append(k.stops, x)
<1> DEFINE out == Settlement(l)
           x == [kind |-> "settle", side |-> l, entry |-> k.resting[l],
                 exit |-> out.mark, pnl |-> out.value - k.resting[l]]
           a == Append(k.stops, x)
           n == k.pnl + out.value - k.resting[l]
           m == IF out.mark = NoPrice THEN <<>> ELSE <<out.mark>>
           f == Append(k.fees, Dollar \div 2) \o m
           src == out.source
           q == [k EXCEPT !.pnl = n, !.fees = f, !.stops = a, !.source = src]
<1>0. k \in Window BY DEF WInv, TypeOK
<1>1. SettleLeg(k, l) = q BY <1>0 DEF SettleLeg, Window
<1>2. out.mark \in Int /\ out.mark # NoPrice /\ out.value \in Int /\ src \in Sources
    <2>1. k.anchored # NoPrice BY DEF WInv, RoundOK, NoneFilled
    <2> QED BY <2>1, SettlementMarks DEF WInv, MarksKnown
<1> HIDE DEF out
<1>3. k.resting[l] \in Int /\ k.pnl \in Int BY <1>0 DEF Window
<1>4. x \in StopEntry /\ x.side = l /\ x.kind = "settle" /\ x.exit = out.mark
    BY <1>2, <1>3 DEF StopEntry, Kinds
<1>5. k.stops \in Seq(StopEntry) /\ k.fees \in Seq(Int) BY <1>0 DEF Window, StopEntry
<1>6. n \in Int BY <1>2, <1>3
<1>7. f \in Seq(Int)
    <2>1. Dollar \div 2 \in Int BY DEF Dollar
    <2>2. Append(k.fees, Dollar \div 2) \in Seq(Int) BY <1>5, <2>1, Appended
    <2>3. m \in Seq(Int) BY <1>2
    <2> HIDE DEF m
    <2> QED BY <2>2, <2>3, ConcatProperties
<1> HIDE DEF x, n, f, src
<1>8. /\ a \in Seq(StopEntry)
      /\ DOMAIN a = DOMAIN k.stops \cup {Len(k.stops) + 1} /\ a[Len(k.stops) + 1] = x
      /\ \A i \in DOMAIN k.stops : a[i] = k.stops[i]
    BY <1>4, <1>5, Appended
<1>9. \A i \in DOMAIN a : Paid(a[i].kind, a[i].side, a[i].exit)
    BY <1>2, <1>4, <1>8 DEF WInv, RoundOK, StopsOK, Paid
<1>10. a = Append(k.stops, x) OBVIOUS
<1> HIDE DEF a
<1>11. /\ q \in Window /\ q.stops = a /\ q.pairs = k.pairs /\ q.anchored = k.anchored
       /\ q.resting = k.resting /\ q.original = k.original /\ q.entry = k.entry /\ q.filled = k.filled
    BY <1>0, <1>2, <1>6, <1>7, <1>8 DEF Window, StopEntry
<1> HIDE DEF q
<1>12. RoundOK(q) BY <1>9, <1>11 DEF WInv, RoundOK, NoneFilled, Capped, PairsOK, StopsOK
<1> QED BY <1>1, <1>4, <1>10, <1>11, <1>12

LEMMA OpenIsNaked == ASSUME ~AllFilled(k) PROVE \A l \in Legs : k.filled[l] => Open = {l}
BY DEF Open, AllFilled, Legs

\* What closes a window: nothing was open, or the leg that was is settled.
LEMMA CloseSettles ==
    ASSUME WInv, Close
    PROVE  /\ RoundOK(k') /\ k'.anchored = k.anchored /\ k'.pairs = k.pairs
           /\ \/ Open = {} /\ k' = k
              \/ \E l \in Legs, x \in StopEntry :
                     /\ Open = {l} /\ x.side = l /\ x.kind = "settle"
                     /\ k'.stops = Append(k.stops, x)
<1>1. CASE Open = {} BY <1>1 DEF Close, WInv
<1>2. CASE Open # {}
    <2>1. PICK l \in Legs : k.filled[l] /\ k' = SettleLeg(k, l) BY <1>2 DEF Close, Open
    <2>2. Open = {l} BY <2>1, OpenIsNaked DEF Close, WInv
    <2> QED BY <2>1, <2>2, SettleLegSettles
<1> QED BY <1>1, <1>2

\* A tick that has a time: the round steps on the book that was seen.
LEMMA ReplaySteps ==
    ASSUME WInv, Replay
    PROVE  \E s \in Snaps :
               /\ Steps(k, k', s, InZone(at')) /\ NoBidLeft(k', s, InZone(at'))
               /\ See(s.book)
<1>1. PICK s \in Snaps, step \in 0 .. MaxStep : at' = at + step /\ k' = Step(k, s, at') /\ See(s.book)
    BY DEF Replay
<1>2. at' \in Int BY <1>1, ParamsAssumption DEF WInv, TypeOK
<1>3. RoundOK(k) /\ ~AllFilled(k) BY DEF WInv, Replay
<1> QED BY <1>1, <1>2, <1>3, StepSteps

LEMMA SeeKeeps ==
    ASSUME NEW s \in Snaps, TypeOK, See(s.book)
    PROVE  /\ latest' \in [Legs -> Quotes] /\ latched' \in [Legs -> Marks]
           /\ \A l \in Legs : latched[l].ask # NoPrice \/ s.book[l].ask # NoPrice
                                  => latched'[l].ask # NoPrice
<1> DEFINE last(old, new) == IF new # NoPrice THEN new ELSE old
           quote(l) == [bid |-> last(latched[l].bid, s.book[l].bid),
                        ask |-> last(latched[l].ask, s.book[l].ask)]
<1>1. s.book \in [Legs -> Quotes] BY Params
<1>2. latest' = s.book /\ latched' = [l \in Legs |-> quote(l)] BY DEF See
<1>3. \A l \in Legs : s.book[l] \in Quotes /\ latched[l] \in Marks BY <1>1 DEF TypeOK
<1>4. \A l \in Legs : quote(l) \in Marks BY <1>3 DEF Quotes, Marks
<1>5. \A l \in Legs : quote(l).bid = last(latched[l].bid, s.book[l].bid)
                      /\ quote(l).ask = last(latched[l].ask, s.book[l].ask)
    OBVIOUS
<1> HIDE DEF quote
<1>6. \A l \in Legs : latched'[l] = quote(l) BY <1>2
<1> QED BY <1>1, <1>2, <1>4, <1>5, <1>6

LEMMA WindowStep == WInv /\ [Next]_vars => WInv'
<1> SUFFICES ASSUME WInv, [Next]_vars PROVE WInv'
    OBVIOUS
<1>1. CASE Replay
    <2>1. PICK s \in Snaps : Steps(k, k', s, InZone(at')) /\ See(s.book) BY <1>1, ReplaySteps
    <2>2. RoundOK(k') /\ ~AllFilled(k') BY <2>1 DEF Steps
    <2>3. at' \in Nat /\ ticks' \in Nat /\ closed' \in BOOLEAN
        <3>1. PICK step \in 0 .. MaxStep : at' = at + step BY <1>1 DEF Replay
        <3> QED BY <1>1, <3>1, ParamsAssumption DEF Replay, WInv, TypeOK
    <2>4. TypeOK' BY <2>1, <2>2, <2>3, SeeKeeps DEF WInv, TypeOK, RoundOK
    <2>5. MarksKnown'
        <3>1. k'.anchored # NoPrice => k.anchored # NoPrice \/ BothAsks(s) BY <2>1 DEF Steps
        <3> QED BY <2>1, <3>1, SeeKeeps DEF WInv, MarksKnown, BothAsks
    <2> QED BY <2>2, <2>4, <2>5 DEF WInv
<1>2. CASE ReplayUntimed
    <2>1. PICK s \in Snaps : See(s.book) BY <1>2 DEF ReplayUntimed
    <2>2. k' = k /\ at' = at /\ closed' = closed /\ ticks' \in Nat
        BY <1>2 DEF ReplayUntimed, WInv, TypeOK
    <2>3. TypeOK' BY <2>1, <2>2, SeeKeeps DEF WInv, TypeOK
    <2>4. MarksKnown' BY <2>1, <2>2, SeeKeeps DEF WInv, MarksKnown
    <2> QED BY <2>2, <2>3, <2>4 DEF WInv
<1>3. CASE Close
    <2>1. RoundOK(k') /\ k'.anchored = k.anchored BY <1>3, CloseSettles
    <2>2. UNCHANGED <<at, latest, latched, ticks>> /\ closed' = TRUE BY <1>3 DEF Close
    <2>3. TypeOK' BY <2>1, <2>2 DEF WInv, TypeOK, RoundOK
    <2>4. MarksKnown' BY <2>1, <2>2 DEF WInv, MarksKnown
    <2> QED BY <2>1, <2>2, <2>3, <2>4 DEF WInv
<1>4. CASE UNCHANGED vars BY <1>4 DEF vars, WInv, TypeOK, MarksKnown
<1> QED BY <1>1, <1>2, <1>3, <1>4 DEF Next

LEMMA WindowHolds == Spec => []WInv
<1> QED BY InitWindow, WindowStep, PTL DEF Spec

\* The replay keeps its variables in their types.
THEOREM WindowTypes == Spec => []TypeOK
<1>1. WInv => TypeOK BY DEF WInv
<1> QED BY <1>1, WindowHolds, PTL

\* No pair costs more than the cap by the chase: the leg that went over it was
\* placed so, and the chase has not raised it.
THEOREM PairCostHolds == Spec => []PairCostBounded
<1>1. WInv => PairCostBounded BY DEF WInv, RoundOK, PairsOK, PairCostBounded
<1> QED BY <1>1, WindowHolds, PTL

\* The leg that a window is left with is always marked at a quote it has seen,
\* and every other exit was at a bid, or is a stop at a recorded 0.0.
THEOREM SettlementAlwaysFindsMark == Spec => []SettlementFindsMark
<1>1. WInv => SettlementFindsMark BY DEF WInv, RoundOK, StopsOK, Paid, SettlementFindsMark
<1> QED BY <1>1, WindowHolds, PTL

\* What the loop records of a window is possible, at every tick of it: the costs
\* of its pairs and the prices of its exits.
THEOREM LedgerHolds == Spec => []LedgerSound
BY PairCostHolds, SettlementAlwaysFindsMark, PTL DEF LedgerSound

LEMMA LedgerTypes ==
    ASSUME WInv
    PROVE  k.stops \in Seq(StopEntry) /\ k.pairs \in Seq(PairEntry)
BY DEF WInv, TypeOK, Window, StopEntry, PairEntry

LEMMA QuotesHoldStep ==
    ASSUME WInv, [Next]_vars, SameRound, NEW l \in Legs
    PROVE  /\ (k.resting[l] # NoPrice /\ k'.resting[l] # k.resting[l]) =>
                  k'.resting[l] > k.resting[l] /\ k.filled[Opp(l)] /\ ~k.filled[l]
           /\ k.filled[l] => k'.filled[l] /\ k'.entry[l] = k.entry[l]
<1>0. \A x \in StopEntry : Append(k.stops, x) # k.stops BY LedgerTypes, Appended
<1>1. CASE Replay
    <2>1. PICK s \in Snaps : Steps(k, k', s, InZone(at')) BY <1>1, ReplaySteps
    <2>2. ~Paired(k, k') BY DEF Paired, Pairs, SameRound
    <2>3. ~SoldOut(k, k') BY <1>0 DEF SoldOut, Sells, SameRound
    <2> QED BY <2>1, <2>2, <2>3 DEF Steps, Kept, Holds
<1>2. CASE k' = k BY <1>2
<1>3. CASE Close
    <2>1. k' = k BY <1>0, <1>3, CloseSettles DEF SameRound
    <2> QED BY <1>2, <2>1
<1> QED BY <1>1, <1>2, <1>3 DEF Next, ReplayUntimed, vars

\* A quote of a round moves only up and only beside a leg that is filled, and a
\* leg that is filled keeps its price until the round ends.
THEOREM QuotesAreHeld == Spec => QuotesHold
<1>1. WInv /\ [Next]_vars =>
          [SameRound => \A l \in Legs :
              /\ (k.resting[l] # NoPrice /\ k'.resting[l] # k.resting[l]) =>
                     k'.resting[l] > k.resting[l] /\ k.filled[Opp(l)] /\ ~k.filled[l]
              /\ k.filled[l] => k'.filled[l] /\ k'.entry[l] = k.entry[l]]_vars
    BY QuotesHoldStep
<1> QED BY <1>1, WindowHolds, PTL DEF Spec, QuotesHold

\* With the switch at close, a tick of the dead zone that can be priced leaves a
\* naked leg open only when it has no bid.
THEOREM NakedLegsAreClosed == Spec => [][~LeftOpenInDeadZone]_vars
<1>1. WInv /\ [Next]_vars => [~LeftOpenInDeadZone]_vars
    <2> SUFFICES ASSUME WInv, Next, LeftOpenInDeadZone PROVE FALSE
        OBVIOUS
    <2>1. Replay BY DEF Next, ReplayUntimed, Close, LeftOpenInDeadZone
    <2>2. PICK s \in Snaps : NoBidLeft(k', s, InZone(at')) /\ See(s.book) BY <2>1, ReplaySteps
    <2>3. latest' = s.book BY <2>2 DEF See
    <2>4. UpMid(s) # NoPrice BY <2>3 DEF UpMid, LeftOpenInDeadZone
    <2> QED BY <2>2, <2>3, <2>4 DEF NoBidLeft, LeftOpenInDeadZone
<1> QED BY <1>1, WindowHolds, PTL DEF Spec

-----------------------------------------------------------------------------
(* The replay implements RoundRules *)

\* Whose exits an appended record counts among.
LEMMA ExitedOfAppend ==
    ASSUME NEW r, NEW q, NEW x \in StopEntry, NEW y \in Legs, r.stops \in Seq(StopEntry),
           q.stops = Append(r.stops, x)
    PROVE  /\ Cardinality(Exited(q, y)) = IF x.side = y /\ x.kind # "settle"
                                          THEN Cardinality(Exited(r, y)) + 1
                                          ELSE Cardinality(Exited(r, y))
           /\ Cardinality(Settled(q, y)) = IF x.side = y /\ x.kind = "settle"
                                           THEN Cardinality(Settled(r, y)) + 1
                                           ELSE Cardinality(Settled(r, y))
<1> DEFINE n == Len(r.stops)
<1>1. /\ DOMAIN r.stops = 1 .. n /\ DOMAIN q.stops = DOMAIN r.stops \cup {n + 1}
      /\ n + 1 \notin DOMAIN r.stops /\ n \in Nat
      /\ q.stops[n + 1] = x
      /\ \A i \in DOMAIN r.stops : q.stops[i] = r.stops[i]
    BY Appended
<1> HIDE DEF n
<1>2. IsFiniteSet(DOMAIN r.stops)
    <2>1. IsFiniteSet(1 .. n) BY <1>1, FS_Interval
    <2> QED BY <1>1, <2>1
<1>3. IsFiniteSet(Exited(r, y)) /\ IsFiniteSet(Settled(r, y))
    <2>1. Exited(r, y) \subseteq DOMAIN r.stops /\ Settled(r, y) \subseteq DOMAIN r.stops
        BY DEF Exited, Settled
    <2> QED BY <1>2, <2>1, FS_Subset
<1>4. Exited(q, y) = IF x.side = y /\ x.kind # "settle" THEN Exited(r, y) \cup {n + 1}
                     ELSE Exited(r, y)
    BY <1>1 DEF Exited
<1>5. Settled(q, y) = IF x.side = y /\ x.kind = "settle" THEN Settled(r, y) \cup {n + 1}
                      ELSE Settled(r, y)
    BY <1>1 DEF Settled
<1>6. n + 1 \notin Exited(r, y) /\ n + 1 \notin Settled(r, y) BY <1>1 DEF Exited, Settled
<1>7. /\ Cardinality(Exited(r, y) \cup {n + 1}) = Cardinality(Exited(r, y)) + 1
      /\ Cardinality(Settled(r, y) \cup {n + 1}) = Cardinality(Settled(r, y)) + 1
    BY <1>3, <1>6, FS_AddElement
<1> QED BY <1>4, <1>5, <1>7

\* The state of the rules.
Held == IF closed THEN {} ELSE Open
Sold == [l \in Legs |-> Cardinality(Exited(k, l))]
Done == [l \in Legs |-> Cardinality(Settled(k, l))]
Late == InZone(at)

LEMMA SameStops ==
    ASSUME k'.stops = k.stops
    PROVE  Sold' = Sold /\ Done' = Done
<1>1. \A l \in Legs : Exited(k', l) = Exited(k, l) /\ Settled(k', l) = Settled(k, l)
    BY DEF Exited, Settled
<1> QED BY <1>1 DEF Sold, Done

LEMMA OneMoreStop ==
    ASSUME WInv, NEW x \in StopEntry, k'.stops = Append(k.stops, x)
    PROVE  /\ x.kind # "settle" => Sold' = [Sold EXCEPT ![x.side] = @ + 1] /\ Done' = Done
           /\ x.kind = "settle" => /\ Sold' = Sold
                                   /\ Done' = [l \in Legs |-> IF l = x.side THEN Done[l] + 1 ELSE Done[l]]
<1>1. \A y \in Legs :
        /\ Cardinality(Exited(k', y)) = IF x.side = y /\ x.kind # "settle"
                                        THEN Cardinality(Exited(k, y)) + 1
                                        ELSE Cardinality(Exited(k, y))
        /\ Cardinality(Settled(k', y)) = IF x.side = y /\ x.kind = "settle"
                                         THEN Cardinality(Settled(k, y)) + 1
                                         ELSE Cardinality(Settled(k, y))
    BY LedgerTypes, ExitedOfAppend
<1>2. /\ Sold' = [y \in Legs |-> IF x.side = y /\ x.kind # "settle" THEN Sold[y] + 1 ELSE Sold[y]]
      /\ Done' = [y \in Legs |-> IF x.side = y /\ x.kind = "settle" THEN Done[y] + 1 ELSE Done[y]]
    BY <1>1 DEF Sold, Done
<1>3. Sold = [y \in Legs |-> Sold[y]] /\ Done = [y \in Legs |-> Done[y]] BY DEF Sold, Done
<1>4. x.side \in Legs BY DEF StopEntry
<1> HIDE DEF Sold, Done
<1>5. CASE x.kind # "settle" BY <1>2, <1>3, <1>4, <1>5
<1>6. CASE x.kind = "settle" BY <1>2, <1>3, <1>4, <1>6
<1> QED BY <1>5, <1>6

\* Once it has begun, the dead zone lasts.
LEMMA ZoneLasts == \A t, u \in Int : t <= u /\ InZone(t) => InZone(u)
<1> SUFFICES ASSUME NEW t \in Int, NEW u \in Int, t <= u, InZone(t) PROVE InZone(u)
    OBVIOUS
<1>1. WindowLen \in Int /\ CutoffSeconds(WindowLen, DeadZone) \in Int
    BY Params DEF CutoffSeconds, MinOf
<1>2. /\ MaxOf(0, WindowLen - t) \in Int /\ MaxOf(0, WindowLen - u) \in Int
      /\ MaxOf(0, WindowLen - u) <= MaxOf(0, WindowLen - t)
    BY <1>1 DEF MaxOf
<1> QED BY <1>1, <1>2 DEF InZone, InDeadZone

\* The trade that a tick is, in the words of the rules.
RuleTrade(bought) ==
    LET now == Held \cup bought
    IN /\ ~closed /\ bought \subseteq Legs
       /\ bought \cap Held = {}
       /\ Late => Late'
       /\ (Late' /\ Held = {}) => bought = {}
       /\ \/ now # Legs /\ Held' = now /\ Len(k'.pairs) = Len(k.pairs) /\ Sold' = Sold
          \/ now = Legs /\ Held' = {} /\ Len(k'.pairs) = Len(k.pairs) + 1 /\ Sold' = Sold
          \/ \E l \in Legs : /\ now = {l} /\ Held' = {}
                             /\ Sold' = [Sold EXCEPT ![l] = @ + 1]
                             /\ Len(k'.pairs) = Len(k.pairs)
       /\ Done' = Done /\ closed' = closed

LEMMA ReplayTrades ==
    ASSUME WInv, Replay
    PROVE  \E bought \in SUBSET Legs : RuleTrade(bought)
<1>1. PICK s \in Snaps : Steps(k, k', s, InZone(at')) BY ReplaySteps
<1>2. ~closed /\ ~closed' /\ closed' = closed /\ Held = Open /\ Held' = Open'
    BY DEF Replay, Held, WInv, TypeOK
<1>3. Late => Late'
    <2>1. PICK step \in 0 .. MaxStep : at' = at + step BY DEF Replay
    <2>2. at \in Int /\ at' \in Int /\ at <= at' BY <2>1, ParamsAssumption DEF WInv, TypeOK
    <2> QED BY <2>2, ZoneLasts DEF Late
<1>4. NoneFilled(k) <=> Open = {} BY DEF NoneFilled, Open
<1>5. Late' = InZone(at') BY DEF Late
<1>6. CASE Kept(k, k', s) /\ Holds(k, k') /\ (InZone(at') /\ NoneFilled(k) => NoneFilled(k'))
    <2> DEFINE b == Open' \ Open
    <2>1. Open \subseteq Open' /\ Open' \subseteq Legs BY <1>6 DEF Open, Holds
    <2>2. Open' # Legs BY <1>1 DEF Steps, AllFilled, Open
    <2>3. InZone(at') /\ Open = {} => Open' = {} BY <1>6 DEF NoneFilled, Open
    <2>4. k'.pairs = k.pairs /\ Sold' = Sold /\ Done' = Done BY <1>6, SameStops DEF Kept
    <2>5. Open \cup b = Open' /\ b \cap Open = {} /\ b \subseteq Legs BY <2>1
    <2>6. InZone(at') /\ Open = {} => b = {} BY <2>3
    <2> HIDE DEF b
    <2>7. RuleTrade(b) BY <1>2, <1>3, <1>5, <2>2, <2>4, <2>5, <2>6 DEF RuleTrade
    <2> QED BY <2>5, <2>7
<1>7. CASE Paired(k, k') /\ ~(InZone(at') /\ NoneFilled(k))
    <2> DEFINE b == Legs \ Open
    <2>1. Open' = {} BY <1>7 DEF Paired, Pairs, NoneFilled, Open
    <2>2. Len(k'.pairs) = Len(k.pairs) + 1 /\ Sold' = Sold /\ Done' = Done
        BY <1>7, SameStops DEF Paired, Pairs
    <2>3. Open \cup b = Legs /\ b \cap Open = {} /\ b \subseteq Legs BY DEF Open
    <2> HIDE DEF b
    <2>4. RuleTrade(b) BY <1>2, <1>3, <1>4, <1>5, <1>7, <2>1, <2>2, <2>3 DEF RuleTrade
    <2> QED BY <2>3, <2>4
<1>8. CASE SoldOut(k, k') /\ ~(InZone(at') /\ NoneFilled(k))
    <2>1. PICK l \in Legs : Sells(k, k', l) /\ \A x \in Legs : k.filled[x] => x = l
        BY <1>8 DEF SoldOut
    <2> DEFINE b == {l} \ Open
    <2>2. Open' = {} /\ k'.pairs = k.pairs BY <2>1 DEF Sells, NoneFilled, Open
    <2>3. Sold' = [Sold EXCEPT ![l] = @ + 1] /\ Done' = Done
        BY <2>1, OneMoreStop DEF Sells
    <2>4. Open \cup b = {l} /\ b \cap Open = {} /\ b \subseteq Legs BY <2>1 DEF Open
    <2> HIDE DEF b
    <2>5. RuleTrade(b) BY <1>2, <1>3, <1>4, <1>5, <1>8, <2>2, <2>3, <2>4 DEF RuleTrade
    <2> QED BY <2>4, <2>5
<1> QED BY <1>1, <1>6, <1>7, <1>8 DEF Steps

LEMMA CloseIsSettle ==
    ASSUME WInv, Close
    PROVE  /\ ~closed /\ closed' /\ Held' = {}
           /\ Done' = [l \in Legs |-> IF l \in Held THEN Done[l] + 1 ELSE Done[l]]
           /\ Len(k'.pairs) = Len(k.pairs) /\ Sold' = Sold /\ Late' = Late
<1>1. ~closed /\ closed' /\ Held' = {} /\ Held = Open /\ Late' = Late BY DEF Close, Held, Late
<1>2. k'.pairs = k.pairs BY CloseSettles
<1>3. CASE Open = {} /\ k' = k
    <2>1. Sold' = Sold /\ Done' = Done BY <1>3, SameStops
    <2>2. Done = [l \in Legs |-> IF l \in Held THEN Done[l] + 1 ELSE Done[l]]
        BY <1>1, <1>3 DEF Done
    <2> QED BY <1>1, <1>2, <2>1, <2>2
<1>4. CASE \E l \in Legs, x \in StopEntry :
               /\ Open = {l} /\ x.side = l /\ x.kind = "settle" /\ k'.stops = Append(k.stops, x)
    <2>1. PICK l \in Legs, x \in StopEntry :
               /\ Open = {l} /\ x.side = l /\ x.kind = "settle" /\ k'.stops = Append(k.stops, x)
        BY <1>4
    <2>2. Sold' = Sold /\ Done' = [y \in Legs |-> IF y = l THEN Done[y] + 1 ELSE Done[y]]
        BY <2>1, OneMoreStop
    <2>3. Done' = [y \in Legs |-> IF y \in Held THEN Done[y] + 1 ELSE Done[y]]
        BY <1>1, <2>1, <2>2
    <2> QED BY <1>1, <1>2, <2>2, <2>3
<1> QED BY <1>3, <1>4, CloseSettles

LEMMA RuleInitHolds == Init => Rules!RuleInit
<1> SUFFICES ASSUME Init PROVE Rules!RuleInit
    OBVIOUS
<1>1. NoneFilled(k) /\ k.pairs = <<>> /\ k.stops = <<>> /\ closed = FALSE
    BY NewWindowOK DEF Init
<1>2. Open = {} /\ Len(k.pairs) = 0 BY <1>1 DEF Open, NoneFilled
<1>3. \A l \in Legs : Cardinality(Exited(k, l)) = 0 /\ Cardinality(Settled(k, l)) = 0
    <2>1. \A l \in Legs : Exited(k, l) = {} /\ Settled(k, l) = {} BY <1>1 DEF Exited, Settled
    <2> QED BY <2>1, FS_EmptySet
<1>4. InZone(at) \in BOOLEAN BY DEF InZone, InDeadZone
<1> QED BY <1>1, <1>2, <1>3, <1>4 DEF Rules!RuleInit

LEMMA RuleStep == WInv /\ [Next]_vars => [Rules!RuleNext]_(Rules!ruleVars)
<1> SUFFICES ASSUME WInv, [Next]_vars PROVE [Rules!RuleNext]_(Rules!ruleVars)
    OBVIOUS
<1>1. CASE Replay
    <2>1. PICK b \in SUBSET Legs : RuleTrade(b) BY <1>1, ReplayTrades
    <2>2. Rules!Trade(b) BY <2>1 DEF RuleTrade, Rules!Trade, Held, Sold, Done, Late
    <2> QED BY <2>2 DEF Rules!RuleNext
<1>2. CASE Close
    <2>1. Rules!Settle BY <1>2, CloseIsSettle DEF Rules!Settle, Held, Sold, Done, Late
    <2> QED BY <2>1 DEF Rules!RuleNext
<1>3. CASE k' = k /\ at' = at /\ closed' = closed
    <2>1. Sold' = Sold /\ Done' = Done BY <1>3, SameStops
    <2>2. UNCHANGED Rules!ruleVars BY <1>3, <2>1 DEF Rules!ruleVars, Open, Sold, Done
    <2> QED BY <2>2
<1> QED BY <1>1, <1>2, <1>3 DEF Next, ReplayUntimed, vars

\* The replay is an implementation of the agreed rules of a round: a leg bought is
\* paired, sold once or settled, and none is bought in the dead zone from nothing.
THEOREM ReplayFollowsRules == Spec => FollowsRules
<1>1. WInv /\ [Next]_vars => [Rules!RuleNext]_(Rules!ruleVars) BY RuleStep
<1> QED BY <1>1, RuleInitHolds, WindowHolds, PTL DEF Spec, FollowsRules, Rules!RuleSpec
=============================================================================
