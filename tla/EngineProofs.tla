---------------------------- MODULE EngineProofs ----------------------------
(***************************************************************************)
(* A leg filled alone, for every book, price and clock: what the chase may *)
(* pay for the other one (ChaseLadder), and how the two threads that close *)
(* it end it once (StopExitRace); and the configuration of the engine that *)
(* must not lose sight of it (EngineConfig).                               *)
(***************************************************************************)
EXTENDS ChaseLadder, StopExitRace, EngineConfig, FiniteSetTheorems, TLAPS

(***************************************************************************)
(* The promises of StopExitRace, for any number of ticks: what the two     *)
(* threads of the engine may interleave never books a pair twice, never    *)
(* leaves a completed pair unbooked, and never leaves a stop behind one.   *)
(* The inductive invariant says who is on the way to do the work that is   *)
(* still open: a thread in the merge, or one whose decision is still due.  *)
(***************************************************************************)

Both == filled["UP"] /\ filled["DOWN"]

\* A thread that merges has seen both legs filled, and no leg is unfilled.
MergeIsReal == \A p \in Threads : pc[p] \in {"unstage", "claim"} => Both

\* A thread will still look at the legs and decide.
Deciding == pc["ticker"] = "fill" \/ pc["stream"] = "filled"

\* A completed pair is booked, or on its way to be.
PairInHand == Both => pair \/ Deciding \/ \E p \in Threads : pc[p] \in {"unstage", "claim"}

\* A stop beside a completed pair is dropped, or on its way to be.
StopInHand == Both /\ staged # None => Deciding \/ \E p \in Threads : pc[p] = "unstage"

IInv == TypeOK /\ PairBookedOnce /\ MergeIsReal /\ PairInHand /\ StopInHand

-----------------------------------------------------------------------------
LEMMA InitInv == Init => IInv
<1> SUFFICES ASSUME Init PROVE IInv
    OBVIOUS
<1>1. TypeOK
    <2>1. ticks \in 0 .. MaxTicks BY TicksAssumption DEF Init
    <2>2. pairsCount \in Nat /\ stopsCount \in Nat BY DEF Init
    <2> QED BY <2>1, <2>2 DEF Init, TypeOK, Threads, Legs, Steps
<1>2. PairBookedOnce BY DEF Init, PairBookedOnce
<1>3. MergeIsReal BY DEF Init, MergeIsReal
<1>4. ~Both BY DEF Init, Both, Legs
<1> QED BY <1>1, <1>2, <1>3, <1>4 DEF IInv, PairInHand, StopInHand

\* The types, one step per thread.
LEMMA TypeStep == TypeOK /\ [Next]_vars => TypeOK'
<1> SUFFICES ASSUME TypeOK, [Next]_vars PROVE TypeOK'
    OBVIOUS
<1> USE DEF TypeOK, Steps, Threads, Legs, Goto, Turn, counts
<1>1. CASE Ticker
    <2>1. ASSUME NEW l \in Legs, TickFills(l) PROVE TypeOK'
        BY <2>1 DEF TickFills, Fill
    <2>2. ASSUME NEW l \in Legs, TickTriggers(l) PROVE TypeOK'
        BY <2>2 DEF TickTriggers
    <2>3. CASE TickBegins
        BY <2>3, TicksAssumption DEF TickBegins
    <2>4. CASE TickDecides BY <2>4 DEF TickDecides
    <2>5. CASE TickReconciles BY <2>5 DEF TickReconciles
    <2>6. CASE TickStartsExit BY <2>6 DEF TickStartsExit
    <2>7. CASE TickEnds BY <2>7 DEF TickEnds
    <2> HIDE DEF TypeOK
    <2> QED BY <1>1, <2>1, <2>2, <2>3, <2>4, <2>5, <2>6, <2>7 DEF Ticker
<1>2. CASE Stream
    <2>1. ASSUME NEW l \in Legs, PrintSeen(l) PROVE TypeOK'
        BY <2>1 DEF PrintSeen
    <2>2. ASSUME NEW l \in Legs, SpotTriggers(l) PROVE TypeOK'
        BY <2>2 DEF SpotTriggers
    <2>3. CASE TapeFill
        <3> DEFINE l == leg["stream"]
        <3>1. l \in Legs OBVIOUS
        <3>2. CASE filled[l] \/ ~resting[l] BY <2>3, <3>2 DEF TapeFill
        <3>3. CASE ~(filled[l] \/ ~resting[l])
            <4>1. Fill(l) BY <2>3, <3>3 DEF TapeFill
            <4> HIDE DEF l
            <4>2. /\ filled' \in [Legs -> BOOLEAN] /\ resting' \in [Legs -> BOOLEAN]
                  /\ pending' \in BOOLEAN /\ staged' \in Legs \cup {None}
                BY <3>1, <4>1 DEF Fill
            <4>3. /\ UNCHANGED <<pair, exit, leg, canFill, ticks, pairsCount, stopsCount>>
                  /\ pc' = [pc EXCEPT !["stream"] = "idle"] \/ pc' = [pc EXCEPT !["stream"] = "filled"]
                BY <2>3 DEF TapeFill
            <4> QED BY <4>2, <4>3
        <3> QED BY <3>2, <3>3
    <2>4. CASE PrintDecides BY <2>4 DEF PrintDecides
    <2> HIDE DEF TypeOK
    <2> QED BY <1>2, <2>1, <2>2, <2>3, <2>4 DEF Stream
<1>3. ASSUME NEW p \in Threads, Either(p) PROVE TypeOK'
    <2>1. CASE Unstage(p) BY <2>1 DEF Unstage
    <2>2. CASE Claim(p)
        <3>1. pairsCount' \in Nat /\ stopsCount' \in Nat BY <2>2 DEF Claim
        <3>2. pair' \in BOOLEAN /\ pending' \in BOOLEAN BY <2>2 DEF Claim
        <3> QED BY <2>2, <3>1, <3>2 DEF Claim
    <2>3. CASE ExitPriced(p) BY <2>3 DEF ExitPriced
    <2>4. CASE ExitCancels(p) BY <2>4 DEF ExitCancels, Opp
    <2>5. CASE ExitBooked(p)
        <3>1. pairsCount' \in Nat /\ stopsCount' \in Nat BY <2>5 DEF ExitBooked
        <3> QED BY <2>5, <3>1 DEF ExitBooked
    <2> HIDE DEF TypeOK
    <2> QED BY <1>3, <2>1, <2>2, <2>3, <2>4, <2>5 DEF Either
<1>4. CASE UNCHANGED vars BY <1>4 DEF vars
<1> HIDE DEF TypeOK
<1> QED BY <1>1, <1>2, <1>3, <1>4 DEF Next

\* The promises but the types, which every step keeps.
Promise == PairBookedOnce /\ MergeIsReal /\ PairInHand /\ StopInHand

LEMMA TickerKeeps ==
    ASSUME IInv, Ticker
    PROVE  Promise'
<1> USE DEF IInv, TypeOK, Promise, PairBookedOnce, MergeIsReal, PairInHand, StopInHand, Both,
            Deciding, Threads, Legs, Goto, Turn, counts
<1>1. ASSUME NEW l \in Legs, TickFills(l) PROVE Promise'
    BY <1>1 DEF TickFills, Fill
<1>2. ASSUME NEW l \in Legs, TickTriggers(l) PROVE Promise'
    BY <1>2 DEF TickTriggers
<1>3. CASE TickBegins BY <1>3 DEF TickBegins
<1>4. CASE TickDecides BY <1>4 DEF TickDecides
<1>5. CASE TickReconciles BY <1>5 DEF TickReconciles
<1>6. CASE TickStartsExit BY <1>6 DEF TickStartsExit
<1>7. CASE TickEnds BY <1>7 DEF TickEnds
<1> HIDE DEF IInv, TypeOK, Promise
<1> QED BY <1>1, <1>2, <1>3, <1>4, <1>5, <1>6, <1>7 DEF Ticker

LEMMA StreamKeeps ==
    ASSUME IInv, Stream
    PROVE  Promise'
<1> USE DEF IInv, TypeOK, Promise, PairBookedOnce, MergeIsReal, PairInHand, StopInHand, Both,
            Deciding, Threads, Legs, Goto, Turn, counts
<1>1. ASSUME NEW l \in Legs, PrintSeen(l) PROVE Promise'
    BY <1>1 DEF PrintSeen
<1>2. ASSUME NEW l \in Legs, SpotTriggers(l) PROVE Promise'
    BY <1>2 DEF SpotTriggers
<1>3. CASE TapeFill
    <2> DEFINE l == leg["stream"]
    <2>1. CASE filled[l] \/ ~resting[l] BY <1>3, <2>1 DEF TapeFill
    <2>2. CASE ~(filled[l] \/ ~resting[l])
        BY <1>3, <2>2 DEF TapeFill, Fill
    <2> QED BY <2>1, <2>2
<1>4. CASE PrintDecides BY <1>4 DEF PrintDecides
<1> HIDE DEF IInv, TypeOK, Promise
<1> QED BY <1>1, <1>2, <1>3, <1>4 DEF Stream

LEMMA EitherKeeps ==
    ASSUME IInv, NEW p \in Threads, Either(p)
    PROVE  Promise'
<1> USE DEF IInv, TypeOK, Promise, PairBookedOnce, MergeIsReal, PairInHand, StopInHand, Both,
            Deciding, Threads, Legs, Goto, Turn, counts
<1>1. CASE Unstage(p) BY <1>1 DEF Unstage
<1>2. CASE Claim(p) BY <1>2 DEF Claim
<1>3. CASE ExitPriced(p) BY <1>3 DEF ExitPriced
<1>4. CASE ExitCancels(p) BY <1>4 DEF ExitCancels
<1>5. CASE ExitBooked(p) BY <1>5 DEF ExitBooked
<1> HIDE DEF IInv, TypeOK, Promise
<1> QED BY <1>1, <1>2, <1>3, <1>4, <1>5 DEF Either

LEMMA StepInv == IInv /\ [Next]_vars => IInv'
<1> SUFFICES ASSUME IInv, [Next]_vars PROVE IInv'
    OBVIOUS
<1>1. TypeOK' BY TypeStep DEF IInv
<1>2. CASE UNCHANGED vars
    BY <1>2 DEF vars, IInv, TypeOK, PairBookedOnce, MergeIsReal, PairInHand, StopInHand, Both,
                Deciding, counts
<1>3. CASE Next
    <2>1. Promise' BY <1>3, TickerKeeps, StreamKeeps, EitherKeeps DEF Next
    <2> QED BY <1>1, <2>1 DEF IInv, Promise
<1> QED BY <1>2, <1>3

\* The types of the race, for every bound on its ticks.
THEOREM RaceTyped == Spec => []TypeOK
<1>1. Init => TypeOK BY InitInv DEF IInv
<1> QED BY <1>1, TypeStep, PTL DEF Spec

\* Rule "atomic vs ticker path": both threads may complete the pair, and it is
\* booked once, with both legs filled.
THEOREM BookedOnce == Spec => []PairBookedOnce
<1>1. IInv => PairBookedOnce BY DEF IInv
<1> QED BY <1>1, InitInv, StepInv, PTL DEF Spec

\* Issue #166: neither thread leaves a completed pair to the other.
THEOREM NotAbandoned == Spec => []PairNotAbandoned
<1>1. IInv => PairNotAbandoned
    BY DEF IInv, PairInHand, PairNotAbandoned, Quiet, Both, Deciding, Threads
<1> QED BY <1>1, InitInv, StepInv, PTL DEF Spec

\* Issue #87: no stop outlives the merge, whichever thread staged it, and when.
THEOREM Unprotected == Spec => []MergedPairUnprotected
<1>1. IInv => MergedPairUnprotected
    BY DEF IInv, PairBookedOnce, StopInHand, MergedPairUnprotected, Quiet, Both, Deciding, Threads
<1> QED BY <1>1, InitInv, StepInv, PTL DEF Spec

-----------------------------------------------------------------------------
(* The chase *)

USE DEF Cent, FillTick, Dollar, NoPrice

LEMMA FloorCentsBounds ==
    ASSUME NEW x \in Int
    PROVE  /\ FloorCents(x) \in Int
           /\ FloorCents(x) <= x /\ x < FloorCents(x) + 100
           /\ FloorCents(x) % 100 = 0
BY DEF FloorCents

LEMMA RoundCentsBelow ==
    ASSUME NEW x \in Int, NEW c \in Int, c % 100 = 0, x <= c
    PROVE  RoundCents(x) <= c /\ RoundCents(x) \in Int
BY DEF RoundCents

LEMMA RoundCentsId ==
    ASSUME NEW c \in Int, c % 100 = 0
    PROVE  RoundCents(c) = c
BY DEF RoundCents

\* A fraction of a distance is no more than the distance.
LEMMA PartOfDistance ==
    ASSUME NEW num \in Nat, NEW den \in Nat, num < den, NEW d \in Nat
    PROVE  (num * d) \div den \in Nat /\ (num * d) \div den <= d
<1>1. num * d \in Nat OBVIOUS
<1>2. num * d <= den * d OBVIOUS
<1> QED BY <1>1, <1>2

LEMMA CeilingBounds ==
    ASSUME NEW o \in Nat, NEW aff \in Int, aff % 100 = 0,
           NEW num \in Nat, NEW den \in Nat \ {0}
    PROVE  /\ ChaseCeiling(o, aff, num, den) \in Int
           /\ o <= aff => ChaseCeiling(o, aff, num, den) <= aff
           /\ aff < o => ChaseCeiling(o, aff, num, den) = RoundCents(o)
<1>1. CASE aff <= o \/ num = 0
    BY <1>1, RoundCentsBelow DEF ChaseCeiling, RoundCents
<1>2. CASE ~(aff <= o \/ num = 0) /\ num >= den
    BY <1>2, RoundCentsId DEF ChaseCeiling
<1>3. CASE ~(aff <= o \/ num = 0) /\ num < den
    <2> DEFINE d == aff - o
               raw == o + (num * d) \div den
    <2>1. d \in Nat BY <1>3
    <2>2. (num * d) \div den <= d /\ (num * d) \div den \in Nat
        BY <1>3, <2>1, PartOfDistance
    <2>2a. raw \in Int /\ raw <= aff BY <2>2
    <2> HIDE DEF raw
    <2>2b. FloorCents(raw) <= raw /\ FloorCents(raw) \in Int BY <2>2a, FloorCentsBounds
    <2>3. FloorCents(raw) <= aff /\ FloorCents(raw) \in Int BY <2>2a, <2>2b
    <2>4. ChaseCeiling(o, aff, num, den) = FloorCents(raw) BY <1>3 DEF ChaseCeiling, raw
    <2> QED BY <2>3, <2>4, <1>3
<1> QED BY <1>1, <1>2, <1>3

LEMMA AffordableCents ==
    ASSUME entry \in Nat
    PROVE  Affordable \in Int /\ Affordable % 100 = 0 /\ entry + Affordable <= MaxPairCost
<1>1. MaxPairCost - entry \in Int BY LadderAssumption
<1> QED BY <1>1, FloorCentsBounds, LadderAssumption DEF Affordable, ChaseCap

LEMMA ProgressFraction ==
    ASSUME NEW t \in Nat, nakedAt \in Nat
    PROVE  /\ ProgressNum(t, nakedAt, DeadZoneAt) \in Nat
           /\ ProgressDen(nakedAt, DeadZoneAt) \in Nat \ {0}
BY LadderAssumption DEF ProgressNum, ProgressDen, MinOf, MaxOf

LEMMA TypeFacts ==
    ASSUME LadderTypeOK
    PROVE  /\ entry \in Nat /\ original \in Nat \ {0} /\ nakedAt \in Nat /\ now \in Nat
           /\ bid \in Nat \ {0} /\ Asks \subseteq Nat
BY LadderAssumption DEF LadderTypeOK

LEMMA CeilingFacts ==
    ASSUME LadderTypeOK, NEW t \in Nat
    PROVE  /\ Ceiling(t) \in Int
           /\ original <= Affordable => Ceiling(t) <= Affordable
           /\ Affordable < original => Ceiling(t) = RoundCents(original)
<1>1. Affordable \in Int /\ Affordable % 100 = 0 BY TypeFacts, AffordableCents
<1>2. /\ ProgressNum(t, nakedAt, DeadZoneAt) \in Nat
      /\ ProgressDen(nakedAt, DeadZoneAt) \in Nat \ {0}
    BY TypeFacts, ProgressFraction
<1> QED BY <1>1, <1>2, TypeFacts, CeilingBounds DEF Ceiling

\* A step of the chase leaves the quote, or puts it at most at the ceiling.
LEMMA RaisedFacts ==
    ASSUME LadderTypeOK, NEW t \in Nat, NEW price \in Nat
    PROVE  /\ Raised(t, price) \in Nat \ {0}
           /\ Raised(t, price) = bid \/ Raised(t, price) <= Ceiling(t)
BY TypeFacts, CeilingFacts DEF Raised, MinOf

-----------------------------------------------------------------------------
LEMMA InitType == LadderInit => LadderTypeOK
BY LadderAssumption DEF LadderInit, LadderTypeOK

LEMMA StepType == LadderTypeOK /\ [LadderNext]_ladder => LadderTypeOK'
<1> SUFFICES ASSUME LadderTypeOK, [LadderNext]_ladder PROVE LadderTypeOK' OBVIOUS
<1>1. CASE Chase
    <2>1. bid' \in Nat \ {0} BY <1>1, TypeFacts, RaisedFacts DEF Chase
    <2> QED BY <1>1, <2>1 DEF Chase, LadderTypeOK
<1>2. CASE Wait BY <1>2, LadderAssumption DEF Wait, LadderTypeOK
<1>3. CASE UNCHANGED ladder BY <1>3 DEF ladder, LadderTypeOK
<1> QED BY <1>1, <1>2, <1>3 DEF LadderNext

\* The types of the ladder hold for every price and clock.
THEOREM LadderTyped == LadderSpec => []LadderTypeOK
BY InitType, StepType, PTL DEF LadderSpec

\* The bound a quote obeys at every moment of the chase.
Bounded ==
    /\ original <= Affordable => bid <= Affordable
    /\ Affordable < original => bid <= MaxOf(original, RoundCents(original))

LEMMA InitBounded == LadderInit => Bounded
<1> SUFFICES ASSUME LadderInit PROVE Bounded OBVIOUS
<1>1. entry \in Nat /\ original \in Nat /\ bid = original BY LadderAssumption DEF LadderInit
<1>2. RoundCents(original) \in Int BY <1>1 DEF RoundCents
<1> QED BY <1>1, <1>2 DEF Bounded, MaxOf

LEMMA StepBounded == LadderTypeOK /\ Bounded /\ [LadderNext]_ladder => Bounded'
<1> SUFFICES ASSUME LadderTypeOK, Bounded, [LadderNext]_ladder PROVE Bounded' OBVIOUS
<1>1. CASE Chase
    <2>1. ask' \in Nat BY <1>1, TypeFacts DEF Chase
    <2>2. bid' = bid \/ bid' <= Ceiling(now)
        BY <1>1, <2>1, TypeFacts, RaisedFacts DEF Chase
    <2>3. UNCHANGED <<entry, original>> BY <1>1 DEF Chase
    <2>4. Affordable' = Affordable BY <2>3 DEF Affordable
    <2>5. RoundCents(original) \in Int BY TypeFacts DEF RoundCents
    <2>6. bid' \in Nat BY <1>1, <2>1, TypeFacts, RaisedFacts DEF Chase
    <2>7. Affordable \in Int BY TypeFacts, AffordableCents
    <2> QED BY <2>2, <2>3, <2>4, <2>5, <2>6, <2>7, TypeFacts, CeilingFacts DEF Bounded, MaxOf
<1>2. CASE Wait \/ UNCHANGED ladder
    <2>1. UNCHANGED <<entry, original, bid>> BY <1>2 DEF Wait, ladder
    <2>2. Affordable' = Affordable BY <2>1 DEF Affordable
    <2> QED BY <2>1, <2>2 DEF Bounded
<1> QED BY <1>1, <1>2 DEF LadderNext

\* Rule 4, for every entry, quote, book and clock: a chase from a quote that
\* the cap affords never bids the pair past max_pair_cost.
THEOREM WithinCap == LadderSpec => []ChaseWithinCap
<1>1. LadderTypeOK /\ Bounded => ChaseWithinCap
    BY TypeFacts, AffordableCents, LadderAssumption DEF Bounded, ChaseWithinCap
<1> QED BY <1>1, InitType, StepType, InitBounded, StepBounded, PTL DEF LadderSpec

\* Rule 12, for a quote that is already above the cap: the ladder adds nothing.
THEOREM NeverAboveOriginal == LadderSpec => []ChaseNeverAboveOriginal
<1>1. LadderTypeOK /\ Bounded => ChaseNeverAboveOriginal
    BY TypeFacts, AffordableCents DEF Bounded, ChaseNeverAboveOriginal
<1> QED BY <1>1, InitType, StepType, InitBounded, StepBounded, PTL DEF LadderSpec

\* Rule 12: the full cap is available from the dead zone on, for every clock.
THEOREM CapReached == LadderSpec => []CapReachedAtDeadZone
<1>1. ASSUME LadderTypeOK, now >= DeadZoneAt, original < Affordable
      PROVE  Ceiling(now) = Affordable
    <2>1. ProgressNum(now, nakedAt, DeadZoneAt) = ProgressDen(nakedAt, DeadZoneAt)
        BY <1>1, LadderAssumption DEF LadderTypeOK, ProgressNum, ProgressDen, MinOf, MaxOf
    <2>2. ProgressDen(nakedAt, DeadZoneAt) \in Nat \ {0} BY <1>1, TypeFacts, ProgressFraction
    <2>3. Affordable \in Int /\ Affordable % 100 = 0 BY <1>1, TypeFacts, AffordableCents
    <2>4. original \in Nat BY <1>1, TypeFacts
    <2> QED BY <1>1, <2>1, <2>2, <2>3, <2>4, RoundCentsId DEF Ceiling, ChaseCeiling
<1>2. LadderTypeOK => CapReachedAtDeadZone BY <1>1 DEF CapReachedAtDeadZone
<1> QED BY <1>2, InitType, StepType, PTL DEF LadderSpec, CeilingRises

-----------------------------------------------------------------------------
LEMMA LargerPart ==
    ASSUME NEW a \in Nat, NEW b \in Nat, a <= b, NEW den \in Nat \ {0}, NEW d \in Nat
    PROVE  (a * d) \div den <= (b * d) \div den
<1>1. a * d \in Nat /\ b * d \in Nat OBVIOUS
<1>2. a * d <= b * d OBVIOUS
<1>3. \A x, y \in Nat : x <= y => x \div den <= y \div den OBVIOUS
<1> QED BY <1>1, <1>2, <1>3

LEMMA FloorCentsMonotone ==
    ASSUME NEW x \in Int, NEW y \in Int, x <= y
    PROVE  FloorCents(x) <= FloorCents(y)
BY DEF FloorCents

LEMMA CeilingMonotone ==
    ASSUME NEW o \in Nat, NEW aff \in Int, aff % 100 = 0, NEW den \in Nat \ {0},
           NEW a \in Nat \ {0}, NEW b \in Nat, a <= b
    PROVE  ChaseCeiling(o, aff, a, den) <= ChaseCeiling(o, aff, b, den)
<1> DEFINE d == aff - o
           part(n) == FloorCents(o + (n * d) \div den)
<1>1. CASE aff <= o BY <1>1 DEF ChaseCeiling, RoundCents
<1>2. CASE o < aff /\ a >= den BY <1>2, RoundCentsId DEF ChaseCeiling
<1>3. CASE o < aff /\ a < den /\ b >= den
    <2>0. ~(aff <= o \/ b = 0) /\ b >= den /\ RoundCents(aff) = aff BY <1>3, RoundCentsId
    <2>1. ChaseCeiling(o, aff, b, den) = aff BY <2>0 DEF ChaseCeiling
    <2>2. a \in Nat /\ o <= aff BY <1>3
    <2>3. ChaseCeiling(o, aff, a, den) <= aff BY <2>2, CeilingBounds
    <2> QED BY <2>1, <2>3
<1>4. CASE o < aff /\ b < den
    <2>1. d \in Nat /\ a \in Nat BY <1>4
    <2>2. (a * d) \div den \in Nat /\ (b * d) \div den \in Nat BY <2>1, <1>4, PartOfDistance
    <2>3. (a * d) \div den <= (b * d) \div den BY <2>1, LargerPart
    <2>4. part(a) <= part(b)
        <3> DEFINE x == o + (a * d) \div den
                   y == o + (b * d) \div den
        <3>1. x \in Int /\ y \in Int /\ x <= y BY <2>2, <2>3
        <3> HIDE DEF x, y
        <3>2. FloorCents(x) <= FloorCents(y) BY <3>1, FloorCentsMonotone
        <3> QED BY <3>2 DEF x, y
    <2>5. /\ ChaseCeiling(o, aff, a, den) = part(a)
          /\ ChaseCeiling(o, aff, b, den) = part(b)
        BY <1>4 DEF ChaseCeiling
    <2> QED BY <2>4, <2>5
<1> QED BY <1>1, <1>2, <1>3, <1>4

\* The progress of a naked leg grows with the clock.
LEMMA LaterProgress ==
    ASSUME NEW t \in Nat, NEW u \in Nat, NEW since \in Nat, NEW dzStart \in Nat,
           since < t, t <= u, ~(dzStart <= since)
    PROVE  /\ ProgressNum(u, since, dzStart) \in Nat
           /\ ProgressNum(t, since, dzStart) <= ProgressNum(u, since, dzStart)
BY DEF ProgressNum, MinOf, MaxOf

\* Rule 12, for every clock: the ceiling never comes down once it has climbed.
THEOREM LadderRises == LadderSpec => CeilingRises
<1>1. ASSUME LadderTypeOK, [LadderNext]_ladder, now > nakedAt
      PROVE  Ceiling(now') >= Ceiling(now)
    <2>1. now' \in Nat /\ now <= now' /\ now \in Nat /\ nakedAt \in Nat
        BY <1>1, TypeFacts DEF LadderNext, Chase, Wait, ladder
    <2>2. CASE DeadZoneAt <= nakedAt
        <3>1. ProgressNum(now', nakedAt, DeadZoneAt) = ProgressNum(now, nakedAt, DeadZoneAt)
            BY <2>2 DEF ProgressNum
        <3>2. Ceiling(now') = Ceiling(now) BY <3>1 DEF Ceiling
        <3>3. Ceiling(now) \in Int BY <1>1, <2>1, CeilingFacts
        <3> QED BY <3>2, <3>3
    <2>3. CASE ~(DeadZoneAt <= nakedAt)
        <3>1. ProgressNum(now, nakedAt, DeadZoneAt) \in Nat \ {0}
            BY <2>1, <2>3, <1>1, LadderAssumption DEF ProgressNum, MinOf, MaxOf
        <3>0. DeadZoneAt \in Nat BY LadderAssumption
        <3>n. now > nakedAt BY <1>1
        <3>2. /\ ProgressNum(now', nakedAt, DeadZoneAt) \in Nat
              /\ ProgressNum(now, nakedAt, DeadZoneAt) <= ProgressNum(now', nakedAt, DeadZoneAt)
            BY <2>1, <2>3, <3>0, <3>n, LaterProgress
        <3>3. ProgressDen(nakedAt, DeadZoneAt) \in Nat \ {0} BY <2>1, ProgressFraction
        <3>4. Affordable \in Int /\ Affordable % 100 = 0 /\ original \in Nat
            BY <1>1, TypeFacts, AffordableCents
        <3> QED BY <3>1, <3>2, <3>3, <3>4, CeilingMonotone DEF Ceiling
    <2> QED BY <2>2, <2>3
<1>2. LadderTypeOK /\ [LadderNext]_ladder => [now > nakedAt => Ceiling(now') >= Ceiling(now)]_ladder
    BY <1>1
<1> QED BY <1>2, InitType, StepType, PTL DEF LadderSpec, CeilingRises

-----------------------------------------------------------------------------
\* Rule 12's argument that the chase and the stop are never both available: a
\* leg whose mid has fallen by the stop threshold has a partner whose ask, no
\* lower than the complement of that mid, is above anything the cap affords.
THEOREM ChaseExcludesStop ==
    ASSUME NEW bought \in Nat, NEW mid \in Nat, NEW thresh \in Nat \ {0}, NEW price \in Nat,
           MaxPairCost <= Dollar, bought - mid >= thresh, price >= Dollar - mid
    PROVE  price > ChaseCap(MaxPairCost, bought)
<1>1. MaxPairCost - bought \in Int BY LadderAssumption
<1>2. ChaseCap(MaxPairCost, bought) <= MaxPairCost - bought /\ ChaseCap(MaxPairCost, bought) \in Int
    BY <1>1, FloorCentsBounds DEF ChaseCap
<1> QED BY <1>1, <1>2, LadderAssumption

(***************************************************************************)
(* What EngineConfig promises of a change of configuration, for every set  *)
(* of series, requests and faults: no order or leg is left to no market,   *)
(* but for the orders it counts as loose, and the balance is the wallet's. *)
(* An order at the venue is in flight, loose, or has its handle, and       *)
(* whatever the engine holds is of a market that is there.                 *)
(***************************************************************************)

\* What the engine holds belongs to its markets.
OfMarkets(os) == \A o \in os : o.slug \in markets

\* An order that rests at the venue is known to the engine, or will be.
Answered == venue \subseteq handles \cup inflight \cup loose

ConfigInv ==
    /\ SelectedIsMarkets
    /\ OfMarkets(handles) /\ OfMarkets(inflight) /\ OfMarkets(legs)
    /\ Answered

\* A leg that is alone is a leg.
LEMMA NakedHasLeg ==
    ASSUME NEW s, NakedIn(s)
    PROVE  \E o \in legs : o.slug = s
<1>1. OfSlug(legs, s) # {} BY FS_EmptySet DEF NakedIn
<1> QED BY <1>1 DEF OfSlug

LEMMA ConfigInvManages == ConfigInv => MarketsManaged
<1> SUFFICES ASSUME ConfigInv PROVE MarketsManaged
    OBVIOUS
<1>1. \A o \in venue \ (inflight \cup loose) : o.slug \in markets /\ o \in handles
    BY DEF ConfigInv, Answered, OfMarkets
<1>2. \A s \in Slugs : NakedIn(s) => s \in markets
    BY NakedHasLeg DEF ConfigInv, OfMarkets
<1> QED BY <1>1, <1>2 DEF ConfigInv, MarketsManaged, NothingUnmanaged

LEMMA ConfigInitInv == ConfigInit => ConfigInv
BY DEF ConfigInit, ConfigInv, SelectedIsMarkets, OfMarkets, Answered

-----------------------------------------------------------------------------
(* Trading *)

LEMMA SubmitInv ==
    ASSUME ConfigInv, NEW s \in Slugs, NEW side, Submit(s, side)
    PROVE  ConfigInv'
<1>1. OfMarkets(inflight)'
    BY DEF ConfigInv, OfMarkets, Submit, Order, config
<1>2. Answered'
    BY DEF ConfigInv, Answered, Submit
<1> QED BY <1>1, <1>2 DEF ConfigInv, OfMarkets, SelectedIsMarkets, Submit, config

LEMMA ReceiveInv ==
    ASSUME ConfigInv, NEW o, Receive(o)
    PROVE  ConfigInv'
<1>1. o.slug \in markets
    BY DEF ConfigInv, OfMarkets, Receive
<1>2. Answered'
    BY DEF ConfigInv, Answered, Receive
<1> QED BY <1>1, <1>2 DEF ConfigInv, OfMarkets, SelectedIsMarkets, Receive, config

LEMMA FillInv ==
    ASSUME ConfigInv, NEW o, VenueFill(o) \/ LearnFill(o)
    PROVE  ConfigInv'
<1>1. CASE VenueFill(o)
    BY <1>1 DEF ConfigInv, OfMarkets, Answered, SelectedIsMarkets, VenueFill, config
<1>2. CASE LearnFill(o)
    BY <1>2 DEF ConfigInv, OfMarkets, Answered, SelectedIsMarkets, LearnFill, config
<1> QED BY <1>1, <1>2

\* A round is closed when nothing of its market is at the venue, so the handles
\* that it empties are no order's.
LEMMA CloseRoundInv ==
    ASSUME ConfigInv, NEW s \in Slugs, CloseRound(s)
    PROVE  ConfigInv'
<1>1. Answered'
    <2> SUFFICES ASSUME NEW o \in venue PROVE o \in handles' \cup inflight \cup loose
        BY DEF Answered, CloseRound
    <2>1. o.slug # s BY DEF CloseRound, OfSlug
    <2>2. o \in handles \cup inflight \cup loose BY DEF ConfigInv, Answered
    <2> QED BY <2>1, <2>2 DEF CloseRound, OfSlug
<1>2. OfMarkets(handles)' /\ OfMarkets(legs)'
    BY DEF ConfigInv, OfMarkets, CloseRound, OfSlug, config
<1> QED BY <1>1, <1>2 DEF ConfigInv, OfMarkets, SelectedIsMarkets, CloseRound, config

-----------------------------------------------------------------------------
(* The panic button, and a stop that presses it *)

LEMMA CancelAllInv ==
    ASSUME ConfigInv, CancelAll
    PROVE  ConfigInv'
<1> USE DEF CancelAll
<1>1. OfMarkets(handles)' /\ OfMarkets(inflight)' /\ OfMarkets(legs)' /\ SelectedIsMarkets'
    BY DEF ConfigInv, OfMarkets, SelectedIsMarkets, config
<1>2. Answered'
    <2>1. CASE venue' = {}
        BY <2>1 DEF Answered
    <2>2. CASE handles' = {} /\ loose' = loose \cup (handles \cap venue) /\ UNCHANGED venue
        BY <2>2 DEF ConfigInv, Answered
    <2>3. CASE UNCHANGED <<handles, venue, loose>>
        BY <2>3 DEF ConfigInv, Answered
    <2> QED BY <2>1, <2>2, <2>3
<1> QED BY <1>1, <1>2 DEF ConfigInv

-----------------------------------------------------------------------------
(* A change of configuration *)

\* The markets after a change are the selection and those it could not remove.
LEMMA SelectionApplied ==
    ASSUME ConfigInv, NEW r, NEW gone, ApplySelection(r, gone)
    PROVE  SelectedIsMarkets'
BY DEF ConfigInv, SelectedIsMarkets, ApplySelection, Retain, Removed, Dropped

\* A market that is not dropped is still there,
LEMMA KeptMarkets ==
    ASSUME NEW r, NEW gone, ApplySelection(r, gone),
           NEW s \in markets, s \notin Dropped(r, gone)
    PROVE  s \in markets'
BY DEF ApplySelection

\* and one that is dropped has had all its orders cancelled.
LEMMA DroppedCancelled ==
    ASSUME NEW r, NEW gone, NEW o \in handles, o.slug \in Dropped(r, gone)
    PROVE  o \in gone
BY DEF Dropped, OfSlug

LEMMA ApplySelectionInv ==
    ASSUME ConfigInv, NEW r, NEW gone, ApplySelection(r, gone)
    PROVE  ConfigInv'
<1>1. SelectedIsMarkets' BY SelectionApplied
<1>2. OfMarkets(handles)'
    <2> SUFFICES ASSUME NEW o \in handles' PROVE o.slug \in markets'
        BY DEF OfMarkets
    <2>1. o \in handles /\ o \notin gone BY DEF ApplySelection
    <2>2. o.slug \in markets BY <2>1 DEF ConfigInv, OfMarkets
    <2> QED BY <2>1, <2>2, KeptMarkets, DroppedCancelled
<1>3. OfMarkets(legs)' /\ OfMarkets(inflight)'
    <2> SUFFICES ASSUME NEW o, o \in legs' \/ o \in inflight' PROVE o.slug \in markets'
        BY DEF OfMarkets
    <2>1. (o \in legs \/ o \in inflight) /\ o.slug \notin Dropped(r, gone)
        BY DEF ApplySelection
    <2>2. o.slug \in markets BY <2>1 DEF ConfigInv, OfMarkets
    <2> QED BY <2>1, <2>2, KeptMarkets
<1>4. Answered'
    <2> SUFFICES ASSUME NEW o \in venue' PROVE o \in handles' \cup inflight' \cup loose'
        BY DEF Answered
    <2>1. o \in venue /\ o \notin gone BY DEF ApplySelection
    <2>2. o \in handles \cup inflight \cup loose BY <2>1 DEF ConfigInv, Answered
    <2> QED BY <2>1, <2>2 DEF ApplySelection
<1> QED BY <1>1, <1>2, <1>3, <1>4 DEF ConfigInv

LEMMA UpdateConfigInv ==
    ASSUME ConfigInv, NEW r, UpdateConfig(r)
    PROVE  ConfigInv'
<1>1. CASE UNCHANGED <<config, book>>
    BY <1>1 DEF ConfigInv, OfMarkets, Answered, SelectedIsMarkets, config, book
<1>2. CASE \E gone \in CancelOutcomes(r) : ApplySelection(r, gone)
    BY <1>2, ApplySelectionInv
<1> QED BY <1>1, <1>2 DEF UpdateConfig, Refuse

\* Whatever the requests, the faults and the order of things, every step keeps it.
LEMMA ConfigStepInv == ConfigInv /\ [ConfigNext]_configVars => ConfigInv'
<1> SUFFICES ASSUME ConfigInv, [ConfigNext]_configVars PROVE ConfigInv'
    OBVIOUS
<1>1. CASE \E s \in Slugs, side \in ToSet(Sides) : Submit(s, side)
    BY <1>1, SubmitInv
<1>2. CASE \E o \in Orders : Receive(o) \/ VenueFill(o) \/ LearnFill(o)
    BY <1>2, ReceiveInv, FillInv
<1>3. CASE \E s \in Slugs : CloseRound(s)
    BY <1>3, CloseRoundInv
<1>4. CASE CancelAll
    BY <1>4, CancelAllInv
<1>5. CASE \E r \in Requests : UpdateConfig(r)
    BY <1>5, UpdateConfigInv
<1>6. CASE UNCHANGED <<selected, markets, book>>
    BY <1>6 DEF ConfigInv, OfMarkets, Answered, SelectedIsMarkets, book
<1>7. Start \/ Stop => CancelAll \/ UNCHANGED <<selected, markets, book>>
    BY DEF Start, Stop, config
<1>8. \A f, success : ConfigFetched(f, success) \/ BackgroundFetched(f, success) =>
          UNCHANGED <<selected, markets, book>>
    BY DEF ConfigFetched, BackgroundFetched
<1>9. UNCHANGED configVars => UNCHANGED <<selected, markets, book>>
    BY DEF configVars, config
<1> QED BY <1>1, <1>2, <1>3, <1>4, <1>5, <1>6, <1>7, <1>8, <1>9 DEF ConfigNext

\* Nothing is left unmanaged by update_config, start, stop, the panic button and
\* what the venue does meanwhile, but the orders that are loose.
THEOREM MarketsAlwaysManaged == ConfigSpec => []MarketsManaged
<1> QED BY ConfigInitInv, ConfigStepInv, ConfigInvManages, PTL DEF ConfigSpec

-----------------------------------------------------------------------------
(* The balance of a live engine.  BalanceLocked is inductive: a fetch that a change of *)
(* configuration has begun is still under way, or has been answered for the address in *)
(* use; one for another address goes without a trace.                                  *)

LEMMA LockedUntouched == BalanceLocked /\ UNCHANGED <<mode, wallet, value>> => BalanceLocked'
BY DEF BalanceLocked, value, Address

\* A change of configuration that is answered in live mode has begun a fetch.
LEMMA ScalarsLock ==
    ASSUME BalanceLocked, NEW r, NEW open, ApplyScalars(r, open)
    PROVE  BalanceLocked'
<1>1. CASE UNCHANGED <<mode, wallet, value>>
    BY <1>1, LockedUntouched
<1>2. CASE answer' = "ok" /\ mode' = "live"
    <2> DEFINE f == [by |-> "config", wallet |-> Address(wallet')]
    <2>1. fetches' = fetches \cup {f}
        BY <1>2 DEF ApplyScalars
    <2>2. f \in fetches' /\ f.by = "config" /\ f.wallet = Address(wallet')
        BY <2>1
    <2> QED BY <2>2 DEF BalanceLocked, Address
<1>3. CASE mode' # "live"
    BY <1>3 DEF BalanceLocked
<1>4. CASE answer' = "refused" /\ mode' = "live" /\ ~UNCHANGED <<mode, wallet, value>>
    <2>1. UNCHANGED <<balanceOf, fetches>> /\ amiss' = (amiss \/ mode' # mode \/ wallet' # wallet)
        BY <1>4 DEF ApplyScalars
    <2> QED BY <2>1, <1>4 DEF BalanceLocked, Address
<1>5. UNCHANGED <<mode, wallet, value>> \/ answer' \in {"ok", "refused"}
    BY DEF ApplyScalars
<1> QED BY <1>1, <1>2, <1>3, <1>4, <1>5

LEMMA UpdateLocks ==
    ASSUME BalanceLocked, NEW r, UpdateConfig(r)
    PROVE  BalanceLocked'
<1>1. CASE UNCHANGED <<mode, wallet, value>>
    BY <1>1, LockedUntouched
<1>2. CASE \E open : ApplyScalars(r, open)
    BY <1>2, ScalarsLock
<1> QED BY <1>1, <1>2 DEF UpdateConfig, Refuse, config

\* The answer to a fetch of a change of configuration,
LEMMA ConfigFetchLocks ==
    ASSUME BalanceLocked, NEW f, NEW success \in BOOLEAN, ConfigFetched(f, success)
    PROVE  BalanceLocked'
<1>1. CASE mode = "live" /\ Address(wallet) = f.wallet /\ success
    <2>1. balanceOf' = Found(f.wallet) /\ wallet' = GivenWallet(f)
        BY <1>1 DEF ConfigFetched
    <2>2. Address(wallet') = Found(f.wallet)
        BY <2>1, <1>1, EngineConfigAssumption DEF Address, Found, GivenWallet
    <2> QED BY <2>1, <2>2 DEF BalanceLocked
<1>2. CASE mode = "live" /\ Address(wallet) = f.wallet /\ ~success
    BY <1>2 DEF ConfigFetched, BalanceLocked
<1>3. CASE ~(mode = "live" /\ Address(wallet) = f.wallet)
    <2>1. UNCHANGED <<mode, balanceOf, wallet, amiss>> /\ fetches' = fetches \ {f}
        BY <1>3 DEF ConfigFetched
    <2> QED BY <2>1, <1>3 DEF BalanceLocked, Address
<1> QED BY <1>1, <1>2, <1>3

\* and to one in the background, which may come over the value of another wallet and
\* then is amiss.
LEMMA BackgroundLocks ==
    ASSUME BalanceLocked, NEW f, NEW success \in BOOLEAN, BackgroundFetched(f, success)
    PROVE  BalanceLocked'
<1>1. CASE success /\ mode = "live"
    <2>1. balanceOf' = Found(f.wallet) /\ amiss' = (Found(f.wallet) # Address(wallet'))
        BY <1>1 DEF BackgroundFetched
    <2> QED BY <2>1 DEF BalanceLocked, Address
<1>2. CASE mode # "live"
    BY <1>2 DEF BackgroundFetched, BalanceLocked
<1>3. CASE ~success
    <2>1. UNCHANGED <<mode, wallet, balanceOf, amiss>> /\ fetches' = fetches \ {f} /\ f.by = "background"
        BY <1>3 DEF BackgroundFetched
    <2> QED BY <2>1 DEF BalanceLocked, Address
<1> QED BY <1>1, <1>2, <1>3

LEMMA LockedStep == BalanceLocked /\ [ConfigNext]_configVars => BalanceLocked'
<1> SUFFICES ASSUME BalanceLocked, [ConfigNext]_configVars PROVE BalanceLocked'
    OBVIOUS
<1>1. \A s, side : Submit(s, side) => UNCHANGED <<mode, wallet, value>>
    BY DEF Submit, config
<1>2. \A o : Receive(o) \/ VenueFill(o) \/ LearnFill(o) => UNCHANGED <<mode, wallet, value>>
    BY DEF Receive, VenueFill, LearnFill, config
<1>3. \A s : CloseRound(s) => UNCHANGED <<mode, wallet, value>>
    BY DEF CloseRound, config
<1>4. Stop \/ CancelAll \/ UNCHANGED configVars => UNCHANGED <<mode, wallet, value>>
    BY DEF Stop, CancelAll, config, configVars
<1>5. Start => BalanceLocked'
    BY DEF Start, BalanceLocked, Address, config
<1>6. \A r : UpdateConfig(r) => BalanceLocked'
    BY UpdateLocks
<1>7. \A f \in fetches, success \in BOOLEAN : ConfigFetched(f, success) \/ BackgroundFetched(f, success) => BalanceLocked'
    BY ConfigFetchLocks, BackgroundLocks
<1>8. UNCHANGED <<mode, wallet, value>> => BalanceLocked'
    BY LockedUntouched
<1>9. CASE ConfigNext
    <2>1. CASE UNCHANGED <<mode, wallet, value>>
        BY <2>1, <1>8
    <2>2. CASE Start \/ \E r \in Requests : UpdateConfig(r)
        BY <2>2, <1>5, <1>6
    <2>3. CASE \E f \in fetches, success \in BOOLEAN :
                  ConfigFetched(f, success) \/ BackgroundFetched(f, success)
        BY <2>3, <1>7
    <2> QED BY <1>9, <2>1, <2>2, <2>3, <1>1, <1>2, <1>3, <1>4 DEF ConfigNext
<1> QED BY <1>4, <1>8, <1>9

\* In whatever order changes are posted and their fetches answered, the balance of a
\* live engine is the one of the wallet in use, or is being fetched, unless it is amiss.
THEOREM BalanceStaysLocked == ConfigSpec => []BalanceLocked
<1>1. ConfigInit => BalanceLocked
    BY DEF ConfigInit, BalanceLocked
<1> QED BY <1>1, LockedStep, PTL DEF ConfigSpec
=============================================================================
