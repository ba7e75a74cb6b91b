------------------------------ MODULE BookMath ------------------------------
(***************************************************************************)
(* The pricing and clock rules of strategy/book_math.py, which the live    *)
(* engine and the backtest share.                                          *)
(*                                                                         *)
(* A price is an integer number of ten-thousandths of a dollar, so a cent  *)
(* is 100, the fill tolerance of a tenth of a cent is 10, and a mid of four   *)
(* whole-cent quotes is exact.  NoPrice is Python's None: book_math reads  *)
(* a missing or unparseable value as "unknown", and no real price is 0.    *)
(* Python's round() is taken half-up, which is its dearer outcome on the   *)
(* ties a binary float leaves to chance.                                   *)
(***************************************************************************)
EXTENDS Integers

Dollar  == 10000
Cent    == 100
FillTick == 10
NoPrice == 0

MinOf(a, b) == IF a <= b THEN a ELSE b
MaxOf(a, b) == IF a >= b THEN a ELSE b

\* round(x, 2), round(x, 3) and math.floor(x * 100) / 100.
RoundCents(x) == ((x + 50) \div 100) * 100
RoundMills(x) == ((x + 5) \div 10) * 10
FloorCents(x) == (x \div 100) * 100

\* min(0.99, max(0.01, x))
ClampQuote(x) == MinOf(9900, MaxOf(100, x))

\* A leg's best quotes: [bid |-> price or NoPrice, ask |-> price or NoPrice].
TwoSided(quote) == quote.bid # NoPrice /\ quote.ask # NoPrice

MidOfFour(up, down) == (up.bid + up.ask + 2 * Dollar - down.bid - down.ask) \div 4

TwoSidedMid(up, down) ==
    IF TwoSided(up) /\ TwoSided(down) THEN MidOfFour(up, down) ELSE NoPrice

\* The fill rule's two triggers: a print at our price, and an ask through it,
\* where an order that reaches the book on this tick may also be touched.
PrintFills(price, printed) ==
    /\ price # NoPrice
    /\ printed >= price - FillTick
    /\ printed <= price + FillTick

AskFills(price, ask, newlyPlaced) ==
    /\ price # NoPrice
    /\ ask # NoPrice
    /\ IF newlyPlaced THEN ask <= price ELSE ask <= price - FillTick

\* A mistake a property must catch: the cap is rounded instead of floored.
BugChaseCap(maxPairCost, entry) == RoundCents(maxPairCost - entry)

ChaseCap(maxPairCost, entry) == FloorCents(maxPairCost - entry)

\* The progress of the chase is the fraction num / den, with 0 <= num <= den.
ChaseCeiling(original, affordable, num, den) ==
    IF affordable <= original \/ num = 0 THEN RoundCents(original)
    ELSE IF num >= den THEN RoundCents(affordable)
    ELSE FloorCents(original + (num * (affordable - original)) \div den)

\* chase_progress: numerator and denominator.
\* Mistakes a property must catch: a leg that goes naked in the dead zone has
\* made no progress; the progress is the time that is left.
BugProgressOfLateLeg(now, nakedAt, deadZoneStart) ==
    MinOf(MaxOf(0, deadZoneStart - nakedAt), MaxOf(0, now - nakedAt))
BugProgressLeft(now, nakedAt, deadZoneStart) ==
    IF deadZoneStart <= nakedAt THEN 1
    ELSE MinOf(deadZoneStart - nakedAt, MaxOf(0, deadZoneStart - now))

ProgressNum(now, nakedAt, deadZoneStart) ==
    IF deadZoneStart <= nakedAt THEN 1
    ELSE MinOf(deadZoneStart - nakedAt, MaxOf(0, now - nakedAt))

ProgressDen(nakedAt, deadZoneStart) ==
    IF deadZoneStart <= nakedAt THEN 1 ELSE deadZoneStart - nakedAt

\* The dead zone, with its length already converted to seconds.
CutoffSeconds(length, deadZone) == IF length <= 0 \/ deadZone <= 0
                                   THEN 0 ELSE MinOf(deadZone, length)

DeadZoneStart(start, end, deadZone) == end - CutoffSeconds(end - start, deadZone)

InDeadZone(remaining, length, deadZone) ==
    /\ length > 0
    /\ \/ remaining <= 0
       \/ /\ CutoffSeconds(length, deadZone) > 0
          /\ remaining <= CutoffSeconds(length, deadZone)
=============================================================================
