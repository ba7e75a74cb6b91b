---------------------------- MODULE ChaseLadder ----------------------------
(***************************************************************************)
(* The leg chase of strategy/live_trader.py over the life of one naked leg: *)
(* on every tick the unfilled leg's quote is raised toward its ask, under a *)
(* ceiling that climbs from the original quote to what max_pair_cost leaves *)
(* (chase_cap, chase_progress and chase_ceiling of strategy/book_math.py).  *)
(* Prices are in mills, as the anchor rounds them, and the clock in ticks.  *)
(***************************************************************************)
EXTENDS BookMath

CONSTANTS
    Entries,        \* prices the first leg may have been filled at
    Originals,      \* prices the other leg may have been quoted at
    Asks,           \* asks the book may show for it, NoPrice among them
    MaxPairCost, DeadZoneAt,
    LastTick        \* a bound on the clock

ASSUME LadderAssumption ==
    /\ Entries \subseteq Nat /\ Originals \subseteq Nat \ {NoPrice} /\ Asks \subseteq Nat
    /\ MaxPairCost \in Nat /\ DeadZoneAt \in Nat /\ LastTick \in Nat

VARIABLES entry, original, nakedAt, now, ask, bid

ladder == <<entry, original, nakedAt, now, ask, bid>>

Affordable == ChaseCap(MaxPairCost, entry)

Ceiling(t) == ChaseCeiling(original, Affordable,
                           ProgressNum(t, nakedAt, DeadZoneAt), ProgressDen(nakedAt, DeadZoneAt))

\* The quote is raised to the ask when the ceiling allows, and never lowered.
Raised(t, price) ==
    IF price # NoPrice /\ MinOf(price, Ceiling(t)) > bid
    THEN MinOf(price, Ceiling(t)) ELSE bid

LadderInit ==
    /\ entry \in Entries /\ original \in Originals /\ nakedAt \in 0 .. LastTick
    /\ now = nakedAt /\ ask = NoPrice /\ bid = original

Chase ==
    /\ ask' \in Asks
    /\ bid' = Raised(now, ask')
    /\ UNCHANGED <<entry, original, nakedAt, now>>

Wait == now < LastTick /\ now' = now + 1 /\ UNCHANGED <<entry, original, nakedAt, ask, bid>>

LadderNext == Chase \/ Wait

LadderSpec == LadderInit /\ [][LadderNext]_ladder
-----------------------------------------------------------------------------
(* Properties *)

\* The types of the ladder.
LadderTypeOK ==
    /\ entry \in Entries /\ original \in Originals /\ ask \in Asks \cup {NoPrice}
    /\ nakedAt \in 0 .. LastTick /\ now \in nakedAt .. LastTick
    /\ bid \in Nat \ {NoPrice}

\* Rule 4: a chase that starts from a quote the cap still affords never offers
\* more than the cap for the pair, at any progress and through any rounding.
ChaseWithinCap == original <= Affordable => entry + bid <= MaxPairCost

\* Rule 12: a chase that starts above the cap offers at most its own original
\* quote, rounded to the venue's cent; the ladder adds nothing to it.
ChaseNeverAboveOriginal ==
    original > Affordable => bid <= MaxOf(original, RoundCents(original))

\* Rule 12: at the dead zone the full cap is available, whenever the leg went
\* naked: the last tick before the dead zone can complete the affordable pair.
CapReachedAtDeadZone ==
    now >= DeadZoneAt /\ original < Affordable => Ceiling(now) = Affordable

\* Rule 12: once the ladder has begun to climb, the willingness to pay only
\* grows with the time the leg is naked.
CeilingRises == [][now > nakedAt => Ceiling(now') >= Ceiling(now)]_ladder

\* Rule 12: "At `progress = 0` the chase offers nothing beyond the original quote".
NothingBeyondOriginalAtStart == now = nakedAt /\ nakedAt < DeadZoneAt => bid = original
=============================================================================
