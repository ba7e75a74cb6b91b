----------------------------- MODULE RoundRules -----------------------------
(***************************************************************************)
(* What docs/engine-decision-rules.md promises of the rounds of a window,  *)
(* whoever trades it: a leg is bought at most once in a round, the second  *)
(* leg completes a pair, a single leg may be sold out, what is left when   *)
(* the window ends is settled, and nothing is opened in the dead zone.     *)
(***************************************************************************)
EXTENDS Naturals

CONSTANT Legs

VARIABLES
    held,       \* the legs bought and neither merged, sold nor settled
    pairs,      \* pairs merged
    sold,       \* legs sold out, per leg
    settled,    \* legs settled, per leg
    late,       \* the dead zone has begun
    closed      \* the window has ended

ruleVars == <<held, pairs, sold, settled, late, closed>>

RuleInit ==
    /\ held = {} /\ pairs = 0
    /\ sold = [l \in Legs |-> 0] /\ settled = [l \in Legs |-> 0]
    /\ late \in BOOLEAN /\ closed = FALSE

\* The legs of bought are filled on one tick, and the round may end on it.
Trade(bought) ==
    LET now == held \cup bought
    IN /\ ~closed
       /\ bought \cap held = {}
       /\ late => late'
       /\ (late' /\ held = {}) => bought = {}
       /\ \/ now # Legs /\ held' = now /\ UNCHANGED <<pairs, sold>>
          \/ now = Legs /\ held' = {} /\ pairs' = pairs + 1 /\ UNCHANGED sold
          \/ \E l \in Legs : /\ now = {l} /\ held' = {}
                             /\ sold' = [sold EXCEPT ![l] = @ + 1] /\ UNCHANGED pairs
       /\ UNCHANGED <<settled, closed>>

\* The window ends with what is held settled.
Settle ==
    /\ ~closed /\ closed'
    /\ settled' = [l \in Legs |-> IF l \in held THEN settled[l] + 1 ELSE settled[l]]
    /\ held' = {}
    /\ UNCHANGED <<pairs, sold, late>>

RuleNext == Settle \/ \E bought \in SUBSET Legs : Trade(bought)

RuleSpec == RuleInit /\ [][RuleNext]_ruleVars
=============================================================================
