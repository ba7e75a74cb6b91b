---------------------------- MODULE StreamProofs ----------------------------
(***************************************************************************)
(* What the market socket promises, for any tokens, levels, limits and     *)
(* venue; and, at the end, that a bridge knows the loop of its worker.     *)
(*                                                                         *)
(* A ladder is right at rest because of what is true while frames are on   *)
(* their way.  A level that truly is there, or truly gone, is so in the    *)
(* book or will be made so by a frame in hand or on the wire (KeptOK), and *)
(* a frame that says otherwise is followed by one that says so (ToldOK).   *)
(* A venue's change appends a frame that tells it and denies nothing that  *)
(* is true; a snapshot tells everything; reducing a frame makes its token's *)
(* book what the frame says.  That no frame is missed rests on the         *)
(* subscription (SessionOK) and the filter (FilteredOK).                   *)
(*                                                                         *)
(* A print is handed over once since prints travel in the order they are   *)
(* numbered: recorded, in hand, on the wire (OrderOK).                     *)
(***************************************************************************)
EXTENDS MarketFeed, StreamBridge, FiniteSetTheorems, FunctionTheorems, SequenceTheorems,
        WellFoundedInduction, TLAPS

-----------------------------------------------------------------------------
(* Sets of levels *)

\* A set without a greatest member has a subset that is smallest among those; one
\* member less, and it has one.
LEMMA FiniteHasMax ==
    ASSUME NEW S \in SUBSET Int, IsFiniteSet(S), S # {}
    PROVE  \E x \in S : \A y \in S : y <= x
<1> DEFINE Without == {A \in FiniteSubsetsOf(S) : A # {} /\ ~ \E x \in A : \A y \in A : y <= x}
<1> SUFFICES ASSUME Without # {} PROVE FALSE
    BY DEF FiniteSubsetsOf
<1>1. \E A \in Without : \A B \in Without : <<B, A>> \notin StrictSubsetOrdering(S)
    <2>1. Without \subseteq FiniteSubsetsOf(S) OBVIOUS
    <2>2. IsWellFoundedOn(StrictSubsetOrdering(S), FiniteSubsetsOf(S))
        BY FS_StrictSubsetOrderingWellFounded
    <2> HIDE DEF Without
    <2> QED BY <2>1, <2>2, WFMin
<1>2. PICK A \in Without : \A B \in Without : <<B, A>> \notin StrictSubsetOrdering(S)
    BY <1>1
<1>3. PICK x \in A : TRUE OBVIOUS
<1>4. A \ {x} \in FiniteSubsetsOf(S) /\ <<A \ {x}, A>> \in StrictSubsetOrdering(S)
    BY FS_RemoveElement DEF FiniteSubsetsOf, StrictSubsetOrdering
<1>5. A \ {x} \notin Without BY <1>2, <1>4
<1>6. \A y, z \in A : y \in Int /\ z \in Int BY DEF FiniteSubsetsOf
<1>7. CASE A \ {x} = {}
    BY <1>6, <1>7
<1>8. CASE A \ {x} # {}
    <2>1. PICK z \in A \ {x} : \A y \in A \ {x} : y <= z BY <1>4, <1>5, <1>8
    <2>2. CASE x <= z BY <2>1, <2>2
    <2>3. CASE ~(x <= z)
        <3>1. \A y \in A : y <= x BY <2>1, <2>3, <1>6
        <3> QED BY <3>1
    <2> QED BY <2>2, <2>3
<1> QED BY <1>7, <1>8

LEMMA MaxOfFinite ==
    ASSUME NEW S \in SUBSET Int, IsFiniteSet(S), S # {}
    PROVE  Max(S) \in S /\ \A y \in S : y <= Max(S)
<1>1. \E x \in S : \A y \in S : x >= y BY FiniteHasMax
<1> QED BY <1>1 DEF Max

\* The best level of a ladder bounds it.
LEMMA BestBounds ==
    ASSUME NEW levels \in SUBSET Levels
    PROVE  /\ Best(levels) \in levels \cup {0}
           /\ Best(levels) \in Nat
           /\ \A l \in levels : l <= Best(levels)
<1>0. IsFiniteSet(levels) BY FS_Subset, FeedAssumption
<1>1. IsFiniteSet(levels \cup {0}) BY <1>0, FS_AddElement
<1>2. levels \cup {0} \in SUBSET Int BY FeedAssumption
<1>3. /\ Max(levels \cup {0}) \in levels \cup {0}
      /\ \A y \in levels \cup {0} : y <= Max(levels \cup {0})
    BY <1>1, <1>2, MaxOfFinite
<1>4. Best(levels) = Max(levels \cup {0}) BY DEF Best
<1>5. Best(levels) \in levels \cup {0} /\ \A l \in levels : l <= Best(levels) BY <1>3, <1>4
<1>6. levels \cup {0} \subseteq Nat BY FeedAssumption
<1> QED BY <1>5, <1>6

LEMMA LargerOfTwo ==
    ASSUME NEW a \in Int, NEW b \in Int
    PROVE  Max({a, b}) = IF a >= b THEN a ELSE b
<1>1. {a, b} \in SUBSET Int /\ IsFiniteSet({a, b}) /\ {a, b} # {}
    <2>1. IsFiniteSet({a}) BY FS_Singleton
    <2>2. IsFiniteSet({a} \cup {b}) BY <2>1, FS_AddElement
    <2>3. {a} \cup {b} = {a, b} OBVIOUS
    <2> QED BY <2>2, <2>3
<1>2. Max({a, b}) \in {a, b} /\ \A y \in {a, b} : y <= Max({a, b})
    BY <1>1, MaxOfFinite
<1> QED BY <1>2

LEMMA SmallerOfTwo ==
    ASSUME NEW a \in Int, NEW b \in Int
    PROVE  Min({a, b}) = IF a <= b THEN a ELSE b
<1>1. \E x \in {a, b} : \A y \in {a, b} : x <= y OBVIOUS
<1>2. Min({a, b}) \in {a, b} /\ \A y \in {a, b} : Min({a, b}) <= y BY <1>1 DEF Min
<1> QED BY <1>2

-----------------------------------------------------------------------------
(* Frames *)

\* A frame taken in hand keeps its fields.
LEMMA TakenInHand ==
    ASSUME NEW f \in Frames
    PROVE  /\ (InHand(f)).kind = f.kind
           /\ f.kind # "pong" => InHand(f) \in Reducing
           /\ f.kind \in {"book", "price_change", "best_bid_ask", "trade"} =>
                (InHand(f)).token = f.token
           /\ f.kind = "book" => (InHand(f)).levels = f.levels
           /\ f.kind = "price_change" =>
                LET g == InHand(f)
                IN  g.on = f.on /\ g.level = f.level /\ g.best = f.best
           /\ f.kind = "trade" => (InHand(f)).id = f.id
           /\ (InHand(f)).at = "apply"
<1> DEFINE g == InHand(f)
<1>1. CASE f \in [kind : {"book"}, token : Tokens, levels : SUBSET Levels]
    <2>1. g = [kind |-> f.kind, token |-> f.token, levels |-> f.levels, at |-> "apply"]
        BY <1>1 DEF InHand
    <2> QED BY <1>1, <2>1 DEF Reducing
<1>2. CASE f \in [kind : {"price_change"}, token : Tokens, level : Levels, on : BOOLEAN, best : Bests]
    <2>1. g = [kind |-> f.kind, token |-> f.token, level |-> f.level, on |-> f.on,
               best |-> f.best, at |-> "apply"]
        BY <1>2 DEF InHand
    <2> QED BY <1>2, <2>1 DEF Reducing
<1>3. CASE f \in [kind : {"best_bid_ask"}, token : Tokens, best : Bests]
    <2>1. g = [kind |-> f.kind, token |-> f.token, best |-> f.best, at |-> "apply"]
        BY <1>3 DEF InHand
    <2> QED BY <1>3, <2>1 DEF Reducing
<1>4. CASE f \in [kind : {"trade"}, token : Tokens, id : Nat]
    <2>1. g = [kind |-> f.kind, token |-> f.token, id |-> f.id, at |-> "apply"]
        BY <1>4 DEF InHand
    <2> QED BY <1>4, <2>1 DEF Reducing
<1>5. CASE f \in [kind : {"pong"}]
    BY <1>5 DEF InHand
<1> QED BY <1>1, <1>2, <1>3, <1>4, <1>5 DEF Frames

\* The tokens of a subscription in some order.
LEMMA InOrder ==
    ASSUME NEW ts \in SUBSET Tokens
    PROVE  /\ Cardinality(ts) \in Nat
           /\ \A i \in 1..Cardinality(ts) : SetToSeq(ts)[i] \in ts
<1>1. IsFiniteSet(ts) BY FS_Subset, FeedAssumption
<1>2. Cardinality(ts) \in Nat /\ ExistsBijection(1..Cardinality(ts), ts)
    BY <1>1, FS_CardinalityType
<1>3. \E f \in [1..Cardinality(ts) -> ts] : IsInjective(f)
    BY <1>2 DEF ExistsBijection, Bijection, Injection, IsInjective, Surjection
<1>4. SetToSeq(ts) \in [1..Cardinality(ts) -> ts]
    BY <1>3 DEF SetToSeq
<1> QED BY <1>2, <1>4

LEMMA SnapshotsAre ==
    ASSUME NEW ts \in SUBSET Tokens, venue \in [Tokens -> SUBSET Levels]
    PROVE  /\ Snapshots(ts) \in Seq(Frames)
           /\ \A i \in 1..Len(Snapshots(ts)) :
                /\ Snapshots(ts)[i].kind = "book"
                /\ Snapshots(ts)[i].token \in ts
                /\ Snapshots(ts)[i].levels = venue[Snapshots(ts)[i].token]
<1>1. Cardinality(ts) \in Nat /\ \A i \in 1..Cardinality(ts) : SetToSeq(ts)[i] \in ts
    BY InOrder
<1>2. Snapshots(ts) = [i \in 1..Cardinality(ts) |->
          [kind |-> "book", token |-> SetToSeq(ts)[i], levels |-> venue[SetToSeq(ts)[i]]]]
    BY DEF Snapshots
<1>3. \A i \in 1..Cardinality(ts) :
          [kind |-> "book", token |-> SetToSeq(ts)[i], levels |-> venue[SetToSeq(ts)[i]]] \in Frames
    BY <1>1 DEF Frames
<1>4. Snapshots(ts) \in Seq(Frames) /\ Len(Snapshots(ts)) = Cardinality(ts)
    BY <1>1, <1>2, <1>3, IsASeq, LenProperties
<1> QED BY <1>1, <1>2, <1>4

-----------------------------------------------------------------------------
(* The inductive invariant                                                 *)

\* Which tokens a session has subscribed to, and since which version.
SessionOK ==
    /\ subVersion <= version
    /\ update.at # "filter" => filter = tokens
    /\ link \in {"sending", "up"} /\ subVersion = version /\ update.at \notin {"filter", "version"}
         => subscribed = tokens
    /\ Transport = "direct" /\ link = "sending" => subscribed = tokens
    /\ hand # Idle => link = "up"
    /\ link = "sending" => snapped = {}

\* What a session has taken in passed the filter, until the filter is another.
FilteredOK ==
    link = "up" /\ version = subVersion /\ update.at # "version" =>
        /\ \A t \in snapped : Allowed(t)
        /\ hand.kind = "book" => Allowed(hand.token)

\* After frame f, level l of token t is there, or gone.
Prunes(f, l) == Transport = "direct" /\ f.best # None /\ ~(l <= f.best)

Makes(f, t, l, is) ==
    \/ /\ f.kind = "book" /\ f.token = t
       /\ IF is = "there" THEN l \in f.levels ELSE l \notin f.levels
    \/ /\ f.kind = "price_change" /\ f.token = t
       /\ IF is = "there" THEN f.on /\ f.level = l /\ ~Prunes(f, l)
                          ELSE (~f.on /\ f.level = l) \/ Prunes(f, l)

MadeAfter(i, t, l, is) == \E j \in 1..Len(wire) : i < j /\ Makes(wire[j], t, l, is)

HandMakes(t, l, is) ==
    hand.kind \in {"book", "price_change"} /\ hand.at = "apply" /\ Makes(hand, t, l, is)

Truly(t, l, is) == IF is = "there" THEN l \in venue[t] ELSE l \notin venue[t] \cup ghosts[t]
InBook(t, l, is) == IF is = "there" THEN l \in book[t] ELSE l \notin book[t]
Other(is) == IF is = "there" THEN "gone" ELSE "there"

\* What is on its way ends in the truth.
ToldOK ==
    link = "up" => \A t \in subscribed : \A l \in Levels : \A is \in {"there", "gone"} :
        Truly(t, l, is) =>
            /\ \A i \in 1..Len(wire) : Makes(wire[i], t, l, Other(is)) => MadeAfter(i, t, l, is)
            /\ HandMakes(t, l, Other(is)) => MadeAfter(0, t, l, is)

\* A book in use is right at each level, or what is on its way sets it right.
KeptOK ==
    link = "up" /\ version = subVersion =>
        \A t \in snapped \cap subscribed : \A l \in Levels : \A is \in {"there", "gone"} :
            Allowed(t) /\ Truly(t, l, is) =>
                InBook(t, l, is) \/ HandMakes(t, l, is) \/ MadeAfter(0, t, l, is)

\* A change being labelled has pruned its book.
PrunedOK ==
    hand.kind = "price_change" =>
        (hand.at # "apply" /\ hand.best # None => \A l \in book[hand.token] : l <= hand.best)

\* Prints are numbered in the order they are sent: those recorded come before the one
\* in hand, and that one before those on the wire.
OnWireOK(n) ==
    \A i \in 1..Len(wire) : wire[i].kind = "trade" =>
        /\ n < wire[i].id /\ wire[i].id < spent.prints

Recorded(n) ==
    \/ \E t \in Tokens : \E i \in 1..Len(buffer[t]) : buffer[t][i] = n
    \/ \E i \in 1..Len(drained) : drained[i] = n

OrderOK ==
    /\ OnWireOK(-1)
    /\ \A i, j \in 1..Len(wire) :
          wire[i].kind = "trade" /\ wire[j].kind = "trade" /\ i < j => wire[i].id < wire[j].id
    /\ hand.kind = "trade" => OnWireOK(hand.id) /\ hand.id < spent.prints
    /\ \A n \in Nat : Recorded(n) =>
          OnWireOK(n) /\ n < spent.prints /\ (hand.kind = "trade" => n < hand.id)

OnceOK ==
    /\ PrintsOnce
    /\ \A t \in Tokens : \A i \in 1..Len(buffer[t]) : \A k \in 1..Len(drained) :
          buffer[t][i] # drained[k]
    /\ \A t, u \in Tokens : \A i \in 1..Len(buffer[t]) : \A j \in 1..Len(buffer[u]) :
          buffer[t][i] = buffer[u][j] => t = u /\ i = j

\* A book the session has a snapshot of is there.
SnappedOK == \A t \in snapped : book[t] \subseteq Levels

\* What holds however tokens are rotated, and what holds of a session's books.
PrintsInv == TypeOK /\ PrunedOK /\ NoGhostTop /\ OrderOK /\ OnceOK /\ SnappedOK
IInv == PrintsInv /\ SessionOK /\ FilteredOK /\ ToldOK /\ KeptOK

-----------------------------------------------------------------------------
(* Steps *)

\* The step, told by its action.
LEMMA StepCases ==
    ASSUME [Next]_vars
    PROVE  \/ BeginRotation \/ SetFilter \/ BumpVersion \/ DropBuffers \/ DropBooks
           \/ \E t \in Tokens : Drain(t)
           \/ Connecting \/ Connected \/ Subscribed \/ Rotated \/ PongOverdue \/ BackedOff
           \/ Receive \/ ApplyBook \/ ApplyChange \/ ApplyQuote \/ RelabelChange \/ RecordTrade
           \/ ConnectionFails \/ Stop
           \/ VenueMoves \/ VenueQuotes \/ VenueTrades \/ VenuePongs \/ PongAges
           \/ UNCHANGED vars
BY DEF Next, Rotation, Socket, Reduce

\* What is in hand, by its kind.
LEMMA HandFacts ==
    ASSUME hand \in Reducing \cup {Idle}
    PROVE  /\ hand.kind \in {"none", "book", "price_change", "best_bid_ask", "trade"}
           /\ hand.kind = "none" <=> hand = Idle
           /\ hand.kind # "none" => hand.token \in Tokens
           /\ hand.kind = "book" => hand.levels \in SUBSET Levels /\ hand.at = "apply"
           /\ hand.kind = "price_change" =>
                /\ hand.level \in Levels /\ hand.on \in BOOLEAN /\ hand.best \in Bests
                /\ hand.at \in {"apply", "quote", "label"}
                /\ \A at \in {"apply", "quote", "label"} : [hand EXCEPT !.at = at] \in Reducing
           /\ hand.kind = "best_bid_ask" => hand.best \in Bests
           /\ hand.kind = "trade" => hand.id \in Nat
<1>1. CASE hand = Idle BY <1>1 DEF Idle
<1>2. CASE hand \in [kind : {"book"}, token : Tokens, levels : SUBSET Levels, at : {"apply"}]
    BY <1>2 DEF Idle
<1>3. CASE hand \in [kind : {"price_change"}, token : Tokens, level : Levels, on : BOOLEAN,
                     best : Bests, at : {"apply", "quote", "label"}]
    BY <1>3 DEF Idle, Reducing
<1>4. CASE hand \in [kind : {"best_bid_ask"}, token : Tokens, best : Bests, at : {"apply"}]
    BY <1>4 DEF Idle
<1>5. CASE hand \in [kind : {"trade"}, token : Tokens, id : Nat, at : {"apply"}]
    BY <1>5 DEF Idle
<1> QED BY <1>1, <1>2, <1>3, <1>4, <1>5 DEF Reducing

LEMMA FrameFacts ==
    ASSUME NEW f \in Frames
    PROVE  /\ f.kind \in {"book", "price_change", "best_bid_ask", "trade", "pong"}
           /\ f.kind # "pong" => f.token \in Tokens
           /\ f.kind = "trade" => f.id \in Nat
BY DEF Frames

LEMMA SpendFacts ==
    ASSUME spent \in [rotations : Nat, moves : Nat, prints : Nat, faults : Nat],
           NEW what \in {"rotations", "moves", "prints", "faults"}, NEW bound, Spend(what, bound)
    PROVE  /\ spent' \in [rotations : Nat, moves : Nat, prints : Nat, faults : Nat]
           /\ spent'.prints = IF what = "prints" THEN spent.prints + 1 ELSE spent.prints
BY DEF Spend

\* A frame sent is the last on the wire, or reaches no session.
LEMMA SendFacts ==
    ASSUME wire \in Seq(Frames), NEW t \in Tokens, NEW f \in Frames, Send(t, f)
    PROVE  /\ wire' \in Seq(Frames)
           /\ \A i \in 1..Len(wire) : i \in 1..Len(wire') /\ wire'[i] = wire[i]
           /\ ~(link = "up" /\ t \in subscribed) => wire' = wire
           /\ link = "up" /\ t \in subscribed =>
                /\ Len(wire') = Len(wire) + 1 /\ wire'[Len(wire')] = f
           /\ \A i \in 1..Len(wire') : \/ i \in 1..Len(wire) /\ wire'[i] = wire[i]
                                       \/ i = Len(wire) + 1 /\ wire'[i] = f
<1>0. Len(wire) \in Nat BY LenProperties
<1>1. CASE link = "up" /\ t \in subscribed
    <2>1. wire' = Append(wire, f) BY <1>1 DEF Send
    <2>2. /\ wire' \in Seq(Frames) /\ Len(wire') = Len(wire) + 1
          /\ \A i \in 1..Len(wire) : wire'[i] = wire[i]
          /\ wire'[Len(wire) + 1] = f
        BY <2>1, AppendProperties
    <2> QED BY <1>0, <1>1, <2>2
<1>2. CASE ~(link = "up" /\ t \in subscribed)
    <2>1. wire' = wire BY <1>2 DEF Send
    <2> QED BY <1>0, <1>2, <2>1
<1> QED BY <1>1, <1>2

\* What the venue sends.
Turned(t, l) == IF l \notin venue[t] THEN venue[t] \cup {l} ELSE venue[t] \ {l}
Moved(t, l, declared) ==
    [kind |-> "price_change", token |-> t, level |-> l, on |-> l \notin venue[t],
     best |-> IF declared THEN Best(Turned(t, l)) ELSE None]
Quoting(t) == [kind |-> "best_bid_ask", token |-> t, best |-> Best(venue[t])]
Trading(t) == [kind |-> "trade", token |-> t, id |-> spent.prints]

LEMMA QuotingFacts ==
    ASSUME venue \in [Tokens -> SUBSET Levels], NEW t \in Tokens
    PROVE  Quoting(t) \in Frames
<1>1. Best(venue[t]) \in Bests BY BestBounds DEF Bests
<1> QED BY <1>1 DEF Quoting, Frames

LEMMA TradingFacts ==
    ASSUME spent \in [rotations : Nat, moves : Nat, prints : Nat, faults : Nat], NEW t \in Tokens
    PROVE  Trading(t) \in Frames
BY DEF Trading, Frames

\* A change of the venue's book, as the venue tells it: a level said to be there is
\* not below it, and nothing that stays is pruned.
LEMMA MovedFacts ==
    ASSUME venue \in [Tokens -> SUBSET Levels], NEW t \in Tokens, NEW l \in Levels,
           NEW declared \in BOOLEAN
    PROVE  /\ Turned(t, l) \in SUBSET Levels
           /\ Moved(t, l, declared) \in Frames
           /\ Moved(t, l, declared).kind = "price_change"
           /\ Moved(t, l, declared).token = t
           /\ Moved(t, l, declared).level = l
           /\ Moved(t, l, declared).on <=> l \notin venue[t]
           /\ Moved(t, l, declared).best # None =>
                \A k \in Turned(t, l) : k <= Moved(t, l, declared).best
<1>1. Turned(t, l) \in SUBSET Levels BY DEF Turned
<1>2. Best(Turned(t, l)) \in Bests /\ \A k \in Turned(t, l) : k <= Best(Turned(t, l))
    BY <1>1, BestBounds DEF Bests
<1>3. (IF declared THEN Best(Turned(t, l)) ELSE None) \in Bests BY <1>2 DEF Bests
<1>4. (l \notin venue[t]) \in BOOLEAN OBVIOUS
<1>5. Moved(t, l, declared) \in Frames BY <1>3, <1>4 DEF Moved, Frames
<1> QED BY <1>1, <1>2, <1>5 DEF Moved

LEMMA Moving ==
    ASSUME TypeOK, VenueMoves
    PROVE  /\ venue' \in [Tokens -> SUBSET Levels] /\ ghosts' \in [Tokens -> SUBSET Levels]
           /\ wire' \in Seq(Frames)
           /\ \E t \in Tokens, l \in Levels, declared \in BOOLEAN :
                /\ venue' = [venue EXCEPT ![t] = Turned(t, l)]
                /\ \/ ghosts' = ghosts /\ Send(t, Moved(t, l, declared))
                   \/ l \in venue[t] /\ ghosts' = [ghosts EXCEPT ![t] = @ \cup {l}] /\ wire' = wire
<1>1. PICK t \in Tokens, l \in Levels, declared \in BOOLEAN, silent \in BOOLEAN :
        LET on == l \notin venue[t]
            new == IF on THEN venue[t] \cup {l} ELSE venue[t] \ {l}
        IN  /\ silent => ~on
            /\ venue' = [venue EXCEPT ![t] = new]
            /\ ghosts' = IF silent THEN [ghosts EXCEPT ![t] = @ \cup {l}] ELSE ghosts
            /\ IF silent THEN UNCHANGED wire
               ELSE Send(t, [kind |-> "price_change", token |-> t, level |-> l, on |-> on,
                             best |-> IF declared THEN Best(new) ELSE None])
    BY DEF VenueMoves
<1>2. venue' = [venue EXCEPT ![t] = Turned(t, l)] BY <1>1 DEF Turned
<1>3. \/ ghosts' = ghosts /\ Send(t, Moved(t, l, declared))
      \/ l \in venue[t] /\ ghosts' = [ghosts EXCEPT ![t] = @ \cup {l}] /\ wire' = wire
    BY <1>1 DEF Moved, Turned
<1>4. Turned(t, l) \in SUBSET Levels /\ Moved(t, l, declared) \in Frames
    BY MovedFacts DEF TypeOK
<1>5. venue' \in [Tokens -> SUBSET Levels] BY <1>2, <1>4 DEF TypeOK
<1>6. ghosts' \in [Tokens -> SUBSET Levels]
    <2>1. ghosts[t] \cup {l} \in SUBSET Levels BY DEF TypeOK
    <2>2. ghosts' = ghosts \/ ghosts' = [ghosts EXCEPT ![t] = ghosts[t] \cup {l}] BY <1>3
    <2> QED BY <2>1, <2>2 DEF TypeOK
<1>7. wire' \in Seq(Frames) BY <1>3, <1>4, SendFacts DEF TypeOK
<1> QED BY <1>2, <1>3, <1>5, <1>6, <1>7

\* A print recorded is the last of its buffer; of those before it some stay, in their
\* order, and the buffer keeps to its limit.
LEMMA Recording ==
    ASSUME RecordTrade, buffer \in [Tokens -> Seq(Nat)], hand.token \in Tokens, hand.id \in Nat
    PROVE  /\ buffer' \in [Tokens -> Seq(Nat)]
           /\ \A t \in Tokens : t # hand.token => buffer'[t] = buffer[t]
           /\ Len(buffer'[hand.token]) <= BufferMax
           /\ \E cut \in Nat :
                /\ cut <= Len(buffer[hand.token])
                /\ Len(buffer'[hand.token]) = Len(buffer[hand.token]) + 1 - cut
                /\ \A i \in 1..Len(buffer'[hand.token]) :
                    buffer'[hand.token][i] = IF i + cut <= Len(buffer[hand.token])
                                             THEN buffer[hand.token][i + cut] ELSE hand.id
<1> DEFINE old == buffer[hand.token]
           longer == Append(old, hand.id)
           excess == Max({Len(longer) - BufferMax, 0})
           kept == SubSeq(longer, excess + 1, Len(longer))
<1>1. buffer' = [buffer EXCEPT ![hand.token] = kept] BY DEF RecordTrade
<1>2. old \in Seq(Nat) /\ Len(old) \in Nat BY LenProperties
<1>3. /\ longer \in Seq(Nat) /\ Len(longer) = Len(old) + 1
      /\ \A i \in 1..Len(longer) : longer[i] = IF i <= Len(old) THEN old[i] ELSE hand.id
    BY <1>2, AppendProperties
<1> HIDE DEF old, longer
<1>4. excess = IF Len(longer) - BufferMax >= 0 THEN Len(longer) - BufferMax ELSE 0
    <2>1. Len(longer) - BufferMax \in Int BY <1>2, <1>3, FeedAssumption
    <2> QED BY <2>1, LargerOfTwo
<1>5. excess \in Nat /\ excess <= Len(old) /\ Len(longer) - excess <= BufferMax
    BY <1>2, <1>3, <1>4, FeedAssumption
<1> HIDE DEF excess
<1>6. /\ kept \in Seq(Nat) /\ Len(kept) = Len(longer) - excess
      /\ \A i \in 1..Len(kept) : kept[i] = longer[i + excess]
    <2>1. kept \in Seq(Nat) /\ Len(kept) = Len(longer) - (excess + 1) + 1
        BY <1>2, <1>3, <1>5, SubSeqProperties
    <2>2. \A i \in 1..Len(kept) : kept[i] = longer[(excess + 1) + i - 1]
        BY <1>2, <1>3, <1>5, <2>1, SubSeqProperties
    <2> QED BY <1>2, <1>3, <1>5, <2>1, <2>2
<1> HIDE DEF kept
<1>7. buffer' \in [Tokens -> Seq(Nat)] BY <1>1, <1>6
<1>8. buffer'[hand.token] = kept /\ \A t \in Tokens : t # hand.token => buffer'[t] = buffer[t]
    BY <1>1
<1>9. \A i \in 1..Len(kept) : kept[i] = IF i + excess <= Len(old) THEN old[i + excess] ELSE hand.id
    <2> SUFFICES ASSUME NEW i \in 1..Len(kept)
                 PROVE  kept[i] = IF i + excess <= Len(old) THEN old[i + excess] ELSE hand.id
        OBVIOUS
    <2>1. i + excess \in 1..Len(longer) BY <1>2, <1>3, <1>5, <1>6
    <2> QED BY <1>3, <1>6, <2>1
<1>10. Len(kept) <= BufferMax /\ Len(kept) = Len(old) + 1 - excess BY <1>2, <1>3, <1>5, <1>6
<1> QED BY <1>5, <1>7, <1>8, <1>9, <1>10 DEF old

LEMMA TypeInit == Init => TypeOK
<1> SUFFICES ASSUME Init PROVE TypeOK OBVIOUS
<1>1. tokens \subseteq Tokens BY DEF Init
<1>2. /\ buffer \in [Tokens -> Seq(Nat)] /\ \A t \in Tokens : Len(buffer[t]) = 0
      /\ drained \in Seq(Nat) /\ wire \in Seq(Frames)
    BY EmptySeq DEF Init
<1> QED BY <1>1, <1>2, FeedAssumption DEF Init, TypeOK, NoBook, Bests, Idle

LEMMA TypeStep == TypeOK /\ [Next]_vars => TypeOK'
<1> SUFFICES ASSUME TypeOK, [Next]_vars PROVE TypeOK' OBVIOUS
<1> USE DEF books, prints, subscription, session, outside
<1>1. CASE BeginRotation
    <2>1. PICK new \in SUBSET Tokens :
              tokens' = new /\ update' = [at |-> "filter", dropped |-> tokens \ new]
        BY <1>1 DEF BeginRotation
    <2>2. spent' \in [rotations : Nat, moves : Nat, prints : Nat, faults : Nat]
        BY <1>1, SpendFacts DEF BeginRotation, TypeOK
    <2> QED BY <1>1, <2>1, <2>2 DEF BeginRotation, TypeOK
<1>2. CASE SetFilter BY <1>2 DEF SetFilter, TypeOK
<1>3. CASE BumpVersion
    <2>1. update' \in [at : {"idle", "filter", "version", "buffers", "books"},
                       dropped : SUBSET Tokens]
        BY <1>3 DEF BumpVersion, TypeOK
    <2>2. version' \in Nat BY <1>3 DEF BumpVersion, TypeOK
    <2> QED BY <1>3, <2>1, <2>2 DEF BumpVersion, TypeOK
<1>4. CASE DropBuffers
    <2>1. /\ buffer' \in [Tokens -> Seq(Nat)]
          /\ \A t \in Tokens : Len(buffer'[t]) <= BufferMax
        BY <1>4, EmptySeq, FeedAssumption DEF DropBuffers, TypeOK
    <2> QED BY <1>4, <2>1 DEF DropBuffers, TypeOK
<1>5. CASE DropBooks
    <2>1. book' \in [Tokens -> (SUBSET Levels) \cup {NoBook}]
        BY <1>5 DEF DropBooks, TypeOK
    <2>2. frame' \in [Tokens -> [kind : {"none", "book", "price_change", "best_bid_ask"}, best : Bests]]
        BY <1>5 DEF DropBooks, TypeOK, Bests
    <2> QED BY <1>5, <2>1, <2>2 DEF DropBooks, TypeOK
<1>6. CASE \E t \in Tokens : Drain(t)
    <2>1. PICK t \in Tokens : Drain(t) BY <1>6
    <2>2. drained' \in Seq(Nat) BY <2>1, ConcatProperties DEF Drain, TypeOK
    <2>3. /\ buffer' \in [Tokens -> Seq(Nat)]
          /\ \A u \in Tokens : Len(buffer'[u]) <= BufferMax
        BY <2>1, EmptySeq, FeedAssumption DEF Drain, TypeOK
    <2> QED BY <2>1, <2>2, <2>3 DEF Drain, TypeOK
<1>7. CASE Connecting BY <1>7 DEF Connecting, TypeOK
<1>8. CASE Connected
    <2>1. wire' \in Seq(Frames) BY <1>8, EmptySeq DEF Connected
    <2>2. /\ link' = "sending" /\ subscribed' \subseteq Tokens /\ snapped' \subseteq Tokens
          /\ lastPong' = "none" /\ backoff' \in 0..BackoffCap /\ failures' \in Nat
        BY <1>8, FeedAssumption DEF Connected, TypeOK
    <2> QED BY <1>8, <2>1, <2>2 DEF Connected, TypeOK
<1>9. CASE Subscribed
    <2>1. wire' \in Seq(Frames) BY <1>9, SnapshotsAre DEF Subscribed, TypeOK
    <2>2. ghosts' \in [Tokens -> SUBSET Levels] BY <1>9 DEF Subscribed
    <2>3. subVersion' \in Nat BY <1>9 DEF Subscribed, TypeOK
    <2> QED BY <1>9, <2>1, <2>2, <2>3 DEF Subscribed, TypeOK
<1>10. CASE Rotated BY <1>10 DEF Rotated, TypeOK
<1>11. CASE PongOverdue BY <1>11 DEF PongOverdue, Fail, TypeOK
<1>12. CASE BackedOff
    <2>1. backoff' \in 0..BackoffCap
        <3>0. backoff + 1 \in Int /\ BackoffCap \in Int BY FeedAssumption DEF TypeOK
        <3>1. Min({backoff + 1, BackoffCap}) =
                  IF backoff + 1 <= BackoffCap THEN backoff + 1 ELSE BackoffCap
            BY <3>0, SmallerOfTwo
        <3> QED BY <1>12, <3>1, FeedAssumption DEF BackedOff, TypeOK
    <2> QED BY <1>12, <2>1 DEF BackedOff, TypeOK
<1>13. CASE Receive
    <2>1. Head(wire) \in Frames /\ wire' \in Seq(Frames)
        BY <1>13, HeadTailProperties DEF Receive, TypeOK
    <2>2. hand' \in Reducing \cup {Idle}
        BY <1>13, <2>1, TakenInHand DEF Receive, TypeOK
    <2>3. lastPong' \in {"none", "recent", "old"} BY <1>13 DEF Receive, TypeOK
    <2> QED BY <1>13, <2>1, <2>2, <2>3 DEF Receive, TypeOK
<1>14. CASE ApplyBook
    <2>1. hand.token \in Tokens /\ hand.levels \in SUBSET Levels
        BY <1>14, HandFacts DEF ApplyBook, TypeOK
    <2>2. book' \in [Tokens -> (SUBSET Levels) \cup {NoBook}]
        BY <1>14, <2>1 DEF ApplyBook, TypeOK
    <2>3. frame' \in [Tokens -> [kind : {"none", "book", "price_change", "best_bid_ask"}, best : Bests]]
        BY <1>14, <2>1 DEF ApplyBook, Label, TypeOK, Bests
    <2> QED BY <1>14, <2>1, <2>2, <2>3 DEF ApplyBook, TypeOK
<1>15. CASE ApplyChange
    <2>1. hand.token \in Tokens /\ hand.level \in Levels /\ hand.best \in Bests
        BY <1>15, HandFacts DEF ApplyChange, TypeOK
    <2>2. book' \in [Tokens -> (SUBSET Levels) \cup {NoBook}]
        <3>1. book[hand.token] \ {None} \in SUBSET Levels BY <2>1 DEF TypeOK, NoBook
        <3> QED BY <1>15, <2>1, <3>1 DEF ApplyChange, Pruned, TypeOK
    <2>3. frame' \in [Tokens -> [kind : {"none", "book", "price_change", "best_bid_ask"}, best : Bests]]
        BY <1>15, <2>1 DEF ApplyChange, Label, TypeOK, Bests
    <2>4. hand' \in Reducing \cup {Idle}
        BY <1>15, HandFacts DEF ApplyChange, TypeOK
    <2> QED BY <1>15, <2>2, <2>3, <2>4 DEF ApplyChange, TypeOK
<1>16. CASE ApplyQuote
    <2>1. hand.token \in Tokens /\ hand.best \in Bests
        BY <1>16, HandFacts DEF ApplyQuote, TypeOK
    <2>2. frame' \in [Tokens -> [kind : {"none", "book", "price_change", "best_bid_ask"}, best : Bests]]
        BY <1>16, <2>1 DEF ApplyQuote, Label, TypeOK
    <2>3. hand' \in Reducing \cup {Idle}
        BY <1>16, HandFacts DEF ApplyQuote, TypeOK
    <2> QED BY <1>16, <2>2, <2>3 DEF ApplyQuote, TypeOK
<1>17. CASE RelabelChange
    <2>1. hand.token \in Tokens /\ hand.best \in Bests
        BY <1>17, HandFacts DEF RelabelChange, TypeOK
    <2>2. frame' \in [Tokens -> [kind : {"none", "book", "price_change", "best_bid_ask"}, best : Bests]]
        BY <1>17, <2>1 DEF RelabelChange, Label, TypeOK
    <2> QED BY <1>17, <2>2 DEF RelabelChange, TypeOK
<1>18. CASE RecordTrade
    <2>1. hand.token \in Tokens /\ hand.id \in Nat
        BY <1>18, HandFacts DEF RecordTrade, TypeOK
    <2>2. buffer' \in [Tokens -> Seq(Nat)] /\ \A t \in Tokens : Len(buffer'[t]) <= BufferMax
        BY <1>18, <2>1, Recording DEF TypeOK
    <2> QED BY <1>18, <2>2 DEF RecordTrade, TypeOK
<1>19. CASE ConnectionFails
    <2>1. spent' \in [rotations : Nat, moves : Nat, prints : Nat, faults : Nat]
        BY <1>19, SpendFacts DEF ConnectionFails, TypeOK
    <2> QED BY <1>19, <2>1 DEF ConnectionFails, Fail, TypeOK
<1>20. CASE Stop BY <1>20 DEF Stop, TypeOK
<1>21. CASE VenueMoves
    <2>1. spent' \in [rotations : Nat, moves : Nat, prints : Nat, faults : Nat]
        BY <1>21, SpendFacts DEF VenueMoves, TypeOK
    <2>2. wire' \in Seq(Frames) /\ venue' \in [Tokens -> SUBSET Levels]
            /\ ghosts' \in [Tokens -> SUBSET Levels]
        BY <1>21, Moving DEF TypeOK
    <2> QED BY <1>21, <2>1, <2>2 DEF VenueMoves, TypeOK
<1>22. CASE VenueQuotes
    <2>1. spent' \in [rotations : Nat, moves : Nat, prints : Nat, faults : Nat]
        BY <1>22, SpendFacts DEF VenueQuotes, TypeOK
    <2>2. PICK t \in Tokens : Send(t, Quoting(t)) BY <1>22 DEF VenueQuotes, Quoting
    <2>3. wire' \in Seq(Frames) BY <2>2, SendFacts, QuotingFacts DEF TypeOK
    <2> QED BY <1>22, <2>1, <2>3 DEF VenueQuotes, TypeOK
<1>23. CASE VenueTrades
    <2>1. spent' \in [rotations : Nat, moves : Nat, prints : Nat, faults : Nat]
        BY <1>23, SpendFacts DEF VenueTrades, TypeOK
    <2>2. PICK t \in Tokens : Send(t, Trading(t)) BY <1>23 DEF VenueTrades, Trading
    <2>3. wire' \in Seq(Frames) BY <2>2, SendFacts, TradingFacts DEF TypeOK
    <2> QED BY <1>23, <2>1, <2>3 DEF VenueTrades, TypeOK
<1>24. CASE VenuePongs
    <2>1. wire' \in Seq(Frames)
        <3>1. [kind |-> "pong"] \in Frames BY DEF Frames
        <3> QED BY <1>24, <3>1, AppendProperties DEF VenuePongs, TypeOK
    <2> QED BY <1>24, <2>1 DEF VenuePongs, TypeOK
<1>25. CASE PongAges
    <2>1. spent' \in [rotations : Nat, moves : Nat, prints : Nat, faults : Nat]
        BY <1>25, SpendFacts DEF PongAges, TypeOK
    <2> QED BY <1>25, <2>1 DEF PongAges, TypeOK
<1>26. CASE UNCHANGED vars BY <1>26 DEF vars, TypeOK
<1> QED BY StepCases, <1>1, <1>2, <1>3, <1>4, <1>5, <1>6, <1>7, <1>8, <1>9, <1>10, <1>11, <1>12,
           <1>13, <1>14, <1>15, <1>16, <1>17, <1>18, <1>19, <1>20, <1>21, <1>22, <1>23, <1>24,
           <1>25, <1>26

\* The collector rotates no tokens while the direct transport sends a subscription.
SendsUndisturbed == Transport = "sdk" \/ ~RotateDuringSend

LEMMA SessionInit == Init => SessionOK
BY DEF Init, SessionOK, Idle

LEMMA SessionStep ==
    ASSUME TypeOK, SessionOK, SendsUndisturbed, [Next]_vars PROVE SessionOK'
<1> USE DEF books, prints, subscription, session, outside
<1>0. version \in Nat /\ subVersion \in Nat BY DEF TypeOK
<1>1. CASE BeginRotation
    BY <1>1, FeedAssumption DEF BeginRotation, SessionOK, SendsUndisturbed
<1>2. CASE SetFilter BY <1>2 DEF SetFilter, SessionOK, TypeOK
<1>3. CASE BumpVersion
    <2>1. version' = version + 1 /\ update'.at \in {"idle", "buffers"}
        BY <1>3 DEF BumpVersion, TypeOK
    <2> QED BY <1>0, <1>3, <2>1 DEF BumpVersion, SessionOK
<1>4. CASE DropBuffers
    <2>1. update'.at = "books" BY <1>4 DEF DropBuffers, TypeOK
    <2> QED BY <1>4, <2>1 DEF DropBuffers, SessionOK
<1>5. CASE DropBooks BY <1>5 DEF DropBooks, SessionOK
<1>6. CASE \E t \in Tokens : Drain(t) BY <1>6 DEF Drain, SessionOK
<1>7. CASE Connecting BY <1>0, <1>7 DEF Connecting, SessionOK
<1>8. CASE Connected BY <1>8 DEF Connected, SessionOK
<1>9. CASE Subscribed BY <1>0, <1>9, FeedAssumption DEF Subscribed, SessionOK
<1>10. CASE Rotated BY <1>10 DEF Rotated, SessionOK
<1>11. CASE PongOverdue \/ ConnectionFails
    BY <1>11 DEF PongOverdue, ConnectionFails, Fail, SessionOK
<1>12. CASE BackedOff BY <1>12 DEF BackedOff, SessionOK
<1>13. CASE Receive BY <1>13 DEF Receive, SessionOK
<1>14. CASE ApplyBook
    <2>1. hand # Idle BY <1>14 DEF ApplyBook, Idle
    <2> QED BY <1>14, <2>1 DEF ApplyBook, SessionOK
<1>15. CASE ApplyChange
    <2>1. hand # Idle BY <1>15 DEF ApplyChange, Idle
    <2> QED BY <1>15, <2>1 DEF ApplyChange, SessionOK
<1>16. CASE ApplyQuote
    <2>1. hand # Idle BY <1>16 DEF ApplyQuote, Idle
    <2> QED BY <1>16, <2>1 DEF ApplyQuote, SessionOK
<1>17. CASE RelabelChange \/ RecordTrade BY <1>17 DEF RelabelChange, RecordTrade, SessionOK
<1>18. CASE Stop BY <1>18 DEF Stop, SessionOK
<1>19. CASE VenueMoves \/ VenueQuotes \/ VenueTrades
    BY <1>19 DEF VenueMoves, VenueQuotes, VenueTrades, SessionOK
<1>20. CASE VenuePongs \/ PongAges BY <1>20 DEF VenuePongs, PongAges, SessionOK
<1>21. CASE UNCHANGED vars BY <1>21 DEF vars, SessionOK
<1> QED BY StepCases, <1>1, <1>2, <1>3, <1>4, <1>5, <1>6, <1>7, <1>8, <1>9, <1>10, <1>11, <1>12,
           <1>13, <1>14, <1>15, <1>16, <1>17, <1>18, <1>19, <1>20, <1>21

LEMMA FilteredInit == Init => FilteredOK
BY DEF Init, FilteredOK

LEMMA FilteredStep ==
    ASSUME TypeOK, SessionOK, FilteredOK, [Next]_vars PROVE FilteredOK'
<1> USE DEF books, prints, subscription, session, outside
<1>0. version \in Nat /\ subVersion \in Nat /\ (hand.kind = "none" <=> hand = Idle)
    BY HandFacts DEF TypeOK
<1>1. CASE BeginRotation BY <1>1 DEF BeginRotation, FilteredOK, Allowed
<1>2. CASE SetFilter BY <1>2 DEF SetFilter, FilteredOK, TypeOK
<1>3. CASE BumpVersion
    <2>1. version' # subVersion' BY <1>0, <1>3 DEF BumpVersion, SessionOK
    <2> QED BY <2>1 DEF FilteredOK
<1>4. CASE DropBuffers
    BY <1>4 DEF DropBuffers, FilteredOK, Allowed
<1>5. CASE DropBooks BY <1>5 DEF DropBooks, FilteredOK, Allowed
<1>6. CASE \E t \in Tokens : Drain(t) BY <1>6 DEF Drain, FilteredOK, Allowed
<1>7. CASE Connecting \/ Connected BY <1>7 DEF Connecting, Connected, FilteredOK
<1>9. CASE Subscribed BY <1>9, <1>0 DEF Subscribed, FilteredOK, SessionOK, Idle
<1>10. CASE Rotated BY <1>10 DEF Rotated, FilteredOK
<1>11. CASE PongOverdue \/ ConnectionFails
    BY <1>11 DEF PongOverdue, ConnectionFails, Fail, FilteredOK
<1>12. CASE BackedOff BY <1>12 DEF BackedOff, FilteredOK
<1>13. CASE Receive
    <2>1. wire # <<>> /\ wire \in Seq(Frames) BY <1>13 DEF Receive, TypeOK
    <2>2. Head(wire) \in Frames BY <2>1, HeadTailProperties
    <2>3. \/ hand' = hand
          \/ hand' = Idle
          \/ hand' = InHand(Head(wire)) /\ Allowed(Head(wire).token)
        BY <1>13 DEF Receive
    <2>4. hand'.kind = "book" =>
              (hand'.token = hand.token /\ hand.kind = "book") \/ Allowed(hand'.token)
        BY <2>2, <2>3, TakenInHand DEF Idle
    <2> QED BY <1>13, <2>4 DEF Receive, FilteredOK, Allowed
<1>14. CASE ApplyBook BY <1>14 DEF ApplyBook, FilteredOK, Allowed, Idle
<1>15. CASE ApplyChange
    <2>1. hand'.kind # "book" BY <1>15, HandFacts DEF ApplyChange, Idle, TypeOK, Reducing
    <2> QED BY <1>15, <2>1 DEF ApplyChange, FilteredOK, Allowed
<1>16. CASE ApplyQuote
    <2>1. hand'.kind # "book" BY <1>16, HandFacts DEF ApplyQuote, Idle, TypeOK, Reducing
    <2> QED BY <1>16, <2>1 DEF ApplyQuote, FilteredOK, Allowed
<1>17. CASE RelabelChange \/ RecordTrade
    BY <1>17 DEF RelabelChange, RecordTrade, FilteredOK, Allowed, Idle
<1>18. CASE Stop BY <1>18 DEF Stop, FilteredOK
<1>19. CASE VenueMoves \/ VenueQuotes \/ VenueTrades
    BY <1>19 DEF VenueMoves, VenueQuotes, VenueTrades, FilteredOK, Allowed
<1>20. CASE VenuePongs \/ PongAges BY <1>20 DEF VenuePongs, PongAges, FilteredOK, Allowed
<1>21. CASE UNCHANGED vars BY <1>21 DEF vars, FilteredOK, Allowed
<1> QED BY StepCases, <1>1, <1>2, <1>3, <1>4, <1>5, <1>6, <1>7, <1>9, <1>10, <1>11, <1>12,
           <1>13, <1>14, <1>15, <1>16, <1>17, <1>18, <1>19, <1>20, <1>21

-----------------------------------------------------------------------------
(* Ladders *)

Ways == {"there", "gone"}

LEMMA MakesNothing ==
    ASSUME NEW f, f.kind \notin {"book", "price_change"}, NEW t, NEW l, NEW is
    PROVE  ~Makes(f, t, l, is)
BY DEF Makes

LEMMA InHandMakes ==
    ASSUME NEW f \in Frames, NEW t, NEW l, NEW is
    PROVE  Makes(InHand(f), t, l, is) <=> Makes(f, t, l, is)
BY TakenInHand DEF Makes, Prunes

LEMMA LaddersDown == link' # "up" => ToldOK' /\ KeptOK'
BY DEF ToldOK, KeptOK

\* A step that touches neither the wire nor the truth, nor a book still in use.
LEMMA LaddersStill ==
    ASSUME ToldOK, KeptOK, subscribed \subseteq Tokens,
           UNCHANGED <<link, subscribed, wire, venue, ghosts>>,
           \A t \in Tokens : \A l \in Levels : \A is \in Ways :
               HandMakes(t, l, is)' <=> HandMakes(t, l, is),
           link = "up" /\ version' = subVersion' =>
               /\ version = subVersion
               /\ \A t \in snapped' :
                    t \in snapped /\ (Allowed(t)' => Allowed(t)) /\ book'[t] = book[t]
    PROVE  ToldOK' /\ KeptOK'
<1>1. \A i, t, l, is : MadeAfter(i, t, l, is)' <=> MadeAfter(i, t, l, is) BY DEF MadeAfter
<1>2. \A t, l, is : Truly(t, l, is)' <=> Truly(t, l, is) BY DEF Truly
<1>3. \A is \in Ways : Other(is) \in Ways BY DEF Ways, Other
<1>4. ToldOK' BY <1>1, <1>2, <1>3 DEF ToldOK, Ways
<1>5. ASSUME link = "up", version' = subVersion', NEW t \in snapped' \cap subscribed, NEW l \in Levels,
             NEW is \in Ways, Allowed(t)', Truly(t, l, is)'
      PROVE  InBook(t, l, is)' \/ HandMakes(t, l, is)' \/ MadeAfter(0, t, l, is)'
    <2>1. t \in snapped \cap subscribed /\ Allowed(t) /\ book'[t] = book[t] /\ version = subVersion
        BY <1>5
    <2>2. InBook(t, l, is) \/ HandMakes(t, l, is) \/ MadeAfter(0, t, l, is)
        BY <1>2, <1>5, <2>1 DEF KeptOK, Ways
    <2>3. InBook(t, l, is)' <=> InBook(t, l, is) BY <2>1 DEF InBook
    <2> QED BY <1>1, <2>2, <2>3
<1>6. KeptOK' BY <1>5 DEF KeptOK, Ways
<1> QED BY <1>4, <1>6

\* A frame more on the wire, if any: it says nothing that is not true, and all of what
\* has become true.
LEMMA LaddersSent ==
    ASSUME ToldOK, KeptOK, subscribed \subseteq Tokens, wire \in Seq(Frames), wire' \in Seq(Frames),
           UNCHANGED <<link, subscribed, hand, version, subVersion, filter, snapped, book>>,
           NEW f,
           \A i \in 1..Len(wire) : i \in 1..Len(wire') /\ wire'[i] = wire[i],
           \A i \in 1..Len(wire') : i \in 1..Len(wire) \/ (i = Len(wire) + 1 /\ wire'[i] = f),
           \A t \in subscribed : \A l \in Levels : \A is \in Ways : link = "up" /\ Truly(t, l, is)' =>
               /\ ~Makes(f, t, l, Other(is))
               /\ Truly(t, l, is) \/ ( /\ Len(wire) + 1 \in 1..Len(wire')
                                       /\ wire'[Len(wire) + 1] = f /\ Makes(f, t, l, is))
    PROVE  ToldOK' /\ KeptOK'
<1>0. Len(wire) \in Nat /\ Len(wire') \in Nat BY LenProperties
<1>1. \A i, t, l, is : MadeAfter(i, t, l, is) => MadeAfter(i, t, l, is)' BY DEF MadeAfter
<1>2. \A t, l, is : /\ HandMakes(t, l, is)' <=> HandMakes(t, l, is)
                    /\ InBook(t, l, is)' <=> InBook(t, l, is)
                    /\ Allowed(t)' <=> Allowed(t)
    BY DEF HandMakes, InBook, Allowed
<1>3. \A is \in Ways : Other(is) \in Ways BY DEF Ways, Other
<1>4. ASSUME link = "up", NEW t \in subscribed, NEW l \in Levels, NEW is \in Ways, Truly(t, l, is)',
             ~Truly(t, l, is), NEW i \in 0..Len(wire)
      PROVE  MadeAfter(i, t, l, is)'
    <2>1. Len(wire) + 1 \in 1..Len(wire') /\ Makes(wire'[Len(wire) + 1], t, l, is) BY <1>4
    <2> QED BY <1>0, <2>1 DEF MadeAfter
<1>5. ASSUME link = "up", NEW t \in subscribed, NEW l \in Levels, NEW is \in Ways, Truly(t, l, is)',
             NEW i \in 1..Len(wire'), Makes(wire'[i], t, l, Other(is))
      PROVE  MadeAfter(i, t, l, is)'
    <2>1. i \in 1..Len(wire) /\ wire'[i] = wire[i] BY <1>0, <1>5
    <2>2. CASE Truly(t, l, is)
        <3>1. MadeAfter(i, t, l, is) BY <1>5, <2>1, <2>2 DEF ToldOK, Ways
        <3> QED BY <1>1, <3>1
    <2>3. CASE ~Truly(t, l, is) BY <1>0, <1>4, <1>5, <2>1, <2>3
    <2> QED BY <2>2, <2>3
<1>6. ASSUME link = "up", NEW t \in subscribed, NEW l \in Levels, NEW is \in Ways, Truly(t, l, is)',
             HandMakes(t, l, Other(is))'
      PROVE  MadeAfter(0, t, l, is)'
    <2>1. CASE Truly(t, l, is)
        <3>1. MadeAfter(0, t, l, is) BY <1>2, <1>6, <2>1 DEF ToldOK, Ways
        <3> QED BY <1>1, <3>1
    <2>2. CASE ~Truly(t, l, is) BY <1>0, <1>4, <1>6, <2>2
    <2> QED BY <2>1, <2>2
<1>7. ToldOK' BY <1>5, <1>6 DEF ToldOK, Ways
<1>8. ASSUME link = "up", version' = subVersion', NEW t \in snapped' \cap subscribed, NEW l \in Levels,
             NEW is \in Ways, Allowed(t)', Truly(t, l, is)'
      PROVE  InBook(t, l, is)' \/ HandMakes(t, l, is)' \/ MadeAfter(0, t, l, is)'
    <2>1. CASE Truly(t, l, is)
        <3>1. InBook(t, l, is) \/ HandMakes(t, l, is) \/ MadeAfter(0, t, l, is)
            BY <1>2, <1>8, <2>1 DEF KeptOK, Ways
        <3> QED BY <1>1, <1>2, <3>1
    <2>2. CASE ~Truly(t, l, is) BY <1>0, <1>4, <1>8, <2>2
    <2> QED BY <2>1, <2>2
<1>9. KeptOK' BY <1>8 DEF KeptOK, Ways
<1> QED BY <1>7, <1>9

\* The venue answers a subscription with its books.
LEMMA SubscribedLadders ==
    ASSUME TypeOK, SessionOK, Subscribed PROVE ToldOK' /\ KeptOK'
<1>1. hand = Idle /\ hand' = Idle /\ snapped' = {}
    BY DEF Subscribed, SessionOK
<1>2. subscribed' = subscribed /\ venue' = venue /\ wire' = Snapshots(subscribed)
    BY DEF Subscribed, session
<1>3. /\ wire' \in Seq(Frames)
      /\ \A i \in 1..Len(wire') : wire'[i].kind = "book" /\ wire'[i].token \in subscribed
                                  /\ wire'[i].levels = venue[wire'[i].token]
    BY <1>2, SnapshotsAre DEF TypeOK
<1>4. \A t, l, is : ~HandMakes(t, l, is)' BY <1>1 DEF HandMakes, Idle
<1>5. ASSUME NEW t, NEW l, NEW is \in Ways, Truly(t, l, is)', NEW i \in 1..Len(wire'),
             Makes(wire'[i], t, l, Other(is))
      PROVE  FALSE
    <2>1. wire'[i].kind = "book" /\ wire'[i].levels = venue'[wire'[i].token] BY <1>2, <1>3, <1>5
    <2> QED BY <1>5, <2>1 DEF Makes, Truly, Other, Ways
<1>6. ToldOK' BY <1>4, <1>5 DEF ToldOK, Ways
<1>7. KeptOK' BY <1>1 DEF KeptOK
<1> QED BY <1>6, <1>7

\* A frame taken from the wire is in hand, unless the filter keeps it out.
LEMMA ReceiveLadders ==
    ASSUME TypeOK, ToldOK, KeptOK, Receive PROVE ToldOK' /\ KeptOK'
<1> USE DEF books, prints, subscription
<1> DEFINE first == wire[1]
<1>1. wire \in Seq(Frames) /\ wire # <<>> /\ hand = Idle /\ link = "up" BY DEF Receive, TypeOK
<1>2. /\ Head(wire) \in Frames /\ wire' \in Seq(Frames) /\ Len(wire') = Len(wire) - 1
      /\ \A i \in 1..Len(wire') : wire'[i] = wire[i + 1]
      /\ Len(wire) \in Nat \ {0} /\ Head(wire) = first
    BY <1>1, HeadTailProperties, LenProperties DEF Receive
<1> HIDE DEF first
<1>3. /\ UNCHANGED <<link, subscribed, version, subVersion, filter, snapped, book, venue, ghosts>>
      /\ first.kind = "pong" => hand' = Idle
      /\ first.kind # "pong" /\ ~Allowed(first.token) => hand' = Idle
      /\ first.kind # "pong" /\ Allowed(first.token) => hand' = InHand(first)
    BY <1>1, <1>2 DEF Receive
<1>4. \A t, l, is : /\ Truly(t, l, is)' <=> Truly(t, l, is)
                    /\ InBook(t, l, is)' <=> InBook(t, l, is)
                    /\ Allowed(t)' <=> Allowed(t)
    BY <1>3 DEF Truly, InBook, Allowed
<1>5. \A t, l, is : HandMakes(t, l, is)' => Makes(first, t, l, is)
    <2> SUFFICES ASSUME NEW t, NEW l, NEW is, HandMakes(t, l, is)' PROVE Makes(first, t, l, is)
        OBVIOUS
    <2>1. hand' # Idle BY DEF HandMakes, Idle
    <2>2. hand' = InHand(first) BY <1>3, <2>1
    <2> QED BY <1>2, <2>2, InHandMakes DEF HandMakes
<1>6. \A t, l, is : Makes(first, t, l, is) /\ Allowed(t) => HandMakes(t, l, is)'
    <2> SUFFICES ASSUME NEW t, NEW l, NEW is, Makes(first, t, l, is), Allowed(t)
                 PROVE  HandMakes(t, l, is)'
        OBVIOUS
    <2>1. first.kind \in {"book", "price_change"} /\ first.token = t BY DEF Makes
    <2>2. hand' = InHand(first) BY <1>3, <2>1
    <2> QED BY <1>2, <2>1, <2>2, InHandMakes, TakenInHand DEF HandMakes
<1>7. \A t, l, is : \A i \in 1..Len(wire) : MadeAfter(i, t, l, is) => MadeAfter(i - 1, t, l, is)'
    <2> SUFFICES ASSUME NEW t, NEW l, NEW is, NEW i \in 1..Len(wire), MadeAfter(i, t, l, is)
                 PROVE  MadeAfter(i - 1, t, l, is)'
        OBVIOUS
    <2>1. PICK j \in 1..Len(wire) : i < j /\ Makes(wire[j], t, l, is) BY DEF MadeAfter
    <2>2. j - 1 \in 1..Len(wire') /\ wire'[j - 1] = wire[j] /\ i - 1 < j - 1
        <3>1. j - 1 \in 1..Len(wire') /\ i - 1 < j - 1 BY <1>2, <2>1
        <3>2. wire'[j - 1] = wire[(j - 1) + 1] BY <1>2, <3>1
        <3>3. (j - 1) + 1 = j OBVIOUS
        <3> QED BY <3>1, <3>2, <3>3
    <2> QED BY <2>1, <2>2 DEF MadeAfter
<1>8. \A is \in Ways : Other(is) \in Ways BY DEF Ways, Other
<1>9. ASSUME NEW t \in subscribed, NEW l \in Levels, NEW is \in Ways, Truly(t, l, is)
      PROVE  /\ \A i \in 1..Len(wire') : Makes(wire'[i], t, l, Other(is)) => MadeAfter(i, t, l, is)'
             /\ HandMakes(t, l, Other(is))' => MadeAfter(0, t, l, is)'
    <2>1. \A i \in 1..Len(wire) : Makes(wire[i], t, l, Other(is)) => MadeAfter(i, t, l, is)
        BY <1>1, <1>9 DEF ToldOK, Ways
    <2>2. ASSUME NEW i \in 1..Len(wire'), Makes(wire'[i], t, l, Other(is))
          PROVE  MadeAfter(i, t, l, is)'
        <3>1. i + 1 \in 1..Len(wire) /\ wire[i + 1] = wire'[i] BY <1>2
        <3>2. MadeAfter(i + 1, t, l, is) BY <2>1, <2>2, <3>1
        <3>3. MadeAfter((i + 1) - 1, t, l, is)' BY <1>7, <3>1, <3>2
        <3>4. (i + 1) - 1 = i OBVIOUS
        <3> QED BY <3>3, <3>4
    <2>3. ASSUME HandMakes(t, l, Other(is))' PROVE MadeAfter(0, t, l, is)'
        <3>1. 1 \in 1..Len(wire) BY <1>2
        <3>2. Makes(wire[1], t, l, Other(is)) BY <1>5, <2>3 DEF first
        <3>3. MadeAfter(1, t, l, is) BY <2>1, <3>1, <3>2
        <3>4. MadeAfter(1 - 1, t, l, is)' BY <1>7, <3>1, <3>3
        <3> QED BY <3>4
    <2> QED BY <2>2, <2>3
<1>10. ToldOK' BY <1>3, <1>4, <1>9 DEF ToldOK, Ways
<1>11. ASSUME version = subVersion, NEW t \in snapped \cap subscribed, NEW l \in Levels,
              NEW is \in Ways, Allowed(t), Truly(t, l, is)
       PROVE  InBook(t, l, is) \/ HandMakes(t, l, is)' \/ MadeAfter(0, t, l, is)'
    <2>1. ~HandMakes(t, l, is) BY <1>1 DEF HandMakes, Idle
    <2>2. InBook(t, l, is) \/ MadeAfter(0, t, l, is) BY <1>1, <1>11, <2>1 DEF KeptOK, Ways
    <2>3. ASSUME MadeAfter(0, t, l, is) PROVE HandMakes(t, l, is)' \/ MadeAfter(0, t, l, is)'
        <3>1. PICK j \in 1..Len(wire) : Makes(wire[j], t, l, is) BY <2>3 DEF MadeAfter
        <3>2. CASE j = 1 BY <1>6, <1>11, <3>1, <3>2 DEF first
        <3>3. CASE j > 1
            <4>1. 1 \in 1..Len(wire) /\ MadeAfter(1, t, l, is) BY <3>1, <3>3, <1>2 DEF MadeAfter
            <4>2. MadeAfter(1 - 1, t, l, is)' BY <1>7, <4>1
            <4> QED BY <4>2
        <3> QED BY <3>1, <3>2, <3>3
    <2> QED BY <2>2, <2>3
<1>12. KeptOK' BY <1>3, <1>4, <1>11 DEF KeptOK, Ways
<1> QED BY <1>10, <1>12

\* A frame applied to its book makes there what it says.
LEMMA AppliedLadders ==
    ASSUME TypeOK, ToldOK, KeptOK, SessionOK,
           hand.kind \in {"book", "price_change"}, hand.at = "apply",
           NEW token \in Tokens, hand.token = token,
           UNCHANGED <<link, subscribed, version, subVersion, filter, wire, venue, ghosts>>,
           \A t, l, is : ~HandMakes(t, l, is)',
           hand.kind = "price_change" => snapped' = snapped,
           hand.kind = "book" => snapped' = snapped \cup {token},
           \A t \in Tokens : t # token => book'[t] = book[t],
           \A l \in Levels : \A is \in Ways :
               /\ Makes(hand, token, l, is) => InBook(token, l, is)'
               /\ ~Makes(hand, token, l, Other(is)) =>
                    (InBook(token, l, is) => InBook(token, l, is)'),
           hand.kind = "book" => \A l \in Levels : \A is \in Ways :
               Makes(hand, token, l, is) \/ Makes(hand, token, l, Other(is))
    PROVE  ToldOK' /\ KeptOK'
<1>0. hand # Idle /\ link = "up" BY DEF Idle, SessionOK
<1>1. \A i, t, l, is : MadeAfter(i, t, l, is)' <=> MadeAfter(i, t, l, is) BY DEF MadeAfter
<1>2. \A t, l, is : /\ Truly(t, l, is)' <=> Truly(t, l, is)
                    /\ Allowed(t)' <=> Allowed(t)
    BY DEF Truly, Allowed
<1>3. \A is \in Ways : Other(is) \in Ways BY DEF Ways, Other
<1>4. ToldOK' BY <1>1, <1>2, <1>3 DEF ToldOK, Ways
<1>5. \A t, l, is : HandMakes(t, l, is) <=> Makes(hand, t, l, is) BY DEF HandMakes
<1>6. \A t, l, is : Makes(hand, t, l, is) => t = token BY DEF Makes
<1>7. ASSUME version = subVersion, NEW t \in snapped' \cap subscribed, NEW l \in Levels,
             NEW is \in Ways, Allowed(t), Truly(t, l, is)
      PROVE  InBook(t, l, is)' \/ MadeAfter(0, t, l, is)
    <2>0. t \in Tokens BY <1>7 DEF TypeOK
    <2>1. Makes(hand, t, l, Other(is)) => MadeAfter(0, t, l, is)
        BY <1>0, <1>5, <1>7 DEF ToldOK, Ways
    <2>2. CASE t = token /\ Makes(hand, t, l, is) BY <2>2
    <2>3. CASE t = token /\ ~Makes(hand, t, l, is) /\ ~Makes(hand, t, l, Other(is))
        <3>1. snapped' = snapped BY <2>3
        <3>2. InBook(t, l, is) \/ MadeAfter(0, t, l, is)
            BY <1>0, <1>5, <1>7, <2>3, <3>1 DEF KeptOK, Ways
        <3> QED BY <2>3, <3>2
    <2>4. CASE t # token
        <3>1. t \in snapped /\ book'[t] = book[t] BY <1>7, <2>0, <2>4
        <3>2. InBook(t, l, is) \/ MadeAfter(0, t, l, is)
            BY <1>0, <1>5, <1>6, <1>7, <2>4, <3>1 DEF KeptOK, Ways
        <3> QED BY <3>1, <3>2 DEF InBook
    <2> QED BY <2>1, <2>2, <2>3, <2>4
<1>8. KeptOK' BY <1>1, <1>2, <1>7 DEF KeptOK, Ways
<1> QED BY <1>4, <1>8

LEMMA ApplyBookLadders ==
    ASSUME TypeOK, SessionOK, ToldOK, KeptOK, ApplyBook PROVE ToldOK' /\ KeptOK'
<1> USE DEF prints, subscription, session, outside
<1>1. hand.kind = "book" /\ hand.at = "apply" /\ hand.token \in Tokens /\ hand.levels \in SUBSET Levels
    BY HandFacts DEF ApplyBook, TypeOK
<1>2. PICK token \in Tokens : hand.token = token BY <1>1
<1>3. /\ book'[token] = hand.levels
      /\ \A t \in Tokens : t # token => book'[t] = book[t]
    BY <1>2 DEF ApplyBook, TypeOK
<1>4. \A t, l, is : ~HandMakes(t, l, is)' BY DEF ApplyBook, HandMakes, Idle
<1>5. \A l \in Levels : \A is \in Ways :
          /\ Makes(hand, token, l, is) => InBook(token, l, is)'
          /\ Makes(hand, token, l, is) \/ Makes(hand, token, l, Other(is))
    BY <1>1, <1>2, <1>3 DEF Makes, InBook, Other, Ways
<1>6. /\ UNCHANGED <<link, subscribed, version, subVersion, filter, wire, venue, ghosts>>
      /\ snapped' = snapped \cup {token}
    BY <1>2 DEF ApplyBook
<1>7. \A l \in Levels : \A is \in Ways :
          ~Makes(hand, token, l, Other(is)) => (InBook(token, l, is) => InBook(token, l, is)')
    BY <1>5
<1> QED BY <1>1, <1>2, <1>3, <1>4, <1>5, <1>6, <1>7, AppliedLadders

LEMMA ApplyChangeLadders ==
    ASSUME TypeOK, SessionOK, ToldOK, KeptOK, ApplyChange PROVE ToldOK' /\ KeptOK'
<1> USE DEF prints, subscription, session, outside
<1>1. /\ hand.kind = "price_change" /\ hand.at = "apply" /\ hand.token \in Tokens
      /\ hand.level \in Levels /\ hand.on \in BOOLEAN
    BY HandFacts DEF ApplyChange, TypeOK
<1>2. PICK token \in Tokens : hand.token = token BY <1>1
<1> DEFINE old == book[token] \ {None}
           new == IF hand.on THEN old \cup {hand.level} ELSE old \ {hand.level}
           best == IF Transport = "sdk" THEN None ELSE hand.best
<1>3. /\ book'[token] = Pruned(new, best)
      /\ \A t \in Tokens : t # token => book'[t] = book[t]
    BY <1>2 DEF ApplyChange, TypeOK
<1>4. \A t, l, is : ~HandMakes(t, l, is)'
    <2>1. hand' = Idle \/ hand'.at # "apply"
        BY <1>1, HandFacts DEF ApplyChange, TypeOK, Reducing
    <2> QED BY <2>1 DEF HandMakes, Idle
<1>5. \A l \in Levels : /\ l \in new <=> (hand.on /\ l = hand.level)
                                         \/ (l \in book[token] /\ ~(~hand.on /\ l = hand.level))
                        /\ l \in Pruned(new, best) <=> l \in new /\ ~Prunes(hand, l)
    <2>1. Transport = "direct" <=> Transport # "sdk" BY FeedAssumption
    <2>2. \A l \in Levels : l # None BY FeedAssumption DEF None
    <2> QED BY <2>1, <2>2 DEF Pruned, Prunes
<1> HIDE DEF new, best, old
<1>6. \A l \in Levels : \A is \in Ways :
          /\ Makes(hand, token, l, is) => InBook(token, l, is)'
          /\ ~Makes(hand, token, l, Other(is)) => (InBook(token, l, is) => InBook(token, l, is)')
    BY <1>1, <1>2, <1>3, <1>5 DEF Makes, InBook, Other, Ways
<1>7. /\ UNCHANGED <<link, subscribed, version, subVersion, filter, wire, venue, ghosts>>
      /\ snapped' = snapped
    BY DEF ApplyChange
<1> QED BY <1>1, <1>2, <1>3, <1>4, <1>6, <1>7, AppliedLadders

LEMMA VenueMovesLadders ==
    ASSUME TypeOK, ToldOK, KeptOK, VenueMoves PROVE ToldOK' /\ KeptOK'
<1> USE DEF books, prints, subscription, session
<1>1. PICK t \in Tokens, l \in Levels, declared \in BOOLEAN :
          /\ venue' = [venue EXCEPT ![t] = Turned(t, l)]
          /\ \/ ghosts' = ghosts /\ Send(t, Moved(t, l, declared))
             \/ l \in venue[t] /\ ghosts' = [ghosts EXCEPT ![t] = @ \cup {l}] /\ wire' = wire
    BY Moving
<1>2. /\ UNCHANGED <<link, subscribed, hand, version, subVersion, filter, snapped, book>>
      /\ wire' \in Seq(Frames) /\ subscribed \subseteq Tokens /\ wire \in Seq(Frames)
    BY Moving DEF VenueMoves, TypeOK
<1>3. Len(wire) \in Nat BY <1>2, LenProperties
<1>4. /\ venue'[t] = Turned(t, l)
      /\ \A u \in Tokens : u # t => venue'[u] = venue[u]
    BY <1>1 DEF TypeOK
<1>5. CASE ghosts' = ghosts /\ Send(t, Moved(t, l, declared))
    <2> DEFINE f == Moved(t, l, declared)
    <2>1. /\ f \in Frames /\ f.kind = "price_change" /\ f.token = t /\ f.level = l
          /\ f.on <=> l \notin venue[t]
          /\ f.best # None => \A k \in Turned(t, l) : k <= f.best
        BY MovedFacts DEF TypeOK
    <2> HIDE DEF f
    <2>2. Send(t, f) BY <1>5 DEF f
    <2>3. /\ \A i \in 1..Len(wire) : i \in 1..Len(wire') /\ wire'[i] = wire[i]
          /\ \A i \in 1..Len(wire') : i \in 1..Len(wire) \/ (i = Len(wire) + 1 /\ wire'[i] = f)
          /\ link = "up" /\ t \in subscribed =>
               Len(wire') = Len(wire) + 1 /\ wire'[Len(wire')] = f
        BY <1>2, <2>1, <2>2, SendFacts
    <2>4. ASSUME link = "up", NEW u \in subscribed, NEW k \in Levels, NEW is \in Ways, Truly(u, k, is)'
          PROVE  /\ ~Makes(f, u, k, Other(is))
                 /\ Truly(u, k, is) \/ ( /\ Len(wire) + 1 \in 1..Len(wire')
                                         /\ wire'[Len(wire) + 1] = f /\ Makes(f, u, k, is))
        <3>1. CASE u # t
            <4>1. ~Makes(f, u, k, Other(is)) BY <2>1, <3>1 DEF Makes
            <4>2. Truly(u, k, is) BY <1>2, <1>4, <1>5, <2>4, <3>1 DEF Truly
            <4> QED BY <4>1, <4>2
        <3>2. CASE u = t
            <4>1. k \in venue'[t] => ~Prunes(f, k) BY <1>4, <2>1 DEF Prunes
            <4>2. k # l => (k \in venue'[t] <=> k \in venue[t]) BY <1>4 DEF Turned
            <4>3. k = l => (k \in venue'[t] <=> f.on) BY <1>4, <2>1 DEF Turned
            <4>4. ~Makes(f, t, k, Other(is))
                BY <1>5, <2>1, <2>4, <3>2, <4>1, <4>2, <4>3 DEF Makes, Truly, Other, Ways
            <4>5. CASE k = l /\ ~Truly(t, k, is)
                <5>1. Makes(f, t, k, is)
                    BY <1>5, <2>1, <2>4, <3>2, <4>1, <4>3, <4>5 DEF Makes, Truly, Ways
                <5>2. Len(wire) + 1 \in 1..Len(wire') /\ wire'[Len(wire) + 1] = f
                    BY <1>3, <2>3, <2>4, <3>2
                <5> QED BY <3>2, <4>4, <5>1, <5>2
            <4>6. CASE k # l \/ Truly(t, k, is)
                <5>1. Truly(t, k, is) BY <1>5, <2>4, <3>2, <4>2, <4>6 DEF Truly
                <5> QED BY <3>2, <4>4, <5>1
            <4> QED BY <4>5, <4>6
        <3> QED BY <3>1, <3>2
    <2> QED BY <1>2, <2>3, <2>4, LaddersSent
<1>6. CASE l \in venue[t] /\ ghosts' = [ghosts EXCEPT ![t] = @ \cup {l}] /\ wire' = wire
    <2>1. ASSUME NEW u \in subscribed, NEW k \in Levels, NEW is \in Ways, Truly(u, k, is)'
          PROVE  Truly(u, k, is)
        <3>1. u \in Tokens BY <1>2
        <3>2. ghosts'[u] = IF u = t THEN ghosts[u] \cup {l} ELSE ghosts[u]
            BY <1>6, <3>1 DEF TypeOK
        <3>3. venue'[u] \subseteq venue[u] /\ \A j \in venue[u] \ venue'[u] : u = t /\ j = l
            BY <1>4, <1>6, <3>1 DEF Turned
        <3> QED BY <2>1, <3>2, <3>3 DEF Truly
    <2> DEFINE f == [kind |-> "pong"]
    <2>2. \A u, k, is : ~Makes(f, u, k, is) BY MakesNothing
    <2>3. \A i \in 1..Len(wire) : i \in 1..Len(wire') /\ wire'[i] = wire[i] BY <1>6
    <2>4. \A i \in 1..Len(wire') : i \in 1..Len(wire) BY <1>6
    <2> HIDE DEF f
    <2> QED BY <1>2, <2>1, <2>2, <2>3, <2>4, LaddersSent
<1> QED BY <1>1, <1>5, <1>6

LEMMA LaddersInit == Init => ToldOK /\ KeptOK
BY DEF Init, ToldOK, KeptOK

LEMMA LaddersStep ==
    ASSUME TypeOK, SessionOK, FilteredOK, ToldOK, KeptOK, [Next]_vars PROVE ToldOK' /\ KeptOK'
<1> USE DEF books, prints, subscription, session, outside
<1>0. /\ subscribed \subseteq Tokens /\ snapped \subseteq Tokens
      /\ version \in Nat /\ subVersion \in Nat /\ subVersion <= version
      /\ wire \in Seq(Frames)
    BY DEF TypeOK, SessionOK
<1>1. CASE BeginRotation BY <1>0, <1>1, LaddersStill DEF BeginRotation, HandMakes, Allowed
<1>2. CASE SetFilter
    <2>1. link = "up" /\ version = subVersion => \A t \in snapped : Allowed(t)
        BY <1>2 DEF SetFilter, FilteredOK
    <2>2. UNCHANGED <<link, subscribed, wire, venue, ghosts, hand, version, subVersion, snapped, book>>
        BY <1>2 DEF SetFilter
    <2>3. \A t, l, is : HandMakes(t, l, is)' <=> HandMakes(t, l, is) BY <2>2 DEF HandMakes
    <2> QED BY <1>0, <2>1, <2>2, <2>3, LaddersStill
<1>3. CASE BumpVersion
    <2>1. version' # subVersion' BY <1>0, <1>3 DEF BumpVersion
    <2> QED BY <1>0, <1>3, <2>1, LaddersStill DEF BumpVersion, HandMakes
<1>4. CASE DropBuffers BY <1>0, <1>4, LaddersStill DEF DropBuffers, HandMakes, Allowed
<1>5. CASE DropBooks
    <2>1. UNCHANGED <<link, subscribed, wire, venue, ghosts, hand, version, subVersion, filter>>
        BY <1>5 DEF DropBooks
    <2>2. \A t \in snapped' : t \in snapped /\ book'[t] = book[t] BY <1>0, <1>5 DEF DropBooks
    <2>3. \A t, l, is : HandMakes(t, l, is)' <=> HandMakes(t, l, is) BY <2>1 DEF HandMakes
    <2>4. \A t : Allowed(t)' <=> Allowed(t) BY <2>1 DEF Allowed
    <2> QED BY <1>0, <2>1, <2>2, <2>3, <2>4, LaddersStill
<1>6. CASE \E t \in Tokens : Drain(t)
    BY <1>0, <1>6, LaddersStill DEF Drain, HandMakes, Allowed
<1>7. CASE Connecting \/ Connected BY <1>7, LaddersDown DEF Connecting, Connected
<1>8. CASE Subscribed BY <1>8, SubscribedLadders
<1>9. CASE Rotated \/ BackedOff \/ Stop BY <1>9, LaddersDown DEF Rotated, BackedOff, Stop
<1>10. CASE PongOverdue \/ ConnectionFails
    BY <1>10, LaddersDown DEF PongOverdue, ConnectionFails, Fail
<1>11. CASE Receive BY <1>11, ReceiveLadders
<1>12. CASE ApplyBook BY <1>12, ApplyBookLadders
<1>13. CASE ApplyChange BY <1>13, ApplyChangeLadders
<1>14. CASE ApplyQuote \/ RelabelChange \/ RecordTrade
    <2>1. UNCHANGED <<link, subscribed, wire, venue, ghosts, version, subVersion, filter, snapped, book>>
        BY <1>14 DEF ApplyQuote, RelabelChange, RecordTrade
    <2>2. \A t, l, is : ~HandMakes(t, l, is)
        BY <1>14 DEF ApplyQuote, RelabelChange, RecordTrade, HandMakes
    <2>3. hand' = Idle \/ (hand.kind = "price_change" /\ hand' = [hand EXCEPT !.at = "label"])
        BY <1>14 DEF ApplyQuote, RelabelChange, RecordTrade
    <2>4. \A t, l, is : ~HandMakes(t, l, is)'
        <3>1. CASE hand' = Idle BY <3>1 DEF HandMakes, Idle
        <3>2. CASE hand.kind = "price_change" /\ hand' = [hand EXCEPT !.at = "label"]
            <4>1. hand'.at = "label" BY <3>2, HandFacts DEF TypeOK, Reducing, Idle
            <4> QED BY <4>1 DEF HandMakes
        <3> QED BY <2>3, <3>1, <3>2
    <2>5. \A t : Allowed(t)' <=> Allowed(t) BY <2>1 DEF Allowed
    <2> QED BY <1>0, <2>1, <2>2, <2>4, <2>5, LaddersStill
<1>15. CASE VenueMoves BY <1>15, VenueMovesLadders
<1>16. ASSUME NEW f \in Frames, f.kind \notin {"book", "price_change"},
              UNCHANGED <<link, subscribed, hand, version, subVersion, filter, snapped, book, venue, ghosts>>,
              wire' \in Seq(Frames),
              \A i \in 1..Len(wire) : i \in 1..Len(wire') /\ wire'[i] = wire[i],
              \A i \in 1..Len(wire') : i \in 1..Len(wire) \/ (i = Len(wire) + 1 /\ wire'[i] = f)
       PROVE  ToldOK' /\ KeptOK'
    <2>1. \A t, l, is : ~Makes(f, t, l, is) BY <1>16, MakesNothing
    <2>2. \A t, l, is : Truly(t, l, is)' <=> Truly(t, l, is) BY <1>16 DEF Truly
    <2> QED BY <1>0, <1>16, <2>1, <2>2, LaddersSent
<1>17. CASE VenueQuotes
    <2>1. PICK t \in Tokens : Send(t, Quoting(t)) BY <1>17 DEF VenueQuotes, Quoting
    <2>2. Quoting(t) \in Frames /\ Quoting(t).kind = "best_bid_ask"
        BY QuotingFacts DEF TypeOK, Quoting
    <2> DEFINE f == Quoting(t)
    <2> HIDE DEF f
    <2>3. Send(t, f) /\ f \in Frames /\ f.kind = "best_bid_ask" BY <2>1, <2>2 DEF f
    <2>4. /\ wire' \in Seq(Frames)
          /\ \A i \in 1..Len(wire) : i \in 1..Len(wire') /\ wire'[i] = wire[i]
          /\ \A i \in 1..Len(wire') : i \in 1..Len(wire) \/ (i = Len(wire) + 1 /\ wire'[i] = f)
        BY <1>0, <2>3, SendFacts
    <2>5. UNCHANGED <<link, subscribed, hand, version, subVersion, filter, snapped, book, venue, ghosts>>
        BY <1>17 DEF VenueQuotes
    <2> QED BY <1>16, <2>3, <2>4, <2>5
<1>18. CASE VenueTrades
    <2>1. PICK t \in Tokens : Send(t, Trading(t)) BY <1>18 DEF VenueTrades, Trading
    <2>2. Trading(t) \in Frames /\ Trading(t).kind = "trade"
        BY TradingFacts DEF TypeOK, Trading
    <2> DEFINE f == Trading(t)
    <2> HIDE DEF f
    <2>3. Send(t, f) /\ f \in Frames /\ f.kind = "trade" BY <2>1, <2>2 DEF f
    <2>4. /\ wire' \in Seq(Frames)
          /\ \A i \in 1..Len(wire) : i \in 1..Len(wire') /\ wire'[i] = wire[i]
          /\ \A i \in 1..Len(wire') : i \in 1..Len(wire) \/ (i = Len(wire) + 1 /\ wire'[i] = f)
        BY <1>0, <2>3, SendFacts
    <2>5. UNCHANGED <<link, subscribed, hand, version, subVersion, filter, snapped, book, venue, ghosts>>
        BY <1>18 DEF VenueTrades
    <2> QED BY <1>16, <2>3, <2>4, <2>5
<1>19. CASE VenuePongs
    <2> DEFINE f == [kind |-> "pong"]
    <2>1. f \in Frames /\ f.kind = "pong" BY DEF Frames
    <2>2. wire' = Append(wire, f) BY <1>19 DEF VenuePongs
    <2> HIDE DEF f
    <2>3. /\ wire' \in Seq(Frames) /\ Len(wire') = Len(wire) + 1 /\ wire'[Len(wire) + 1] = f
          /\ \A i \in 1..Len(wire) : wire'[i] = wire[i]
          /\ Len(wire) \in Nat
        BY <1>0, <2>1, <2>2, AppendProperties, LenProperties
    <2>4. /\ \A i \in 1..Len(wire) : i \in 1..Len(wire') /\ wire'[i] = wire[i]
          /\ \A i \in 1..Len(wire') : i \in 1..Len(wire) \/ (i = Len(wire) + 1 /\ wire'[i] = f)
        BY <2>3
    <2>5. UNCHANGED <<link, subscribed, hand, version, subVersion, filter, snapped, book, venue, ghosts>>
        BY <1>19 DEF VenuePongs
    <2> QED BY <1>16, <2>1, <2>3, <2>4, <2>5
<1>20. CASE PongAges BY <1>0, <1>20, LaddersStill DEF PongAges, HandMakes, Allowed
<1>21. CASE UNCHANGED vars BY <1>0, <1>21, LaddersStill DEF vars, HandMakes, Allowed
<1> QED BY StepCases, <1>1, <1>2, <1>3, <1>4, <1>5, <1>6, <1>7, <1>8, <1>9, <1>10, <1>11, <1>12,
           <1>13, <1>14, <1>15, <1>17, <1>18, <1>19, <1>20, <1>21

-----------------------------------------------------------------------------
(* Ghost depth *)

LEMMA TopInit == Init => PrunedOK /\ NoGhostTop
BY DEF Init, PrunedOK, NoGhostTop, Idle

LEMMA TopSame ==
    ASSUME PrunedOK, NoGhostTop, UNCHANGED <<book, frame>>, hand' = hand \/ hand' = Idle
    PROVE  PrunedOK' /\ NoGhostTop'
BY DEF PrunedOK, NoGhostTop, Idle

LEMMA TopStep ==
    ASSUME TypeOK, PrunedOK, NoGhostTop, [Next]_vars PROVE PrunedOK' /\ NoGhostTop'
<1> USE DEF books, prints, subscription, session, outside
<1>0. DOMAIN frame = Tokens /\ DOMAIN book = Tokens BY DEF TypeOK
<1>1. CASE UNCHANGED vars \/ BeginRotation \/ SetFilter \/ BumpVersion \/ DropBuffers
    BY <1>1, TopSame DEF vars, BeginRotation, SetFilter, BumpVersion, DropBuffers
<1>2. CASE DropBooks
    <2>1. \A t \in Tokens : \/ book'[t] = book[t] /\ frame'[t] = frame[t]
                            \/ book'[t] = {None} /\ frame'[t].kind = "none"
        BY <1>2 DEF DropBooks, NoBook
    <2>2. hand' = hand /\ DOMAIN frame' = Tokens BY <1>2 DEF DropBooks
    <2>3. NoGhostTop' BY <1>0, <2>1, <2>2 DEF NoGhostTop
    <2>4. PrunedOK'
        <3>1. SUFFICES ASSUME hand.kind = "price_change", hand.at # "apply", hand.best # None,
                              NEW l \in book'[hand.token]
                       PROVE  l <= hand.best
            BY <2>2 DEF PrunedOK
        <3>2. hand.token \in Tokens /\ hand.best \in Bests BY <3>1, HandFacts DEF TypeOK
        <3>3. CASE book'[hand.token] = book[hand.token] BY <3>1, <3>3 DEF PrunedOK
        <3>4. CASE book'[hand.token] = {None}
            <4>0. hand.best \in Levels \cup {0} BY <3>1, <3>2 DEF Bests
            <4>n. Levels \cup {0} \subseteq Nat BY FeedAssumption
            <4>1. hand.best \in Nat BY <4>0, <4>n
            <4> QED BY <3>1, <3>4, <4>1 DEF None
        <3> QED BY <2>1, <3>2, <3>3, <3>4
    <2> QED BY <2>3, <2>4
<1>3. CASE \E t \in Tokens : Drain(t) BY <1>3, TopSame DEF Drain
<1>4. CASE Connecting \/ Connected \/ Subscribed \/ Rotated \/ BackedOff \/ Stop
    BY <1>4, TopSame DEF Connecting, Connected, Subscribed, Rotated, BackedOff, Stop
<1>5. CASE PongOverdue \/ ConnectionFails
    BY <1>5, TopSame DEF PongOverdue, ConnectionFails, Fail
<1>6. CASE Receive
    <2>1. Head(wire) \in Frames BY <1>6, HeadTailProperties DEF Receive, TypeOK
    <2>2. hand' = hand \/ hand' = Idle \/ (Head(wire).kind # "pong" /\ hand' = InHand(Head(wire)))
        BY <1>6 DEF Receive
    <2>3. hand' = hand \/ hand' = Idle \/ hand'.at = "apply" BY <2>1, <2>2, TakenInHand
    <2>4. UNCHANGED <<book, frame>> BY <1>6 DEF Receive
    <2>5. CASE hand' = hand \/ hand' = Idle BY <2>4, <2>5, TopSame
    <2>6. CASE hand'.at = "apply" BY <2>4, <2>6 DEF PrunedOK, NoGhostTop
    <2> QED BY <2>3, <2>5, <2>6
<1>7. CASE ApplyBook
    <2>1. /\ hand' = Idle
          /\ \A t \in Tokens : \/ book'[t] = book[t] /\ frame'[t] = frame[t]
                               \/ frame'[t].kind = "book"
          /\ DOMAIN frame' = Tokens
        BY <1>7 DEF ApplyBook, Label, TypeOK
    <2> QED BY <1>0, <2>1 DEF PrunedOK, NoGhostTop, Idle
<1>8. CASE ApplyChange
    <2>0. hand.kind = "price_change" BY <1>8 DEF ApplyChange
    <2>1. PICK token \in Tokens : hand.token = token BY <2>0, HandFacts DEF TypeOK
    <2> DEFINE best == IF Transport = "sdk" THEN None ELSE hand.best
    <2>2. \E new : book' = [book EXCEPT ![token] = Pruned(new, best)]
        BY <1>8, <2>1 DEF ApplyChange
    <2>3. /\ DOMAIN frame' = Tokens
          /\ \A t \in Tokens : t # token => book'[t] = book[t] /\ frame'[t] = frame[t]
          /\ frame'[token].best = best
        BY <1>8, <2>1, <2>2 DEF ApplyChange, Label, TypeOK
    <2>4. best # None => \A l \in book'[token] : l <= best
        BY <2>1, <2>2 DEF Pruned, TypeOK
    <2>5. NoGhostTop' BY <1>0, <2>3, <2>4 DEF NoGhostTop
    <2>6. PrunedOK'
        <3>1. CASE Transport = "sdk" BY <1>8, <3>1 DEF ApplyChange, PrunedOK, Idle
        <3>2. CASE Transport # "sdk"
            <4>1. /\ hand' = [hand EXCEPT !.at = "label"] \/ hand' = [hand EXCEPT !.at = "quote"]
                BY <1>8, <3>2 DEF ApplyChange
            <4>2. hand'.token = token /\ hand'.best = hand.best
                BY <2>0, <2>1, <4>1, HandFacts DEF TypeOK, Reducing
            <4> QED BY <2>4, <3>2, <4>2 DEF PrunedOK
        <3> QED BY <3>1, <3>2
    <2> QED BY <2>5, <2>6
<1>9. CASE ApplyQuote
    <2>1. PICK token \in Tokens : hand.token = token BY <1>9, HandFacts DEF ApplyQuote, TypeOK
    <2>2. /\ book' = book /\ DOMAIN frame' = Tokens
          /\ \A t \in Tokens : frame'[t] = frame[t] \/ frame'[t].kind = "best_bid_ask"
        BY <1>9, <2>1 DEF ApplyQuote, Label, TypeOK
    <2>3. NoGhostTop' BY <1>0, <2>2 DEF NoGhostTop
    <2>4. PrunedOK'
        <3>1. CASE hand' = Idle BY <3>1 DEF PrunedOK, Idle
        <3>2. CASE hand.kind = "price_change" /\ hand.at = "quote" /\ hand' = [hand EXCEPT !.at = "label"]
            <4>1. hand'.token = hand.token /\ hand'.best = hand.best
                BY <3>2, HandFacts DEF TypeOK, Reducing
            <4> QED BY <2>2, <3>2, <4>1 DEF PrunedOK
        <3> QED BY <1>9, <3>1, <3>2 DEF ApplyQuote
    <2> QED BY <2>3, <2>4
<1>10. CASE RelabelChange
    <2>1. PICK token \in Tokens : hand.token = token BY <1>10, HandFacts DEF RelabelChange, TypeOK
    <2>2. /\ book' = book /\ DOMAIN frame' = Tokens /\ hand' = Idle
          /\ \A t \in Tokens : frame'[t] = frame[t] \/ (t = token /\ frame'[t].best = hand.best)
        BY <1>10, <2>1 DEF RelabelChange, Label, TypeOK
    <2>3. hand.best # None => \A l \in book[token] : l <= hand.best
        BY <1>10, <2>1 DEF RelabelChange, PrunedOK
    <2> QED BY <1>0, <2>2, <2>3 DEF NoGhostTop, PrunedOK, Idle
<1>11. CASE RecordTrade BY <1>11, TopSame DEF RecordTrade
<1>12. CASE VenueMoves \/ VenueQuotes \/ VenueTrades \/ VenuePongs \/ PongAges
    BY <1>12, TopSame DEF VenueMoves, VenueQuotes, VenueTrades, VenuePongs, PongAges
<1> QED BY StepCases, <1>1, <1>2, <1>3, <1>4, <1>5, <1>6, <1>7, <1>8, <1>9, <1>10, <1>11, <1>12

-----------------------------------------------------------------------------
(* Prints *)

LEMMA PrintsInit == Init => OrderOK /\ OnceOK
<1> SUFFICES ASSUME Init PROVE OrderOK /\ OnceOK OBVIOUS
<1>1. /\ Len(wire) = 0 /\ Len(drained) = 0 /\ \A t \in Tokens : Len(buffer[t]) = 0
      /\ hand.kind # "trade"
    BY DEF Init, Idle
<1>2. \A n : ~Recorded(n) BY <1>1 DEF Recorded
<1> QED BY <1>1, <1>2 DEF OrderOK, OnceOK, OnWireOK, PrintsOnce

\* A step that records nothing and sends no print: what is on the wire, in hand and
\* recorded was so before.
LEMMA OrderKept ==
    ASSUME OrderOK, spent'.prints = spent.prints,
           NEW shift \in {0, 1},
           \A i \in 1..Len(wire') : wire'[i].kind = "trade" =>
               i + shift \in 1..Len(wire) /\ wire'[i] = wire[i + shift],
           hand' = hand \/ hand'.kind # "trade",
           \A n \in Nat : Recorded(n)' => Recorded(n)
    PROVE  OrderOK'
<1>1. \A n : OnWireOK(n) => OnWireOK(n)' BY DEF OnWireOK
<1>2. \A n : OnWireOK(n)' <=> \A i \in 1..Len(wire') : wire'[i].kind = "trade" =>
                                 n < wire'[i].id /\ wire'[i].id < spent'.prints
    BY DEF OnWireOK
<1>3. \A i, j \in 1..Len(wire') :
          wire'[i].kind = "trade" /\ wire'[j].kind = "trade" /\ i < j => wire'[i].id < wire'[j].id
    <2> SUFFICES ASSUME NEW i \in 1..Len(wire'), NEW j \in 1..Len(wire'),
                        wire'[i].kind = "trade", wire'[j].kind = "trade", i < j
                 PROVE  wire'[i].id < wire'[j].id
        OBVIOUS
    <2>1. /\ i + shift \in 1..Len(wire) /\ wire'[i] = wire[i + shift]
          /\ j + shift \in 1..Len(wire) /\ wire'[j] = wire[j + shift]
          /\ i + shift < j + shift
        OBVIOUS
    <2> QED BY <2>1 DEF OrderOK
<1>4. OnWireOK(-1)' BY <1>1 DEF OrderOK
<1>5. ASSUME hand'.kind = "trade" PROVE OnWireOK(hand.id)' /\ hand'.id < spent'.prints
    <2>1. hand' = hand BY <1>5
    <2>2. OnWireOK(hand.id) /\ hand.id < spent.prints BY <1>5, <2>1 DEF OrderOK
    <2>3. \A n : n = hand.id => OnWireOK(n)' BY <1>1, <2>2
    <2>4. \A n : n = hand'.id => OnWireOK(n)' BY <2>1, <2>3
    <2>5. OnWireOK(hand.id)' BY <2>4
    <2> QED BY <2>1, <2>2, <2>5
<1>6. ASSUME NEW n \in Nat, Recorded(n)'
      PROVE  OnWireOK(n)' /\ n < spent'.prints /\ (hand'.kind = "trade" => n < hand'.id)
    BY <1>1, <1>6 DEF OrderOK
<1> QED BY <1>2, <1>3, <1>4, <1>5, <1>6 DEF OrderOK

LEMMA OrderSame ==
    ASSUME OrderOK, UNCHANGED <<wire, buffer, drained>>, hand' = hand \/ hand'.kind # "trade",
           spent'.prints = spent.prints, wire \in Seq(Frames)
    PROVE  OrderOK'
<1>1. \A n : Recorded(n)' <=> Recorded(n) BY DEF Recorded
<1>2. Len(wire) \in Nat BY LenProperties
<1> QED BY <1>1, <1>2, OrderKept

LEMMA OnceSame == OnceOK /\ UNCHANGED <<buffer, drained>> => OnceOK'
BY DEF OnceOK, PrintsOnce

\* The last print on the wire is the last the venue has sent.
LEMMA OrderSent ==
    ASSUME OrderOK, TypeOK, UNCHANGED <<buffer, drained, hand>>, NEW f,
           \A i \in 1..Len(wire) : i \in 1..Len(wire') /\ wire'[i] = wire[i],
           \A i \in 1..Len(wire') : \/ i \in 1..Len(wire) /\ wire'[i] = wire[i]
                                    \/ i = Len(wire) + 1 /\ wire'[i] = f,
           \/ f.kind # "trade" /\ spent'.prints = spent.prints
           \/ f.id = spent.prints /\ spent'.prints = spent.prints + 1
    PROVE  OrderOK'
<1>0. spent.prints \in Nat /\ spent'.prints \in Nat /\ spent.prints <= spent'.prints
    BY DEF TypeOK
<1>1. \A n : Recorded(n)' <=> Recorded(n) BY DEF Recorded
<1>2. ASSUME NEW i \in 1..Len(wire'), wire'[i].kind = "trade"
      PROVE  /\ wire'[i].id < spent'.prints
             /\ \/ i \in 1..Len(wire) /\ wire'[i] = wire[i] /\ wire[i].id \in Nat
                                      /\ wire[i].id < spent.prints
                \/ i = Len(wire) + 1 /\ wire'[i].id = spent.prints
    <2>1. CASE i \in 1..Len(wire) /\ wire'[i] = wire[i]
        <3>1. wire[i] \in Frames BY <2>1, ElementOfSeq DEF TypeOK
        <3>2. wire[i].id \in Nat BY <1>2, <2>1, <3>1, FrameFacts
        <3>3. wire[i].id < spent.prints BY <1>2, <2>1 DEF OrderOK, OnWireOK
        <3> QED BY <1>0, <2>1, <3>2, <3>3
    <2>2. CASE i = Len(wire) + 1 /\ wire'[i] = f BY <1>0, <1>2, <2>2
    <2> QED BY <2>1, <2>2
<1>3. ASSUME NEW n \in Int, OnWireOK(n), n < spent.prints
      PROVE  OnWireOK(n)'
    <2>1. \A i \in 1..Len(wire') : wire'[i].kind = "trade" =>
              n < wire'[i].id /\ wire'[i].id < spent'.prints
        BY <1>2, <1>3 DEF OnWireOK
    <2> QED BY <2>1 DEF OnWireOK
<1>4. OnWireOK(-1)' BY <1>0, <1>3 DEF OrderOK
<1>5. ASSUME NEW i \in 1..Len(wire'), NEW j \in 1..Len(wire'),
             wire'[i].kind = "trade", wire'[j].kind = "trade", i < j
      PROVE  wire'[i].id < wire'[j].id
    <2>0. Len(wire) \in Nat BY LenProperties DEF TypeOK
    <2>n. j \in 1..Len(wire) \/ j = Len(wire) + 1 BY <1>2, <1>5
    <2>1. i # Len(wire) + 1 BY <2>0, <2>n, <1>5
    <2>2. i \in 1..Len(wire) /\ wire'[i] = wire[i] /\ wire[i].id < spent.prints BY <1>2, <1>5, <2>1
    <2> QED BY <1>2, <1>5, <2>2 DEF OrderOK
<1>6. ASSUME hand.kind = "trade" PROVE OnWireOK(hand.id)' /\ hand'.id < spent'.prints
    <2>1. hand.id \in Nat BY <1>6, HandFacts DEF TypeOK
    <2>2. OnWireOK(hand.id) /\ hand.id < spent.prints BY <1>6 DEF OrderOK
    <2>3. \A n \in Int : n = hand.id => OnWireOK(n)' BY <1>3, <2>2
    <2>4. \A n \in Int : n = hand'.id => OnWireOK(n)' BY <2>3
    <2>5. OnWireOK(hand.id)' BY <2>1, <2>4
    <2> QED BY <1>0, <2>1, <2>2, <2>5
<1>7. ASSUME NEW n \in Nat, Recorded(n)'
      PROVE  OnWireOK(n)' /\ n < spent'.prints /\ (hand'.kind = "trade" => n < hand'.id)
    <2>1. OnWireOK(n) /\ n < spent.prints /\ (hand.kind = "trade" => n < hand.id)
        BY <1>1, <1>7 DEF OrderOK
    <2> QED BY <1>0, <1>3, <2>1
<1> QED BY <1>4, <1>5, <1>6, <1>7 DEF OrderOK

LEMMA ReceiveOrder ==
    ASSUME OrderOK, TypeOK, Receive PROVE OrderOK'
<1> USE DEF books, prints, subscription
<1> DEFINE first == wire[1]
<1>1. wire \in Seq(Frames) /\ wire # <<>> BY DEF Receive, TypeOK
<1>2. /\ Head(wire) \in Frames /\ wire' = Tail(wire) /\ Len(wire') = Len(wire) - 1
      /\ \A i \in 1..Len(wire') : wire'[i] = wire[i + 1]
      /\ Len(wire) \in Nat \ {0} /\ Head(wire) = first
    BY <1>1, HeadTailProperties, LenProperties DEF Receive
<1> HIDE DEF first
<1>3. /\ UNCHANGED <<buffer, drained, spent>>
      /\ hand' = hand \/ hand' = Idle \/ (first.kind # "pong" /\ hand' = InHand(first))
    BY <1>2 DEF Receive
<1>4. \A n : Recorded(n)' <=> Recorded(n) BY <1>3 DEF Recorded
<1>5. \A i \in 1..Len(wire') : i + 1 \in 1..Len(wire) /\ wire'[i] = wire[i + 1] BY <1>2
<1>6. CASE hand' = hand \/ hand'.kind # "trade" BY <1>3, <1>4, <1>5, <1>6, OrderKept
<1>7. CASE hand' = InHand(first) /\ hand'.kind = "trade"
    <2>1. /\ first.kind = "trade" /\ hand'.id = first.id /\ first.id \in Nat
          /\ 1 \in 1..Len(wire) /\ wire[1] = first
        <3>1. first \in Frames BY <1>2
        <3>2. first.kind = "trade" /\ hand'.id = first.id BY <1>7, <3>1, TakenInHand
        <3>3. first.id \in Nat BY <3>1, <3>2, FrameFacts
        <3> QED BY <1>2, <3>2, <3>3 DEF first
    <2>2. \A i \in 1..Len(wire) : wire[i].kind = "trade" => wire[i].id < spent.prints
        BY DEF OrderOK, OnWireOK
    <2>3. \A i \in 1..Len(wire') : wire'[i].kind = "trade" => first.id < wire'[i].id
        <3> SUFFICES ASSUME NEW i \in 1..Len(wire'), wire'[i].kind = "trade"
                     PROVE  first.id < wire'[i].id
            OBVIOUS
        <3>1. i + 1 \in 1..Len(wire) /\ wire'[i] = wire[i + 1] /\ 1 < i + 1 BY <1>5
        <3> QED BY <2>1, <3>1 DEF OrderOK
    <2>4. \A n \in Int : OnWireOK(n) => OnWireOK(n)' BY <1>3, <1>5 DEF OnWireOK
    <2>5. \A n : n = first.id => OnWireOK(n)' BY <1>3, <1>5, <2>2, <2>3 DEF OnWireOK
    <2>6. OnWireOK(hand.id)' /\ hand'.id < spent'.prints BY <1>3, <2>1, <2>2, <2>5
    <2>7. OnWireOK(-1)' BY <2>4 DEF OrderOK
    <2>8. ASSUME NEW i \in 1..Len(wire'), NEW j \in 1..Len(wire'),
                 wire'[i].kind = "trade", wire'[j].kind = "trade", i < j
          PROVE  wire'[i].id < wire'[j].id
        <3>1. /\ i + 1 \in 1..Len(wire) /\ wire'[i] = wire[i + 1]
              /\ j + 1 \in 1..Len(wire) /\ wire'[j] = wire[j + 1] /\ i + 1 < j + 1
            BY <1>5, <2>8
        <3> QED BY <2>8, <3>1 DEF OrderOK
    <2>9. ASSUME NEW n \in Nat, Recorded(n)'
          PROVE  OnWireOK(n)' /\ n < spent'.prints /\ (hand'.kind = "trade" => n < hand'.id)
        <3>1. OnWireOK(n) /\ n < spent.prints BY <1>4, <2>9 DEF OrderOK
        <3>2. n < first.id BY <2>1, <3>1 DEF OnWireOK
        <3> QED BY <1>3, <2>1, <2>4, <3>1, <3>2
    <2> QED BY <2>6, <2>7, <2>8, <2>9 DEF OrderOK
<1> QED BY <1>3, <1>6, <1>7 DEF Idle

\* A print goes from one buffer into the collector's hands, or from hand into its buffer.
LEMMA DrainPrints ==
    ASSUME OrderOK, OnceOK, TypeOK, NEW t \in Tokens, Drain(t) PROVE OrderOK' /\ OnceOK'
<1> USE DEF books, subscription, session, outside
<1> DEFINE taken == buffer[t]
<1>1. /\ taken \in Seq(Nat) /\ drained \in Seq(Nat)
      /\ Len(taken) \in Nat /\ Len(drained) \in Nat
    BY LenProperties DEF TypeOK
<1>2. /\ Len(drained') = Len(drained) + Len(taken)
      /\ \A i \in 1..Len(drained') :
            drained'[i] = IF i <= Len(drained) THEN drained[i] ELSE taken[i - Len(drained)]
    BY <1>1, ConcatProperties DEF Drain
<1>3. /\ \A u \in Tokens : u # t => buffer'[u] = buffer[u]
      /\ Len(buffer'[t]) = 0
      /\ UNCHANGED <<wire, hand, spent>>
    BY DEF Drain, TypeOK
<1>a. /\ \A i, j \in 1..Len(taken) : taken[i] = taken[j] => i = j
      /\ \A i \in 1..Len(taken) : \A k \in 1..Len(drained) : taken[i] # drained[k]
    BY DEF OnceOK
<1>b. \A i, j \in 1..Len(drained) : drained[i] = drained[j] => i = j
    BY DEF OnceOK, PrintsOnce
<1>c. \A n : (\E a \in 1..Len(taken) : taken[a] = n) => Recorded(n) BY DEF Recorded
<1> HIDE DEF taken
<1>4. \A i \in 1..Len(drained') :
          \/ i \in 1..Len(drained) /\ drained'[i] = drained[i]
          \/ \E a \in 1..Len(taken) : i = Len(drained) + a /\ drained'[i] = taken[a]
    <2> SUFFICES ASSUME NEW i \in 1..Len(drained')
                 PROVE  \/ i \in 1..Len(drained) /\ drained'[i] = drained[i]
                        \/ \E a \in 1..Len(taken) : i = Len(drained) + a /\ drained'[i] = taken[a]
        OBVIOUS
    <2>1. CASE i <= Len(drained) BY <1>1, <1>2, <2>1
    <2>2. CASE ~(i <= Len(drained))
        <3>1. i - Len(drained) \in 1..Len(taken) /\ i = Len(drained) + (i - Len(drained))
            BY <1>1, <1>2, <2>2
        <3>2. drained'[i] = taken[i - Len(drained)] BY <1>2, <2>2
        <3> QED BY <3>1, <3>2
    <2> QED BY <2>1, <2>2
<1>5. \A n \in Nat : Recorded(n)' => Recorded(n)
    <2> SUFFICES ASSUME NEW n \in Nat, Recorded(n)' PROVE Recorded(n) OBVIOUS
    <2>1. CASE \E u \in Tokens : \E i \in 1..Len(buffer'[u]) : buffer'[u][i] = n
        <3>1. PICK u \in Tokens : \E i \in 1..Len(buffer'[u]) : buffer'[u][i] = n BY <2>1
        <3>2. u # t BY <1>3, <3>1
        <3> QED BY <1>3, <3>1, <3>2 DEF Recorded
    <2>2. CASE \E i \in 1..Len(drained') : drained'[i] = n
        <3>1. PICK i \in 1..Len(drained') : drained'[i] = n BY <2>2
        <3>2. CASE i \in 1..Len(drained) /\ drained'[i] = drained[i]
            BY <3>1, <3>2 DEF Recorded
        <3>3. CASE \E a \in 1..Len(taken) : i = Len(drained) + a /\ drained'[i] = taken[a]
            BY <1>c, <3>1, <3>3
        <3> QED BY <1>4, <3>2, <3>3
    <2> QED BY <2>1, <2>2 DEF Recorded
<1>6. OrderOK'
    <2>1. Len(wire) \in Nat BY LenProperties DEF TypeOK
    <2>2. \A i \in 1..Len(wire') : i + 0 \in 1..Len(wire) /\ wire'[i] = wire[i + 0] BY <1>3, <2>1
    <2> QED BY <1>3, <1>5, <2>2, OrderKept
<1>7. PrintsOnce'
    <2> SUFFICES ASSUME NEW i \in 1..Len(drained'), NEW j \in 1..Len(drained'), drained'[i] = drained'[j]
                 PROVE  i = j
        BY DEF PrintsOnce
    <2>1. CASE /\ i \in 1..Len(drained) /\ drained'[i] = drained[i]
               /\ j \in 1..Len(drained) /\ drained'[j] = drained[j]
        BY <1>b, <2>1
    <2>2. CASE /\ i \in 1..Len(drained) /\ drained'[i] = drained[i]
               /\ \E a \in 1..Len(taken) : j = Len(drained) + a /\ drained'[j] = taken[a]
        BY <1>a, <2>2
    <2>3. CASE /\ j \in 1..Len(drained) /\ drained'[j] = drained[j]
               /\ \E a \in 1..Len(taken) : i = Len(drained) + a /\ drained'[i] = taken[a]
        BY <1>a, <2>3
    <2>4. CASE /\ \E a \in 1..Len(taken) : i = Len(drained) + a /\ drained'[i] = taken[a]
               /\ \E a \in 1..Len(taken) : j = Len(drained) + a /\ drained'[j] = taken[a]
        BY <1>a, <2>4
    <2> QED BY <1>4, <2>1, <2>2, <2>3, <2>4
<1>8. ASSUME NEW u \in Tokens, NEW i \in 1..Len(buffer'[u]), NEW k \in 1..Len(drained')
      PROVE  buffer'[u][i] # drained'[k]
    <2>1. u # t BY <1>3, <1>8
    <2>2. buffer'[u] = buffer[u] BY <1>3, <2>1
    <2> QED BY <1>4, <1>8, <2>1, <2>2 DEF OnceOK, taken
<1>9. ASSUME NEW u \in Tokens, NEW v \in Tokens, NEW i \in 1..Len(buffer'[u]),
             NEW j \in 1..Len(buffer'[v]), buffer'[u][i] = buffer'[v][j]
      PROVE  u = v /\ i = j
    <2>1. u # t /\ v # t BY <1>3, <1>9
    <2>2. buffer'[u] = buffer[u] /\ buffer'[v] = buffer[v] BY <1>3, <2>1
    <2> QED BY <1>9, <2>2 DEF OnceOK
<1> QED BY <1>6, <1>7, <1>8, <1>9 DEF OnceOK

LEMMA RecordPrints ==
    ASSUME OrderOK, OnceOK, TypeOK, RecordTrade PROVE OrderOK' /\ OnceOK'
<1> USE DEF books, subscription, session, outside
<1>1. hand.kind = "trade" /\ hand.token \in Tokens /\ hand.id \in Nat
    BY HandFacts DEF RecordTrade, TypeOK
<1>2. PICK token \in Tokens, id \in Nat : hand.token = token /\ hand.id = id BY <1>1
<1>3. PICK cut \in Nat :
          /\ cut <= Len(buffer[token])
          /\ Len(buffer'[token]) = Len(buffer[token]) + 1 - cut
          /\ \A i \in 1..Len(buffer'[token]) :
                buffer'[token][i] = IF i + cut <= Len(buffer[token])
                                    THEN buffer[token][i + cut] ELSE id
    BY <1>1, <1>2, Recording DEF TypeOK
<1>4. \A t \in Tokens : t # token => buffer'[t] = buffer[t] BY <1>1, <1>2, Recording DEF TypeOK
<1>5. UNCHANGED <<wire, drained, spent>> /\ hand' = Idle BY DEF RecordTrade
<1>6. Len(buffer[token]) \in Nat BY LenProperties DEF TypeOK
\* A print that is in a buffer now was there, or is the one recorded.
<1> DEFINE Was(t, i) == \E a \in 1..Len(buffer[t]) : buffer'[t][i] = buffer[t][a]
                                /\ a = IF t = token THEN i + cut ELSE i
<1>7. \A t \in Tokens : \A i \in 1..Len(buffer'[t]) :
          \/ Was(t, i)
          \/ t = token /\ i + cut = Len(buffer[t]) + 1 /\ buffer'[t][i] = id
    <2> SUFFICES ASSUME NEW t \in Tokens, NEW i \in 1..Len(buffer'[t])
                 PROVE  \/ Was(t, i)
                        \/ t = token /\ i + cut = Len(buffer[t]) + 1 /\ buffer'[t][i] = id
        OBVIOUS
    <2>1. CASE t # token BY <1>4, <2>1
    <2>2. CASE t = token
        <3>1. i + cut <= Len(buffer[token]) + 1 /\ i + cut \in Nat \ {0} BY <1>3, <1>6, <2>2
        <3>2. CASE i + cut <= Len(buffer[token])
            <4>1. i + cut \in 1..Len(buffer[t]) BY <1>6, <2>2, <3>1, <3>2
            <4>2. buffer'[t][i] = buffer[t][i + cut] BY <1>3, <2>2, <3>2
            <4> QED BY <2>2, <4>1, <4>2
        <3>3. CASE ~(i + cut <= Len(buffer[token])) BY <1>3, <1>6, <2>2, <3>1, <3>3
        <3> QED BY <3>2, <3>3
    <2> QED BY <2>1, <2>2
<1>8. \A n \in Nat : Recorded(n)' => Recorded(n) \/ n = id
    <2> SUFFICES ASSUME NEW n \in Nat, Recorded(n)', n # id PROVE Recorded(n) OBVIOUS
    <2>1. CASE \E t \in Tokens : \E i \in 1..Len(buffer'[t]) : buffer'[t][i] = n
        <3>0. PICK t \in Tokens : \E i \in 1..Len(buffer'[t]) : buffer'[t][i] = n BY <2>1
        <3>1. PICK i \in 1..Len(buffer'[t]) : buffer'[t][i] = n BY <3>0
        <3>2. \E a \in 1..Len(buffer[t]) : buffer[t][a] = n
            <4>1. Was(t, i) BY <1>7, <3>1
            <4> QED BY <3>1, <4>1
        <3> QED BY <3>2 DEF Recorded
    <2>2. CASE \E i \in 1..Len(drained') : drained'[i] = n BY <1>5, <2>2 DEF Recorded
    <2> QED BY <2>1, <2>2 DEF Recorded
<1>9. OnWireOK(id) /\ id < spent.prints BY <1>1, <1>2 DEF OrderOK
<1>10. \A n : OnWireOK(n)' <=> OnWireOK(n) BY <1>5 DEF OnWireOK
<1>11. OrderOK'
    <2>1. ASSUME NEW n \in Nat, Recorded(n)'
          PROVE  OnWireOK(n)' /\ n < spent'.prints /\ (hand'.kind = "trade" => n < hand'.id)
        BY <1>5, <1>8, <1>9, <1>10, <2>1 DEF OrderOK, Idle
    <2> QED BY <1>5, <1>10, <2>1 DEF OrderOK, Idle
\* The print recorded is none of those recorded before.
<1>12. /\ \A t \in Tokens : \A i \in 1..Len(buffer[t]) : buffer[t][i] # id
       /\ \A k \in 1..Len(drained) : drained[k] # id
    <2>1. ~Recorded(id) BY <1>1, <1>2 DEF OrderOK
    <2> QED BY <2>1 DEF Recorded
<1>13. PrintsOnce' BY <1>5 DEF OnceOK, PrintsOnce
<1>14. ASSUME NEW t \in Tokens, NEW i \in 1..Len(buffer'[t]), NEW k \in 1..Len(drained')
       PROVE  buffer'[t][i] # drained'[k]
    <2>1. k \in 1..Len(drained) /\ drained'[k] = drained[k] BY <1>5
    <2>2. CASE Was(t, i) BY <2>1, <2>2 DEF OnceOK
    <2>3. CASE buffer'[t][i] = id BY <1>12, <2>1, <2>3
    <2> QED BY <1>7, <2>2, <2>3
<1>15. ASSUME NEW t \in Tokens, NEW u \in Tokens, NEW i \in 1..Len(buffer'[t]),
              NEW j \in 1..Len(buffer'[u]), buffer'[t][i] = buffer'[u][j]
       PROVE  t = u /\ i = j
    <2>1. CASE Was(t, i) /\ Was(u, j)
        <3>1. PICK a \in 1..Len(buffer[t]) : buffer'[t][i] = buffer[t][a]
                                             /\ a = IF t = token THEN i + cut ELSE i
            BY <2>1
        <3>2. PICK b \in 1..Len(buffer[u]) : buffer'[u][j] = buffer[u][b]
                                             /\ b = IF u = token THEN j + cut ELSE j
            BY <2>1
        <3>3. buffer[t][a] = buffer[u][b] BY <1>15, <3>1, <3>2
        <3>4. t = u /\ a = b BY <3>3 DEF OnceOK
        <3>5. i \in Int /\ j \in Int OBVIOUS
        <3> QED BY <3>1, <3>2, <3>4, <3>5
    <2>2. CASE Was(t, i) /\ buffer'[u][j] = id BY <1>12, <1>15, <2>2
    <2>3. CASE buffer'[t][i] = id /\ Was(u, j) BY <1>12, <1>15, <2>3
    <2>4. CASE t = token /\ u = token /\ i + cut = Len(buffer[t]) + 1 /\ j + cut = Len(buffer[u]) + 1
        BY <1>6, <2>4
    <2> QED BY <1>7, <2>1, <2>2, <2>3, <2>4
<1> QED BY <1>11, <1>13, <1>14, <1>15 DEF OnceOK

LEMMA DropPrints ==
    ASSUME OrderOK, OnceOK, TypeOK, DropBuffers PROVE OrderOK' /\ OnceOK'
<1> USE DEF books, session, outside
<1>1. \A t \in Tokens : buffer'[t] = buffer[t] \/ Len(buffer'[t]) = 0
    BY DEF DropBuffers
<1>2. UNCHANGED <<wire, hand, drained, spent>> BY DEF DropBuffers
<1>3. \A t \in Tokens : \A i \in 1..Len(buffer'[t]) :
          i \in 1..Len(buffer[t]) /\ buffer'[t][i] = buffer[t][i]
    BY <1>1
<1>4. \A n \in Nat : Recorded(n)' => Recorded(n) BY <1>2, <1>3 DEF Recorded
<1>5. OrderOK'
    <2>1. Len(wire) \in Nat BY LenProperties DEF TypeOK
    <2>2. \A i \in 1..Len(wire') : i + 0 \in 1..Len(wire) /\ wire'[i] = wire[i + 0] BY <1>2, <2>1
    <2> QED BY <1>2, <1>4, <2>2, OrderKept
<1>6. OnceOK' BY <1>2, <1>3 DEF OnceOK, PrintsOnce
<1> QED BY <1>5, <1>6

LEMMA PrintsStep ==
    ASSUME TypeOK, OrderOK, OnceOK, [Next]_vars PROVE OrderOK' /\ OnceOK'
<1> USE DEF books, prints, subscription, session, outside
<1>0. /\ spent \in [rotations : Nat, moves : Nat, prints : Nat, faults : Nat]
      /\ wire \in Seq(Frames) /\ Len(wire) \in Nat
      /\ hand.kind = "none" <=> hand = Idle
    BY LenProperties, HandFacts DEF TypeOK
<1>1. CASE UNCHANGED vars \/ SetFilter \/ BumpVersion \/ DropBooks \/ Connecting \/ Rotated
           \/ PongOverdue \/ BackedOff \/ Stop
    <2>1. UNCHANGED <<wire, buffer, drained, hand, spent>>
        BY <1>1 DEF vars, SetFilter, BumpVersion, DropBooks, Connecting, Rotated, PongOverdue, Fail,
                    BackedOff, Stop
    <2> QED BY <1>0, <2>1, OrderSame, OnceSame
<1>2. CASE BeginRotation
    <2>1. spent'.prints = spent.prints BY <1>0, <1>2, SpendFacts DEF BeginRotation
    <2>2. UNCHANGED <<wire, buffer, drained, hand>> BY <1>2 DEF BeginRotation
    <2> QED BY <1>0, <2>1, <2>2, OrderSame, OnceSame
<1>3. CASE ConnectionFails
    <2>1. spent'.prints = spent.prints BY <1>0, <1>3, SpendFacts DEF ConnectionFails
    <2>2. UNCHANGED <<wire, buffer, drained, hand>> BY <1>3 DEF ConnectionFails, Fail
    <2> QED BY <1>0, <2>1, <2>2, OrderSame, OnceSame
<1>4. CASE PongAges
    <2>1. spent'.prints = spent.prints BY <1>0, <1>4, SpendFacts DEF PongAges
    <2>2. UNCHANGED <<wire, buffer, drained, hand>> BY <1>4 DEF PongAges
    <2> QED BY <1>0, <2>1, <2>2, OrderSame, OnceSame
<1>5. CASE DropBuffers BY <1>5, DropPrints
<1>6. CASE \E t \in Tokens : Drain(t) BY <1>6, DrainPrints
<1>7. CASE Connected \/ Subscribed
    <2>1. UNCHANGED <<buffer, drained, spent>> /\ hand' = hand
        BY <1>7 DEF Connected, Subscribed
    <2>2. \A i \in 1..Len(wire') : wire'[i].kind # "trade"
        <3>1. CASE Connected BY <3>1 DEF Connected
        <3>2. CASE Subscribed
            <4>1. wire' = Snapshots(subscribed) BY <3>2 DEF Subscribed
            <4>2. \A i \in 1..Len(Snapshots(subscribed)) : Snapshots(subscribed)[i].kind = "book"
                BY SnapshotsAre DEF TypeOK
            <4> QED BY <4>1, <4>2
        <3> QED BY <1>7, <3>1, <3>2
    <2>3. \A n : Recorded(n)' <=> Recorded(n) BY <2>1 DEF Recorded
    <2> QED BY <2>1, <2>2, <2>3, OrderKept, OnceSame
<1>8. CASE Receive
    <2>1. UNCHANGED <<buffer, drained>> BY <1>8 DEF Receive
    <2> QED BY <1>8, <2>1, ReceiveOrder, OnceSame
<1>9. CASE ApplyBook \/ ApplyChange \/ ApplyQuote \/ RelabelChange
    <2>1. UNCHANGED <<wire, buffer, drained, spent>>
        BY <1>9 DEF ApplyBook, ApplyChange, ApplyQuote, RelabelChange
    <2>2. hand'.kind # "trade"
        <3>1. \/ hand' = Idle
              \/ hand.kind = "price_change" /\ \E at \in {"label", "quote"} : hand' = [hand EXCEPT !.at = at]
            BY <1>9 DEF ApplyBook, ApplyChange, ApplyQuote, RelabelChange
        <3>2. CASE hand' = Idle BY <3>2 DEF Idle
        <3>3. CASE hand.kind = "price_change" /\ \E at \in {"label", "quote"} : hand' = [hand EXCEPT !.at = at]
            BY <3>3, HandFacts DEF TypeOK, Reducing, Idle
        <3> QED BY <3>1, <3>2, <3>3
    <2> QED BY <1>0, <2>1, <2>2, OrderSame, OnceSame
<1>10. CASE RecordTrade BY <1>10, RecordPrints
<1>11. CASE VenueMoves
    <2>1. PICK t \in Tokens, l \in Levels, declared \in BOOLEAN :
              Send(t, Moved(t, l, declared)) \/ wire' = wire
        BY <1>11, Moving
    <2> DEFINE f == Moved(t, l, declared)
    <2>2. f \in Frames /\ f.kind = "price_change" BY MovedFacts DEF TypeOK
    <2> HIDE DEF f
    <2>3. Send(t, f) \/ wire' = wire BY <2>1 DEF f
    <2>4. UNCHANGED <<buffer, drained, hand>> BY <1>11 DEF VenueMoves
    <2>5. spent'.prints = spent.prints BY <1>0, <1>11, SpendFacts DEF VenueMoves
    <2>6. CASE wire' = wire BY <1>0, <2>4, <2>5, <2>6, OrderSame, OnceSame
    <2>7. CASE Send(t, f)
        <3>1. /\ \A i \in 1..Len(wire) : i \in 1..Len(wire') /\ wire'[i] = wire[i]
              /\ \A i \in 1..Len(wire') : \/ i \in 1..Len(wire) /\ wire'[i] = wire[i]
                                          \/ i = Len(wire) + 1 /\ wire'[i] = f
            BY <1>0, <2>2, <2>7, SendFacts
        <3>2. spent' \in [rotations : Nat, moves : Nat, prints : Nat, faults : Nat]
            BY <1>0, <1>11, SpendFacts DEF VenueMoves
        <3> QED BY <2>2, <2>4, <2>5, <3>1, OrderSent, OnceSame
    <2> QED BY <2>3, <2>6, <2>7
<1>12. CASE VenueQuotes
    <2>1. PICK t \in Tokens : Send(t, Quoting(t)) BY <1>12 DEF VenueQuotes, Quoting
    <2> DEFINE f == Quoting(t)
    <2>2. f \in Frames /\ f.kind = "best_bid_ask" BY QuotingFacts DEF TypeOK, Quoting
    <2> HIDE DEF f
    <2>3. Send(t, f) BY <2>1 DEF f
    <2>4. UNCHANGED <<buffer, drained, hand>> BY <1>12 DEF VenueQuotes
    <2>5. spent'.prints = spent.prints BY <1>0, <1>12, SpendFacts DEF VenueQuotes
    <2>6. /\ \A i \in 1..Len(wire) : i \in 1..Len(wire') /\ wire'[i] = wire[i]
          /\ \A i \in 1..Len(wire') : \/ i \in 1..Len(wire) /\ wire'[i] = wire[i]
                                      \/ i = Len(wire) + 1 /\ wire'[i] = f
        BY <1>0, <2>2, <2>3, SendFacts
    <2> QED BY <2>2, <2>4, <2>5, <2>6, OrderSent, OnceSame
<1>13. CASE VenueTrades
    <2>1. PICK t \in Tokens : Send(t, Trading(t)) BY <1>13 DEF VenueTrades, Trading
    <2> DEFINE f == Trading(t)
    <2>2. f \in Frames /\ f.kind = "trade" /\ f.id = spent.prints
        BY <1>0, TradingFacts DEF Trading
    <2> HIDE DEF f
    <2>3. Send(t, f) BY <2>1 DEF f
    <2>4. UNCHANGED <<buffer, drained, hand>> BY <1>13 DEF VenueTrades
    <2>5. spent'.prints = spent.prints + 1 BY <1>0, <1>13, SpendFacts DEF VenueTrades
    <2>6. /\ \A i \in 1..Len(wire) : i \in 1..Len(wire') /\ wire'[i] = wire[i]
          /\ \A i \in 1..Len(wire') : \/ i \in 1..Len(wire) /\ wire'[i] = wire[i]
                                      \/ i = Len(wire) + 1 /\ wire'[i] = f
        BY <1>0, <2>2, <2>3, SendFacts
    <2> QED BY <2>2, <2>4, <2>5, <2>6, OrderSent, OnceSame
<1>14. CASE VenuePongs
    <2> DEFINE f == [kind |-> "pong"]
    <2>1. f \in Frames /\ f.kind = "pong" BY DEF Frames
    <2>2. wire' = Append(wire, f) BY <1>14 DEF VenuePongs
    <2> HIDE DEF f
    <2>3. /\ Len(wire') = Len(wire) + 1 /\ wire'[Len(wire) + 1] = f
          /\ \A i \in 1..Len(wire) : wire'[i] = wire[i]
        BY <1>0, <2>1, <2>2, AppendProperties
    <2>4. /\ \A i \in 1..Len(wire) : i \in 1..Len(wire') /\ wire'[i] = wire[i]
          /\ \A i \in 1..Len(wire') : \/ i \in 1..Len(wire) /\ wire'[i] = wire[i]
                                      \/ i = Len(wire) + 1 /\ wire'[i] = f
        BY <1>0, <2>3
    <2>5. UNCHANGED <<buffer, drained, hand, spent>> BY <1>14 DEF VenuePongs
    <2> QED BY <2>1, <2>4, <2>5, OrderSent, OnceSame
<1> QED BY StepCases, <1>1, <1>2, <1>3, <1>4, <1>5, <1>6, <1>7, <1>8, <1>9, <1>10, <1>11, <1>12,
           <1>13, <1>14

-----------------------------------------------------------------------------
(* The theorems                                                            *)

LEMMA SnappedStep ==
    ASSUME TypeOK, SnappedOK, [Next]_vars PROVE SnappedOK'
<1> USE DEF books, prints, subscription, session, outside
<1>0. snapped \subseteq Tokens BY DEF TypeOK
<1>1. CASE UNCHANGED <<book, snapped>> BY <1>1 DEF SnappedOK
<1>2. CASE DropBooks
    <2>1. \A t \in snapped' : t \in snapped /\ book'[t] = book[t] BY <1>0, <1>2 DEF DropBooks
    <2> QED BY <2>1 DEF SnappedOK
<1>3. CASE Connected BY <1>3 DEF Connected, SnappedOK
<1>4. CASE ApplyBook
    <2>1. PICK token \in Tokens : hand.token = token /\ hand.levels \in SUBSET Levels
        BY <1>4, HandFacts DEF ApplyBook, TypeOK
    <2>2. /\ book'[token] \in SUBSET Levels
          /\ \A t \in Tokens : t # token => book'[t] = book[t]
          /\ snapped' = snapped \cup {token}
        BY <1>4, <2>1 DEF ApplyBook, TypeOK
    <2> QED BY <1>0, <2>2 DEF SnappedOK
<1>5. CASE ApplyChange
    <2>1. PICK token \in Tokens : hand.token = token /\ hand.level \in Levels
        BY <1>5, HandFacts DEF ApplyChange, TypeOK
    <2>2. book[token] \ {None} \in SUBSET Levels BY DEF TypeOK, NoBook
    <2>3. /\ book'[token] \in SUBSET Levels
          /\ \A t \in Tokens : t # token => book'[t] = book[t]
          /\ snapped' = snapped
        BY <1>5, <2>1, <2>2 DEF ApplyChange, Pruned, TypeOK
    <2> QED BY <1>0, <2>3 DEF SnappedOK
<1>6. ASSUME [Next]_vars, ~DropBooks, ~Connected, ~ApplyBook, ~ApplyChange
      PROVE  UNCHANGED <<book, snapped>>
    <2>1. CASE BeginRotation \/ SetFilter \/ BumpVersion \/ DropBuffers \/ \E t \in Tokens : Drain(t)
        BY <2>1 DEF BeginRotation, SetFilter, BumpVersion, DropBuffers, Drain
    <2>2. CASE Connecting \/ Subscribed \/ Rotated \/ PongOverdue \/ BackedOff \/ Receive
        BY <2>2 DEF Connecting, Subscribed, Rotated, PongOverdue, Fail, BackedOff, Receive
    <2>3. CASE ApplyQuote \/ RelabelChange \/ RecordTrade \/ ConnectionFails \/ Stop
        BY <2>3 DEF ApplyQuote, RelabelChange, RecordTrade, ConnectionFails, Fail, Stop
    <2>4. CASE VenueMoves \/ VenueQuotes \/ VenueTrades \/ VenuePongs \/ PongAges \/ UNCHANGED vars
        BY <2>4 DEF VenueMoves, VenueQuotes, VenueTrades, VenuePongs, PongAges, vars
    <2> QED BY <1>6, StepCases, <2>1, <2>2, <2>3, <2>4
<1> QED BY <1>1, <1>2, <1>3, <1>4, <1>5, <1>6

\* At rest a book has nothing left to be told.
LEMMA BooksAtRest == IInv => BookIsVenues
<1> SUFFICES ASSUME IInv, link = "up", hand = Idle, wire = <<>>, subVersion = version,
                    NEW t \in snapped \cap subscribed \cap filter
             PROVE  venue[t] \subseteq book[t] /\ book[t] \subseteq venue[t] \cup ghosts[t]
    BY DEF BookIsVenues
<1>1. \A l, is : ~HandMakes(t, l, is) /\ ~MadeAfter(0, t, l, is)
    BY DEF HandMakes, MadeAfter, Idle
<1>2. Allowed(t) BY DEF Allowed
<1>3. \A l \in Levels : \A is \in {"there", "gone"} : Truly(t, l, is) => InBook(t, l, is)
    BY <1>1, <1>2 DEF IInv, KeptOK
<1>4. venue[t] \subseteq Levels /\ book[t] \subseteq Levels
    BY DEF IInv, PrintsInv, TypeOK, SnappedOK
<1>5. \A l \in Levels : /\ l \in venue[t] => l \in book[t]
                        /\ l \notin venue[t] \cup ghosts[t] => l \notin book[t]
    BY <1>3 DEF Truly, InBook
<1> QED BY <1>4, <1>5

\* The state keeps its type: no buffer grows past its limit, and the backoff stays
\* below backoff_max, whatever the venue sends and whenever tokens are rotated.
THEOREM FeedTyped == Spec => []TypeOK
BY TypeInit, TypeStep, PTL DEF Spec

LEMMA PrintsInvHolds == Spec => []PrintsInv
<1>1. Init => PrintsInv
    <2>1. Init => SnappedOK BY DEF Init, SnappedOK
    <2> QED BY <2>1, TypeInit, TopInit, PrintsInit DEF PrintsInv
<1>2. PrintsInv /\ [Next]_vars => PrintsInv'
    BY TypeStep, TopStep, PrintsStep, SnappedStep DEF PrintsInv
<1> QED BY <1>1, <1>2, PTL DEF Spec

\* No print is handed to the collector twice (streaming.py:734), for buffers of any size
\* and whatever is rotated, drained or lost meanwhile.
THEOREM PrintsAreOnce == Spec => []PrintsOnce
<1>1. PrintsInv => PrintsOnce BY DEF PrintsInv, OnceOK
<1> QED BY <1>1, PrintsInvHolds, PTL

\* No book that declares its best bid keeps depth above it (streaming.py:609), between
\* the frames, at every step of a reduction and beside a rotation.
THEOREM NoGhostsOnTop == Spec => []NoGhostTop
<1>1. PrintsInv => NoGhostTop BY DEF PrintsInv
<1> QED BY <1>1, PrintsInvHolds, PTL

\* For any tokens, levels and venue: the session serves the subscription asked for last,
\* hands each print over once, and its books at rest are the venue's.  The direct
\* transport needs that tokens are not rotated while a subscription is being sent.
THEOREM FeedSoundHolds == ASSUME SendsUndisturbed PROVE Spec => []FeedSound
<1>1. Init => IInv
    <2>1. Init => SnappedOK BY DEF Init, SnappedOK
    <2> QED BY <2>1, TypeInit, TopInit, PrintsInit, SessionInit, FilteredInit, LaddersInit
            DEF IInv, PrintsInv
<1>2. IInv /\ [Next]_vars => IInv'
    <2> SUFFICES ASSUME IInv, [Next]_vars PROVE IInv' OBVIOUS
    <2>1. PrintsInv' BY TypeStep, TopStep, PrintsStep, SnappedStep DEF PrintsInv, IInv
    <2>2. SessionOK' /\ FilteredOK' BY SessionStep, FilteredStep DEF IInv, PrintsInv
    <2>3. ToldOK' /\ KeptOK' BY LaddersStep DEF IInv, PrintsInv
    <2> QED BY <2>1, <2>2, <2>3 DEF IInv
<1>3. IInv => FeedSound
    BY BooksAtRest DEF IInv, PrintsInv, OnceOK, SessionOK, FeedSound, SubscriptionCurrent
<1> QED BY <1>1, <1>2, <1>3, PTL DEF Spec

\* A pong a session counts on is one it received itself.
PongOK == link \in {"sending", "up"} /\ lastPong # "none" => ponged

LEMMA PongStep ==
    ASSUME TypeOK, PongOK, [Next]_vars PROVE PongOK'
<1> USE DEF books, prints, subscription, session, outside
<1>1. CASE UNCHANGED <<link, lastPong, ponged>> BY <1>1 DEF PongOK
<1>2. CASE Connected BY <1>2 DEF Connected, PongOK
<1>3. CASE Subscribed BY <1>3 DEF Subscribed, PongOK
<1>4. CASE link' \notin {"sending", "up"} BY <1>4 DEF PongOK
<1>5. CASE Receive
    <2>1. \/ UNCHANGED <<lastPong, ponged>> \/ ponged' = TRUE BY <1>5 DEF Receive
    <2> QED BY <1>5, <2>1 DEF Receive, PongOK
<1>6. CASE PongAges BY <1>6 DEF PongAges, PongOK
<1>7. ASSUME [Next]_vars, ~Connected, ~Subscribed, ~Receive, ~PongAges
      PROVE  UNCHANGED <<link, lastPong, ponged>> \/ link' \notin {"sending", "up"}
    <2>1. CASE BeginRotation \/ SetFilter \/ BumpVersion \/ DropBuffers \/ DropBooks
               \/ \E t \in Tokens : Drain(t)
        BY <2>1 DEF BeginRotation, SetFilter, BumpVersion, DropBuffers, DropBooks, Drain
    <2>2. CASE Connecting \/ Rotated \/ PongOverdue \/ BackedOff \/ ConnectionFails \/ Stop
        BY <2>2 DEF Connecting, Rotated, PongOverdue, Fail, BackedOff, ConnectionFails, Stop
    <2>3. CASE ApplyBook \/ ApplyChange \/ ApplyQuote \/ RelabelChange \/ RecordTrade
        BY <2>3 DEF ApplyBook, ApplyChange, ApplyQuote, RelabelChange, RecordTrade
    <2>4. CASE VenueMoves \/ VenueQuotes \/ VenueTrades \/ VenuePongs \/ UNCHANGED vars
        BY <2>4 DEF VenueMoves, VenueQuotes, VenueTrades, VenuePongs, vars
    <2> QED BY <1>7, StepCases, <2>1, <2>2, <2>3, <2>4
<1> QED BY <1>1, <1>2, <1>3, <1>4, <1>5, <1>6, <1>7

\* A session that is given up for a missing pong had one itself (streaming.py:948): the
\* silence of the session before is never held against it.
THEOREM PongsAreOwn == Spec => PongIsOfThisSession
<1>1. Init => PongOK BY DEF Init, PongOK
<1>2. TypeOK /\ PongOK /\ [Next]_vars => PongOK' BY PongStep
<1>3. PongOK => (PongOverdue => ponged) BY DEF PongOK, PongOverdue, PongExpired
<1>4. PongOK /\ [Next]_vars => [PongOverdue => ponged]_vars BY <1>3
<1> QED BY <1>1, <1>2, <1>4, FeedTyped, PTL DEF Spec, PongIsOfThisSession

-----------------------------------------------------------------------------
(* The bridges                                                              *)

BridgeTyped ==
    /\ thread \in 0..MaxStarts /\ call \in {"none", "start", "stop"}
    /\ isRunning \in BOOLEAN /\ ready \in BOOLEAN
    /\ pc \in [Workers -> {"new", "boot", "ready", "running", "waiting", "closing", "dead"}]

\* A worker boots only for the start that waits for it, so that a late one cannot make
\* another's loop the bridge's.
BootsInTime ==
    /\ \A w \in Workers : pc[w] = "boot" => w = thread /\ call = "start" /\ ~ready
    /\ \A w \in Workers : w > thread => pc[w] = "new"

\* The loop is that of the worker started last, but for a start that still waits.
LoopIsLatest ==
    /\ call = "start" /\ ready => loop = thread
    /\ call # "start" /\ isRunning => loop = thread

BridgeInv == BridgeTyped /\ BootsInTime /\ LoopIsLatest

LEMMA BridgeAfter ==
    ASSUME BridgeAssumption, BridgeInv, [BridgeNext]_bridgeVars
    PROVE  BridgeInv'
<1> USE BridgeAssumption DEF BridgeAssumption, Workers, NoWorker
<1>0. BridgeTyped /\ BootsInTime /\ LoopIsLatest BY DEF BridgeInv
<1>1. CASE CallStart
    <2>1. CASE isRunning
        <3>1. UNCHANGED <<call, isRunning, thread, ready, pc, loop>> BY <1>1, <2>1 DEF CallStart
        <3> QED BY <1>0, <3>1 DEF BridgeInv, BridgeTyped, BootsInTime, LoopIsLatest
    <2>2. CASE ~ isRunning
        <3> DEFINE n == thread + 1
        <3>1. /\ call = "none" /\ thread < MaxStarts /\ call' = "start" /\ isRunning' = TRUE
              /\ thread' = n /\ pc' = [pc EXCEPT ![n] = "boot"] /\ ready' = FALSE /\ loop' = loop
            BY <1>1, <2>2 DEF CallStart
        <3>2. n \in Workers /\ n > thread BY <1>0, <3>1 DEF BridgeTyped
        <3>3. BridgeTyped'
            <4>1. thread' \in 0..MaxStarts BY <3>1, <3>2
            <4>2. isRunning' \in BOOLEAN /\ ready' \in BOOLEAN BY <3>1
            <4>3. pc' \in [Workers -> {"new", "boot", "ready", "running", "waiting", "closing", "dead"}]
                BY <1>0, <3>1 DEF BridgeTyped
            <4> QED BY <3>1, <4>1, <4>2, <4>3 DEF BridgeTyped
        <3>4. BootsInTime'
            <4>1. \A w \in Workers : pc[w] # "boot" BY <1>0, <3>1 DEF BootsInTime
            <4>2. \A w \in Workers : pc'[w] = IF w = n THEN "boot" ELSE pc[w]
                BY <1>0, <3>1 DEF BridgeTyped
            <4>3. \A w \in Workers : w > n => w > thread /\ w # n BY <1>0 DEF BridgeTyped
            <4> HIDE DEF n
            <4> QED BY <1>0, <3>1, <4>1, <4>2, <4>3 DEF BootsInTime
        <3>5. LoopIsLatest' BY <3>1 DEF LoopIsLatest
        <3> QED BY <3>3, <3>4, <3>5 DEF BridgeInv
    <2> QED BY <2>1, <2>2
<1>2. CASE StartReturns
    <2>1. /\ call = "start" /\ ready /\ call' = "none"
          /\ UNCHANGED <<isRunning, thread, loop, ready, pc>>
        BY <1>2 DEF StartReturns
    <2> QED BY <1>0, <2>1 DEF BridgeInv, BridgeTyped, BootsInTime, LoopIsLatest
<1>3. CASE CallStop
    <2>1. /\ call = "none" /\ call' \in {"none", "stop"}
          /\ UNCHANGED <<isRunning, thread, loop, ready, pc>>
        BY <1>3 DEF CallStop
    <2> QED BY <1>0, <2>1 DEF BridgeInv, BridgeTyped, BootsInTime, LoopIsLatest
<1>4. CASE StopReturns
    <2>1. /\ call = "stop" /\ call' = "none" /\ isRunning' = FALSE
          /\ UNCHANGED <<thread, loop, ready, pc>>
        BY <1>4 DEF StopReturns
    <2> QED BY <1>0, <2>1 DEF BridgeInv, BridgeTyped, BootsInTime, LoopIsLatest
<1>5. ASSUME NEW w \in Workers, Boot(w) PROVE BridgeInv'
    <2>1. /\ pc[w] = "boot" /\ loop' = w /\ ready' = TRUE /\ pc' = [pc EXCEPT ![w] = "ready"]
          /\ UNCHANGED <<call, isRunning, thread>>
        BY <1>5 DEF Boot
    <2>2. w = thread /\ call = "start" BY <1>0, <2>1 DEF BootsInTime
    <2>3. \A v \in Workers : pc'[v] = IF v = w THEN "ready" ELSE pc[v]
        BY <1>0, <2>1 DEF BridgeTyped
    <2>4. BridgeTyped' BY <1>0, <2>1 DEF BridgeTyped
    <2>5. BootsInTime' BY <1>0, <2>1, <2>2, <2>3 DEF BootsInTime, BridgeTyped
    <2>6. LoopIsLatest' BY <2>1, <2>2 DEF LoopIsLatest
    <2> QED BY <2>4, <2>5, <2>6 DEF BridgeInv
\* What a booted worker does changes neither the loop nor who waits for it.
<1>6. ASSUME NEW w \in Workers,
             RunLoop(w) \/ BeginBroadcast(w) \/ Broadcast(w) \/ LoopEnds(w) \/ CloseLoop(w)
      PROVE  BridgeInv'
    <2>1. /\ UNCHANGED <<call, thread, loop, ready>>
          /\ isRunning' \in BOOLEAN /\ (isRunning' => isRunning)
        <3>1. CASE CloseLoop(w)
            <4> DEFINE running == {v \in {loop} \ {w} : LoopRunning(v)}
            <4>1. UNCHANGED <<call, thread, loop, ready>> /\ isRunning' = (isRunning /\ running # {})
                BY <3>1 DEF CloseLoop
            <4> HIDE DEF running
            <4>2. isRunning' \in BOOLEAN /\ (isRunning' => isRunning) BY <4>1, Zenon
            <4> QED BY <4>1, <4>2
        <3>2. CASE ~ CloseLoop(w)
            <4>1. UNCHANGED <<call, isRunning, thread, loop, ready>>
                BY <1>6, <3>2 DEF RunLoop, BeginBroadcast, Broadcast, LoopEnds
            <4> QED BY <1>0, <4>1 DEF BridgeTyped
        <3> QED BY <3>1, <3>2
    <2>2. BridgeTyped' /\ \A v \in Workers :
              pc'[v] # pc[v] => pc[v] \notin {"new", "boot"} /\ pc'[v] # "boot"
        <3>1. CASE CloseLoop(w)
            <4> DEFINE early == {v \in {loop} \ {w} : pc[v] = "ready"}
            <4>1. pc[w] = "closing" /\ pc' = [v \in Workers |-> CASE v = w -> "dead"
                                                                   [] v \in early -> "closing"
                                                                   [] OTHER -> pc[v]]
                BY <3>1 DEF CloseLoop
            <4>2. \A v \in Workers : \/ pc'[v] = pc[v]
                                     \/ v = w /\ pc'[v] = "dead"
                                     \/ pc[v] = "ready" /\ pc'[v] = "closing"
                BY <4>1
            <4>3. DOMAIN pc' = Workers /\ pc' = [v \in Workers |-> pc'[v]] BY <4>1
            <4> QED BY <1>0, <2>1, <4>1, <4>2, <4>3 DEF BridgeTyped
        <3>2. CASE ~ CloseLoop(w)
            <4>1. \E to \in {"running", "waiting", "closing"} : pc' = [pc EXCEPT ![w] = to]
                BY <1>6, <3>2 DEF RunLoop, BeginBroadcast, Broadcast, LoopEnds
            <4>2. pc[w] \in {"ready", "running", "waiting"}
                BY <1>6, <3>2 DEF RunLoop, BeginBroadcast, Broadcast, LoopEnds
            <4> QED BY <1>0, <2>1, <4>1, <4>2 DEF BridgeTyped
        <3> QED BY <3>1, <3>2
    <2>3. BootsInTime'
        <3>1. \A v \in Workers : pc'[v] = "boot" => pc[v] = "boot" BY <2>2
        <3>2. \A v \in Workers : pc[v] = "new" => pc'[v] = "new" BY <2>2
        <3> QED BY <1>0, <2>1, <3>1, <3>2 DEF BootsInTime
    <2>4. LoopIsLatest' BY <1>0, <2>1 DEF LoopIsLatest
    <2> QED BY <2>2, <2>3, <2>4 DEF BridgeInv
<1>7. CASE UNCHANGED bridgeVars
    BY <1>0, <1>7 DEF bridgeVars, BridgeInv, BridgeTyped, BootsInTime, LoopIsLatest
<1> QED BY <1>1, <1>2, <1>3, <1>4, <1>5, <1>6, <1>7 DEF BridgeNext, Worker

\* start and stop of the bridges and _worker_main: when start has returned, the loop the
\* bridge knows is that of the worker it made, so that a stop is addressed to that one,
\* however many workers of earlier starts are still ending.
THEOREM KnowsItsLoopHolds == ASSUME BridgeAssumption PROVE BridgeSpec => []KnowsItsLoop
<1>1. BridgeInit => BridgeInv
    <2> SUFFICES ASSUME BridgeInit PROVE BridgeInv OBVIOUS
    <2>1. /\ thread = 0 /\ call = "none" /\ isRunning = FALSE /\ ready = FALSE
          /\ pc = [w \in Workers |-> "new"]
        BY DEF BridgeInit, NoWorker
    <2>2. thread \in 0..MaxStarts BY <2>1, BridgeAssumption DEF BridgeAssumption
    <2>3. BridgeTyped BY <2>1, <2>2 DEF BridgeTyped
    <2>4. BootsInTime /\ LoopIsLatest BY <2>1 DEF BootsInTime, LoopIsLatest
    <2> QED BY <2>3, <2>4 DEF BridgeInv
<1>2. BridgeInv /\ [BridgeNext]_bridgeVars => BridgeInv' BY BridgeAssumption, BridgeAfter
<1>3. BridgeInv => KnowsItsLoop BY DEF BridgeInv, LoopIsLatest, KnowsItsLoop
<1> QED BY <1>1, <1>2, <1>3, PTL DEF BridgeSpec
=============================================================================
