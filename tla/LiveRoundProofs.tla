--------------------------- MODULE LiveRoundProofs ---------------------------
(***************************************************************************)
(* The engine's orders and the venue's, for every number of faults, of     *)
(* stops, of threads that run exits, of orders and of windows: no live     *)
(* order is unknown to the market, a filled leg was bought, and, until two *)
(* exits race, an answer is lost or a stop comes between, no more is sold  *)
(* than was bought.                                                        *)
(*                                                                         *)
(* LiveInv is the inductive invariant.  Its part about the orders, Sound,  *)
(* is of a world (what a call to the venue takes and leaves), so that the  *)
(* calls can be reasoned about one by one: the first sections show that    *)
(* each kind of change a call or an answer makes keeps a world sound, the  *)
(* next ones that the phases of the tick and the steps of an exit are made *)
(* of those.                                                               *)
(***************************************************************************)
EXTENDS LiveRound, FiniteSetTheorems, SequenceTheorems, TLAPS

OrderT ==
    [leg : Legs, side : {"BUY", "SELL"}, win : Nat, st : {"live", "matched", "canceled"}]
Statuses ==
    {"IDLE", "QUOTING", "FILLED_UP", "FILLED_DOWN", "PAIR_MERGED", "STOP_EXIT",
     "STOP_EXIT_PENDING", "DEAD_ZONE_NO_FILL"}
Tags == {"NONE", "RESTING", "CANCELLED", "FILLED", "LIVE", "MATCHED", "CANCELED"}
MarketT ==
    [cid : Nat, next : [Legs -> Nat], nextCid : Nat, nextQuoted : BOOLEAN, status : Statuses,
     timeout : BOOLEAN, entry : [Legs -> Nat], est : [Legs -> Tags], filled : [Legs -> BOOLEAN],
     exit : [Legs -> Nat], xst : [Legs -> Tags], stop : Legs \cup {"none"},
     chased : Legs \cup {"none"}, anchored : BOOLEAN, pair : BOOLEAN, taken : Legs \cup {"none"}]
Books == Seq(OrderT)
IdSets == SUBSET Nat
WorldT == [s : MarketT, os : Books, lost : IdSets, dropped : IdSets, f : Nat]

\* Order i is one of leg l and of this side.
Of(os, i, l, side) == i \in DOMAIN os /\ os[i].leg = l /\ os[i].side = side

EntriesOf(w, c) ==
    \A l \in Legs : w.s.entry[l] # None =>
        Of(w.os, w.s.entry[l], l, "BUY") /\ w.os[w.s.entry[l]].win = c
NextOf(w) ==
    \A l \in Legs : w.s.next[l] # None =>
        Of(w.os, w.s.next[l], l, "BUY") /\ w.os[w.s.next[l]].win = w.s.nextCid
ExitsOf(w) == \A l \in Legs : w.s.exit[l] # None => Of(w.os, w.s.exit[l], l, "SELL")
SalesUpTo(w, c) == \A i \in DOMAIN w.os : w.os[i].side = "SELL" => w.os[i].win <= c
Handled(w, c) == EntriesOf(w, c) /\ NextOf(w) /\ ExitsOf(w) /\ SalesUpTo(w, c)

Known(w) ==
    \A i \in DOMAIN w.os : w.os[i].st = "live" => Holds(w.s, i) \/ i \in w.lost \cup w.dropped

Bought(os, l, c) ==
    {i \in DOMAIN os : os[i].leg = l /\ os[i].side = "BUY" /\ os[i].win = c /\ os[i].st = "matched"}
Sold(os, l, c) ==
    {i \in DOMAIN os : os[i].leg = l /\ os[i].side = "SELL" /\ os[i].win = c
                       /\ os[i].st \in {"live", "matched"}}

Backed(w, c) == \A l \in Legs : w.s.filled[l] => Bought(w.os, l, c) # {}

Booked(w) ==
    \A l \in Legs : w.s.exit[l] # None /\ (w.s.xst[l] = "FILLED" \/ w.s.taken = l) =>
        w.os[w.s.exit[l]].st = "matched"

\* Leg l is held and its sale of this window is yet to come.
ToSell(w, l, c) ==
    /\ w.s.filled[l] \/ (w.s.entry[l] # None /\ w.os[w.s.entry[l]].st = "matched")
    /\ w.s.exit[l] = None \/ w.os[w.s.exit[l]].win # c
Left(w, l, c) == IF ToSell(w, l, c) THEN 1 ELSE 0
Counted(w, c) ==
    w.lost = {} =>
        \A l \in Legs : Cardinality(Sold(w.os, l, c)) + Left(w, l, c)
                            <= Cardinality(Bought(w.os, l, c))

\* What the exits under way have read of the other leg: purchases.
Purchases(os, ids) == \A i \in ids : i \in DOMAIN os /\ os[i].side = "BUY"

\* The world of a market whose entries are of window c.  What is promised of it
\* depends on n: without a race what is booked was sold, without a stop as well
\* the sales are counted; n.read are the orders that exits have read.
Sound(w, c, n) ==
    /\ w \in WorldT /\ Handled(w, c) /\ Known(w) /\ Backed(w, c)
    /\ Purchases(w.os, n.read)
    /\ n.books => Booked(w)
    /\ n.counts => Counted(w, c)

\* An exit that is pending is of a leg, and of a round that is not over.
RoundIsOn(s) ==
    /\ s.pair => BothFilled(s)
    /\ s.status = "STOP_EXIT_PENDING" =>
        /\ ~s.pair /\ s.taken = "none"
        /\ \E l \in Legs : s.filled[l] \/ s.exit[l] # None

\* A leg is to be sold, or being sold.
Exiting(s, l) == s.taken = "none" /\ ~s.pair /\ (s.filled[l] \/ s.exit[l] # None)

\* What exit e has read is still so.
OnCourse(e, s) ==
    e.at # "none" => e.leg \in Legs /\ Exiting(s, e.leg) /\ s.exit[e.leg] = e.id /\ s.cid = e.win

ExitT ==
    [at : {"none", "read", "cancel", "submit", "ask"}, leg : Legs \cup {"none"},
     other : Nat, id : Nat, win : Nat]
\* The exits under way in a market of window c.
UnderWay(x, c) ==
    /\ x \in [Threads -> ExitT]
    /\ \A t \in Threads : x[t].at # "none" => x[t].leg \in Legs /\ x[t].win <= c
ReadBy(x) == {x[t].other : t \in Threads} \ {None}
Context(x, r, k) == [books |-> ~r, counts |-> ~r /\ k = 0, read |-> ReadBy(x)]

ClockT == [win : Nat \ {0}, at : {"open", "dead", "over"}]
Phases == {"idle", "roll", "settle", "reset", "decide", "quote", "poll", "close", "leg"}
Turning == {"roll", "settle", "reset"}
LiveTypes ==
    /\ World \in WorldT /\ spent \in [faults : Nat, stops : Nat]
    /\ {running, halted, stopping, raced} \subseteq BOOLEAN
    /\ clock \in ClockT /\ tick \in ClockT /\ pc \in Phases
    /\ stopping => spent.stops # 0

Windows ==
    /\ m.cid <= clock.win /\ tick.win <= clock.win
    /\ pc \in Turning => m.cid < tick.win
    /\ m.cid = None =>
        /\ pc = "idle" /\ \A l \in Legs : m.entry[l] = None /\ m.exit[l] = None /\ ~m.filled[l]
        /\ \A t \in Threads : exits[t].at = "none"

\* The tick's exit without spot ticks, and before any stop.
Alone == DOMAIN exits = {"ticker"} /\ spent.stops = 0
OwnExit == Alone => ~raced /\ RoundIsOn(m) /\ OnCourse(exits["ticker"], m)

LiveInv ==
    /\ LiveTypes /\ Windows /\ UnderWay(exits, m.cid)
    /\ Sound(World, m.cid, Context(exits, raced, spent.stops))
    /\ OwnExit

-----------------------------------------------------------------------------
(* Sequences of orders *)

\* q is os and one order more.
Added(os, q, e) ==
    /\ q \in Seq(OrderT) /\ Len(os) + 1 \in Nat \ {0}
    /\ DOMAIN q = DOMAIN os \cup {Len(os) + 1} /\ Len(os) + 1 \notin DOMAIN os
    /\ \A i \in DOMAIN os : q[i] = os[i]
    /\ q[Len(os) + 1] = e

\* q is os but for the state of order i.
Turned(os, q, i, st) ==
    /\ q \in Seq(OrderT) /\ DOMAIN q = DOMAIN os /\ i \in DOMAIN os
    /\ \A j \in DOMAIN os : j # i => q[j] = os[j]
    /\ q[i].leg = os[i].leg /\ q[i].side = os[i].side /\ q[i].win = os[i].win
    /\ q[i].st = st

LEMMA AppendAdds ==
    ASSUME NEW os \in Seq(OrderT), NEW e \in OrderT
    PROVE  Added(os, Append(os, e), e)
BY DEF Added

LEMMA ExceptTurns ==
    ASSUME NEW os \in Seq(OrderT), NEW i \in DOMAIN os, NEW st \in {"live", "matched", "canceled"}
    PROVE  Turned(os, [os EXCEPT ![i].st = st], i, st)
<1> DEFINE e == [os[i] EXCEPT !.st = st]
           q == [os EXCEPT ![i] = e]
<1>1. os[i] \in OrderT OBVIOUS
<1>2. e \in OrderT /\ e.leg = os[i].leg /\ e.side = os[i].side /\ e.win = os[i].win /\ e.st = st
    BY <1>1 DEF OrderT
<1>3. q = [os EXCEPT ![i].st = st] OBVIOUS
<1> HIDE DEF e
<1>4. q \in Seq(OrderT) /\ DOMAIN q = DOMAIN os /\ q[i] = e /\ \A j \in DOMAIN os : j # i => q[j] = os[j]
    BY <1>2
<1> HIDE DEF q
<1>5. Turned(os, q, i, st) BY <1>2, <1>4 DEF Turned
<1> QED BY <1>3, <1>5

LEMMA OrderFacts ==
    ASSUME NEW os \in Seq(OrderT)
    PROVE  /\ \A i \in DOMAIN os : /\ i \in Nat /\ i # None
                                   /\ os[i].leg \in Legs /\ os[i].side \in {"BUY", "SELL"}
                                   /\ os[i].win \in Nat
                                   /\ os[i].st \in {"live", "matched", "canceled"}
           /\ IsFiniteSet(DOMAIN os)
<1>1. DOMAIN os = 1 .. Len(os) /\ Len(os) \in Nat OBVIOUS
<1>2. \A i \in DOMAIN os : os[i] \in OrderT OBVIOUS
<1>3. IsFiniteSet(DOMAIN os) BY <1>1, FS_Interval
<1>4. \A i \in DOMAIN os : i \in Nat /\ i # None BY <1>1 DEF None
<1> QED BY <1>2, <1>3, <1>4 DEF OrderT

LEMMA CountsFinite ==
    ASSUME NEW os \in Seq(OrderT), NEW l, NEW c
    PROVE  /\ IsFiniteSet(Bought(os, l, c)) /\ Cardinality(Bought(os, l, c)) \in Nat
           /\ IsFiniteSet(Sold(os, l, c)) /\ Cardinality(Sold(os, l, c)) \in Nat
<1>1. IsFiniteSet(DOMAIN os) BY OrderFacts
<1>2. Bought(os, l, c) \subseteq DOMAIN os /\ Sold(os, l, c) \subseteq DOMAIN os
    BY DEF Bought, Sold
<1> QED BY <1>1, <1>2, FS_Subset, FS_CardinalityType

LEMMA LegsAre == Legs = {"UP", "DOWN"} /\ \A l \in Legs : Opp(l) \in Legs /\ Opp(l) # l
BY DEF Legs, Opp

-----------------------------------------------------------------------------
(* Worlds *)

\* What no call to the venue changes of the market.
Kept(s, t) ==
    /\ t.cid = s.cid /\ t.nextCid = s.nextCid /\ t.filled = s.filled /\ t.taken = s.taken
    /\ t.pair = s.pair /\ t.status = s.status /\ t.nextQuoted = s.nextQuoted

LEMMA WorldFacts ==
    ASSUME NEW w \in WorldT
    PROVE  /\ w.s \in MarketT /\ w.os \in Seq(OrderT) /\ w.f \in Nat
           /\ w.os \in Books /\ w.lost \in IdSets /\ w.dropped \in IdSets
           /\ w.lost \in SUBSET Nat /\ w.dropped \in SUBSET Nat
<1>1. w.s \in MarketT /\ w.os \in Books /\ w.f \in Nat /\ w.lost \in IdSets /\ w.dropped \in IdSets
    BY DEF WorldT
<1> QED BY <1>1 DEF Books, IdSets

LEMMA WithMarket ==
    ASSUME NEW w \in WorldT, NEW s \in MarketT
    PROVE  LET x == [w EXCEPT !.s = s]
           IN /\ x \in WorldT /\ x.s = s /\ x.os = w.os /\ x.lost = w.lost
              /\ x.dropped = w.dropped /\ x.f = w.f
BY DEF WorldT

LEMMA WithFault ==
    ASSUME NEW w \in WorldT, NEW f \in Nat
    PROVE  LET x == [w EXCEPT !.f = f]
           IN /\ x \in WorldT /\ x.s = w.s /\ x.os = w.os /\ x.lost = w.lost
              /\ x.dropped = w.dropped
BY DEF WorldT

LEMMA WithOrders ==
    ASSUME NEW w \in WorldT, NEW os \in Books
    PROVE  LET x == [w EXCEPT !.os = os]
           IN /\ x \in WorldT /\ x.s = w.s /\ x.os = os /\ x.lost = w.lost
              /\ x.dropped = w.dropped /\ x.f = w.f
BY DEF WorldT

LEMMA MarketFacts ==
    ASSUME NEW s \in MarketT
    PROVE  /\ s.cid \in Nat /\ s.nextCid \in Nat /\ s.nextQuoted \in BOOLEAN
           /\ s.next \in [Legs -> Nat] /\ s.entry \in [Legs -> Nat] /\ s.exit \in [Legs -> Nat]
           /\ s.status \in Statuses /\ s.est \in [Legs -> Tags] /\ s.xst \in [Legs -> Tags]
           /\ s.filled \in [Legs -> BOOLEAN] /\ s.pair \in BOOLEAN
           /\ s.taken \in Legs \cup {"none"}
           /\ s.stop \in Legs \cup {"none"} /\ s.chased \in Legs \cup {"none"}
           /\ s.timeout \in BOOLEAN /\ s.anchored \in BOOLEAN
BY DEF MarketT

\* Soundness is about the handles, the fills and the booked exit only.
LEMMA SameSound ==
    ASSUME NEW w, NEW x \in WorldT, NEW c, NEW n, Sound(w, c, n),
           x.os = w.os, x.lost = w.lost, x.dropped = w.dropped,
           x.s.entry = w.s.entry, x.s.next = w.s.next, x.s.exit = w.s.exit,
           x.s.filled = w.s.filled, x.s.xst = w.s.xst, x.s.taken = w.s.taken,
           x.s.nextCid = w.s.nextCid
    PROVE  Sound(x, c, n)
<1>1. Handled(x, c) BY DEF Sound, Handled, EntriesOf, NextOf, ExitsOf, SalesUpTo
<1>2. Known(x) BY DEF Sound, Known, Holds
<1>3. Backed(x, c) BY DEF Sound, Backed
<1>4. n.books => Booked(x) BY DEF Sound, Booked
<1>5. n.counts => Counted(x, c) BY DEF Sound, Counted, Left, ToSell
<1>30. Purchases(x.os, n.read) BY DEF Sound
<1> QED BY <1>1, <1>2, <1>3, <1>4, <1>5, <1>30 DEF Sound

\* A round's state that is not the orders': the exits that are booked were sold.
LEMMA BookSound ==
    ASSUME NEW w, NEW x \in WorldT, NEW c, NEW n, Sound(w, c, n),
           x.os = w.os, x.lost = w.lost, x.dropped = w.dropped,
           x.s.entry = w.s.entry, x.s.next = w.s.next, x.s.exit = w.s.exit,
           x.s.filled = w.s.filled, x.s.nextCid = w.s.nextCid,
           n.books => Booked(x)
    PROVE  Sound(x, c, n)
<1>1. Handled(x, c) BY DEF Sound, Handled, EntriesOf, NextOf, ExitsOf, SalesUpTo
<1>2. Known(x) BY DEF Sound, Known, Holds
<1>3. Backed(x, c) BY DEF Sound, Backed
<1>4. n.counts => Counted(x, c) BY DEF Sound, Counted, Left, ToSell
<1>5. Purchases(x.os, n.read) BY DEF Sound
<1> QED BY <1>1, <1>2, <1>3, <1>4, <1>5 DEF Sound

\* What is promised may become less, and other purchases be read.
LEMMA Weaken ==
    ASSUME NEW w, NEW c, NEW n, Sound(w, c, n), NEW k,
           k.books => n.books, k.counts => n.counts, Purchases(w.os, k.read)
    PROVE  Sound(w, c, k)
BY DEF Sound

LEMMA FaultSound ==
    ASSUME NEW w, NEW c, NEW n, Sound(w, c, n)
    PROVE  LET x == [w EXCEPT !.f = w.f + 1] IN Sound(x, c, n) /\ x.s = w.s /\ x.os = w.os
<1> DEFINE x == [w EXCEPT !.f = w.f + 1]
<1>1. w \in WorldT /\ w.f + 1 \in Nat BY WorldFacts DEF Sound
<1>2. x \in WorldT /\ x.s = w.s /\ x.os = w.os /\ x.lost = w.lost /\ x.dropped = w.dropped
    BY <1>1, WithFault
<1> HIDE DEF x
<1>3. Sound(x, c, n) BY <1>2, SameSound
<1> QED BY <1>2, <1>3 DEF x

-----------------------------------------------------------------------------
(* What an accepted, a cancelled and a matched order change *)

LEMMA AddedCounts ==
    ASSUME NEW os \in Seq(OrderT), NEW q, NEW e, Added(os, q, e), e.st = "live",
           NEW l, NEW c
    PROVE  /\ Bought(q, l, c) = Bought(os, l, c)
           /\ ~(e.side = "SELL" /\ e.leg = l /\ e.win = c) => Sold(q, l, c) = Sold(os, l, c)
           /\ e.side = "SELL" /\ e.leg = l /\ e.win = c =>
                Cardinality(Sold(q, l, c)) = Cardinality(Sold(os, l, c)) + 1
<1> DEFINE id == Len(os) + 1
<1>1. DOMAIN q = DOMAIN os \cup {id} /\ id \notin DOMAIN os /\ q[id] = e
      /\ \A i \in DOMAIN os : q[i] = os[i]
    BY DEF Added
<1> HIDE DEF id
<1>2. Bought(q, l, c) = Bought(os, l, c) BY <1>1 DEF Bought
<1>3. ~(e.side = "SELL" /\ e.leg = l /\ e.win = c) => Sold(q, l, c) = Sold(os, l, c)
    BY <1>1 DEF Sold
<1>4. ASSUME e.side = "SELL", e.leg = l, e.win = c
      PROVE  Cardinality(Sold(q, l, c)) = Cardinality(Sold(os, l, c)) + 1
    <2>1. Sold(q, l, c) = Sold(os, l, c) \cup {id} BY <1>1, <1>4 DEF Sold
    <2>2. id \notin Sold(os, l, c) BY <1>1 DEF Sold
    <2>3. IsFiniteSet(Sold(os, l, c)) BY CountsFinite
    <2> QED BY <2>1, <2>2, <2>3, FS_AddElement
<1> QED BY <1>2, <1>3, <1>4

LEMMA CanceledCounts ==
    ASSUME NEW os \in Seq(OrderT), NEW q, NEW i, Turned(os, q, i, "canceled"), os[i].st = "live",
           NEW l, NEW c
    PROVE  /\ Bought(q, l, c) = Bought(os, l, c)
           /\ Cardinality(Sold(q, l, c)) <= Cardinality(Sold(os, l, c))
           /\ os[i].side = "SELL" /\ os[i].leg = l /\ os[i].win = c =>
                Cardinality(Sold(q, l, c)) = Cardinality(Sold(os, l, c)) - 1
<1>1. Bought(q, l, c) = Bought(os, l, c) BY DEF Turned, Bought
<1>2. Sold(q, l, c) = Sold(os, l, c) \ {i} BY DEF Turned, Sold
<1>3. IsFiniteSet(Sold(os, l, c)) /\ Cardinality(Sold(os, l, c)) \in Nat BY CountsFinite
<1>4. Cardinality(Sold(q, l, c)) <= Cardinality(Sold(os, l, c))
    BY <1>2, <1>3, FS_Subset
<1>5. os[i].side = "SELL" /\ os[i].leg = l /\ os[i].win = c => i \in Sold(os, l, c)
    BY DEF Turned, Sold
<1> QED BY <1>1, <1>2, <1>3, <1>4, <1>5, FS_RemoveElement

LEMMA MatchedCounts ==
    ASSUME NEW os \in Seq(OrderT), NEW q, NEW i, Turned(os, q, i, "matched"), os[i].st = "live",
           NEW l, NEW c
    PROVE  /\ Sold(q, l, c) = Sold(os, l, c)
           /\ Bought(os, l, c) \subseteq Bought(q, l, c)
           /\ Cardinality(Bought(os, l, c)) <= Cardinality(Bought(q, l, c))
           /\ os[i].side = "BUY" /\ os[i].leg = l /\ os[i].win = c =>
                Cardinality(Bought(q, l, c)) = Cardinality(Bought(os, l, c)) + 1
<1>1. Sold(q, l, c) = Sold(os, l, c) BY DEF Turned, Sold
<1>2. Bought(os, l, c) \subseteq Bought(q, l, c) BY DEF Turned, Bought
<1>3. q \in Seq(OrderT) BY DEF Turned
<1>4. /\ IsFiniteSet(Bought(os, l, c)) /\ Cardinality(Bought(os, l, c)) \in Nat
      /\ IsFiniteSet(Bought(q, l, c))
    BY <1>3, CountsFinite
<1>5. Cardinality(Bought(os, l, c)) <= Cardinality(Bought(q, l, c)) BY <1>2, <1>4, FS_Subset
<1>6. ASSUME os[i].side = "BUY", os[i].leg = l, os[i].win = c
      PROVE  Cardinality(Bought(q, l, c)) = Cardinality(Bought(os, l, c)) + 1
    <2>1. Bought(q, l, c) = Bought(os, l, c) \cup {i} BY <1>6 DEF Turned, Bought
    <2>2. i \notin Bought(os, l, c) BY DEF Bought
    <2> QED BY <2>1, <2>2, <1>4, FS_AddElement
<1> QED BY <1>1, <1>2, <1>5, <1>6

-----------------------------------------------------------------------------
(* The changes a call makes keep a world sound *)

\* An order whose answer was lost.
LEMMA LostSound ==
    ASSUME NEW w, NEW x \in WorldT, NEW c, NEW n, Sound(w, c, n),
           x.s = w.s, NEW e, Added(w.os, x.os, e), e.st = "live",
           e.side = "SELL" => e.win <= c,
           x.lost = w.lost \cup {Len(w.os) + 1}, x.dropped = w.dropped
    PROVE  Sound(x, c, n)
<1> DEFINE id == Len(w.os) + 1
<1>1. DOMAIN x.os = DOMAIN w.os \cup {id} /\ id \notin DOMAIN w.os /\ x.os[id] = e
      /\ \A i \in DOMAIN w.os : x.os[i] = w.os[i]
    BY DEF Added
<1>2. x.lost = w.lost \cup {id} OBVIOUS
<1> HIDE DEF id
<1>3. w \in WorldT /\ w.os \in Seq(OrderT) BY WorldFacts DEF Sound
<1>4. Handled(x, c) BY <1>1 DEF Sound, Handled, EntriesOf, NextOf, ExitsOf, SalesUpTo, Of
<1>5. Known(x) BY <1>1, <1>2 DEF Sound, Known
<1>6. Backed(x, c) BY <1>3, AddedCounts DEF Sound, Backed
<1>7. n.books => Booked(x) BY <1>1 DEF Sound, Booked, Handled, EntriesOf, NextOf, ExitsOf, SalesUpTo, Of
<1>8. Counted(x, c) BY <1>2 DEF Counted
<1>30. Purchases(x.os, n.read) BY <1>1 DEF Sound, Purchases
<1> QED BY <1>4, <1>5, <1>6, <1>7, <1>8, <1>30 DEF Sound

\* g is f but for leg l.
Put(f, g, l, v) == g[l] = v /\ \A k \in Legs : k # l => g[k] = f[k]

\* An entry for leg l of this window.
LEMMA EntrySound ==
    ASSUME NEW w, NEW x \in WorldT, NEW c, NEW n, Sound(w, c, n),
           NEW l \in Legs, w.s.entry[l] = None,
           NEW e, Added(w.os, x.os, e), e.leg = l, e.side = "BUY", e.win = c, e.st = "live",
           x.lost = w.lost, x.dropped = w.dropped,
           Put(w.s.entry, x.s.entry, l, Len(w.os) + 1),
           x.s.next = w.s.next, x.s.exit = w.s.exit, x.s.filled = w.s.filled,
           x.s.xst = w.s.xst, x.s.taken = w.s.taken, x.s.nextCid = w.s.nextCid
    PROVE  Sound(x, c, n)
<1> DEFINE id == Len(w.os) + 1
<1>1. DOMAIN x.os = DOMAIN w.os \cup {id} /\ id \notin DOMAIN w.os /\ x.os[id] = e
      /\ id # None /\ \A i \in DOMAIN w.os : x.os[i] = w.os[i]
    BY DEF Added, None
<1>2. w \in WorldT /\ w.os \in Seq(OrderT) BY WorldFacts DEF Sound
<1>4. x.s.entry[l] = id /\ \A k \in Legs : k # l => x.s.entry[k] = w.s.entry[k]
    BY DEF Put
<1> HIDE DEF id
<1>5. Handled(x, c)
    <2>1. EntriesOf(x, c) BY <1>1, <1>4 DEF Sound, Handled, EntriesOf, Of
    <2>2. NextOf(x) BY <1>1 DEF Sound, Handled, NextOf, Of
    <2>3. ExitsOf(x) BY <1>1 DEF Sound, Handled, ExitsOf, Of
    <2>4. SalesUpTo(x, c) BY <1>1 DEF Sound, Handled, SalesUpTo
    <2> QED BY <2>1, <2>2, <2>3, <2>4 DEF Handled
<1>6. Known(x)
    <2> SUFFICES ASSUME NEW i \in DOMAIN x.os, x.os[i].st = "live", i \notin x.lost \cup x.dropped
                 PROVE  Holds(x.s, i)
        BY DEF Known
    <2>1. CASE i = id BY <2>1, <1>4 DEF Holds
    <2>2. CASE i # id
        <3>1. Holds(w.s, i) BY <2>2, <1>1 DEF Sound, Known
        <3>2. i # None BY <2>2, <1>1, <1>2, OrderFacts
        <3> QED BY <3>1, <3>2, <1>4 DEF Holds
    <2> QED BY <2>1, <2>2
<1>7. Backed(x, c) BY <1>2, AddedCounts DEF Sound, Backed
<1>8. n.books => Booked(x) BY <1>1 DEF Sound, Booked, Handled, EntriesOf, NextOf, ExitsOf, SalesUpTo, Of
<1>9. ASSUME n.counts PROVE Counted(x, c)
    <2> SUFFICES ASSUME x.lost = {}, NEW k \in Legs
                 PROVE  Cardinality(Sold(x.os, k, c)) + Left(x, k, c)
                            <= Cardinality(Bought(x.os, k, c))
        BY DEF Counted
    <2>1. Sold(x.os, k, c) = Sold(w.os, k, c) /\ Bought(x.os, k, c) = Bought(w.os, k, c)
        BY <1>2, AddedCounts
    <2>2. w.s.exit[k] # None => x.os[w.s.exit[k]] = w.os[w.s.exit[k]]
        BY <1>1 DEF Sound, Handled, EntriesOf, NextOf, ExitsOf, SalesUpTo, Of
    <2>3. w.s.entry[k] # None => x.os[w.s.entry[k]] = w.os[w.s.entry[k]]
        BY <1>1 DEF Sound, Handled, EntriesOf, NextOf, ExitsOf, SalesUpTo, Of
    <2>4. ToSell(x, k, c) => ToSell(w, k, c)
        BY <2>2, <2>3, <1>1, <1>4 DEF ToSell
    <2>5. Left(x, k, c) <= Left(w, k, c) /\ Left(x, k, c) \in Nat /\ Left(w, k, c) \in Nat
        BY <2>4 DEF Left
    <2>6. Cardinality(Sold(w.os, k, c)) + Left(w, k, c) <= Cardinality(Bought(w.os, k, c))
        BY <1>9 DEF Sound, Counted
    <2>7. Cardinality(Sold(w.os, k, c)) \in Nat /\ Cardinality(Bought(w.os, k, c)) \in Nat
        BY <1>2, CountsFinite
    <2> QED BY <2>1, <2>5, <2>6, <2>7
<1>30. Purchases(x.os, n.read) BY <1>1 DEF Sound, Purchases
<1> QED BY <1>5, <1>6, <1>7, <1>8, <1>9, <1>30 DEF Sound

\* An order for leg l of the next window.
LEMMA NextSound ==
    ASSUME NEW w, NEW x \in WorldT, NEW c, NEW n, Sound(w, c, n),
           NEW l \in Legs, w.s.next[l] = None,
           NEW e, Added(w.os, x.os, e), e.leg = l, e.side = "BUY", e.win = w.s.nextCid,
           e.st = "live", x.lost = w.lost, x.dropped = w.dropped,
           Put(w.s.next, x.s.next, l, Len(w.os) + 1),
           x.s.entry = w.s.entry, x.s.exit = w.s.exit, x.s.filled = w.s.filled,
           x.s.xst = w.s.xst, x.s.taken = w.s.taken, x.s.nextCid = w.s.nextCid
    PROVE  Sound(x, c, n)
<1> DEFINE id == Len(w.os) + 1
<1>1. DOMAIN x.os = DOMAIN w.os \cup {id} /\ id \notin DOMAIN w.os /\ x.os[id] = e
      /\ \A i \in DOMAIN w.os : x.os[i] = w.os[i]
    BY DEF Added
<1>2. w \in WorldT /\ w.os \in Seq(OrderT) BY WorldFacts DEF Sound
<1>4. x.s.next[l] = id /\ \A k \in Legs : k # l => x.s.next[k] = w.s.next[k]
    BY DEF Put
<1> HIDE DEF id
<1>5. Handled(x, c)
    <2>1. EntriesOf(x, c) BY <1>1 DEF Sound, Handled, EntriesOf, Of
    <2>2. NextOf(x) BY <1>1, <1>4 DEF Sound, Handled, NextOf, Of
    <2>3. ExitsOf(x) BY <1>1 DEF Sound, Handled, ExitsOf, Of
    <2>4. SalesUpTo(x, c) BY <1>1 DEF Sound, Handled, SalesUpTo
    <2> QED BY <2>1, <2>2, <2>3, <2>4 DEF Handled
<1>6. Known(x)
    <2> SUFFICES ASSUME NEW i \in DOMAIN x.os, x.os[i].st = "live", i \notin x.lost \cup x.dropped
                 PROVE  Holds(x.s, i)
        BY DEF Known
    <2>1. CASE i = id BY <2>1, <1>4 DEF Holds
    <2>2. CASE i # id
        <3>1. Holds(w.s, i) BY <2>2, <1>1 DEF Sound, Known
        <3>2. i # None BY <2>2, <1>1, <1>2, OrderFacts
        <3> QED BY <3>1, <3>2, <1>4 DEF Holds
    <2> QED BY <2>1, <2>2
<1>7. Backed(x, c) BY <1>2, AddedCounts DEF Sound, Backed
<1>8. n.books => Booked(x) BY <1>1 DEF Sound, Booked, Handled, ExitsOf, Of
<1>9. ASSUME n.counts PROVE Counted(x, c)
    <2>1. \A k \in Legs : Sold(x.os, k, c) = Sold(w.os, k, c) /\ Bought(x.os, k, c) = Bought(w.os, k, c)
        BY <1>2, AddedCounts
    <2>2. \A k \in Legs : ToSell(x, k, c) = ToSell(w, k, c)
        BY <1>1 DEF Sound, Handled, EntriesOf, ExitsOf, Of, ToSell
    <2> QED BY <2>1, <2>2, <1>9 DEF Sound, Counted, Left
<1>30. Purchases(x.os, n.read) BY <1>1 DEF Sound, Purchases
<1> QED BY <1>5, <1>6, <1>7, <1>8, <1>9, <1>30 DEF Sound

\* A sale of leg l: one that is counted is of a leg that is held and has none.
LEMMA ExitSound ==
    ASSUME NEW w, NEW x \in WorldT, NEW c, NEW n, Sound(w, c, n),
           NEW l \in Legs, NEW e, Added(w.os, x.os, e), e.leg = l, e.side = "SELL", e.win <= c,
           e.st = "live",
           n.counts => w.s.exit[l] = None /\ w.s.filled[l] /\ e.win = c,
           n.books => w.s.taken # l,
           x.lost = w.lost, w.dropped \subseteq x.dropped,
           w.s.exit[l] # None /\ w.os[w.s.exit[l]].st = "live" => w.s.exit[l] \in x.dropped,
           Put(w.s.exit, x.s.exit, l, Len(w.os) + 1), Put(w.s.xst, x.s.xst, l, "RESTING"),
           x.s.entry = w.s.entry, x.s.next = w.s.next, x.s.filled = w.s.filled,
           x.s.taken = w.s.taken, x.s.nextCid = w.s.nextCid
    PROVE  Sound(x, c, n)
<1> DEFINE id == Len(w.os) + 1
<1>1. DOMAIN x.os = DOMAIN w.os \cup {id} /\ id \notin DOMAIN w.os /\ x.os[id] = e
      /\ id # None /\ \A i \in DOMAIN w.os : x.os[i] = w.os[i]
    BY DEF Added, None
<1>2. w \in WorldT /\ w.os \in Seq(OrderT) BY WorldFacts DEF Sound
<1>4. /\ x.s.exit[l] = id /\ x.s.xst[l] = "RESTING"
      /\ \A k \in Legs : k # l => x.s.exit[k] = w.s.exit[k] /\ x.s.xst[k] = w.s.xst[k]
    BY DEF Put
<1> HIDE DEF id
<1>5. Handled(x, c)
    <2>1. EntriesOf(x, c) BY <1>1 DEF Sound, Handled, EntriesOf, Of
    <2>2. NextOf(x) BY <1>1 DEF Sound, Handled, NextOf, Of
    <2>3. ExitsOf(x) BY <1>1, <1>4 DEF Sound, Handled, ExitsOf, Of
    <2>7. SalesUpTo(x, c) BY <1>1 DEF Sound, Handled, SalesUpTo
    <2> QED BY <2>1, <2>2, <2>3, <2>7 DEF Handled
<1>6. Known(x)
    <2> SUFFICES ASSUME NEW i \in DOMAIN x.os, x.os[i].st = "live", i \notin x.lost \cup x.dropped
                 PROVE  Holds(x.s, i)
        BY DEF Known
    <2>1. CASE i = id BY <2>1, <1>4 DEF Holds
    <2>2. CASE i # id
        <3>1. Holds(w.s, i) BY <2>2, <1>1 DEF Sound, Known
        <3>2. i # None BY <2>2, <1>1, <1>2, OrderFacts
        <3>3. w.os[i].st = "live" BY <2>2, <1>1
        <3> QED BY <3>1, <3>2, <3>3, <1>4 DEF Holds
    <2> QED BY <2>1, <2>2
<1>7. Backed(x, c) BY <1>2, AddedCounts DEF Sound, Backed
<1>8. n.books => Booked(x) BY <1>1, <1>4, LegsAre DEF Sound, Booked, Handled, ExitsOf, Of
<1>9. ASSUME n.counts PROVE Counted(x, c)
    <2> SUFFICES ASSUME x.lost = {}, NEW k \in Legs
                 PROVE  Cardinality(Sold(x.os, k, c)) + Left(x, k, c)
                            <= Cardinality(Bought(x.os, k, c))
        BY DEF Counted
    <2>1. Bought(x.os, k, c) = Bought(w.os, k, c) BY <1>2, AddedCounts
    <2>2. Cardinality(Sold(w.os, k, c)) + Left(w, k, c) <= Cardinality(Bought(w.os, k, c))
        BY <1>9 DEF Sound, Counted
    <2>3. Cardinality(Sold(w.os, k, c)) \in Nat /\ Cardinality(Bought(w.os, k, c)) \in Nat
        BY <1>2, CountsFinite
    <2>4. CASE k = l
        <3>1. Cardinality(Sold(x.os, k, c)) = Cardinality(Sold(w.os, k, c)) + 1
            BY <2>4, <1>2, <1>9, AddedCounts
        <3>2. Left(w, k, c) = 1 BY <2>4, <1>9 DEF Left, ToSell
        <3>3. Left(x, k, c) = 0 BY <2>4, <1>1, <1>4, <1>9 DEF Left, ToSell
        <3> QED BY <3>1, <3>2, <3>3, <2>1, <2>2, <2>3
    <2>5. CASE k # l
        <3>1. Sold(x.os, k, c) = Sold(w.os, k, c) BY <2>5, <1>2, AddedCounts
        <3>2. ToSell(x, k, c) = ToSell(w, k, c)
            BY <2>5, <1>1, <1>4 DEF Sound, Handled, EntriesOf, ExitsOf, Of, ToSell
        <3> QED BY <3>1, <3>2, <2>1, <2>2 DEF Left
    <2> QED BY <2>4, <2>5
<1>30. Purchases(x.os, n.read) BY <1>1 DEF Sound, Purchases
<1> QED BY <1>5, <1>6, <1>7, <1>8, <1>9, <1>30 DEF Sound

\* Order i cancelled, and its handles cleared, or the answer lost.
Clears(f, g, i) == \A l \in Legs : g[l] = (IF f[l] = i THEN None ELSE f[l])
LEMMA CancelSound ==
    ASSUME NEW w, NEW x \in WorldT, NEW c, NEW n, Sound(w, c, n),
           NEW i, Turned(w.os, x.os, i, "canceled"), w.os[i].st = "live",
           x.lost = w.lost, x.dropped = w.dropped,
           \/ x.s.entry = w.s.entry /\ x.s.next = w.s.next /\ x.s.exit = w.s.exit
           \/ /\ Clears(w.s.entry, x.s.entry, i) /\ Clears(w.s.next, x.s.next, i)
              /\ Clears(w.s.exit, x.s.exit, i),
           x.s.filled = w.s.filled, x.s.xst = w.s.xst, x.s.taken = w.s.taken,
           x.s.nextCid = w.s.nextCid
    PROVE  Sound(x, c, n)
<1>1. /\ DOMAIN x.os = DOMAIN w.os /\ i \in DOMAIN w.os
      /\ x.os[i].st = "canceled"
      /\ \A j \in DOMAIN w.os : /\ x.os[j].leg = w.os[j].leg /\ x.os[j].side = w.os[j].side
                                /\ x.os[j].win = w.os[j].win
      /\ \A j \in DOMAIN w.os : j # i => x.os[j] = w.os[j]
    BY DEF Turned
<1>2. w \in WorldT /\ w.os \in Seq(OrderT) /\ i # None
    BY <1>1, WorldFacts, OrderFacts DEF Sound
<1>3. \A l \in Legs : /\ x.s.entry[l] = w.s.entry[l] \/ (w.s.entry[l] = i /\ x.s.entry[l] = None)
                      /\ x.s.next[l] = w.s.next[l] \/ (w.s.next[l] = i /\ x.s.next[l] = None)
                      /\ x.s.exit[l] = w.s.exit[l] \/ (w.s.exit[l] = i /\ x.s.exit[l] = None)
    BY DEF Clears
<1> DEFINE Old(f, g) == \A l \in Legs : f[l] # None => f[l] = g[l]
<1>9. Old(x.s.entry, w.s.entry) /\ Old(x.s.next, w.s.next) /\ Old(x.s.exit, w.s.exit)
    BY <1>3
<1>10. \A j, l, side : Of(w.os, j, l, side) => Of(x.os, j, l, side) /\ x.os[j].win = w.os[j].win
    BY <1>1 DEF Of
<1>4. Handled(x, c)
    <2>1. EntriesOf(x, c) BY <1>9, <1>10 DEF Sound, Handled, EntriesOf
    <2>2. NextOf(x) BY <1>9, <1>10 DEF Sound, Handled, NextOf
    <2>3. ExitsOf(x) BY <1>9, <1>10 DEF Sound, Handled, ExitsOf
    <2>4. SalesUpTo(x, c) BY <1>1 DEF Sound, Handled, SalesUpTo
    <2> QED BY <2>1, <2>2, <2>3, <2>4 DEF Handled
<1>5. Known(x)
    <2> SUFFICES ASSUME NEW j \in DOMAIN x.os, x.os[j].st = "live", j \notin x.lost \cup x.dropped
                 PROVE  Holds(x.s, j)
        BY DEF Known
    <2>1. j # i /\ j \in DOMAIN w.os /\ w.os[j].st = "live" BY <1>1
    <2>2. Holds(w.s, j) BY <2>1 DEF Sound, Known
    <2> QED BY <2>1, <2>2, <1>3 DEF Holds
<1>6. Backed(x, c) BY <1>2, CanceledCounts DEF Sound, Backed
<1>7. n.books => Booked(x) BY <1>1, <1>3 DEF Sound, Booked, Handled, ExitsOf, Of
<1>8. ASSUME n.counts PROVE Counted(x, c)
    <2> SUFFICES ASSUME x.lost = {}, NEW k \in Legs
                 PROVE  Cardinality(Sold(x.os, k, c)) + Left(x, k, c)
                            <= Cardinality(Bought(x.os, k, c))
        BY DEF Counted
    <2>1. Bought(x.os, k, c) = Bought(w.os, k, c)
          /\ Cardinality(Sold(x.os, k, c)) <= Cardinality(Sold(w.os, k, c))
        BY <1>2, CanceledCounts
    <2>2. Cardinality(Sold(w.os, k, c)) + Left(w, k, c) <= Cardinality(Bought(w.os, k, c))
        BY <1>8 DEF Sound, Counted
    <2>3. /\ Cardinality(Sold(w.os, k, c)) \in Nat /\ Cardinality(Bought(w.os, k, c)) \in Nat
          /\ Cardinality(Sold(x.os, k, c)) \in Nat
        BY <1>2, WorldFacts, CountsFinite
    <2>4. Left(w, k, c) \in 0 .. 1 /\ Left(x, k, c) \in 0 .. 1 BY DEF Left
    <2>5. CASE ToSell(x, k, c) => ToSell(w, k, c)
        <3>1. Left(x, k, c) <= Left(w, k, c) BY <2>5 DEF Left
        <3> QED BY <3>1, <2>1, <2>2, <2>3, <2>4
    <2>6. CASE ToSell(x, k, c) /\ ~ToSell(w, k, c)
        <3>4. w.s.entry[k] = i => w.os[i].st # "matched" OBVIOUS
        <3>5. x.s.entry[k] # None => x.s.entry[k] = w.s.entry[k] BY <1>9
        <3>6. x.s.entry[k] # None /\ x.os[x.s.entry[k]].st = "matched" =>
                w.s.entry[k] # None /\ w.os[w.s.entry[k]].st = "matched"
            BY <3>5, <1>1 DEF Sound, Handled, EntriesOf, Of
        <3>7. w.s.exit[k] # None /\ w.os[w.s.exit[k]].win = c
            BY <2>6, <3>6 DEF ToSell
        <3>8. x.s.exit[k] = None
            BY <2>6, <3>7, <1>9, <1>10 DEF Sound, Handled, ExitsOf, ToSell
        <3>1. w.s.exit[k] = i /\ w.os[i].win = c BY <3>7, <3>8, <1>3
        <3>2. w.os[i].side = "SELL" /\ w.os[i].leg = k
            BY <3>1, <1>2 DEF Sound, Handled, ExitsOf, Of
        <3>3. Cardinality(Sold(x.os, k, c)) = Cardinality(Sold(w.os, k, c)) - 1
            BY <3>1, <3>2, <1>2, CanceledCounts
        <3> QED BY <3>3, <2>1, <2>2, <2>3, <2>4
    <2> QED BY <2>5, <2>6
<1>30. Purchases(x.os, n.read) BY <1>1 DEF Sound, Purchases
<1> QED BY <1>4, <1>5, <1>6, <1>7, <1>8, <1>30 DEF Sound

\* Order i matched.
LEMMA MatchSound ==
    ASSUME NEW w, NEW x \in WorldT, NEW c, NEW n, Sound(w, c, n),
           NEW i, Turned(w.os, x.os, i, "matched"), w.os[i].st = "live",
           x.s = w.s, x.lost = w.lost, x.dropped = w.dropped
    PROVE  Sound(x, c, n)
<1>1. /\ DOMAIN x.os = DOMAIN w.os /\ i \in DOMAIN w.os
      /\ x.os[i].st = "matched"
      /\ \A j \in DOMAIN w.os : /\ x.os[j].leg = w.os[j].leg /\ x.os[j].side = w.os[j].side
                                /\ x.os[j].win = w.os[j].win
      /\ \A j \in DOMAIN w.os : j # i => x.os[j] = w.os[j]
    BY DEF Turned
<1>2. w \in WorldT /\ w.os \in Seq(OrderT) BY WorldFacts DEF Sound
<1>3. \A j, l, side : Of(w.os, j, l, side) => Of(x.os, j, l, side) /\ x.os[j].win = w.os[j].win
    BY <1>1 DEF Of
<1>4. Handled(x, c)
    <2>1. EntriesOf(x, c) BY <1>3 DEF Sound, Handled, EntriesOf
    <2>2. NextOf(x) BY <1>3 DEF Sound, Handled, NextOf
    <2>3. ExitsOf(x) BY <1>3 DEF Sound, Handled, ExitsOf
    <2>4. SalesUpTo(x, c) BY <1>1 DEF Sound, Handled, SalesUpTo
    <2> QED BY <2>1, <2>2, <2>3, <2>4 DEF Handled
<1>5. Known(x) BY <1>1 DEF Sound, Known
<1>6. Backed(x, c)
    <2> SUFFICES ASSUME NEW l \in Legs, w.s.filled[l] PROVE Bought(x.os, l, c) # {}
        BY DEF Backed
    <2>1. Bought(w.os, l, c) # {} BY DEF Sound, Backed
    <2>2. Bought(w.os, l, c) \subseteq Bought(x.os, l, c) BY <1>2, MatchedCounts
    <2> QED BY <2>1, <2>2
<1>7. n.books => Booked(x) BY <1>1 DEF Sound, Booked, Handled, ExitsOf, Of
<1>8. ASSUME n.counts PROVE Counted(x, c)
    <2> SUFFICES ASSUME x.lost = {}, NEW k \in Legs
                 PROVE  Cardinality(Sold(x.os, k, c)) + Left(x, k, c)
                            <= Cardinality(Bought(x.os, k, c))
        BY DEF Counted
    <2>1. Sold(x.os, k, c) = Sold(w.os, k, c)
          /\ Cardinality(Bought(w.os, k, c)) <= Cardinality(Bought(x.os, k, c))
        BY <1>2, MatchedCounts
    <2>2. Cardinality(Sold(w.os, k, c)) + Left(w, k, c) <= Cardinality(Bought(w.os, k, c))
        BY <1>8 DEF Sound, Counted
    <2>3. /\ Cardinality(Sold(w.os, k, c)) \in Nat /\ Cardinality(Bought(w.os, k, c)) \in Nat
          /\ Cardinality(Bought(x.os, k, c)) \in Nat
        BY <1>2, WorldFacts, CountsFinite
    <2>4. Left(w, k, c) \in 0 .. 1 /\ Left(x, k, c) \in 0 .. 1 BY DEF Left
    <2>5. CASE ToSell(x, k, c) => ToSell(w, k, c)
        <3>1. Left(x, k, c) <= Left(w, k, c) BY <2>5 DEF Left
        <3> QED BY <3>1, <2>1, <2>2, <2>3, <2>4
    <2>6. CASE ToSell(x, k, c) /\ ~ToSell(w, k, c)
        <3>1. w.s.exit[k] # None => x.os[w.s.exit[k]].win = w.os[w.s.exit[k]].win
            BY <1>3 DEF Sound, Handled, ExitsOf
        <3>2. w.s.entry[k] = i /\ i # None
            BY <2>6, <3>1, <1>1 DEF Sound, Handled, EntriesOf, Of, ToSell
        <3>3. w.os[i].side = "BUY" /\ w.os[i].leg = k /\ w.os[i].win = c
            BY <3>2 DEF Sound, Handled, EntriesOf, Of
        <3>4. Cardinality(Bought(x.os, k, c)) = Cardinality(Bought(w.os, k, c)) + 1
            BY <3>3, <1>2, MatchedCounts
        <3> QED BY <3>4, <2>1, <2>2, <2>3, <2>4
    <2> QED BY <2>5, <2>6
<1>30. Purchases(x.os, n.read) BY <1>1 DEF Sound, Purchases
<1> QED BY <1>4, <1>5, <1>6, <1>7, <1>8, <1>30 DEF Sound

\* A fill that is told of an order that is matched.
LEMMA FillSound ==
    ASSUME NEW w, NEW x \in WorldT, NEW c, NEW n, Sound(w, c, n),
           NEW l \in Legs, w.s.entry[l] # None, w.os[w.s.entry[l]].st = "matched",
           Put(w.s.filled, x.s.filled, l, TRUE),
           x.os = w.os, x.lost = w.lost, x.dropped = w.dropped,
           x.s.entry = w.s.entry, x.s.next = w.s.next, x.s.exit = w.s.exit,
           x.s.xst = w.s.xst, x.s.taken = w.s.taken, x.s.nextCid = w.s.nextCid
    PROVE  Sound(x, c, n)
<1>2. x.s.filled[l] = TRUE /\ \A k \in Legs : k # l => x.s.filled[k] = w.s.filled[k]
    BY DEF Put
<1>3. Handled(x, c) BY DEF Sound, Handled, EntriesOf, NextOf, ExitsOf, SalesUpTo
<1>4. Known(x) BY DEF Sound, Known, Holds
<1>5. w.s.entry[l] \in Bought(w.os, l, c) BY DEF Sound, Handled, EntriesOf, Of, Bought
<1>6. Backed(x, c) BY <1>2, <1>5 DEF Sound, Backed
<1>7. n.books => Booked(x) BY DEF Sound, Booked
<1>8. \A k \in Legs : ToSell(x, k, c) = ToSell(w, k, c) BY <1>2 DEF ToSell
<1>9. n.counts => Counted(x, c) BY <1>8 DEF Sound, Counted, Left
<1>30. Purchases(x.os, n.read) BY DEF Sound
<1> QED BY <1>3, <1>4, <1>6, <1>7, <1>9, <1>30 DEF Sound

\* Handles let go, and fills forgotten.  Who lets go of an exit forgets its leg.
LetsGo(f, g) == \A l \in Legs : g[l] # None => g[l] = f[l]
LEMMA LetGoSound ==
    ASSUME NEW w, NEW x \in WorldT, NEW c, NEW n, Sound(w, c, n),
           LetsGo(w.s.entry, x.s.entry), LetsGo(w.s.next, x.s.next),
           LetsGo(w.s.exit, x.s.exit),
           x.s.nextCid = w.s.nextCid \/ \A l \in Legs : x.s.next[l] = None,
           \A l \in Legs : x.s.filled[l] => w.s.filled[l],
           \A l \in Legs : x.s.exit[l] = None \/ x.s.xst[l] = w.s.xst[l],
           x.s.taken \in {w.s.taken, "none"},
           n.counts => \A l \in Legs :
                x.s.exit[l] # w.s.exit[l] => ~x.s.filled[l] /\ x.s.entry[l] = None,
           x.os = w.os, x.lost = w.lost,
           \A i \in DOMAIN w.os : w.os[i].st = "live" /\ Holds(w.s, i) /\ ~Holds(x.s, i)
                                    => i \in x.dropped,
           w.dropped \subseteq x.dropped
    PROVE  Sound(x, c, n)
<1>1. Handled(x, c) BY DEF Sound, Handled, EntriesOf, NextOf, ExitsOf, SalesUpTo, LetsGo
<1>2. Known(x) BY DEF Sound, Known
<1>3. Backed(x, c) BY DEF Sound, Backed
<1>4. n.books => Booked(x)
    <2> SUFFICES ASSUME n.books, NEW l \in Legs, x.s.exit[l] # None,
                        x.s.xst[l] = "FILLED" \/ x.s.taken = l
                 PROVE  x.os[x.s.exit[l]].st = "matched"
        BY DEF Booked
    <2>1. x.s.exit[l] = w.s.exit[l] /\ x.s.xst[l] = w.s.xst[l] BY DEF LetsGo
    <2>2. l # "none" BY DEF Legs
    <2> QED BY <2>1, <2>2 DEF Sound, Booked
<1>5. n.counts => \A k \in Legs : ToSell(x, k, c) => ToSell(w, k, c) BY DEF ToSell, LetsGo
<1>6. ASSUME n.counts PROVE Counted(x, c)
    <2> SUFFICES ASSUME x.lost = {}, NEW k \in Legs
                 PROVE  Cardinality(Sold(x.os, k, c)) + Left(x, k, c)
                            <= Cardinality(Bought(x.os, k, c))
        BY DEF Counted
    <2>1. Left(x, k, c) \in Nat /\ Left(w, k, c) \in Nat /\ Left(x, k, c) <= Left(w, k, c)
        BY <1>5, <1>6 DEF Left
    <2>2. Cardinality(Sold(w.os, k, c)) + Left(w, k, c) <= Cardinality(Bought(w.os, k, c))
        BY <1>6 DEF Sound, Counted
    <2>3. Cardinality(Sold(w.os, k, c)) \in Nat /\ Cardinality(Bought(w.os, k, c)) \in Nat
        BY WorldFacts, CountsFinite DEF Sound
    <2> QED BY <2>1, <2>2, <2>3
<1>30. Purchases(x.os, n.read) BY DEF Sound
<1> QED BY <1>1, <1>2, <1>3, <1>4, <1>6, <1>30 DEF Sound

\* A later window: the entries are its own, and nothing is filled yet.
LEMMA NewWindowSound ==
    ASSUME NEW w, NEW x \in WorldT, NEW c \in Nat, NEW d \in Nat, NEW n, Sound(w, c, n), c < d,
           \A l \in Legs : x.s.entry[l] # None =>
                x.s.entry[l] = w.s.next[l] /\ w.s.nextCid = d,
           \A l \in Legs : x.s.next[l] = None,
           x.s.exit = w.s.exit, x.s.xst = w.s.xst, x.s.taken = "none",
           \A l \in Legs : ~x.s.filled[l],
           x.os = w.os, x.lost = w.lost,
           \A i \in DOMAIN w.os : w.os[i].st = "live" /\ Holds(w.s, i) /\ ~Holds(x.s, i)
                                    => i \in x.dropped,
           w.dropped \subseteq x.dropped
    PROVE  Sound(x, d, n)
<1>0. w.os \in Seq(OrderT) BY WorldFacts DEF Sound
<1>1. Handled(x, d)
    <2>1. EntriesOf(x, d) BY DEF Sound, Handled, EntriesOf, NextOf
    <2>2. NextOf(x) /\ ExitsOf(x) BY DEF Sound, Handled, NextOf, ExitsOf
    <2>3. \A i \in DOMAIN w.os : w.os[i].win \in Nat BY <1>0, OrderFacts
    <2>4. SalesUpTo(x, d) BY <2>3 DEF Sound, Handled, SalesUpTo
    <2> QED BY <2>1, <2>2, <2>4 DEF Handled
<1>2. Known(x) BY DEF Sound, Known
<1>3. Backed(x, d) BY DEF Backed
<1>4. n.books => Booked(x)
    <2>1. \A l \in Legs : l # "none" BY DEF Legs
    <2> QED BY <2>1 DEF Sound, Booked
<1>5. Counted(x, d)
    <2> SUFFICES ASSUME NEW k \in Legs
                 PROVE  Cardinality(Sold(x.os, k, d)) + Left(x, k, d)
                            <= Cardinality(Bought(x.os, k, d))
        BY DEF Counted
    <2>1. Sold(x.os, k, d) = {}
        <3>1. \A i \in DOMAIN w.os : w.os[i].win \in Nat BY <1>0, OrderFacts
        <3>2. \A i \in DOMAIN w.os : w.os[i].side = "SELL" => w.os[i].win # d
            BY <3>1 DEF Sound, Handled, SalesUpTo
        <3> QED BY <3>2 DEF Sold
    <2>2. Cardinality(Sold(x.os, k, d)) = 0 BY <2>1, FS_EmptySet
    <2>3. /\ IsFiniteSet(Bought(x.os, k, d)) /\ Cardinality(Bought(x.os, k, d)) \in Nat
        BY <1>0, CountsFinite
    <2>4. CASE ToSell(x, k, d)
        <3>1. x.s.entry[k] \in Bought(x.os, k, d)
            BY <2>4, <1>1 DEF ToSell, Handled, EntriesOf, Of, Bought
        <3>2. Cardinality(Bought(x.os, k, d)) # 0 BY <3>1, <2>3, FS_EmptySet
        <3>3. Left(x, k, d) = 1 BY <2>4 DEF Left
        <3> QED BY <3>2, <3>3, <2>2, <2>3
    <2>5. CASE ~ToSell(x, k, d)
        <3>1. Left(x, k, d) = 0 BY <2>5 DEF Left
        <3> QED BY <3>1, <2>2, <2>3
    <2> QED BY <2>4, <2>5
<1>30. Purchases(x.os, n.read) BY DEF Sound
<1> QED BY <1>1, <1>2, <1>3, <1>4, <1>5, <1>30 DEF Sound

-----------------------------------------------------------------------------
(* The calls of the venue *)

LEMMA NotedEntry ==
    ASSUME NEW s \in MarketT, NEW l \in Legs, NEW id \in Nat
    PROVE  LET t == Noted(s, "entry", l, id)
           IN /\ t \in MarketT /\ Kept(s, t) /\ t.next = s.next /\ t.exit = s.exit
              /\ Put(s.entry, t.entry, l, id) /\ t.xst = s.xst
<1> DEFINE a == [s.entry EXCEPT ![l] = id]
           p == [s.est EXCEPT ![l] = "RESTING"]
<1>1. a \in [Legs -> Nat] /\ p \in [Legs -> Tags] BY MarketFacts DEF Tags
<1>2. Noted(s, "entry", l, id) = [s EXCEPT !.entry = a, !.est = p] BY DEF Noted
<1> HIDE DEF a, p
<1>3. LET t == [s EXCEPT !.entry = a, !.est = p]
      IN /\ t \in MarketT /\ Kept(s, t) /\ t.next = s.next /\ t.exit = s.exit
         /\ t.entry = a /\ t.xst = s.xst
    BY <1>1 DEF MarketT, Kept
<1>4. Put(s.entry, a, l, id) BY MarketFacts DEF Put, a
<1> QED BY <1>2, <1>3, <1>4

LEMMA NotedNext ==
    ASSUME NEW s \in MarketT, NEW l \in Legs, NEW id \in Nat
    PROVE  LET t == Noted(s, "next", l, id)
           IN /\ t \in MarketT /\ Kept(s, t) /\ t.entry = s.entry /\ t.exit = s.exit
              /\ Put(s.next, t.next, l, id) /\ t.xst = s.xst
<1> DEFINE b == [s.next EXCEPT ![l] = id]
<1>1. b \in [Legs -> Nat] BY MarketFacts
<1>2. Noted(s, "next", l, id) = [s EXCEPT !.next = b] BY DEF Noted
<1> HIDE DEF b
<1>3. LET t == [s EXCEPT !.next = b]
      IN /\ t \in MarketT /\ Kept(s, t) /\ t.entry = s.entry /\ t.exit = s.exit
         /\ t.next = b /\ t.xst = s.xst
    BY <1>1 DEF MarketT, Kept
<1>4. Put(s.next, b, l, id) BY MarketFacts DEF Put, b
<1> QED BY <1>2, <1>3, <1>4

LEMMA NotedExit ==
    ASSUME NEW s \in MarketT, NEW l \in Legs, NEW id \in Nat
    PROVE  LET t == Noted(s, "exit", l, id)
           IN /\ t \in MarketT /\ Kept(s, t) /\ t.entry = s.entry /\ t.next = s.next
              /\ Put(s.exit, t.exit, l, id)
              /\ Put(s.xst, t.xst, l, "RESTING")
<1> DEFINE d == [s.exit EXCEPT ![l] = id]
           q == [s.xst EXCEPT ![l] = "RESTING"]
<1>1. d \in [Legs -> Nat] /\ q \in [Legs -> Tags] BY MarketFacts DEF Tags
<1>2. Noted(s, "exit", l, id) = [s EXCEPT !.exit = d, !.xst = q] BY DEF Noted
<1> HIDE DEF d, q
<1>3. LET t == [s EXCEPT !.exit = d, !.xst = q]
      IN /\ t \in MarketT /\ Kept(s, t) /\ t.entry = s.entry /\ t.next = s.next
         /\ t.exit = d /\ t.xst = q
    BY <1>1 DEF MarketT, Kept
<1>4. Put(s.exit, d, l, id) /\ Put(s.xst, q, l, "RESTING") BY MarketFacts DEF Put, d, q
<1> QED BY <1>2, <1>3, <1>4

\* What a place may leave: the order and its handle, no order, an order unknown.
PlacedAs(w, x, t, h, l, side, win) ==
    \/ /\ Added(w.os, x.os, Accepted(l, side, win))
       /\ x.s = t /\ x.lost = w.lost /\ x.dropped = w.dropped \cup LetGo(w.os, {h})
    \/ x.os = w.os /\ x.s = w.s /\ x.lost = w.lost /\ x.dropped = w.dropped
    \/ /\ Added(w.os, x.os, Accepted(l, side, win)) /\ x.dropped = w.dropped
       /\ x.s = w.s /\ x.lost = w.lost \cup {Len(w.os) + 1}

LEMMA NoneLetGo == ASSUME NEW os PROVE LetGo(os, {None}) = {}
BY DEF LetGo

LEMMA LetGoIds ==
    ASSUME NEW w \in WorldT, NEW ids, ids \subseteq Nat
    PROVE  w.dropped \cup LetGo(w.os, ids) \in IdSets
BY WorldFacts DEF IdSets, LetGo

LEMMA AcceptedFacts ==
    ASSUME NEW l \in Legs, NEW side \in {"BUY", "SELL"}, NEW win \in Nat
    PROVE  LET e == Accepted(l, side, win)
           IN e \in OrderT /\ e.leg = l /\ e.side = side /\ e.win = win /\ e.st = "live"
BY DEF Accepted, OrderT

LEMMA PlaceIs ==
    ASSUME NEW w \in WorldT, NEW field, NEW l \in Legs, NEW side \in {"BUY", "SELL"},
           NEW win \in Nat, NEW x \in Place(w, field, l, side, win),
           NEW h \in Nat, h = w.s[field][l],
           NEW t \in MarketT, t = Noted(w.s, field, l, Len(w.os) + 1)
    PROVE  x \in WorldT /\ PlacedAs(w, x, t, h, l, side, win)
<1> DEFINE id == Len(w.os) + 1
           e == Accepted(l, side, win)
           q == Append(w.os, e)
           acc == [w EXCEPT !.os = q]
           ids == w.lost \cup {id}
           gone == w.dropped \cup LetGo(w.os, {h})
<1>1. w.os \in Seq(OrderT) /\ w.s \in MarketT /\ w.f \in Nat /\ w.lost \in SUBSET Nat BY WorldFacts
<1>2. q \in Seq(OrderT) /\ id \in Nat /\ Added(w.os, q, e)
    BY <1>1, AcceptedFacts, AppendAdds
<1>3. q \in Books /\ ids \in IdSets /\ w.f + 1 \in Nat BY <1>1, <1>2 DEF Books, IdSets
<1>4. gone \in IdSets BY LetGoIds
<1>5. /\ acc \in WorldT /\ acc.s = w.s /\ acc.os = q /\ acc.lost = w.lost
      /\ acc.dropped = w.dropped /\ acc.f = w.f
    BY <1>3, WithOrders
<1>6. \/ x = [acc EXCEPT !.s = t, !.dropped = gone]
      \/ x = [w EXCEPT !.f = w.f + 1]
      \/ x = [acc EXCEPT !.lost = ids, !.f = w.f + 1]
    <2>1. \/ x = [acc EXCEPT !.s = Noted(acc.s, field, l, id), !.dropped = acc.dropped \cup LetGo(w.os, {h})]
          \/ x = [w EXCEPT !.f = w.f + 1]
          \/ x = [acc EXCEPT !.lost = acc.lost \cup {id}, !.f = acc.f + 1]
        BY DEF Place
    <2> HIDE DEF acc
    <2> QED BY <2>1, <1>5
<1>7. ids = w.lost \cup {Len(w.os) + 1} OBVIOUS
<1> HIDE DEF id, q, acc, ids
<1>8. CASE x = [acc EXCEPT !.s = t, !.dropped = gone]
    <2>1. gone = w.dropped \cup LetGo(w.os, {h}) OBVIOUS
    <2> HIDE DEF gone
    <2>2. x \in WorldT /\ x.s = t /\ x.os = acc.os /\ x.lost = acc.lost /\ x.dropped = gone
        BY <1>8, <1>4, <1>5 DEF WorldT
    <2> QED BY <2>1, <2>2, <1>2, <1>5 DEF PlacedAs, e
<1>9. CASE x = [w EXCEPT !.f = w.f + 1] BY <1>9, <1>3, WithFault DEF PlacedAs
<1>10. CASE x = [acc EXCEPT !.lost = ids, !.f = w.f + 1]
    <2> DEFINE g == w.f + 1
    <2>2. g \in Nat /\ x = [acc EXCEPT !.lost = ids, !.f = g] BY <1>10, <1>3
    <2> HIDE DEF g
    <2>1. x \in WorldT /\ x.s = acc.s /\ x.os = acc.os /\ x.lost = ids /\ x.dropped = acc.dropped
        BY <2>2, <1>3, <1>5 DEF WorldT
    <2> QED BY <2>1, <1>2, <1>5, <1>7 DEF PlacedAs, e
<1> QED BY <1>6, <1>8, <1>9, <1>10

LEMMA PlaceEntrySound ==
    ASSUME NEW w, NEW c \in Nat, NEW n, Sound(w, c, n), NEW l \in Legs, w.s.entry[l] = None,
           NEW x \in Place(w, "entry", l, "BUY", c)
    PROVE  Sound(x, c, n) /\ Kept(w.s, x.s) /\ x.s.exit = w.s.exit
<1> DEFINE id == Len(w.os) + 1
           e == Accepted(l, "BUY", c)
           t == Noted(w.s, "entry", l, id)
<1>1. w \in WorldT /\ w.s \in MarketT /\ id \in Nat BY WorldFacts DEF Sound
<1>2. /\ t \in MarketT /\ Kept(w.s, t) /\ t.next = w.s.next /\ t.exit = w.s.exit
      /\ Put(w.s.entry, t.entry, l, id) /\ t.xst = w.s.xst
    BY <1>1, NotedEntry
<1>3. e \in OrderT /\ e.leg = l /\ e.side = "BUY" /\ e.win = c /\ e.st = "live" BY AcceptedFacts
<1>4. t = Noted(w.s, "entry", l, Len(w.os) + 1) OBVIOUS
<1>9. "BUY" \in {"BUY", "SELL"} /\ x \in Place(w, "entry", l, "BUY", c)
      /\ None \in Nat /\ None = w.s["entry"][l]
    BY DEF None
<1> HIDE DEF t, e
<1>5. x \in WorldT /\ PlacedAs(w, x, t, None, l, "BUY", c)
    BY <1>1, <1>2, <1>4, <1>9, PlaceIs
<1>10. w.dropped \cup LetGo(w.os, {None}) = w.dropped BY NoneLetGo
<1>6. CASE Added(w.os, x.os, e) /\ x.s = t /\ x.lost = w.lost /\ x.dropped = w.dropped
    BY <1>2, <1>3, <1>5, <1>6, EntrySound DEF Kept
<1>7. CASE x.os = w.os /\ x.s = w.s /\ x.lost = w.lost /\ x.dropped = w.dropped
    BY <1>5, <1>7, SameSound DEF Kept
<1>8. CASE Added(w.os, x.os, e) /\ x.s = w.s /\ x.lost = w.lost \cup {Len(w.os) + 1}
              /\ x.dropped = w.dropped
    BY <1>3, <1>5, <1>8, LostSound DEF Kept
<1> QED BY <1>5, <1>6, <1>7, <1>8, <1>10 DEF PlacedAs, e

LEMMA PlaceNextSound ==
    ASSUME NEW w, NEW c, NEW n, Sound(w, c, n), NEW l \in Legs, w.s.next[l] = None,
           NEW x \in Place(w, "next", l, "BUY", w.s.nextCid)
    PROVE  Sound(x, c, n) /\ Kept(w.s, x.s) /\ x.s.exit = w.s.exit /\ x.s.entry = w.s.entry
<1> DEFINE id == Len(w.os) + 1
           win == w.s.nextCid
           e == Accepted(l, "BUY", win)
           t == Noted(w.s, "next", l, id)
<1>1. w \in WorldT /\ w.s \in MarketT /\ id \in Nat /\ win \in Nat
    BY WorldFacts, MarketFacts DEF Sound
<1>2. /\ t \in MarketT /\ Kept(w.s, t) /\ t.entry = w.s.entry /\ t.exit = w.s.exit
      /\ Put(w.s.next, t.next, l, id) /\ t.xst = w.s.xst
    BY <1>1, NotedNext
<1>3. e \in OrderT /\ e.leg = l /\ e.side = "BUY" /\ e.win = w.s.nextCid /\ e.st = "live"
    BY <1>1, AcceptedFacts
<1>4. t = Noted(w.s, "next", l, Len(w.os) + 1) OBVIOUS
<1>9. "BUY" \in {"BUY", "SELL"} /\ x \in Place(w, "next", l, "BUY", win)
      /\ None \in Nat /\ None = w.s["next"][l]
    BY DEF None
<1> HIDE DEF t, e
<1>5. x \in WorldT /\ PlacedAs(w, x, t, None, l, "BUY", win)
    BY <1>1, <1>2, <1>4, <1>9, PlaceIs
<1>10. w.dropped \cup LetGo(w.os, {None}) = w.dropped BY NoneLetGo
<1>6. CASE Added(w.os, x.os, e) /\ x.s = t /\ x.lost = w.lost /\ x.dropped = w.dropped
    BY <1>2, <1>3, <1>5, <1>6, NextSound DEF Kept
<1>7. CASE x.os = w.os /\ x.s = w.s /\ x.lost = w.lost /\ x.dropped = w.dropped
    BY <1>5, <1>7, SameSound DEF Kept
<1>8. CASE Added(w.os, x.os, e) /\ x.s = w.s /\ x.lost = w.lost \cup {Len(w.os) + 1}
              /\ x.dropped = w.dropped
    BY <1>3, <1>5, <1>8, LostSound DEF Kept
<1> QED BY <1>5, <1>6, <1>7, <1>8, <1>10 DEF PlacedAs, e

\* The number of the next order.
NewId(w) == Len(w.os) + 1

\* The sale: one that is counted is of a leg that is held and has none.
LEMMA PlaceExitSound ==
    ASSUME NEW w, NEW c \in Nat, NEW n, Sound(w, c, n), NEW l \in Legs, NEW win \in Nat, win <= c,
           n.counts => w.s.exit[l] = None /\ w.s.filled[l] /\ win = c,
           n.books => w.s.taken # l,
           NEW x \in Place(w, "exit", l, "SELL", win)
    PROVE  /\ Sound(x, c, n) /\ Kept(w.s, x.s) /\ NewId(w) \notin DOMAIN w.os /\ NewId(w) \in Nat
           /\ \/ /\ x.s.exit[l] = NewId(w)
                 /\ x.s.exit[l] \in DOMAIN x.os /\ x.os[x.s.exit[l]].st = "live"
              \/ x.s.exit = w.s.exit
<1>0. SUFFICES /\ Sound(x, c, n) /\ Kept(w.s, x.s) /\ Len(w.os) + 1 \notin DOMAIN w.os
               /\ \/ /\ x.s.exit[l] = Len(w.os) + 1
                     /\ x.s.exit[l] \in DOMAIN x.os /\ x.os[x.s.exit[l]].st = "live"
                  \/ x.s.exit = w.s.exit
    <2>1. w.os \in Seq(OrderT) BY WorldFacts DEF Sound
    <2>2. NewId(w) = Len(w.os) + 1 BY DEF NewId
    <2>3. NewId(w) \in Nat BY <2>1, <2>2
    <2> QED BY <2>2, <2>3
<1> DEFINE id == Len(w.os) + 1
           e == Accepted(l, "SELL", win)
           t == Noted(w.s, "exit", l, id)
           h == w.s.exit[l]
<1>1. w \in WorldT /\ w.s \in MarketT /\ id \in Nat /\ h \in Nat /\ w.os \in Seq(OrderT)
    BY WorldFacts, MarketFacts DEF Sound
<1>2. /\ t \in MarketT /\ Kept(w.s, t) /\ t.entry = w.s.entry /\ t.next = w.s.next
      /\ Put(w.s.exit, t.exit, l, id) /\ Put(w.s.xst, t.xst, l, "RESTING")
    BY <1>1, NotedExit
<1>3. e \in OrderT /\ e.leg = l /\ e.side = "SELL" /\ e.win = win /\ e.st = "live" BY AcceptedFacts
<1>4. t = Noted(w.s, "exit", l, Len(w.os) + 1) /\ h = w.s["exit"][l] OBVIOUS
<1>11. w.os[h].st = "live" /\ h # None => h \in LetGo(w.os, {h}) BY DEF LetGo
<1>12. id \notin DOMAIN w.os BY <1>1
<1> HIDE DEF t, e
<1>5. x \in WorldT /\ PlacedAs(w, x, t, h, l, "SELL", win)
    <2> HIDE DEF h
    <2> QED BY <1>1, <1>2, <1>4, PlaceIs
<1>6. CASE Added(w.os, x.os, e) /\ x.s = t /\ x.lost = w.lost /\ x.dropped = w.dropped \cup LetGo(w.os, {h})
    <2>1. Sound(x, c, n) /\ Kept(w.s, x.s)
        BY <1>2, <1>3, <1>5, <1>6, <1>11, ExitSound DEF Kept
    <2>3. x.s.exit[l] = id BY <1>2, <1>6 DEF Put
    <2>4. id \in DOMAIN x.os /\ x.os[id] = e BY <1>6 DEF Added
    <2> QED BY <2>1, <2>3, <2>4, <1>3, <1>12
<1>7. CASE x.os = w.os /\ x.s = w.s /\ x.lost = w.lost /\ x.dropped = w.dropped
    BY <1>5, <1>7, <1>12, SameSound DEF Kept
<1>8. CASE Added(w.os, x.os, e) /\ x.s = w.s /\ x.lost = w.lost \cup {Len(w.os) + 1}
              /\ x.dropped = w.dropped
    BY <1>3, <1>5, <1>8, <1>12, LostSound DEF Kept
<1> QED BY <1>5, <1>6, <1>7, <1>8 DEF PlacedAs, e

LEMMA ClearedFacts ==
    ASSUME NEW s \in MarketT, NEW i
    PROVE  LET t == Cleared(s, i)
           IN /\ t \in MarketT /\ Kept(s, t) /\ t.xst = s.xst
              /\ Clears(s.entry, t.entry, i) /\ Clears(s.next, t.next, i)
              /\ Clears(s.exit, t.exit, i)
<1> DEFINE a == [l \in Legs |-> IF s.entry[l] = i THEN None ELSE s.entry[l]]
           p == [l \in Legs |-> IF s.entry[l] = i THEN "CANCELLED" ELSE s.est[l]]
           b == [l \in Legs |-> IF s.next[l] = i THEN None ELSE s.next[l]]
           d == [l \in Legs |-> IF s.exit[l] = i THEN None ELSE s.exit[l]]
<1>1. Cleared(s, i) = [s EXCEPT !.entry = a, !.est = p, !.next = b, !.exit = d] BY DEF Cleared
<1>2. /\ s.entry \in [Legs -> Nat] /\ s.next \in [Legs -> Nat] /\ s.exit \in [Legs -> Nat]
      /\ s.est \in [Legs -> Tags]
    BY MarketFacts
<1>3. a \in [Legs -> Nat] /\ b \in [Legs -> Nat] /\ d \in [Legs -> Nat] BY <1>2 DEF None
<1>4. p \in [Legs -> Tags] BY <1>2 DEF Tags
<1>5. Clears(s.entry, a, i) /\ Clears(s.next, b, i) /\ Clears(s.exit, d, i) BY DEF Clears
<1> HIDE DEF a, b, d, p
<1>6. LET t == [s EXCEPT !.entry = a, !.est = p, !.next = b, !.exit = d]
      IN /\ t \in MarketT /\ Kept(s, t) /\ t.xst = s.xst
         /\ t.entry = a /\ t.next = b /\ t.exit = d
    BY <1>3, <1>4 DEF MarketT, Kept
<1> QED BY <1>1, <1>5, <1>6

\* A cancel of an order of the market: of a purchase, no exit is touched.
LEMMA CancelIsSound ==
    ASSUME NEW w, NEW c, NEW n, Sound(w, c, n), NEW i, i = None \/ i \in DOMAIN w.os,
           NEW x \in Cancel(w, i)
    PROVE  /\ Sound(x, c, n) /\ Kept(w.s, x.s)
           /\ LetsGo(w.s.entry, x.s.entry) /\ LetsGo(w.s.next, x.s.next)
           /\ LetsGo(w.s.exit, x.s.exit)
           /\ i = None \/ w.os[i].side = "BUY" => x.s.exit = w.s.exit
<1>1. w \in WorldT /\ w.s \in MarketT /\ w.os \in Seq(OrderT) /\ w.f + 1 \in Nat
    BY WorldFacts DEF Sound
<1>3. CASE i = None \/ w.os[i].st # "live" BY <1>3 DEF Cancel, Kept, LetsGo
<1>4. CASE i # None /\ w.os[i].st = "live"
    <2>0. i \in DOMAIN w.os BY <1>4
    <2> DEFINE q == [w.os EXCEPT ![i].st = "canceled"]
               gone == [w EXCEPT !.os = q]
               t == Cleared(w.s, i)
    <2>1. Turned(w.os, q, i, "canceled") /\ q \in Books
        BY <1>1, <2>0, ExceptTurns DEF Turned, Books
    <2>2. [w EXCEPT !.os[i].st = "canceled"] = gone OBVIOUS
    <2> HIDE DEF q
    <2>3. /\ gone \in WorldT /\ gone.s = w.s /\ gone.os = q /\ gone.lost = w.lost
          /\ gone.dropped = w.dropped /\ gone.f = w.f
        BY <1>1, <2>1, WithOrders
    <2> HIDE DEF gone
    <2>4. \/ x = [gone EXCEPT !.s = Cleared(gone.s, i)]
          \/ x = [w EXCEPT !.f = w.f + 1]
          \/ x = [gone EXCEPT !.f = gone.f + 1]
        BY <1>4, <2>2 DEF Cancel
    <2>5. /\ t \in MarketT /\ Kept(w.s, t) /\ t.xst = w.s.xst
          /\ Clears(w.s.entry, t.entry, i) /\ Clears(w.s.next, t.next, i)
          /\ Clears(w.s.exit, t.exit, i)
        BY <1>1, ClearedFacts
    <2> HIDE DEF t
    <2>6. CASE x = [gone EXCEPT !.s = Cleared(gone.s, i)]
        <3>1. x = [gone EXCEPT !.s = t] BY <2>6, <2>3 DEF t
        <3>2. /\ x \in WorldT /\ x.s = t /\ x.os = q /\ x.lost = w.lost
              /\ x.dropped = w.dropped
            BY <3>1, <2>3, <2>5, WithMarket
        <3>3. Sound(x, c, n) BY <3>2, <2>1, <2>5, <1>4, CancelSound DEF Kept
        <3>4. LetsGo(w.s.entry, t.entry) /\ LetsGo(w.s.next, t.next) /\ LetsGo(w.s.exit, t.exit)
            BY <2>5 DEF Clears, LetsGo
        <3>5. w.os[i].side = "BUY" => t.exit = w.s.exit
            <4>1. w.os[i].side = "BUY" => \A l \in Legs : t.exit[l] = w.s.exit[l]
                BY <2>5, <2>0 DEF Clears, Sound, Handled, ExitsOf, Of
            <4>2. t.exit \in [Legs -> Nat] /\ w.s.exit \in [Legs -> Nat]
                BY <1>1, <2>5, MarketFacts
            <4> QED BY <4>1, <4>2
        <3> QED BY <3>2, <3>3, <3>4, <3>5, <2>5, <1>4
    <2>7. CASE x = [w EXCEPT !.f = w.f + 1]
        <3>1. /\ x \in WorldT /\ x.s = w.s /\ x.os = w.os /\ x.lost = w.lost
              /\ x.dropped = w.dropped
            BY <2>7, <1>1, WithFault
        <3> QED BY <3>1, <2>0, SameSound DEF Kept, LetsGo
    <2>8. CASE x = [gone EXCEPT !.f = gone.f + 1]
        <3>1. /\ x \in WorldT /\ x.s = w.s /\ x.os = q /\ x.lost = w.lost
              /\ x.dropped = w.dropped
            BY <2>8, <2>3, <1>1, WithFault
        <3> QED BY <3>1, <2>1, <2>0, <1>4, CancelSound DEF Kept, LetsGo
    <2> QED BY <2>4, <2>6, <2>7, <2>8
<1> QED BY <1>3, <1>4

LEMMA HandlesAreOrders ==
    ASSUME NEW w, NEW c, NEW n, Sound(w, c, n), NEW l \in Legs
    PROVE  /\ w.s.entry[l] = None \/ (w.s.entry[l] \in DOMAIN w.os /\ w.os[w.s.entry[l]].side = "BUY")
           /\ w.s.next[l] = None \/ (w.s.next[l] \in DOMAIN w.os /\ w.os[w.s.next[l]].side = "BUY")
           /\ w.s.exit[l] = None \/ w.s.exit[l] \in DOMAIN w.os
BY DEF Sound, Handled, EntriesOf, NextOf, ExitsOf, Of

\* Cancels of purchases.
LEMMA CancelEntrySound ==
    ASSUME NEW w, NEW c, NEW n, Sound(w, c, n), NEW l \in Legs,
           NEW x, x = w \/ x \in Cancel(w, w.s.entry[l])
    PROVE  /\ Sound(x, c, n) /\ Kept(w.s, x.s) /\ x.s.exit = w.s.exit
           /\ LetsGo(w.s.entry, x.s.entry) /\ LetsGo(w.s.next, x.s.next)
<1> DEFINE i == w.s.entry[l]
<1>1. i = None \/ (i \in DOMAIN w.os /\ w.os[i].side = "BUY") BY HandlesAreOrders
<1>2. CASE x = w BY <1>2 DEF Kept, LetsGo
<1>3. CASE x \in Cancel(w, i)
    <2> HIDE DEF i
    <2> QED BY <1>1, <1>3, CancelIsSound
<1> QED BY <1>2, <1>3

LEMMA CancelNextSound ==
    ASSUME NEW w, NEW c, NEW n, Sound(w, c, n), NEW l \in Legs, NEW x \in Cancel(w, w.s.next[l])
    PROVE  /\ Sound(x, c, n) /\ Kept(w.s, x.s) /\ x.s.exit = w.s.exit
           /\ LetsGo(w.s.entry, x.s.entry) /\ LetsGo(w.s.next, x.s.next)
<1> DEFINE i == w.s.next[l]
<1>1. i = None \/ (i \in DOMAIN w.os /\ w.os[i].side = "BUY") BY HandlesAreOrders
<1>2. x \in Cancel(w, i) OBVIOUS
<1> HIDE DEF i
<1> QED BY <1>1, <1>2, CancelIsSound

-----------------------------------------------------------------------------
(* The stop exit *)

\* What a stop exit leaves of the round.
SameRound(s, t) ==
    /\ t.cid = s.cid /\ t.nextCid = s.nextCid /\ t.filled = s.filled /\ t.pair = s.pair
    /\ t.nextQuoted = s.nextQuoted

LEMMA WithStatus ==
    ASSUME NEW s \in MarketT, NEW v \in Statuses
    PROVE  LET t == [s EXCEPT !.status = v]
           IN /\ t \in MarketT /\ t.status = v /\ SameRound(s, t) /\ t.taken = s.taken
              /\ t.entry = s.entry /\ t.next = s.next /\ t.exit = s.exit /\ t.xst = s.xst
BY DEF MarketT, SameRound

LEMMA StatusSound ==
    ASSUME NEW w, NEW c, NEW n, Sound(w, c, n), NEW v \in Statuses
    PROVE  LET x == [w EXCEPT !.s.status = v]
           IN /\ Sound(x, c, n) /\ SameRound(w.s, x.s) /\ x.s.status = v
              /\ x.s.taken = w.s.taken /\ x.s.exit = w.s.exit /\ x.s.entry = w.s.entry
              /\ x.s.next = w.s.next
<1> DEFINE t == [w.s EXCEPT !.status = v]
           x == [w EXCEPT !.s = t]
<1>1. w \in WorldT /\ w.s \in MarketT BY WorldFacts DEF Sound
<1>2. /\ t \in MarketT /\ t.status = v /\ SameRound(w.s, t) /\ t.taken = w.s.taken
      /\ t.entry = w.s.entry /\ t.next = w.s.next /\ t.exit = w.s.exit /\ t.xst = w.s.xst
    BY <1>1, WithStatus
<1>3. [w EXCEPT !.s.status = v] = x OBVIOUS
<1> HIDE DEF t
<1>4. /\ x \in WorldT /\ x.s = t /\ x.os = w.os /\ x.lost = w.lost /\ x.dropped = w.dropped
    BY <1>1, <1>2, WithMarket
<1> HIDE DEF x
<1>5. Sound(x, c, n) BY <1>2, <1>4, SameSound DEF SameRound
<1> QED BY <1>2, <1>3, <1>4, <1>5

LEMMA AtOnceSound ==
    ASSUME NEW w, NEW c, NEW n, Sound(w, c, n), NEW l \in Legs, NEW i,
           w.s.exit[l] = i => i \in DOMAIN w.os /\ w.os[i].st = "live",
           NEW x \in AtOnce(w, l, i)
    PROVE  Sound(x, c, n) /\ Kept(w.s, x.s) /\ x.s.exit = w.s.exit
<1>1. w \in WorldT /\ w.os \in Seq(OrderT) /\ w.s \in MarketT BY WorldFacts DEF Sound
<1>2. CASE x = w BY <1>2 DEF Kept
<1>3. CASE x # w
    <2> DEFINE q == [w.os EXCEPT ![i].st = "matched"]
               a == [w.s.xst EXCEPT ![l] = "FILLED"]
               t == [w.s EXCEPT !.xst = a]
               y == [w EXCEPT !.os = q]
    <2>1. w.s.exit[l] = i /\ x = [w EXCEPT !.os[i].st = "matched", !.s.xst[l] = "FILLED"]
        BY <1>3 DEF AtOnce
    <2>2. x = [y EXCEPT !.s = t] BY <2>1, <1>1 DEF WorldT
    <2>5. Turned(w.os, q, i, "matched") BY <1>1, <2>1, ExceptTurns
    <2>6. a \in [Legs -> Tags] /\ \A k \in Legs : k # l => a[k] = w.s.xst[k]
        BY <1>1, MarketFacts DEF Tags
    <2> HIDE DEF q, a
    <2>3. q \in Books BY <2>5 DEF Turned, Books
    <2>4. /\ y \in WorldT /\ y.s = w.s /\ y.os = q /\ y.lost = w.lost /\ y.dropped = w.dropped
        BY <1>1, <2>3, WithOrders
    <2>7. Sound(y, c, n) BY <2>1, <2>4, <2>5, MatchSound
    <2>8. /\ t \in MarketT /\ Kept(w.s, t) /\ t.entry = w.s.entry /\ t.next = w.s.next
          /\ t.exit = w.s.exit /\ t.xst = a
        BY <1>1, <2>6 DEF MarketT, Kept
    <2> HIDE DEF t, y
    <2>9. /\ x \in WorldT /\ x.s = t /\ x.os = y.os /\ x.lost = y.lost /\ x.dropped = y.dropped
        BY <2>2, <2>4, <2>8, WithMarket
    <2>10. n.books => Booked(x)
        <3> SUFFICES ASSUME n.books, NEW k \in Legs, x.s.exit[k] # None,
                            x.s.xst[k] = "FILLED" \/ x.s.taken = k
                     PROVE  x.os[x.s.exit[k]].st = "matched"
            BY DEF Booked
        <3>1. CASE k = l BY <3>1, <2>1, <2>4, <2>5, <2>8, <2>9 DEF Turned
        <3>2. CASE k # l
            BY <3>2, <2>4, <2>6, <2>7, <2>8, <2>9 DEF Sound, Booked, Kept
        <3> QED BY <3>1, <3>2
    <2>11. Sound(x, c, n) BY <2>4, <2>7, <2>8, <2>9, <2>10, BookSound DEF Kept
    <2> QED BY <2>8, <2>9, <2>11
<1> QED BY <1>2, <1>3

\* The sale of an exit: the handle is the new order's, or what it was.
LEMMA SellSound ==
    ASSUME NEW w, NEW c \in Nat, NEW n, Sound(w, c, n),
           NEW l \in Legs, NEW win \in Nat, win <= c, NEW e, e.leg = l, e.win = win,
           n.counts => w.s.exit[l] = None /\ w.s.filled[l] /\ win = c,
           n.books => w.s.taken # l,
           NEW x \in Sell(w, e)
    PROVE  /\ Sound(x, c, n) /\ Kept(w.s, x.s)
           /\ x.s.exit[l] = NewId(w) \/ x.s.exit = w.s.exit
<1>1. PICK y \in Place(w, "exit", l, "SELL", win) : x \in AtOnce(y, l, NewId(w))
    BY DEF Sell, Then, NewId
<1>3. /\ Sound(y, c, n) /\ Kept(w.s, y.s) /\ NewId(w) \notin DOMAIN w.os /\ NewId(w) \in Nat
      /\ \/ /\ y.s.exit[l] = NewId(w)
            /\ y.s.exit[l] \in DOMAIN y.os /\ y.os[y.s.exit[l]].st = "live"
         \/ y.s.exit = w.s.exit
    BY <1>1, PlaceExitSound
<1>4. NewId(w) # None BY WorldFacts DEF None, Sound, NewId
<1>5. w.s.exit[l] = None \/ w.s.exit[l] \in DOMAIN w.os BY HandlesAreOrders
<1>6. y.s.exit[l] = NewId(w) => NewId(w) \in DOMAIN y.os /\ y.os[NewId(w)].st = "live"
    BY <1>3, <1>4, <1>5
<1>7. Sound(x, c, n) /\ Kept(y.s, x.s) /\ x.s.exit = y.s.exit BY <1>1, <1>3, <1>6, AtOnceSound
<1> QED BY <1>3, <1>7 DEF Kept

\* An exit is booked only if it matched, as far as booking is promised.
LEMMA TakenSound ==
    ASSUME NEW w, NEW c, NEW n, Sound(w, c, n), NEW l \in Legs,
           n.books /\ w.s.exit[l] # None => w.os[w.s.exit[l]].st = "matched"
    PROVE  LET x == Taken(w, l)
           IN /\ Sound(x, c, n) /\ SameRound(w.s, x.s) /\ x.s.status = "STOP_EXIT"
<1> DEFINE a == [w.s.xst EXCEPT ![l] = "FILLED"]
           t == [w.s EXCEPT !.taken = l, !.status = "STOP_EXIT", !.xst = a]
           x == [w EXCEPT !.s = t]
<1>1. w \in WorldT /\ w.s \in MarketT BY WorldFacts DEF Sound
<1>2. a \in [Legs -> Tags] BY <1>1, MarketFacts DEF Tags
<1>3. \A k \in Legs : k # l => a[k] = w.s.xst[k] BY <1>1, MarketFacts
<1>4. Taken(w, l) = x BY <1>1 DEF Taken, WorldT, MarketT
<1> HIDE DEF a
<1>5. /\ t \in MarketT /\ SameRound(w.s, t) /\ t.status = "STOP_EXIT" /\ t.taken = l /\ t.xst = a
      /\ t.entry = w.s.entry /\ t.next = w.s.next /\ t.exit = w.s.exit
    BY <1>1, <1>2 DEF MarketT, SameRound, Statuses
<1> HIDE DEF t
<1>6. /\ x \in WorldT /\ x.s = t /\ x.os = w.os /\ x.lost = w.lost /\ x.dropped = w.dropped
    BY <1>1, <1>5, WithMarket
<1> HIDE DEF x
<1>7. n.books => Booked(x) BY <1>3, <1>5, <1>6 DEF Sound, Booked
<1>8. Sound(x, c, n) BY <1>5, <1>6, <1>7, BookSound DEF SameRound
<1> QED BY <1>4, <1>5, <1>6, <1>8

LEMMA PendingSound ==
    ASSUME NEW w, NEW c, NEW n, Sound(w, c, n)
    PROVE  LET x == Pending(w)
           IN /\ Sound(x, c, n) /\ SameRound(w.s, x.s)
              /\ \A l \in Legs : Exiting(w.s, l) => RoundIsOn(x.s)
<1>1. "STOP_EXIT_PENDING" \in Statuses BY DEF Statuses
<1>2. LET x == Pending(w)
      IN /\ Sound(x, c, n) /\ SameRound(w.s, x.s) /\ x.s.status = "STOP_EXIT_PENDING"
         /\ x.s.taken = w.s.taken /\ x.s.exit = w.s.exit
    BY <1>1, StatusSound DEF Pending
<1> HIDE DEF Pending
<1> QED BY <1>2 DEF Exiting, SameRound, RoundIsOn

\* The handle of an entry is let go.
LEMMA UnhandSound ==
    ASSUME NEW w, NEW c, NEW n, Sound(w, c, n), NEW l \in Legs
    PROVE  LET x == Unhand(w, l)
           IN Sound(x, c, n) /\ Kept(w.s, x.s) /\ x.s.exit = w.s.exit /\ x.os = w.os /\ x.f = w.f
<1> DEFINE h == w.s.entry[l]
           a == [w.s.entry EXCEPT ![l] = None]
           p == [w.s.est EXCEPT ![l] = "CANCELLED"]
           t == [w.s EXCEPT !.entry = a, !.est = p]
           ids == w.dropped \cup LetGo(w.os, {h})
           x == [w EXCEPT !.s = t, !.dropped = ids]
<1>1. w \in WorldT /\ w.s \in MarketT BY WorldFacts DEF Sound
<1>2. Unhand(w, l) = x BY <1>1 DEF Unhand, WorldT, MarketT
<1>3. a \in [Legs -> Nat] /\ p \in [Legs -> Tags] /\ a[l] = None
      /\ \A k \in Legs : k # l => a[k] = w.s.entry[k]
    BY <1>1, MarketFacts DEF Tags, None
<1>4. ids \in IdSets
    <2>1. {h} \subseteq Nat BY <1>1, MarketFacts
    <2> HIDE DEF h
    <2> QED BY <1>1, <2>1, LetGoIds
<1>5. w.dropped \subseteq ids /\ (h # None /\ w.os[h].st = "live" => h \in ids)
    BY DEF LetGo
<1> HIDE DEF a, p, ids
<1>6. /\ t \in MarketT /\ Kept(w.s, t) /\ t.entry = a /\ t.next = w.s.next /\ t.exit = w.s.exit
      /\ t.xst = w.s.xst
    BY <1>1, <1>3 DEF MarketT, Kept
<1> HIDE DEF t
<1>7. /\ x \in WorldT /\ x.s = t /\ x.os = w.os /\ x.lost = w.lost /\ x.dropped = ids /\ x.f = w.f
    BY <1>1, <1>4, <1>6 DEF WorldT
<1> HIDE DEF x
<1>8. LetsGo(w.s.entry, x.s.entry) /\ LetsGo(w.s.next, x.s.next) /\ LetsGo(w.s.exit, x.s.exit)
    BY <1>3, <1>6, <1>7 DEF LetsGo
<1>9. \A i \in DOMAIN w.os : w.os[i].st = "live" /\ Holds(w.s, i) /\ ~Holds(x.s, i)
                                => i \in x.dropped
    <2>1. \A i \in DOMAIN w.os : i # None BY <1>1, WorldFacts, OrderFacts
    <2>2. \A i \in DOMAIN w.os : Holds(w.s, i) /\ ~Holds(x.s, i) => i = h
        BY <1>3, <1>6, <1>7 DEF Holds
    <2> HIDE DEF h
    <2> QED BY <2>1, <2>2, <1>5, <1>7
<1>10. Sound(x, c, n) BY <1>5, <1>6, <1>7, <1>8, <1>9, LetGoSound DEF Kept
<1> QED BY <1>2, <1>6, <1>7, <1>10

\* What an exit reads is so when it reads it.
LEMMA ReadingFacts ==
    ASSUME NEW s \in MarketT, NEW l \in Legs
    PROVE  LET e == Reading(s, l)
           IN /\ e \in ExitT /\ e.leg = l /\ e.win = s.cid /\ e.id = s.exit[l]
              /\ e.other = s.entry[Opp(l)] /\ e.at \notin {"none", "read"}
              /\ Exiting(s, l) => OnCourse(e, s)
<1>1. s.cid \in Nat /\ s.exit[l] \in Nat /\ s.entry[Opp(l)] \in Nat BY MarketFacts, LegsAre
<1> QED BY <1>1 DEF Reading, ExitT, OnCourse

-----------------------------------------------------------------------------
(* The phases of the tick *)

\* What the quotes of the next window leave alone.
SameWindow(s, t) ==
    /\ t.cid = s.cid /\ t.filled = s.filled /\ t.pair = s.pair /\ t.status = s.status
    /\ t.taken = s.taken /\ t.entry = s.entry /\ t.exit = s.exit

LEMMA BothNone == \A l \in Legs : Both(None)[l] = None /\ Both(FALSE)[l] = FALSE
BY DEF Both

LEMMA NextWindowSound ==
    ASSUME NEW w, NEW c, NEW n, Sound(w, c, n), NEW next \in Nat
    PROVE  LET x == NextWindow(w, next) IN Sound(x, c, n) /\ SameWindow(w.s, x.s)
<1> SUFFICES ASSUME next # w.s.nextCid
             PROVE  LET x == NextWindow(w, next) IN Sound(x, c, n) /\ SameWindow(w.s, x.s)
    BY DEF NextWindow, SameWindow
<1> DEFINE b == Both(None)
           t == [w.s EXCEPT !.nextCid = next, !.next = b, !.nextQuoted = FALSE]
           old == {w.s.next[l] : l \in Legs}
           ids == w.dropped \cup LetGo(w.os, old)
           x == [w EXCEPT !.s = t, !.dropped = ids]
<1>1. w \in WorldT /\ w.s \in MarketT /\ w.os \in Seq(OrderT) BY WorldFacts DEF Sound
<1>2. b \in [Legs -> Nat] /\ \A l \in Legs : b[l] = None BY DEF Both, None
<1>3. ids \in IdSets
    <2>1. old \subseteq Nat BY <1>1, MarketFacts
    <2> HIDE DEF old
    <2> QED BY <1>1, <2>1, LetGoIds
<1>4. NextWindow(w, next) = x BY DEF NextWindow
<1>5. \A i \in DOMAIN w.os : w.os[i].st = "live" /\ (\E l \in Legs : w.s.next[l] = i) => i \in ids
    BY <1>1, OrderFacts DEF LetGo
<1>6. w.dropped \subseteq ids OBVIOUS
<1> HIDE DEF b, ids
<1>7. /\ t \in MarketT /\ t.cid = w.s.cid /\ t.filled = w.s.filled /\ t.pair = w.s.pair
      /\ t.status = w.s.status /\ t.taken = w.s.taken /\ t.entry = w.s.entry
      /\ t.exit = w.s.exit /\ t.xst = w.s.xst /\ t.next = b
    BY <1>1, <1>2 DEF MarketT
<1> HIDE DEF t
<1>8. /\ x \in WorldT /\ x.s = t /\ x.os = w.os /\ x.lost = w.lost /\ x.dropped = ids
    BY <1>1, <1>3, <1>7 DEF WorldT
<1> HIDE DEF x
<1>9. LetsGo(w.s.entry, x.s.entry) /\ LetsGo(w.s.next, x.s.next) /\ LetsGo(w.s.exit, x.s.exit)
    BY <1>2, <1>7, <1>8 DEF LetsGo
<1>10. \A i \in DOMAIN w.os : w.os[i].st = "live" /\ Holds(w.s, i) /\ ~Holds(x.s, i)
                                => i \in x.dropped
    BY <1>5, <1>7, <1>8 DEF Holds
<1>11. \A l \in Legs : x.s.next[l] = None BY <1>2, <1>7, <1>8
<1>12. Sound(x, c, n)
    BY <1>6, <1>7, <1>8, <1>9, <1>10, <1>11, LetGoSound
<1> QED BY <1>4, <1>7, <1>8, <1>12 DEF SameWindow

LEMMA QuotedSound ==
    ASSUME NEW w, NEW c, NEW n, Sound(w, c, n), NEW q \in BOOLEAN
    PROVE  LET x == [w EXCEPT !.s.nextQuoted = q] IN Sound(x, c, n) /\ SameWindow(w.s, x.s)
<1> DEFINE t == [w.s EXCEPT !.nextQuoted = q]
           x == [w EXCEPT !.s = t]
<1>1. w \in WorldT /\ w.s \in MarketT BY WorldFacts DEF Sound
<1>2. [w EXCEPT !.s.nextQuoted = q] = x OBVIOUS
<1>3. /\ t \in MarketT /\ SameWindow(w.s, t) /\ t.nextCid = w.s.nextCid
      /\ t.next = w.s.next /\ t.xst = w.s.xst
    BY <1>1 DEF MarketT, SameWindow
<1> HIDE DEF t
<1>4. /\ x \in WorldT /\ x.s = t /\ x.os = w.os /\ x.lost = w.lost /\ x.dropped = w.dropped
    BY <1>1, <1>3, WithMarket
<1> HIDE DEF x
<1>5. Sound(x, c, n) BY <1>3, <1>4, SameSound DEF SameWindow
<1> QED BY <1>2, <1>3, <1>4, <1>5

LEMMA QuoteAheadSound ==
    ASSUME NEW w, NEW c, NEW n, Sound(w, c, n), NEW x \in QuoteAhead(w)
    PROVE  Sound(x, c, n) /\ SameWindow(w.s, x.s)
<1>1. CASE x = w BY <1>1 DEF SameWindow
<1>2. CASE x # w
    <2> DEFINE Down(y) == PlaceIf(y, y.s.next["DOWN"] = None, "next", "DOWN", y.s.nextCid)
               up == PlaceIf(w, w.s.next["UP"] = None, "next", "UP", w.s.nextCid)
               Quoted(z) == {[z EXCEPT !.s.nextQuoted = \A l \in Legs : z.s.next[l] # None]}
    <2>1. x \in Then(Then(up, LAMBDA y : Down(y)), LAMBDA z : Quoted(z))
        BY <1>2 DEF QuoteAhead
    <2>2. \A y : Down(y) = {y} \/ (y.s.next["DOWN"] = None /\ Down(y) = Place(y, "next", "DOWN", "BUY", y.s.nextCid))
        BY DEF PlaceIf
    <2>3. up = {w} \/ (w.s.next["UP"] = None /\ up = Place(w, "next", "UP", "BUY", w.s.nextCid))
        BY DEF PlaceIf
    <2> HIDE DEF Down, up, Quoted
    <2>4. PICK z \in Then(up, LAMBDA y : Down(y)) : x \in Quoted(z) BY <2>1 DEF Then
    <2>5. PICK y \in up : z \in Down(y) BY <2>4 DEF Then
    <2>6. Sound(y, c, n) /\ SameWindow(w.s, y.s)
        BY <2>3, <2>5, PlaceNextSound, LegsAre DEF SameWindow, Kept
    <2>7. Sound(z, c, n) /\ SameWindow(y.s, z.s)
        BY <2>2, <2>5, <2>6, PlaceNextSound, LegsAre DEF SameWindow, Kept
    <2> DEFINE q == \A l \in Legs : z.s.next[l] # None
    <2>8. x = [z EXCEPT !.s.nextQuoted = q] /\ q \in BOOLEAN BY <2>4 DEF Quoted
    <2> HIDE DEF q
    <2>9. Sound(x, c, n) /\ SameWindow(z.s, x.s) BY <2>7, <2>8, QuotedSound
    <2> QED BY <2>6, <2>7, <2>9 DEF SameWindow
<1> QED BY <1>1, <1>2

LEMMA ForgetFacts ==
    ASSUME NEW s \in MarketT
    PROVE  LET t == Forget(s)
           IN /\ t \in MarketT /\ t.cid = s.cid /\ t.nextCid = s.nextCid /\ t.status = s.status
              /\ t.entry = s.entry /\ t.next = s.next /\ t.exit = s.exit /\ t.xst = s.xst
              /\ ~t.pair /\ t.taken = "none" /\ \A l \in Legs : ~t.filled[l]
<1> DEFINE b == Both(FALSE)
           t == [s EXCEPT !.filled = b, !.stop = "none", !.chased = "none",
                          !.anchored = FALSE, !.pair = FALSE, !.taken = "none"]
<1>1. b \in [Legs -> BOOLEAN] /\ \A l \in Legs : b[l] = FALSE BY DEF Both
<1>2. Forget(s) = t BY DEF Forget
<1> HIDE DEF b
<1>3. /\ t \in MarketT /\ t.cid = s.cid /\ t.nextCid = s.nextCid /\ t.status = s.status
      /\ t.entry = s.entry /\ t.next = s.next /\ t.exit = s.exit /\ t.xst = s.xst
      /\ t.pair = FALSE /\ t.taken = "none" /\ t.filled = b
    BY <1>1 DEF MarketT
<1> HIDE DEF t
<1> QED BY <1>1, <1>2, <1>3

LEMMA NewWindowFacts ==
    ASSUME NEW w \in WorldT
    PROVE  LET x == NewWindow(w)
           IN /\ x \in WorldT /\ x.os = w.os /\ x.lost = w.lost /\ x.dropped = w.dropped
              /\ x.s.entry = w.s.entry /\ x.s.next = w.s.next /\ x.s.exit = w.s.exit
              /\ x.s.xst = w.s.xst /\ ~x.s.pair /\ x.s.taken = "none"
              /\ \A l \in Legs : ~x.s.filled[l]
<1> DEFINE s == Forget(w.s)
           t == [s EXCEPT !.timeout = FALSE]
           x == [w EXCEPT !.s = t]
<1>1. w.s \in MarketT BY WorldFacts
<1>2. /\ s \in MarketT /\ s.entry = w.s.entry /\ s.next = w.s.next /\ s.exit = w.s.exit
      /\ s.xst = w.s.xst /\ ~s.pair /\ s.taken = "none" /\ \A l \in Legs : ~s.filled[l]
    BY <1>1, ForgetFacts
<1>3. NewWindow(w) = x BY DEF NewWindow
<1> HIDE DEF s
<1>4. /\ t \in MarketT /\ t.entry = s.entry /\ t.next = s.next /\ t.exit = s.exit
      /\ t.xst = s.xst /\ t.pair = s.pair /\ t.taken = s.taken /\ t.filled = s.filled
    BY <1>2 DEF MarketT
<1> HIDE DEF t
<1>5. x \in WorldT /\ x.s = t /\ x.os = w.os /\ x.lost = w.lost /\ x.dropped = w.dropped
    BY <1>4, WithMarket
<1> HIDE DEF x
<1> QED BY <1>2, <1>3, <1>4, <1>5

LEMMA PromoteSound ==
    ASSUME NEW w, NEW c \in Nat, NEW n, Sound(w, c, n), tick.win \in Nat, c < tick.win,
           NEW v \in Promote(w)
    PROVE  LET x == NewWindow(v)
           IN Sound(x, tick.win, n) /\ ~x.s.pair /\ x.s.taken = "none"
<1> DEFINE x == NewWindow(v)
<1>1. w \in WorldT /\ w.s \in MarketT /\ w.os \in Seq(OrderT) BY WorldFacts DEF Sound
<1>2. CASE Promoted(w.s)
    <2> DEFINE b == Both(None)
               e == Both("RESTING")
               nx == w.s.next
               t == [w.s EXCEPT !.entry = nx, !.est = e, !.next = b, !.nextQuoted = FALSE]
               old == {w.s.entry[l] : l \in Legs}
               ids == w.dropped \cup LetGo(w.os, old)
    <2>1. b \in [Legs -> Nat] /\ e \in [Legs -> Tags] /\ nx \in [Legs -> Nat]
          /\ \A l \in Legs : b[l] = None
        BY <1>1, MarketFacts DEF Both, None, Tags
    <2>2. ids \in IdSets
        <3>1. old \subseteq Nat BY <1>1, MarketFacts
        <3> HIDE DEF old
        <3> QED BY <1>1, <3>1, LetGoIds
    <2>3. v = [w EXCEPT !.s = t, !.dropped = ids] BY <1>2 DEF Promote
    <2>4. \A i \in DOMAIN w.os : w.os[i].st = "live" /\ (\E l \in Legs : w.s.entry[l] = i) => i \in ids
        BY <1>1, OrderFacts DEF LetGo
    <2>5. w.dropped \subseteq ids OBVIOUS
    <2>6. w.s.nextCid = tick.win BY <1>2 DEF Promoted
    <2> HIDE DEF b, e, ids, nx
    <2>7. /\ t \in MarketT /\ t.entry = nx /\ t.next = b
          /\ t.exit = w.s.exit /\ t.xst = w.s.xst
        BY <1>1, <2>1 DEF MarketT
    <2> HIDE DEF t
    <2>8. /\ v \in WorldT /\ v.s = t /\ v.os = w.os /\ v.lost = w.lost /\ v.dropped = ids
        BY <1>1, <2>2, <2>3, <2>7 DEF WorldT
    <2>9. /\ x \in WorldT /\ x.os = w.os /\ x.lost = w.lost /\ x.dropped = ids
          /\ x.s.entry = nx /\ x.s.next = b /\ x.s.exit = w.s.exit
          /\ x.s.xst = w.s.xst /\ ~x.s.pair /\ x.s.taken = "none"
          /\ \A l \in Legs : ~x.s.filled[l]
        BY <2>7, <2>8, NewWindowFacts
    <2> HIDE DEF x
    <2>10. \A i \in DOMAIN w.os : w.os[i].st = "live" /\ Holds(w.s, i) /\ ~Holds(x.s, i)
                                    => i \in x.dropped
        BY <2>4, <2>9 DEF Holds, nx
    <2>11. \A l \in Legs : x.s.entry[l] # None => x.s.entry[l] = w.s.next[l] /\ w.s.nextCid = tick.win
        BY <2>6, <2>9 DEF nx
    <2>12. Sound(x, tick.win, n)
        BY <2>1, <2>5, <2>9, <2>10, <2>11, NewWindowSound
    <2> QED BY <2>9, <2>12 DEF x
<1>3. CASE ~Promoted(w.s)
    <2> DEFINE Quit(y) == [y EXCEPT !.s.next = Both(None), !.s.nextQuoted = FALSE,
                                    !.s.entry = Both(None), !.s.est = Both("NONE"),
                                    !.dropped = @ \cup LetGo(y.os,
                                        {y.s.entry[l] : l \in Legs} \cup {y.s.next[l] : l \in Legs})]
               Down(y) == Cancel(y, y.s.next["DOWN"])
               up == Cancel(w, w.s.next["UP"])
    <2>1. v \in Then(Then(up, LAMBDA y : Down(y)), LAMBDA y : {Quit(y)}) BY <1>3 DEF Promote
    <2> HIDE DEF Down, up
    <2>2. PICK y \in Then(up, LAMBDA z : Down(z)) : v = Quit(y)
        <3> HIDE DEF Quit
        <3> QED BY <2>1 DEF Then
    <2>3. PICK z \in up : y \in Down(z) BY <2>2 DEF Then
    <2>4. Sound(z, c, n) BY <2>3, CancelNextSound, LegsAre DEF up
    <2>5. Sound(y, c, n) BY <2>3, <2>4, CancelNextSound, LegsAre DEF Down
    <2>6. y \in WorldT /\ y.s \in MarketT /\ y.os \in Seq(OrderT) BY <2>5, WorldFacts DEF Sound
    <2> DEFINE b == Both(None)
               e == Both("NONE")
               t == [y.s EXCEPT !.next = b, !.nextQuoted = FALSE, !.entry = b, !.est = e]
               old == {y.s.entry[l] : l \in Legs} \cup {y.s.next[l] : l \in Legs}
               ids == y.dropped \cup LetGo(y.os, old)
    <2>7. b \in [Legs -> Nat] /\ e \in [Legs -> Tags] /\ \A l \in Legs : b[l] = None
        BY DEF Both, None, Tags
    <2>8. ids \in IdSets
        <3>1. old \subseteq Nat BY <2>6, MarketFacts
        <3> HIDE DEF old
        <3> QED BY <2>6, <3>1, LetGoIds
    <2>9. v = [y EXCEPT !.s = t, !.dropped = ids] BY <2>2
    <2>10. \A i \in DOMAIN y.os : y.os[i].st = "live"
                /\ (\E l \in Legs : y.s.entry[l] = i \/ y.s.next[l] = i) => i \in ids
        BY <2>6, OrderFacts DEF LetGo
    <2>11. y.dropped \subseteq ids OBVIOUS
    <2> HIDE DEF b, e, ids
    <2>12. /\ t \in MarketT /\ t.entry = b /\ t.next = b
           /\ t.exit = y.s.exit /\ t.xst = y.s.xst
        BY <2>6, <2>7 DEF MarketT
    <2> HIDE DEF t
    <2>13. /\ v \in WorldT /\ v.s = t /\ v.os = y.os /\ v.lost = y.lost /\ v.dropped = ids
        BY <2>6, <2>8, <2>9, <2>12 DEF WorldT
    <2>14. /\ x \in WorldT /\ x.os = y.os /\ x.lost = y.lost /\ x.dropped = ids
           /\ x.s.entry = b /\ x.s.next = b /\ x.s.exit = y.s.exit
           /\ x.s.xst = y.s.xst /\ ~x.s.pair /\ x.s.taken = "none"
           /\ \A l \in Legs : ~x.s.filled[l]
        BY <2>12, <2>13, NewWindowFacts
    <2> HIDE DEF x
    <2>15. \A i \in DOMAIN y.os : y.os[i].st = "live" /\ Holds(y.s, i) /\ ~Holds(x.s, i)
                                    => i \in x.dropped
        BY <2>10, <2>14 DEF Holds
    <2>16. Sound(x, tick.win, n)
        BY <2>5, <2>7, <2>11, <2>14, <2>15, NewWindowSound
    <2> QED BY <2>14, <2>16 DEF x
<1> QED BY <1>2, <1>3

\* The exit of the window before is cancelled if it can be, and kept if not.
LEMMA ClearExitSound ==
    ASSUME NEW w, NEW c, NEW n, Sound(w, c, n), NEW l \in Legs, NEW x \in ClearExit(w, l)
    PROVE  Sound(x, c, n) /\ x.s.pair = w.s.pair /\ x.s.taken = w.s.taken
<1> DEFINE i == w.s.exit[l]
<1>1. PICK y \in Cancel(w, i) :
        x = [y EXCEPT !.s.xst[l] = IF y.s.exit[l] = None THEN "NONE" ELSE @]
    BY DEF ClearExit
<1>2. i = None \/ i \in DOMAIN w.os BY HandlesAreOrders
<1> HIDE DEF i
<1>3. Sound(y, c, n) /\ Kept(w.s, y.s) BY <1>1, <1>2, CancelIsSound
<1>4. y \in WorldT /\ y.s \in MarketT BY <1>3, WorldFacts DEF Sound
<1> DEFINE v == IF y.s.exit[l] = None THEN "NONE" ELSE y.s.xst[l]
           a == [y.s.xst EXCEPT ![l] = v]
           t == [y.s EXCEPT !.xst = a]
<1>5. a \in [Legs -> Tags] /\ \A k \in Legs : y.s.exit[k] = None \/ a[k] = y.s.xst[k]
    BY <1>4, MarketFacts DEF Tags
<1>6. x = [y EXCEPT !.s = t] BY <1>1
<1> HIDE DEF a
<1>7. /\ t \in MarketT /\ t.entry = y.s.entry /\ t.next = y.s.next /\ t.exit = y.s.exit
      /\ t.xst = a /\ t.pair = y.s.pair /\ t.taken = y.s.taken /\ t.filled = y.s.filled
      /\ t.nextCid = y.s.nextCid
    BY <1>4, <1>5 DEF MarketT
<1> HIDE DEF t
<1>8. x \in WorldT /\ x.s = t /\ x.os = y.os /\ x.lost = y.lost /\ x.dropped = y.dropped
    BY <1>4, <1>6, <1>7, WithMarket
<1>9. LetsGo(y.s.entry, x.s.entry) /\ LetsGo(y.s.next, x.s.next) /\ LetsGo(y.s.exit, x.s.exit)
    BY <1>7, <1>8 DEF LetsGo
<1>10. Holds(x.s, i) = Holds(y.s, i) /\ \A j : Holds(x.s, j) = Holds(y.s, j)
    BY <1>7, <1>8 DEF Holds
<1>11. Sound(x, c, n) BY <1>3, <1>5, <1>7, <1>8, <1>9, <1>10, LetGoSound
<1> QED BY <1>3, <1>7, <1>8, <1>11 DEF Kept

\* What placing and cancelling entries leaves alone.
Calm(s, t) ==
    /\ t.cid = s.cid /\ t.filled = s.filled /\ t.pair = s.pair /\ t.taken = s.taken
    /\ t.exit = s.exit
    /\ t.status = s.status \/ t.status # "STOP_EXIT_PENDING"

LEMMA CalmRound ==
    ASSUME NEW s, NEW t, RoundIsOn(s), Calm(s, t)
    PROVE  RoundIsOn(t)
BY DEF RoundIsOn, Calm, BothFilled

LEMMA FreshStartSound ==
    ASSUME NEW w, NEW c, NEW n, Sound(w, c, n), NEW mid
    PROVE  LET x == FreshStart(w, mid)
           IN Sound(x, c, n) /\ (RoundIsOn(w.s) => RoundIsOn(x.s)) /\ x.s.cid = w.s.cid
<1> DEFINE fresh == /\ w.s.pair \/ w.s.taken # "none"
                    /\ tick.at = "open" /\ mid = "in" /\ ~halted
<1>1. CASE ~fresh BY <1>1 DEF FreshStart
<1>2. CASE fresh
    <2> DEFINE b == Both(None)
               e == Both("NONE")
               s == Forget(w.s)
               t == [s EXCEPT !.entry = b, !.est = e, !.exit = b, !.xst = e]
               old == {w.s.entry[l] : l \in Legs} \cup {w.s.exit[l] : l \in Legs}
               ids == w.dropped \cup LetGo(w.os, old)
               x == [w EXCEPT !.s = t, !.dropped = ids]
    <2>1. w \in WorldT /\ w.s \in MarketT /\ w.os \in Seq(OrderT) BY WorldFacts DEF Sound
    <2>2. b \in [Legs -> Nat] /\ e \in [Legs -> Tags] /\ \A l \in Legs : b[l] = None
        BY DEF Both, None, Tags
    <2>3. ids \in IdSets
        <3>1. old \subseteq Nat BY <2>1, MarketFacts
        <3> HIDE DEF old
        <3> QED BY <2>1, <3>1, LetGoIds
    <2>4. FreshStart(w, mid) = x BY <1>2 DEF FreshStart
    <2>5. \A i \in DOMAIN w.os : w.os[i].st = "live"
                /\ (\E l \in Legs : w.s.entry[l] = i \/ w.s.exit[l] = i) => i \in ids
        BY <2>1, OrderFacts DEF LetGo
    <2>6. w.dropped \subseteq ids OBVIOUS
    <2>7. /\ s \in MarketT /\ s.cid = w.s.cid /\ s.nextCid = w.s.nextCid /\ s.status = w.s.status
          /\ s.next = w.s.next /\ ~s.pair /\ s.taken = "none" /\ \A l \in Legs : ~s.filled[l]
        BY <2>1, ForgetFacts
    <2> HIDE DEF b, e, s, ids
    <2>8. /\ t \in MarketT /\ t.cid = s.cid /\ t.nextCid = s.nextCid /\ t.status = s.status
          /\ t.next = s.next /\ t.pair = s.pair /\ t.taken = s.taken /\ t.filled = s.filled
          /\ t.entry = b /\ t.exit = b
        BY <2>2, <2>7 DEF MarketT
    <2> HIDE DEF t
    <2>9. x \in WorldT /\ x.s = t /\ x.os = w.os /\ x.lost = w.lost /\ x.dropped = ids
        BY <2>1, <2>3, <2>8 DEF WorldT
    <2> HIDE DEF x
    <2>10. LetsGo(w.s.entry, x.s.entry) /\ LetsGo(w.s.next, x.s.next) /\ LetsGo(w.s.exit, x.s.exit)
        BY <2>2, <2>7, <2>8, <2>9 DEF LetsGo
    <2>11. \A i \in DOMAIN w.os : w.os[i].st = "live" /\ Holds(w.s, i) /\ ~Holds(x.s, i)
                                    => i \in x.dropped
        BY <2>5, <2>7, <2>8, <2>9 DEF Holds
    <2>12. /\ x.s.nextCid = w.s.nextCid /\ x.s.taken = "none"
           /\ \A l \in Legs : x.s.exit[l] = None /\ x.s.entry[l] = None /\ ~x.s.filled[l]
        BY <2>2, <2>7, <2>8, <2>9
    <2>13. Sound(x, c, n) BY <2>6, <2>9, <2>10, <2>11, <2>12, LetGoSound
    <2>14. RoundIsOn(w.s) => w.s.status # "STOP_EXIT_PENDING" BY <1>2 DEF RoundIsOn
    <2>15. RoundIsOn(w.s) => RoundIsOn(x.s) BY <2>7, <2>8, <2>9, <2>14 DEF RoundIsOn
    <2> QED BY <2>4, <2>7, <2>8, <2>9, <2>13, <2>15
<1> QED BY <1>1, <1>2

LEMMA NakedIsLeg ==
    ASSUME NEW s \in MarketT, OneFilled(s)
    PROVE  Naked(s) \in Legs /\ s.filled[Naked(s)] /\ Opp(Naked(s)) \in Legs
<1>1. \E l \in Legs : s.filled[l] BY MarketFacts DEF OneFilled, Legs
<1>2. Naked(s) \in Legs /\ s.filled[Naked(s)] BY <1>1 DEF Naked
<1> QED BY <1>2, LegsAre

\* The anchor and the chase are not about the orders.
LEMMA ChaseSound ==
    ASSUME NEW w, NEW c, NEW n, Sound(w, c, n), NEW mid, NEW raise
    PROVE  LET x == [w EXCEPT !.s = Chase(Latch(@, mid), raise)]
           IN Sound(x, c, n) /\ Calm(w.s, x.s)
<1> DEFINE a == w.s.anchored \/ (NoEntry(w.s) /\ mid = "in" /\ tick.at # "dead")
           s == [w.s EXCEPT !.anchored = a]
           d == IF s.pair \/ s.taken # "none" \/ ~OneFilled(s) THEN "none"
                ELSE IF raise THEN Opp(Naked(s)) ELSE s.chased
           t == [s EXCEPT !.chased = d]
           x == [w EXCEPT !.s = t]
<1>1. w \in WorldT /\ w.s \in MarketT BY WorldFacts DEF Sound
<1>2. a \in BOOLEAN BY <1>1, MarketFacts
<1>3. [w EXCEPT !.s = Chase(Latch(@, mid), raise)] = x BY DEF Chase, Latch
<1> HIDE DEF a
<1>4. /\ s \in MarketT /\ Calm(w.s, s) /\ s.entry = w.s.entry /\ s.next = w.s.next
      /\ s.xst = w.s.xst /\ s.nextCid = w.s.nextCid
    BY <1>1, <1>2 DEF MarketT, Calm
<1> HIDE DEF s
<1>5. d \in Legs \cup {"none"} BY <1>4, NakedIsLeg, MarketFacts
<1> HIDE DEF d
<1>6. /\ t \in MarketT /\ Calm(s, t) /\ t.entry = s.entry /\ t.next = s.next
      /\ t.xst = s.xst /\ t.nextCid = s.nextCid /\ t.status = s.status
    BY <1>4, <1>5 DEF MarketT, Calm
<1> HIDE DEF t
<1>7. x \in WorldT /\ x.s = t /\ x.os = w.os /\ x.lost = w.lost /\ x.dropped = w.dropped
    BY <1>1, <1>6, WithMarket
<1> HIDE DEF x
<1>8. Sound(x, c, n) BY <1>4, <1>6, <1>7, SameSound DEF Calm
<1> QED BY <1>3, <1>4, <1>6, <1>7, <1>8 DEF Calm

LEMMA TimedOutSound ==
    ASSUME NEW w, NEW c, NEW n, Sound(w, c, n)
    PROVE  LET x == [w EXCEPT !.s.timeout = TRUE, !.s.status = "DEAD_ZONE_NO_FILL"]
           IN Sound(x, c, n) /\ Calm(w.s, x.s)
<1> DEFINE t == [w.s EXCEPT !.timeout = TRUE, !.status = "DEAD_ZONE_NO_FILL"]
           x == [w EXCEPT !.s = t]
<1>1. w \in WorldT /\ w.s \in MarketT BY WorldFacts DEF Sound
<1>2. [w EXCEPT !.s.timeout = TRUE, !.s.status = "DEAD_ZONE_NO_FILL"] = x
    BY <1>1 DEF WorldT
<1>3. /\ t \in MarketT /\ Calm(w.s, t) /\ t.entry = w.s.entry /\ t.next = w.s.next
      /\ t.xst = w.s.xst /\ t.nextCid = w.s.nextCid
    BY <1>1 DEF MarketT, Calm, Statuses
<1> HIDE DEF t
<1>4. x \in WorldT /\ x.s = t /\ x.os = w.os /\ x.lost = w.lost /\ x.dropped = w.dropped
    BY <1>1, <1>3, WithMarket
<1> HIDE DEF x
<1>5. Sound(x, c, n) BY <1>3, <1>4, SameSound DEF Calm
<1> QED BY <1>2, <1>3, <1>4, <1>5

LEMMA DeadZoneSound ==
    ASSUME NEW w, NEW c, NEW n, Sound(w, c, n), NEW x \in DeadZoneCancel(w)
    PROVE  Sound(x, c, n) /\ Calm(w.s, x.s)
<1> DEFINE resting(l) == w.s.entry[l] # None /\ w.s.est[l] = "RESTING"
           up == CancelIf(w, resting("UP"), w.s.entry["UP"])
           Down(y) == CancelIf(y, resting("DOWN"), y.s.entry["DOWN"])
           failed(y) == \E l \in Legs : resting(l) /\ y.s.entry[l] # None
           Out(y) == [y EXCEPT !.s.timeout = TRUE, !.s.status = "DEAD_ZONE_NO_FILL"]
           done == Then(up, LAMBDA y : Down(y))
<1>1. CASE x = w BY <1>1 DEF Calm
<1>2. CASE x # w
    <2>1. \E y \in done : x = (IF failed(y) THEN y ELSE Out(y)) BY <1>2 DEF DeadZoneCancel
    <2>2. \A y : Down(y) \in {{y}, Cancel(y, y.s.entry["DOWN"])} BY DEF CancelIf
    <2>3. up \in {{w}, Cancel(w, w.s.entry["UP"])} BY DEF CancelIf
    <2> HIDE DEF up, Down, failed, Out
    <2>4. PICK y \in done : x = y \/ x = Out(y) BY <2>1
    <2>5. PICK z \in up : y \in Down(z) BY <2>4 DEF Then
    <2>6. Sound(z, c, n) /\ Calm(w.s, z.s)
        <3>1. z = w \/ z \in Cancel(w, w.s.entry["UP"]) BY <2>3, <2>5
        <3> QED BY <3>1, CancelEntrySound, LegsAre DEF Calm, Kept
    <2>7. Sound(y, c, n) /\ Calm(z.s, y.s)
        <3>1. y = z \/ y \in Cancel(z, z.s.entry["DOWN"]) BY <2>2, <2>5
        <3> QED BY <3>1, <2>6, CancelEntrySound, LegsAre DEF Calm, Kept
    <2>8. Sound(x, c, n) /\ Calm(y.s, x.s)
        <3>1. CASE x = y BY <3>1, <2>7 DEF Calm
        <3>2. CASE x = Out(y) BY <3>2, <2>7, TimedOutSound DEF Out
        <3> QED BY <3>1, <3>2, <2>4
    <2> QED BY <2>6, <2>7, <2>8 DEF Calm
<1> QED BY <1>1, <1>2

LEMMA PlaceEntriesSound ==
    ASSUME NEW w, NEW c \in Nat, NEW n, Sound(w, c, n), w.s.cid = c,
           NEW x \in PlaceEntries(w)
    PROVE  Sound(x, c, n) /\ Calm(w.s, x.s)
<1> DEFINE Up(y) == PlaceIf(y, y.s.entry["UP"] = None, "entry", "UP", y.s.cid)
           Down(y) == PlaceIf(y, y.s.entry["DOWN"] = None, "entry", "DOWN", y.s.cid)
           Open(z) == [z EXCEPT !.s.status = IF @ = "IDLE" THEN "QUOTING" ELSE @]
           Last(y) == {Open(z) : z \in Down(y)}
<1>1. x \in Then(Then(Requote(w), LAMBDA y : Up(y)), LAMBDA y : Last(y))
    BY DEF PlaceEntries
<1>2. \A y : Up(y) = {y} \/ (y.s.entry["UP"] = None /\ Up(y) = Place(y, "entry", "UP", "BUY", y.s.cid))
    BY DEF PlaceIf
<1>3. \A y : Down(y) = {y} \/ (y.s.entry["DOWN"] = None /\ Down(y) = Place(y, "entry", "DOWN", "BUY", y.s.cid))
    BY DEF PlaceIf
<1> HIDE DEF Up, Down, Open
<1>4. PICK y \in Then(Requote(w), LAMBDA v : Up(v)) : x \in Last(y)
    <2> HIDE DEF Last
    <2> QED BY <1>1 DEF Then
<1>5. PICK v \in Requote(w) : y \in Up(v) BY <1>4 DEF Then
<1>6. PICK z \in Down(y) : x = Open(z) BY <1>4
<1>7. Sound(v, c, n) /\ Calm(w.s, v.s)
    <2>1. w.s \in MarketT BY WorldFacts DEF Sound
    <2>2. v = w \/ \E l \in Legs : v \in Cancel(w, w.s.entry[l])
        BY <2>1, <1>5, MarketFacts DEF Requote, CancelIf
    <2> QED BY <2>2, CancelEntrySound DEF Calm, Kept
<1>8. Sound(y, c, n) /\ Calm(v.s, y.s)
    <2>1. v.s.cid = c BY <1>7 DEF Calm
    <2> QED BY <2>1, <1>2, <1>5, <1>7, PlaceEntrySound, LegsAre DEF Calm, Kept
<1>9. Sound(z, c, n) /\ Calm(y.s, z.s)
    <2>1. y.s.cid = c BY <1>7, <1>8 DEF Calm
    <2> QED BY <2>1, <1>3, <1>6, <1>8, PlaceEntrySound, LegsAre DEF Calm, Kept
<1>10. Sound(x, c, n) /\ Calm(z.s, x.s)
    <2> DEFINE q == IF z.s.status = "IDLE" THEN "QUOTING" ELSE z.s.status
    <2>1. z.s \in MarketT BY <1>9, WorldFacts DEF Sound
    <2>2. q \in Statuses /\ (q = z.s.status \/ q # "STOP_EXIT_PENDING")
        BY <2>1, MarketFacts DEF Statuses
    <2>3. x = [z EXCEPT !.s.status = q] BY <1>6 DEF Open
    <2> HIDE DEF q
    <2> QED BY <1>9, <2>2, <2>3, StatusSound DEF Calm, SameRound
<1> QED BY <1>7, <1>8, <1>9, <1>10 DEF Calm

\* A fill that is told, whatever else is noted with it.
LEMMA FilledSound ==
    ASSUME NEW w, NEW c, NEW n, Sound(w, c, n),
           NEW l \in Legs, w.s.entry[l] # None, w.os[w.s.entry[l]].st = "matched",
           NEW t \in MarketT, Put(w.s.filled, t.filled, l, TRUE),
           t.cid = w.s.cid, t.nextCid = w.s.nextCid, t.pair = w.s.pair, t.taken = w.s.taken,
           t.entry = w.s.entry, t.next = w.s.next, t.exit = w.s.exit, t.xst = w.s.xst,
           t.status # "STOP_EXIT_PENDING"
    PROVE  LET x == [w EXCEPT !.s = t]
           IN Sound(x, c, n) /\ (RoundIsOn(w.s) => RoundIsOn(x.s)) /\ x.s.cid = w.s.cid
<1> DEFINE x == [w EXCEPT !.s = t]
<1>1. w \in WorldT BY DEF Sound
<1>2. x \in WorldT /\ x.s = t /\ x.os = w.os /\ x.lost = w.lost /\ x.dropped = w.dropped
    BY <1>1, WithMarket
<1> HIDE DEF x
<1>3. Sound(x, c, n) BY <1>2, FillSound
<1>4. RoundIsOn(w.s) => RoundIsOn(x.s) BY <1>2 DEF RoundIsOn, BothFilled, Put
<1> QED BY <1>2, <1>3, <1>4 DEF x

LEMMA FillFacts ==
    ASSUME NEW s \in MarketT, NEW l \in Legs
    PROVE  LET t == Fill(s, l)
           IN /\ t \in MarketT /\ Put(s.filled, t.filled, l, TRUE)
              /\ t.cid = s.cid /\ t.nextCid = s.nextCid /\ t.pair = s.pair /\ t.taken = s.taken
              /\ t.entry = s.entry /\ t.next = s.next /\ t.exit = s.exit /\ t.xst = s.xst
              /\ t.est = s.est /\ t.stop = s.stop
              /\ t.status # "STOP_EXIT_PENDING"
<1> DEFINE g == [s.filled EXCEPT ![l] = TRUE]
           q == IF l = "UP" THEN "FILLED_UP" ELSE "FILLED_DOWN"
           t == [s EXCEPT !.filled = g, !.status = q]
<1>1. g \in [Legs -> BOOLEAN] /\ Put(s.filled, g, l, TRUE) BY MarketFacts DEF Put
<1>2. q \in Statuses /\ q # "STOP_EXIT_PENDING" BY DEF Statuses
<1>3. Fill(s, l) = t BY DEF Fill
<1> HIDE DEF g, q
<1>4. /\ t \in MarketT /\ t.filled = g /\ t.status = q
      /\ t.cid = s.cid /\ t.nextCid = s.nextCid /\ t.pair = s.pair /\ t.taken = s.taken
      /\ t.entry = s.entry /\ t.next = s.next /\ t.exit = s.exit /\ t.xst = s.xst
      /\ t.est = s.est /\ t.stop = s.stop
    BY <1>1, <1>2 DEF MarketT
<1> QED BY <1>1, <1>2, <1>3, <1>4

\* What a fill may note besides: the state it was told, the stop, the merged pair.
Noting(s, t) ==
    /\ t.cid = s.cid /\ t.nextCid = s.nextCid /\ t.pair = s.pair /\ t.taken = s.taken
    /\ t.filled = s.filled
    /\ t.entry = s.entry /\ t.next = s.next /\ t.exit = s.exit /\ t.xst = s.xst
    /\ t.status = s.status \/ t.status # "STOP_EXIT_PENDING"

LEMMA EstFacts ==
    ASSUME NEW s \in MarketT, NEW l \in Legs, NEW v \in Tags
    PROVE  LET t == [s EXCEPT !.est[l] = v] IN t \in MarketT /\ Noting(s, t) /\ t.status = s.status
<1> DEFINE e == [s.est EXCEPT ![l] = v]
           t == [s EXCEPT !.est = e]
<1>1. e \in [Legs -> Tags] BY MarketFacts
<1>2. [s EXCEPT !.est[l] = v] = t OBVIOUS
<1> HIDE DEF e
<1>3. t \in MarketT /\ Noting(s, t) /\ t.status = s.status BY <1>1 DEF MarketT, Noting
<1> QED BY <1>2, <1>3

LEMMA StageFacts ==
    ASSUME NEW s \in MarketT, NEW l \in Legs
    PROVE  LET t == Stage(s, l) IN t \in MarketT /\ Noting(s, t) /\ t.status = s.status
<1> DEFINE v == IF s.stop = "none" THEN l ELSE s.stop
           t == [s EXCEPT !.stop = v]
<1>1. v \in Legs \cup {"none"} BY MarketFacts
<1>2. Stage(s, l) = t BY DEF Stage
<1> HIDE DEF v
<1>3. t \in MarketT /\ Noting(s, t) /\ t.status = s.status BY <1>1 DEF MarketT, Noting
<1> QED BY <1>2, <1>3

LEMMA AskEntrySound ==
    ASSUME NEW w, NEW c, NEW n, Sound(w, c, n), NEW l \in Legs,
           NEW x \in AskEntry(w, l)
    PROVE  Sound(x, c, n) /\ (RoundIsOn(w.s) => RoundIsOn(x.s)) /\ x.s.cid = w.s.cid
<1> DEFINE s == [Fill(w.s, l) EXCEPT !.est[l] = "FILLED"]
           t == IF l = "DOWN" /\ s.filled["UP"] THEN [s EXCEPT !.status = "PAIR_MERGED"]
                ELSE Stage(s, l)
<1>1. w \in WorldT /\ w.s \in MarketT /\ w.f + 1 \in Nat BY WorldFacts DEF Sound
<1>2. CASE x = w BY <1>2
<1>3. CASE x = [w EXCEPT !.f = w.f + 1]
    <2>1. x \in WorldT /\ x.s = w.s /\ x.os = w.os /\ x.lost = w.lost /\ x.dropped = w.dropped
        BY <1>1, <1>3, WithFault
    <2> QED BY <2>1, SameSound
<1>4. CASE w.s.entry[l] # None /\ w.os[w.s.entry[l]].st = "matched" /\ x = [w EXCEPT !.s = t]
    <2> DEFINE u == Fill(w.s, l)
    <2>1. /\ u \in MarketT /\ Put(w.s.filled, u.filled, l, TRUE)
          /\ u.cid = w.s.cid /\ u.nextCid = w.s.nextCid /\ u.pair = w.s.pair
          /\ u.taken = w.s.taken /\ u.entry = w.s.entry /\ u.next = w.s.next
          /\ u.exit = w.s.exit /\ u.xst = w.s.xst /\ u.status # "STOP_EXIT_PENDING"
        BY <1>1, FillFacts
    <2>2. "FILLED" \in Tags /\ "PAIR_MERGED" \in Statuses BY DEF Tags, Statuses
    <2> HIDE DEF u
    <2>3. s = [u EXCEPT !.est[l] = "FILLED"] BY DEF u
    <2> HIDE DEF s
    <2>4. s \in MarketT /\ Noting(u, s) BY <2>1, <2>2, <2>3, EstFacts
    <2>5. t \in MarketT /\ Noting(s, t)
        <3>1. CASE l = "DOWN" /\ s.filled["UP"]
            <4> DEFINE z == [s EXCEPT !.status = "PAIR_MERGED"]
            <4>1. z \in MarketT /\ Noting(s, z) BY <2>2, <2>4 DEF MarketT, Noting
            <4> QED BY <3>1, <4>1
        <3>2. CASE ~(l = "DOWN" /\ s.filled["UP"]) BY <3>2, <2>4, StageFacts
        <3> QED BY <3>1, <3>2
    <2> HIDE DEF t
    <2>6. /\ Put(w.s.filled, t.filled, l, TRUE)
          /\ t.cid = w.s.cid /\ t.nextCid = w.s.nextCid /\ t.pair = w.s.pair
          /\ t.taken = w.s.taken /\ t.entry = w.s.entry /\ t.next = w.s.next
          /\ t.exit = w.s.exit /\ t.xst = w.s.xst /\ t.status # "STOP_EXIT_PENDING"
        BY <2>1, <2>4, <2>5 DEF Noting
    <2> QED BY <1>4, <2>5, <2>6, FilledSound
<1>5. \/ x = w \/ x = [w EXCEPT !.f = w.f + 1]
      \/ w.s.entry[l] # None /\ w.os[w.s.entry[l]].st = "matched" /\ x = [w EXCEPT !.s = t]
    BY DEF AskEntry
<1> QED BY <1>2, <1>3, <1>4, <1>5

LEMMA MergeSound ==
    ASSUME NEW w, NEW c, NEW n, Sound(w, c, n), BothFilled(w.s)
    PROVE  LET x == Merge(w)
           IN Sound(x, c, n) /\ (RoundIsOn(w.s) => RoundIsOn(x.s)) /\ x.s.cid = w.s.cid
<1> DEFINE a == IF w.s.pair THEN w.s.stop ELSE "none"
           q == IF w.s.pair THEN w.s.status ELSE "PAIR_MERGED"
           t == [w.s EXCEPT !.chased = "none", !.stop = a, !.pair = TRUE, !.status = q]
           x == [w EXCEPT !.s = t]
<1>1. w \in WorldT /\ w.s \in MarketT BY WorldFacts DEF Sound
<1>2. a \in Legs \cup {"none"} /\ q \in Statuses BY <1>1, MarketFacts DEF Statuses
<1>3. RoundIsOn(w.s) => q # "STOP_EXIT_PENDING" BY DEF RoundIsOn
<1>4. Merge(w) = x
    <2>1. [w EXCEPT !.s.chased = "none", !.s.stop = a, !.s.pair = TRUE, !.s.status = q] = x
        BY <1>1 DEF WorldT, MarketT
    <2> QED BY <2>1 DEF Merge
<1> HIDE DEF a, q
<1>5. /\ t \in MarketT /\ t.status = q /\ t.cid = w.s.cid /\ t.nextCid = w.s.nextCid
      /\ t.filled = w.s.filled /\ t.taken = w.s.taken /\ t.entry = w.s.entry
      /\ t.next = w.s.next /\ t.exit = w.s.exit /\ t.xst = w.s.xst
    BY <1>1, <1>2 DEF MarketT
<1> HIDE DEF t
<1>6. x \in WorldT /\ x.s = t /\ x.os = w.os /\ x.lost = w.lost /\ x.dropped = w.dropped
    BY <1>1, <1>5, WithMarket
<1> HIDE DEF x
<1>7. Sound(x, c, n) BY <1>5, <1>6, SameSound
<1>8. RoundIsOn(w.s) => RoundIsOn(x.s) BY <1>3, <1>5, <1>6 DEF RoundIsOn, BothFilled
<1> QED BY <1>4, <1>5, <1>6, <1>7, <1>8

LEMMA TriggerSound ==
    ASSUME NEW w, NEW c, NEW n, Sound(w, c, n)
    PROVE  LET x == Trigger(w)
           IN /\ Sound(x, c, n) /\ SameRound(w.s, x.s) /\ x.s.entry = w.s.entry /\ x.s.exit = w.s.exit
              /\ \A l \in Legs : Exiting(w.s, l) => RoundIsOn(x.s) /\ Exiting(x.s, l)
<1> DEFINE t == [w.s EXCEPT !.status = "STOP_EXIT_PENDING", !.stop = "none"]
           x == [w EXCEPT !.s = t]
<1>1. w \in WorldT /\ w.s \in MarketT BY WorldFacts DEF Sound
<1>2. Trigger(w) = x BY <1>1 DEF Trigger, WorldT, MarketT
<1>3. /\ t \in MarketT /\ SameRound(w.s, t) /\ t.taken = w.s.taken /\ t.entry = w.s.entry
      /\ t.next = w.s.next /\ t.exit = w.s.exit /\ t.xst = w.s.xst
    BY <1>1 DEF MarketT, SameRound, Statuses
<1> HIDE DEF t
<1>4. x \in WorldT /\ x.s = t /\ x.os = w.os /\ x.lost = w.lost /\ x.dropped = w.dropped
    BY <1>1, <1>3, WithMarket
<1> HIDE DEF x
<1>5. Sound(x, c, n) BY <1>3, <1>4, SameSound DEF SameRound
<1>6. \A l \in Legs : Exiting(w.s, l) => Exiting(x.s, l) BY <1>3, <1>4 DEF Exiting, SameRound
<1>7. \A l \in Legs : Exiting(x.s, l) => RoundIsOn(x.s) BY DEF Exiting, RoundIsOn
<1> QED BY <1>2, <1>3, <1>4, <1>5, <1>6, <1>7

-----------------------------------------------------------------------------
(* The stream *)

LEMMA NotingSound ==
    ASSUME NEW w, NEW c, NEW n, Sound(w, c, n), NEW t \in MarketT, Noting(w.s, t)
    PROVE  LET x == [w EXCEPT !.s = t] IN Sound(x, c, n) /\ (RoundIsOn(w.s) => RoundIsOn(x.s))
<1> DEFINE x == [w EXCEPT !.s = t]
<1>1. w \in WorldT BY DEF Sound
<1>2. x \in WorldT /\ x.s = t /\ x.os = w.os /\ x.lost = w.lost /\ x.dropped = w.dropped
    BY <1>1, WithMarket
<1> HIDE DEF x
<1>3. Sound(x, c, n) BY <1>2, SameSound DEF Noting
<1>4. RoundIsOn(w.s) => RoundIsOn(x.s) BY <1>2 DEF RoundIsOn, BothFilled, Noting
<1> QED BY <1>3, <1>4 DEF x

\* An event is of the leg whose order it names, and of no leg when no handle has it.
LEMMA EventSound ==
    ASSUME NEW w, NEW c, NEW n, Sound(w, c, n), NEW i \in DOMAIN w.os,
           NEW st \in {"LIVE", "MATCHED", "CANCELED"},
           st = "MATCHED" => w.os[i].st = "matched",
           NEW t, t = Event(w.s, i, st)
    PROVE  LET x == [w EXCEPT !.s = t]
           IN /\ Sound(x, c, n) /\ (RoundIsOn(w.s) => RoundIsOn(x.s)) /\ x.s = t
              /\ t.cid = w.s.cid /\ t.taken = w.s.taken /\ t.pair = w.s.pair /\ t.entry = w.s.entry /\ t.exit = w.s.exit
              /\ \A l \in Legs : t.filled[l] => w.s.filled[l] \/ w.s.entry[l] # None
              /\ \A l \in Legs : w.s.filled[l] => t.filled[l]
<1> DEFINE legs == {l \in Legs : w.s.entry[l] = i}
           l == CHOOSE k \in legs : TRUE
           told == [w.s EXCEPT !.est[l] = st]
           full == IF st = "MATCHED" THEN Fill(told, l) ELSE told
           last == IF OneFilled(full) /\ full.taken = "none" THEN Stage(full, Naked(full)) ELSE full
           a == [k \in Legs |-> IF w.s.exit[k] = i THEN st ELSE w.s.xst[k]]
           x == [w EXCEPT !.s = t]
<1>1. w \in WorldT /\ w.s \in MarketT /\ w.os \in Seq(OrderT) BY WorldFacts DEF Sound
<1>2. i # None /\ st \in Tags /\ st # "FILLED" BY <1>1, OrderFacts DEF Tags
<1>3. t = IF legs # {} THEN last ELSE [w.s EXCEPT !.xst = a] BY DEF Event
<1>4. CASE legs # {}
    <2>1. l \in Legs /\ w.s.entry[l] = i /\ w.s.entry[l] # None BY <1>2, <1>4
    <2> HIDE DEF l, legs
    <2>2. told \in MarketT /\ Noting(w.s, told) BY <1>1, <1>2, <2>1, EstFacts
    <2> HIDE DEF told
    <2>3. full \in MarketT
          /\ \/ Noting(w.s, full)
             \/ /\ w.os[i].st = "matched" /\ Put(w.s.filled, full.filled, l, TRUE)
                /\ full.cid = w.s.cid /\ full.nextCid = w.s.nextCid /\ full.pair = w.s.pair
                /\ full.taken = w.s.taken /\ full.entry = w.s.entry /\ full.next = w.s.next
                /\ full.exit = w.s.exit /\ full.xst = w.s.xst
                /\ full.status # "STOP_EXIT_PENDING"
        <3>1. CASE st = "MATCHED"
            <4> DEFINE u == Fill(told, l)
            <4>1. /\ u \in MarketT /\ Put(told.filled, u.filled, l, TRUE)
                  /\ u.cid = told.cid /\ u.nextCid = told.nextCid /\ u.pair = told.pair
                  /\ u.taken = told.taken /\ u.entry = told.entry /\ u.next = told.next
                  /\ u.exit = told.exit /\ u.xst = told.xst /\ u.status # "STOP_EXIT_PENDING"
                BY <2>1, <2>2, FillFacts
            <4>2. full = u /\ w.os[i].st = "matched" BY <3>1
            <4> HIDE DEF u
            <4> QED BY <2>2, <4>1, <4>2 DEF Noting
        <3>2. CASE st # "MATCHED" BY <2>2, <3>2
        <3> QED BY <3>1, <3>2
    <2> HIDE DEF full
    <2>4. last \in MarketT /\ Noting(full, last)
        <3>1. CASE OneFilled(full) /\ full.taken = "none"
            BY <2>3, <3>1, NakedIsLeg, StageFacts
        <3>2. CASE ~(OneFilled(full) /\ full.taken = "none") BY <2>3, <3>2 DEF Noting
        <3> QED BY <3>1, <3>2
    <2>5. t = last BY <1>3, <1>4
    <2> HIDE DEF last
    <2>6. CASE Noting(w.s, full)
        <3>1. t \in MarketT /\ Noting(w.s, t) BY <2>4, <2>5, <2>6 DEF Noting
        <3>2. Sound(x, c, n) /\ (RoundIsOn(w.s) => RoundIsOn(x.s)) BY <3>1, NotingSound
        <3>3. x.s = t BY <1>1, <3>1, WithMarket
        <3> QED BY <3>1, <3>2, <3>3 DEF Noting
    <2>7. CASE /\ w.os[i].st = "matched" /\ Put(w.s.filled, full.filled, l, TRUE)
               /\ full.cid = w.s.cid /\ full.nextCid = w.s.nextCid /\ full.pair = w.s.pair
               /\ full.taken = w.s.taken /\ full.entry = w.s.entry /\ full.next = w.s.next
               /\ full.exit = w.s.exit /\ full.xst = w.s.xst
               /\ full.status # "STOP_EXIT_PENDING"
        <3>1. /\ t \in MarketT /\ Put(w.s.filled, t.filled, l, TRUE)
              /\ t.cid = w.s.cid /\ t.nextCid = w.s.nextCid /\ t.pair = w.s.pair
              /\ t.taken = w.s.taken /\ t.entry = w.s.entry /\ t.next = w.s.next
              /\ t.exit = w.s.exit /\ t.xst = w.s.xst /\ t.status # "STOP_EXIT_PENDING"
            BY <2>4, <2>5, <2>7 DEF Noting
        <3>2. w.os[w.s.entry[l]].st = "matched" BY <2>1, <2>7
        <3>3. Sound(x, c, n) /\ (RoundIsOn(w.s) => RoundIsOn(x.s)) BY <2>1, <3>1, <3>2, FilledSound
        <3>4. x.s = t BY <1>1, <3>1, WithMarket
        <3>5. \A k \in Legs : /\ t.filled[k] => w.s.filled[k] \/ w.s.entry[k] # None
                              /\ w.s.filled[k] => t.filled[k]
            BY <2>1, <3>1 DEF Put
        <3> QED BY <3>1, <3>3, <3>4, <3>5
    <2> QED BY <2>3, <2>6, <2>7
<1>5. CASE legs = {}
    <2>1. a \in [Legs -> Tags] BY <1>1, <1>2, MarketFacts
    <2>2. \A k \in Legs : a[k] = "FILLED" => w.s.xst[k] = "FILLED" BY <1>2
    <2>3. t = [w.s EXCEPT !.xst = a] BY <1>3, <1>5
    <2> HIDE DEF a, legs
    <2>4. /\ t \in MarketT /\ t.cid = w.s.cid /\ t.nextCid = w.s.nextCid /\ t.pair = w.s.pair
          /\ t.taken = w.s.taken /\ t.filled = w.s.filled /\ t.entry = w.s.entry
          /\ t.next = w.s.next /\ t.exit = w.s.exit /\ t.status = w.s.status /\ t.xst = a
        BY <1>1, <2>1, <2>3 DEF MarketT
    <2>5. x \in WorldT /\ x.s = t /\ x.os = w.os /\ x.lost = w.lost /\ x.dropped = w.dropped
        BY <1>1, <2>4, WithMarket
    <2> HIDE DEF x
    <2>6. n.books => Booked(x) BY <2>2, <2>4, <2>5 DEF Sound, Booked
    <2>12. Sound(x, c, n) BY <2>4, <2>5, <2>6, BookSound
    <2>13. RoundIsOn(w.s) => RoundIsOn(x.s) BY <2>4, <2>5 DEF RoundIsOn, BothFilled
    <2> QED BY <2>4, <2>5, <2>12, <2>13 DEF x
<1> QED BY <1>4, <1>5

-----------------------------------------------------------------------------
(* The first window *)

LEMMA FirstWindowSound ==
    ASSUME NEW w, NEW x \in WorldT, NEW d \in Nat, NEW n, Sound(w, None, n), d > 0,
           \A l \in Legs : w.s.entry[l] = None /\ w.s.exit[l] = None /\ ~w.s.filled[l],
           x.os = w.os, x.lost = w.lost, x.dropped = w.dropped,
           x.s.entry = w.s.entry, x.s.next = w.s.next, x.s.exit = w.s.exit,
           x.s.filled = w.s.filled, x.s.xst = w.s.xst, x.s.taken = w.s.taken,
           x.s.nextCid = w.s.nextCid
    PROVE  Sound(x, d, n)
<1>0. w.os \in Seq(OrderT) BY WorldFacts DEF Sound
<1>1. \A i \in DOMAIN w.os : w.os[i].win \in Nat BY <1>0, OrderFacts
<1>2. \A i \in DOMAIN w.os : w.os[i].side = "SELL" => w.os[i].win < d
    BY <1>1 DEF Sound, Handled, SalesUpTo, None
<1>3. Handled(x, d)
    <2>1. EntriesOf(x, d) BY DEF EntriesOf
    <2>2. NextOf(x) /\ ExitsOf(x) BY DEF Sound, Handled, NextOf, ExitsOf
    <2>3. SalesUpTo(x, d) BY <1>1, <1>2 DEF SalesUpTo
    <2> QED BY <2>1, <2>2, <2>3 DEF Handled
<1>4. Known(x) BY DEF Sound, Known, Holds
<1>5. Backed(x, d) /\ Booked(x) BY DEF Backed, Booked
<1>6. Counted(x, d)
    <2> SUFFICES ASSUME NEW k \in Legs
                 PROVE  Cardinality(Sold(x.os, k, d)) + Left(x, k, d)
                            <= Cardinality(Bought(x.os, k, d))
        BY DEF Counted
    <2>1. Sold(x.os, k, d) = {} BY <1>1, <1>2 DEF Sold
    <2>2. Cardinality(Sold(x.os, k, d)) = 0 BY <2>1, FS_EmptySet
    <2>3. Cardinality(Bought(x.os, k, d)) \in Nat BY <1>0, CountsFinite
    <2>4. Left(x, k, d) = 0 BY DEF Left, ToSell
    <2> QED BY <2>2, <2>3, <2>4
<1>30. Purchases(x.os, n.read) BY DEF Sound
<1> QED BY <1>3, <1>4, <1>5, <1>6, <1>30 DEF Sound

-----------------------------------------------------------------------------
(* The actions *)

LEMMA WorldOfState ==
    ASSUME LiveInv
    PROVE  /\ World.s = m /\ World.os = orders /\ World.lost = lost /\ World.dropped = dropped
           /\ m \in MarketT /\ orders \in Seq(OrderT) /\ m.cid \in Nat
           /\ spent \in [faults : Nat, stops : Nat] /\ spent.stops \in Nat
           /\ clock.win \in Nat \ {0} /\ tick.win \in Nat \ {0}
           /\ exits \in [Threads -> ExitT] /\ raced \in BOOLEAN
<1>1. World.s = m /\ World.os = orders /\ World.lost = lost /\ World.dropped = dropped
    BY DEF World
<1>2. World \in WorldT /\ spent \in [faults : Nat, stops : Nat] /\ clock \in ClockT /\ tick \in ClockT
      /\ exits \in [Threads -> ExitT] /\ raced \in BOOLEAN
    BY DEF LiveInv, LiveTypes, UnderWay
<1>3. m \in MarketT /\ orders \in Seq(OrderT) BY <1>1, <1>2, WorldFacts
<1>4. m.cid \in Nat BY <1>3, MarketFacts
<1>5. clock.win \in Nat \ {0} /\ tick.win \in Nat \ {0} BY <1>2 DEF ClockT
<1> QED BY <1>1, <1>2, <1>3, <1>4, <1>5

\* One exit goes on to e.
LEMMA ExitFacts ==
    ASSUME NEW x \in [Threads -> ExitT], NEW t \in Threads, NEW e \in ExitT,
           NEW y, y = [x EXCEPT ![t] = e]
    PROVE  /\ y \in [Threads -> ExitT] /\ y[t] = e
           /\ \A u \in Threads : u # t => y[u] = x[u]
           /\ ReadBy(y) \subseteq ReadBy(x) \cup ({e.other} \ {None})
BY DEF ReadBy

LEMMA NoExitFacts == NoExit \in ExitT /\ NoExit.at = "none" /\ NoExit.other = None
BY DEF NoExit, ExitT, None

LEMMA ContextFacts ==
    ASSUME NEW x, NEW r \in BOOLEAN, NEW k
    PROVE  LET n == Context(x, r, k)
           IN (n.books <=> ~r) /\ (n.counts <=> ~r /\ k = 0) /\ n.read = ReadBy(x)
BY DEF Context

\* Other exits, that have read purchases, and a race perhaps.
LEMMA Reread ==
    ASSUME NEW w, NEW c, NEW x, NEW y, NEW r \in BOOLEAN, NEW q \in BOOLEAN, NEW k,
           Sound(w, c, Context(x, r, k)), r => q,
           \A i \in ReadBy(y) : i \in ReadBy(x) \/ (i \in DOMAIN w.os /\ w.os[i].side = "BUY")
    PROVE  Sound(w, c, Context(y, q, k))
<1> DEFINE n == Context(x, r, k)
           p == Context(y, q, k)
<1>1. n.read = ReadBy(x) /\ p.read = ReadBy(y) /\ (p.books => n.books) /\ (p.counts => n.counts)
    BY ContextFacts
<1>2. Sound(w, c, n) OBVIOUS
<1> HIDE DEF n, p
<1>3. Purchases(w.os, p.read) BY <1>1, <1>2 DEF Sound, Purchases
<1>4. Sound(w, c, p) BY <1>1, <1>2, <1>3, Weaken
<1> QED BY <1>4 DEF p

LEMMA ExitRead ==
    ASSUME LiveInv, NEW t \in Threads, exits[t].other # None
    PROVE  exits[t].other \in Ids /\ orders[exits[t].other].side = "BUY"
<1> DEFINE n == Context(exits, raced, spent.stops)
<1>1. Purchases(orders, n.read) BY WorldOfState DEF LiveInv, Sound
<1>2. exits[t].other \in n.read BY WorldOfState, ContextFacts DEF ReadBy
<1> HIDE DEF n
<1> QED BY <1>1, <1>2 DEF Purchases, Ids

\* A step of the tick or of an exit that leaves a sound world.
LEMMA BecomeKeeps ==
    ASSUME LiveInv, NEW w, Become(w), pc' \in Phases, tick' \in ClockT, raced' \in BOOLEAN,
           NEW c, w.s.cid = c, Sound(w, c, Context(exits', raced', spent.stops)),
           UnderWay(exits', c), c # None, c <= clock.win, tick'.win <= clock.win,
           pc' \in Turning => c < tick'.win,
           Alone => ~raced' /\ RoundIsOn(w.s) /\ OnCourse(exits'["ticker"], w.s)
    PROVE  LiveInv'
<1>1. w \in WorldT /\ w.f \in Nat BY WorldFacts DEF Sound
<1>2. /\ m' = w.s /\ orders' = w.os /\ lost' = w.lost /\ dropped' = w.dropped
      /\ spent' = [spent EXCEPT !.faults = w.f]
      /\ running' = running /\ halted' = halted /\ stopping' = stopping /\ clock' = clock
    BY DEF Become, engine
<1>3. spent' \in [faults : Nat, stops : Nat] /\ spent'.stops = spent.stops /\ spent'.faults = w.f
    BY <1>1, <1>2, WorldOfState
<1>4. World' = w
    <2>1. World' = [s |-> w.s, os |-> w.os, lost |-> w.lost, dropped |-> w.dropped, f |-> w.f]
        BY <1>2, <1>3 DEF World
    <2>2. w = [s |-> w.s, os |-> w.os, lost |-> w.lost, dropped |-> w.dropped, f |-> w.f]
        BY <1>1 DEF WorldT
    <2> QED BY <2>1, <2>2
<1>5. m'.cid = c /\ clock' = clock BY <1>2
<1>6. LiveTypes' BY <1>1, <1>2, <1>3, <1>4 DEF LiveInv, LiveTypes
<1>7. Windows' BY <1>2, <1>5 DEF Windows
<1>8. Sound(World, m.cid, Context(exits, raced, spent.stops))' BY <1>3, <1>4, <1>5
<1>9. OwnExit'
    <2>1. DOMAIN exits' = DOMAIN exits BY WorldOfState DEF UnderWay
    <2>2. Alone' = Alone BY <2>1, <1>3 DEF Alone
    <2> QED BY <2>2, <1>2 DEF OwnExit
<1>10. UnderWay(exits, m.cid)' BY <1>5
<1> QED BY <1>6, <1>7, <1>8, <1>9, <1>10 DEF LiveInv

\* The tick goes on to its next phase.
LEMMA GoesKeeps ==
    ASSUME LiveInv, NEW w, NEW at \in Phases, Goes(w, at), tick' \in ClockT,
           exits["ticker"].at = "none",
           NEW c, w.s.cid = c, Sound(w, c, Context(exits, raced, spent.stops)),
           m.cid <= c, c # None, c <= clock.win, tick'.win <= clock.win,
           at \in Turning => c < tick'.win,
           Alone => RoundIsOn(w.s)
    PROVE  LiveInv'
<1>1. Become(w) /\ pc' = at /\ exits' = exits /\ raced' = raced BY DEF Goes
<1>2. exits \in [Threads -> ExitT] /\ raced \in BOOLEAN /\ m.cid \in Nat BY WorldOfState
<1>3. c \in Nat BY WorldFacts, MarketFacts DEF Sound
<1>4. UnderWay(exits', c)
    <2>1. \A t \in Threads : exits[t].win \in Nat BY <1>2 DEF ExitT
    <2>2. \A t \in Threads : exits[t].at # "none" => exits[t].leg \in Legs /\ exits[t].win <= m.cid
        BY DEF LiveInv, UnderWay
    <2> QED BY <2>1, <2>2, <1>1, <1>2, <1>3 DEF UnderWay
<1>5. Alone => ~raced' /\ RoundIsOn(w.s) /\ OnCourse(exits'["ticker"], w.s)
    BY <1>1 DEF LiveInv, OwnExit, OnCourse
<1>6. Sound(w, c, Context(exits', raced', spent.stops)) BY <1>1
<1> QED BY <1>1, <1>2, <1>4, <1>5, <1>6, BecomeKeeps

\* The phases of one window: they stay in it.
LEMMA PhaseKeeps ==
    ASSUME LiveInv, pc # "idle", TickAt(pc), NEW x, NEW at \in Phases, Goes(x, at),
           at \in Turning => pc \in Turning, tick' = tick,
           Sound(x, m.cid, Context(exits, raced, spent.stops)), x.s.cid = m.cid,
           Alone => RoundIsOn(x.s)
    PROVE  LiveInv'
<1> DEFINE c == m.cid
<1>1. c # None /\ c <= clock.win /\ tick' \in ClockT /\ tick'.win <= clock.win /\ c \in Nat
      /\ (at \in Turning => c < tick'.win)
    BY WorldOfState DEF LiveInv, LiveTypes, Windows
<1>2. exits["ticker"].at = "none" /\ m.cid <= c BY <1>1 DEF TickAt
<1>3. Sound(x, c, Context(exits, raced, spent.stops)) /\ x.s.cid = c OBVIOUS
<1> HIDE DEF c
<1> QED BY <1>1, <1>2, <1>3, GoesKeeps

\* A stop exit goes on.
LEMMA ExitKeeps ==
    ASSUME LiveInv, NEW t \in Threads, exits[t].at # "none", NEW w, Become(w), UNCHANGED ticker,
           NEW e \in ExitT, exits' = [exits EXCEPT ![t] = e],
           e.at # "none" => e.leg \in Legs /\ e.win <= m.cid,
           raced' \in BOOLEAN, w.s.cid = m.cid,
           Sound(w, m.cid, Context(exits', raced', spent.stops)),
           Alone => ~raced' /\ RoundIsOn(w.s) /\ OnCourse(e, w.s)
    PROVE  LiveInv'
<1> DEFINE c == m.cid
<1>1. pc' = pc /\ tick' = tick BY DEF ticker
<1>2. /\ c # None /\ c <= clock.win /\ tick' \in ClockT /\ tick'.win <= clock.win /\ pc' \in Phases
      /\ (pc' \in Turning => c < tick'.win)
    BY <1>1 DEF LiveInv, LiveTypes, Windows
<1>3. exits \in [Threads -> ExitT] BY WorldOfState
<1>4. exits' \in [Threads -> ExitT] /\ exits'[t] = e /\ \A u \in Threads : u # t => exits'[u] = exits[u]
    BY <1>3, ExitFacts
<1>5. UnderWay(exits', c) BY <1>4 DEF UnderWay, LiveInv
<1>6. Alone => t = "ticker" BY <1>3 DEF Alone
<1>7. Alone => ~raced' /\ RoundIsOn(w.s) /\ OnCourse(exits'["ticker"], w.s) BY <1>4, <1>6
<1>8. Sound(w, c, Context(exits', raced', spent.stops)) /\ w.s.cid = c OBVIOUS
<1> HIDE DEF c
<1> QED BY <1>2, <1>5, <1>7, <1>8, BecomeKeeps

LEMMA BeginTickKeeps == LiveInv /\ BeginTick => LiveInv'
<1> SUFFICES ASSUME LiveInv, BeginTick PROVE LiveInv'
    OBVIOUS
<1> DEFINE n == Context(exits, raced, spent.stops)
           d == clock.win
<1>1. PICK known \in BOOLEAN :
        \E x \in QuoteAhead(IF known THEN NextWindow(World, clock.win + 1) ELSE World) :
            IF m.cid \notin {None, clock.win} THEN Goes(x, "roll")
            ELSE Goes([x EXCEPT !.s.cid = clock.win], "decide")
    BY DEF BeginTick
<1> DEFINE w == IF known THEN NextWindow(World, clock.win + 1) ELSE World
<1>20. Sound(World, m.cid, n) BY DEF LiveInv
<1> HIDE DEF n
<1>2. Sound(w, m.cid, n) /\ SameWindow(m, w.s)
    <2>1. World.s = m /\ d + 1 \in Nat BY WorldOfState
    <2>2. CASE known BY <1>20, <2>1, <2>2, NextWindowSound
    <2>3. CASE ~known BY <1>20, <2>1, <2>3 DEF SameWindow
    <2> QED BY <2>2, <2>3
<1>3. PICK x \in QuoteAhead(w) : IF m.cid \notin {None, d} THEN Goes(x, "roll")
                                 ELSE Goes([x EXCEPT !.s.cid = d], "decide")
    BY <1>1
<1> HIDE DEF w
<1>4. Sound(x, m.cid, n) /\ SameWindow(m, x.s)
    BY <1>2, <1>3, QuoteAheadSound DEF SameWindow
<1>5. tick' = clock /\ clock \in ClockT /\ tick'.win <= clock.win /\ d \in Nat /\ d > 0 /\ m.cid \in Nat
      /\ m.cid <= d /\ exits["ticker"].at = "none"
    BY WorldOfState DEF BeginTick, TickAt, LiveInv, LiveTypes, Windows
<1>6. Alone => RoundIsOn(m) BY DEF LiveInv, OwnExit
<1>7. Alone => RoundIsOn(x.s) BY <1>4, <1>6 DEF RoundIsOn, BothFilled, SameWindow
<1>8. CASE m.cid \notin {None, d}
    <2>1. Goes(x, "roll") BY <1>3, <1>8
    <2>2. x.s.cid = m.cid /\ m.cid < tick'.win /\ m.cid # None /\ m.cid <= m.cid
        BY <1>4, <1>5, <1>8 DEF SameWindow
    <2>3. "roll" \in Phases /\ Sound(x, m.cid, Context(exits, raced, spent.stops))
        BY <1>4 DEF Phases, n
    <2> QED BY <1>5, <1>7, <2>1, <2>2, <2>3, GoesKeeps
<1>9. CASE m.cid \in {None, d}
    <2> DEFINE t == [x.s EXCEPT !.cid = d]
               y == [x EXCEPT !.s = t]
    <2>1. Goes(y, "decide") BY <1>3, <1>9
    <2>2. x \in WorldT /\ x.s \in MarketT BY <1>4, WorldFacts DEF Sound
    <2>3. /\ t \in MarketT /\ t.cid = d /\ t.nextCid = x.s.nextCid /\ t.pair = x.s.pair
          /\ t.taken = x.s.taken /\ t.filled = x.s.filled /\ t.entry = x.s.entry
          /\ t.next = x.s.next /\ t.exit = x.s.exit /\ t.xst = x.s.xst /\ t.status = x.s.status
        BY <1>5, <2>2 DEF MarketT
    <2> HIDE DEF t
    <2>4. y \in WorldT /\ y.s = t /\ y.os = x.os /\ y.lost = x.lost /\ y.dropped = x.dropped
        BY <2>2, <2>3, WithMarket
    <2> HIDE DEF y
    <2>5. Sound(y, d, n)
        <3>1. CASE m.cid = d
            <4>1. Sound(x, d, n) BY <1>4, <3>1
            <4> QED BY <2>3, <2>4, <4>1, SameSound
        <3>2. CASE m.cid = None
            <4>1. \A l \in Legs : x.s.entry[l] = None /\ x.s.exit[l] = None /\ ~x.s.filled[l]
                BY <1>4, <3>2 DEF SameWindow, LiveInv, Windows
            <4>2. Sound(x, None, n) BY <1>4, <3>2
            <4> QED BY <1>5, <2>3, <2>4, <4>1, <4>2, FirstWindowSound
        <3> QED BY <1>9, <3>1, <3>2
    <2>6. Alone => RoundIsOn(y.s) BY <1>7, <2>3, <2>4 DEF RoundIsOn, BothFilled
    <2>7. y.s.cid = d /\ d # None /\ d <= clock.win BY <1>5, <2>3, <2>4 DEF None
    <2>8. tick' \in ClockT /\ "decide" \in Phases /\ "decide" \notin Turning
          /\ Sound(y, d, Context(exits, raced, spent.stops))
        BY <1>5, <2>5 DEF Phases, Turning, n
    <2> HIDE DEF d
    <2> QED BY <1>5, <2>1, <2>6, <2>7, <2>8, GoesKeeps
<1> QED BY <1>8, <1>9

\* A tick that begins an exit of leg l.
LEMMA TickExitKeeps ==
    ASSUME LiveInv, pc # "idle", TickAt(pc), NEW w, Become(w), pc' \in Phases,
           pc' \in Turning => pc \in Turning, tick' = tick, raced' = raced,
           NEW l \in Legs, exits' = [exits EXCEPT !["ticker"] = Reading(w.s, l)],
           w.s.cid = m.cid, Sound(w, m.cid, Context(exits, raced, spent.stops)),
           Alone => RoundIsOn(w.s) /\ Exiting(w.s, l)
    PROVE  LiveInv'
<1> DEFINE c == m.cid
           e == Reading(w.s, l)
<1>1. c # None /\ c <= clock.win /\ tick' \in ClockT /\ tick'.win <= clock.win /\ c \in Nat
      /\ (pc' \in Turning => c < tick'.win)
    BY WorldOfState DEF LiveInv, LiveTypes, Windows
<1>2. exits \in [Threads -> ExitT] /\ raced \in BOOLEAN /\ "ticker" \in Threads
    BY WorldOfState DEF Threads
<1>3. w.s \in MarketT BY WorldFacts DEF Sound
<1>4. /\ e \in ExitT /\ e.leg = l /\ e.win = c /\ e.other = w.s.entry[Opp(l)]
      /\ (Exiting(w.s, l) => OnCourse(e, w.s))
    BY <1>3, ReadingFacts
<1>5. e.other = None \/ (e.other \in DOMAIN w.os /\ w.os[e.other].side = "BUY")
    BY <1>4, HandlesAreOrders, LegsAre
<1>6. exits' = [exits EXCEPT !["ticker"] = e] OBVIOUS
<1>7. Sound(w, c, Context(exits, raced, spent.stops)) /\ w.s.cid = c OBVIOUS
<1> HIDE DEF e, c
<1>8. /\ exits' \in [Threads -> ExitT] /\ exits'["ticker"] = e
      /\ \A u \in Threads : u # "ticker" => exits'[u] = exits[u]
      /\ ReadBy(exits') \subseteq ReadBy(exits) \cup ({e.other} \ {None})
    <2>1. e \in ExitT /\ "ticker" \in Threads BY <1>2, <1>4
    <2> DEFINE x == exits
               y == exits'
    <2>2. x \in [Threads -> ExitT] /\ y = [x EXCEPT !["ticker"] = e] BY <1>2, <1>6
    <2> HIDE DEF x, y
    <2>3. y \in [Threads -> ExitT] /\ y["ticker"] = e BY <2>1, <2>2, ExitFacts
    <2>4. \A u \in Threads : u # "ticker" => y[u] = x[u] BY <2>1, <2>2, ExitFacts
    <2>5. ReadBy(y) \subseteq ReadBy(x) \cup ({e.other} \ {None})
        BY <2>1, <2>2, ExitFacts
    <2> QED BY <2>3, <2>4, <2>5 DEF x, y
<1>9. Sound(w, c, Context(exits', raced', spent.stops))
    <2>1. raced => raced OBVIOUS
    <2>2. \A i \in ReadBy(exits') :
            i \in ReadBy(exits) \/ (i \in DOMAIN w.os /\ w.os[i].side = "BUY")
        BY <1>5, <1>8
    <2>3. Sound(w, c, Context(exits', raced, spent.stops)) BY <1>2, <1>7, <2>1, <2>2, Reread
    <2> QED BY <2>3
<1>10. UnderWay(exits', c) BY <1>1, <1>4, <1>8 DEF UnderWay, LiveInv, c
<1>11. Alone => ~raced' /\ RoundIsOn(w.s) /\ OnCourse(exits'["ticker"], w.s)
    BY <1>4, <1>8 DEF LiveInv, OwnExit
<1> QED BY <1>1, <1>2, <1>7, <1>9, <1>10, <1>11, BecomeKeeps

LEMMA RetryKeeps ==
    ASSUME LiveInv, pc # "idle", TickAt(pc), PendingExit(m), NEW at \in Phases, Retry(at),
           at \in Turning => pc \in Turning, tick' = tick
    PROVE  LiveInv'
<1> DEFINE l == PendingSide(m)
<1>1. World.s = m /\ m \in MarketT /\ Sound(World, m.cid, Context(exits, raced, spent.stops))
    BY WorldOfState DEF LiveInv
<1>2. l \in Legs BY DEF PendingSide, Legs
<1>3. Alone => RoundIsOn(m) /\ Exiting(m, l)
    BY <1>1, MarketFacts DEF LiveInv, OwnExit, RoundIsOn, PendingExit, PendingSide, Exiting, Legs
<1>4. /\ exits' = exits \/ exits' = [exits EXCEPT !["ticker"] = Reading(m, l)]
      /\ Become(World) /\ pc' = at /\ raced' = raced
    BY DEF Retry
<1> HIDE DEF l
<1>5. CASE exits' = exits
    <2>1. Goes(World, at) BY <1>4, <1>5 DEF Goes
    <2> QED BY <1>1, <1>3, <2>1, PhaseKeeps
<1>6. CASE exits' = [exits EXCEPT !["ticker"] = Reading(m, l)]
    <2> DEFINE w == World
    <2>1. w.s = m /\ Sound(w, m.cid, Context(exits, raced, spent.stops)) /\ Become(w)
        BY <1>1, <1>4
    <2> HIDE DEF w
    <2> QED BY <1>2, <1>3, <1>4, <1>6, <2>1, TickExitKeeps
<1> QED BY <1>4, <1>5, <1>6

LEMMA RollKeeps == LiveInv /\ Roll => LiveInv'
<1> SUFFICES ASSUME LiveInv, Roll PROVE LiveInv'
    OBVIOUS
<1>1. /\ pc = "roll" /\ pc # "idle" /\ TickAt(pc) /\ tick' = tick /\ pc \in Turning
      /\ "settle" \in Phases
    BY DEF Roll, TickAt, Turning, Phases
<1>2. CASE PendingExit(m) /\ Retry("settle") BY <1>1, <1>2, RetryKeeps
<1>3. CASE Goes(World, "settle")
    <2>1. World.s = m /\ Sound(World, m.cid, Context(exits, raced, spent.stops))
        BY WorldOfState DEF LiveInv
    <2>2. Alone => RoundIsOn(World.s) BY <2>1 DEF LiveInv, OwnExit
    <2> QED BY <1>1, <1>3, <2>1, <2>2, PhaseKeeps
<1> QED BY <1>2, <1>3 DEF Roll

LEMMA SettleKeeps == LiveInv /\ Settle => LiveInv'
<1> SUFFICES ASSUME LiveInv, Settle PROVE LiveInv'
    OBVIOUS
<1> DEFINE c == m.cid
           n == Context(exits, raced, spent.stops)
<1>1. PICK x \in CancelIf(World, ~ m.filled["UP"], m.entry["UP"]) :
        \E y \in CancelIf(x, ~ x.s.filled["DOWN"], x.s.entry["DOWN"]) :
            Goes([y EXCEPT !.s.stop = "none"], "reset")
    BY DEF Settle
<1>2. PICK y \in CancelIf(x, ~ x.s.filled["DOWN"], x.s.entry["DOWN"]) :
            Goes([y EXCEPT !.s.stop = "none"], "reset")
    BY <1>1
<1>3. Sound(World, c, n) /\ World.s = m BY WorldOfState DEF LiveInv
<1>4. x = World \/ x \in Cancel(World, World.s.entry["UP"]) BY <1>1, <1>3 DEF CancelIf
<1>5. y = x \/ y \in Cancel(x, x.s.entry["DOWN"]) BY <1>2 DEF CancelIf
<1>6. /\ pc # "idle" /\ TickAt(pc) /\ tick' = tick /\ pc \in Turning /\ "reset" \in Phases
    BY DEF Settle, TickAt, Turning, Phases
<1>7. Alone => RoundIsOn(m) BY DEF LiveInv, OwnExit
<1> HIDE DEF n
<1>8. Sound(x, c, n) /\ Kept(m, x.s) /\ x.s.exit = m.exit
    BY <1>3, <1>4, CancelEntrySound, LegsAre
<1>9. Sound(y, c, n) /\ Kept(x.s, y.s) /\ y.s.exit = x.s.exit
    BY <1>5, <1>8, CancelEntrySound, LegsAre
<1> DEFINE t == [y.s EXCEPT !.stop = "none"]
           v == [y EXCEPT !.s = t]
<1>10. Goes(v, "reset") BY <1>2
<1>11. y \in WorldT /\ y.s \in MarketT BY <1>9, WorldFacts DEF Sound
<1>12. t \in MarketT /\ Noting(y.s, t) BY <1>11 DEF MarketT, Noting
<1>13. Alone => RoundIsOn(y.s) BY <1>7, <1>8, <1>9 DEF Kept, RoundIsOn, BothFilled
<1> HIDE DEF t
<1>14. Sound(v, c, n) /\ (RoundIsOn(y.s) => RoundIsOn(v.s)) BY <1>9, <1>12, NotingSound
<1>15. v.s = t BY <1>11, <1>12, WithMarket
<1>16. v.s.cid = m.cid BY <1>8, <1>9, <1>12, <1>15 DEF Kept, Noting
<1> HIDE DEF v
<1>17. Sound(v, m.cid, Context(exits, raced, spent.stops)) BY <1>14 DEF n
<1> QED BY <1>6, <1>10, <1>13, <1>14, <1>16, <1>17, PhaseKeeps

LEMMA ResetKeeps == LiveInv /\ Reset => LiveInv'
<1> SUFFICES ASSUME LiveInv, Reset PROVE LiveInv'
    OBVIOUS
<1> DEFINE c == m.cid
           n == Context(exits, raced, spent.stops)
           d == tick.win
           Up(v) == ClearExit(NewWindow(v), "UP")
           Down(v) == ClearExit(v, "DOWN")
           Last(x) == [x EXCEPT !.s.status = IF running THEN "QUOTING" ELSE "IDLE", !.s.cid = d]
<1>1. \E x \in Then(Then(Promote(World), LAMBDA v : Up(v)), LAMBDA v : Down(v)) :
        Goes(Last(x), "decide")
    BY DEF Reset
<1>2. Sound(World, c, n) /\ c \in Nat /\ d \in Nat /\ c < d /\ d > 0 /\ d <= clock.win
    BY WorldOfState DEF LiveInv, Reset, TickAt, Turning, Windows
<1>3. tick' = tick /\ tick \in ClockT /\ exits["ticker"].at = "none" /\ m.cid <= d
    BY <1>2 DEF Reset, TickAt, LiveInv, LiveTypes
<1> HIDE DEF Up, Down, Last, c, n
<1>4. PICK x \in Then(Then(Promote(World), LAMBDA v : Up(v)), LAMBDA v : Down(v)) :
        Goes(Last(x), "decide")
    BY <1>1
<1>5. PICK y \in Then(Promote(World), LAMBDA v : Up(v)) : x \in Down(y) BY <1>4 DEF Then
<1>6. PICK v \in Promote(World) : y \in Up(v) BY <1>5 DEF Then
<1> DEFINE w == NewWindow(v)
<1>7. Sound(w, d, n) /\ ~w.s.pair /\ w.s.taken = "none" BY <1>2, <1>6, PromoteSound
<1> HIDE DEF w
<1>8. Sound(y, d, n) /\ ~y.s.pair /\ y.s.taken = "none"
    <2>1. y \in ClearExit(w, "UP") BY <1>6 DEF Up, w
    <2> QED BY <2>1, <1>7, ClearExitSound, LegsAre
<1>9. Sound(x, d, n) /\ ~x.s.pair /\ x.s.taken = "none"
    <2>1. x \in ClearExit(y, "DOWN") BY <1>5 DEF Down
    <2> QED BY <2>1, <1>8, ClearExitSound, LegsAre
<1>10. x \in WorldT /\ x.s \in MarketT BY <1>9, WorldFacts DEF Sound
<1> DEFINE q == IF running THEN "QUOTING" ELSE "IDLE"
           t == [x.s EXCEPT !.status = q, !.cid = d]
           z == [x EXCEPT !.s = t]
<1>11. q \in Statuses /\ q # "STOP_EXIT_PENDING" BY DEF Statuses
<1>12. Goes(z, "decide") BY <1>4, <1>10 DEF Last, WorldT, MarketT
<1> HIDE DEF q
<1>13. /\ t \in MarketT /\ t.cid = d /\ t.nextCid = x.s.nextCid /\ t.pair = x.s.pair
       /\ t.taken = x.s.taken /\ t.filled = x.s.filled /\ t.entry = x.s.entry
       /\ t.next = x.s.next /\ t.exit = x.s.exit /\ t.xst = x.s.xst /\ t.status = q
    BY <1>2, <1>10, <1>11 DEF MarketT
<1> HIDE DEF t
<1>14. z \in WorldT /\ z.s = t /\ z.os = x.os /\ z.lost = x.lost /\ z.dropped = x.dropped
    BY <1>10, <1>13, WithMarket
<1> HIDE DEF z
<1>15. Sound(z, d, n) BY <1>9, <1>13, <1>14, SameSound
<1>16. RoundIsOn(z.s) BY <1>9, <1>11, <1>13, <1>14 DEF RoundIsOn
<1>17. Sound(z, d, Context(exits, raced, spent.stops)) /\ z.s.cid = d /\ d # None
       /\ tick'.win <= clock.win
    BY <1>2, <1>3, <1>13, <1>14, <1>15 DEF n, None
<1>18. "decide" \in Phases /\ "decide" \notin Turning /\ tick' \in ClockT
    BY <1>3 DEF Phases, Turning
<1> HIDE DEF d
<1> QED BY <1>2, <1>3, <1>12, <1>16, <1>17, <1>18, GoesKeeps

LEMMA DecideKeeps == LiveInv /\ Decide => LiveInv'
<1> SUFFICES ASSUME LiveInv, Decide PROVE LiveInv'
    OBVIOUS
<1> DEFINE n == Context(exits, raced, spent.stops)
           v0 == IF m.status \in {"QUOTING", "STOP_EXIT_PENDING"} THEN "IDLE" ELSE m.status
           Off == [World EXCEPT !.s.status =
                        IF @ \in {"QUOTING", "STOP_EXIT_PENDING"} THEN "IDLE" ELSE @]
           Quiet(w) == [w EXCEPT !.s.status = v0]
           Watch(w, mid, raise) == [w EXCEPT !.s = Chase(Latch(@, mid), raise)]
<1>1. Sound(World, m.cid, n) /\ World.s = m /\ World \in WorldT /\ (Alone => RoundIsOn(World.s))
    BY WorldOfState DEF LiveInv, LiveTypes, OwnExit
<1>2. /\ pc # "idle" /\ TickAt(pc) /\ tick' = tick /\ {"idle", "quote", "poll"} \subseteq Phases
      /\ {"idle", "quote", "poll"} \cap Turning = {}
    BY DEF Decide, TickAt, Phases, Turning
<1> HIDE DEF n
<1>3. CASE Goes(Off, "idle")
    <2>1. v0 \in Statuses /\ v0 # "STOP_EXIT_PENDING"
        BY <1>1, WorldOfState, MarketFacts DEF Statuses
    <2>2. Off = Quiet(World) BY <1>1 DEF WorldT, MarketT
    <2> HIDE DEF v0
    <2> DEFINE x == Quiet(World)
    <2>3. Sound(x, m.cid, n) /\ SameRound(m, x.s) /\ x.s.status = v0
        BY <1>1, <2>1, StatusSound
    <2>4. Goes(x, "idle") BY <1>3, <2>2
    <2> HIDE DEF x
    <2>5. Alone => RoundIsOn(x.s) BY <1>1, <2>1, <2>3 DEF RoundIsOn, SameRound, BothFilled
    <2>6. x.s.cid = m.cid BY <2>3 DEF SameRound
    <2> QED BY <1>2, <2>3, <2>4, <2>5, <2>6, PhaseKeeps DEF n
<1>4. CASE \E mid \in {"in", "out", "none"}, raise \in BOOLEAN :
            \E x \in DeadZoneCancel(Watch(FreshStart(World, mid), mid, raise)) :
                Goes(x, IF CanPlace(x.s, mid) THEN "quote" ELSE "poll")
    <2>1. PICK mid \in {"in", "out", "none"}, raise \in BOOLEAN :
            \E x \in DeadZoneCancel(Watch(FreshStart(World, mid), mid, raise)) :
                Goes(x, IF CanPlace(x.s, mid) THEN "quote" ELSE "poll")
        BY <1>4
    <2> DEFINE w == FreshStart(World, mid)
               v == Watch(w, mid, raise)
    <2>2. Sound(w, m.cid, n) /\ (RoundIsOn(m) => RoundIsOn(w.s)) /\ w.s.cid = m.cid
        BY <1>1, FreshStartSound
    <2> HIDE DEF w
    <2>3. Sound(v, m.cid, n) /\ Calm(w.s, v.s) BY <2>2, ChaseSound
    <2>4. \E x \in DeadZoneCancel(v) : Goes(x, IF CanPlace(x.s, mid) THEN "quote" ELSE "poll")
        BY <2>1 DEF w
    <2> HIDE DEF v
    <2>5. PICK x \in DeadZoneCancel(v) : Goes(x, IF CanPlace(x.s, mid) THEN "quote" ELSE "poll")
        BY <2>4
    <2>6. Sound(x, m.cid, n) /\ Calm(v.s, x.s) BY <2>3, <2>5, DeadZoneSound
    <2>7. Alone => RoundIsOn(x.s)
        <3>1. RoundIsOn(w.s) => RoundIsOn(v.s) BY <2>3, CalmRound
        <3>2. RoundIsOn(v.s) => RoundIsOn(x.s) BY <2>6, CalmRound
        <3> QED BY <3>1, <3>2, <1>1, <2>2
    <2>8. x.s.cid = m.cid BY <2>2, <2>3, <2>6 DEF Calm
    <2>9. CASE CanPlace(x.s, mid)
        BY <1>2, <2>5, <2>6, <2>7, <2>8, <2>9, PhaseKeeps DEF n
    <2>10. CASE ~CanPlace(x.s, mid)
        BY <1>2, <2>5, <2>6, <2>7, <2>8, <2>10, PhaseKeeps DEF n
    <2> QED BY <2>9, <2>10
<1> QED BY <1>3, <1>4 DEF Decide

LEMMA QuoteKeeps == LiveInv /\ Quote => LiveInv'
<1> SUFFICES ASSUME LiveInv, Quote PROVE LiveInv'
    OBVIOUS
<1> DEFINE n == Context(exits, raced, spent.stops)
           c == m.cid
<1>1. /\ Sound(World, c, n) /\ World.s = m /\ World.s.cid = c /\ c \in Nat
      /\ (Alone => RoundIsOn(World.s))
    BY WorldOfState DEF LiveInv, OwnExit
<1>2. /\ pc # "idle" /\ TickAt(pc) /\ tick' = tick /\ "poll" \in Phases /\ "poll" \notin Turning
    BY DEF Quote, TickAt, Phases, Turning
<1>3. PICK x \in PlaceEntries(World) : Goes(x, "poll") BY DEF Quote
<1> HIDE DEF n, c
<1>4. Sound(x, c, n) /\ Calm(World.s, x.s) BY <1>1, <1>3, PlaceEntriesSound
<1>5. RoundIsOn(World.s) => RoundIsOn(x.s) BY <1>4, CalmRound
<1>6. x.s.cid = m.cid /\ Sound(x, m.cid, n) BY <1>1, <1>4 DEF Calm, c
<1> QED BY <1>1, <1>2, <1>3, <1>5, <1>6, PhaseKeeps DEF n

LEMMA PollKeeps == LiveInv /\ Poll => LiveInv'
<1> SUFFICES ASSUME LiveInv, Poll PROVE LiveInv'
    OBVIOUS
<1> DEFINE n == Context(exits, raced, spent.stops)
           Down(y) == AskEntry(y, "DOWN")
<1>1. Sound(World, m.cid, n) /\ World.s = m /\ (Alone => RoundIsOn(World.s))
    BY WorldOfState DEF LiveInv, OwnExit
<1>2. /\ pc # "idle" /\ TickAt(pc) /\ tick' = tick /\ "close" \in Phases /\ "close" \notin Turning
    BY DEF Poll, TickAt, Phases, Turning
<1>3. CASE Goes(World, "close")
    BY <1>1, <1>2, <1>3, PhaseKeeps
<1>4. CASE \E x \in Then(AskEntry(World, "UP"), LAMBDA y : Down(y)) : Goes(x, "close")
    <2> HIDE DEF Down, n
    <2>1. PICK x \in Then(AskEntry(World, "UP"), LAMBDA y : Down(y)) : Goes(x, "close")
        BY <1>4
    <2>2. PICK y \in AskEntry(World, "UP") : x \in Down(y) BY <2>1 DEF Then
    <2>3. Sound(y, m.cid, n) /\ (RoundIsOn(World.s) => RoundIsOn(y.s)) /\ y.s.cid = m.cid
        BY <1>1, <2>2, AskEntrySound, LegsAre
    <2>4. Sound(x, m.cid, n) /\ (RoundIsOn(y.s) => RoundIsOn(x.s)) /\ x.s.cid = m.cid
        BY <2>2, <2>3, AskEntrySound, LegsAre DEF Down
    <2> QED BY <1>1, <1>2, <2>1, <2>3, <2>4, PhaseKeeps DEF n
<1> QED BY <1>3, <1>4 DEF Poll

LEMMA CloseLegKeeps ==
    ASSUME LiveInv, pc # "idle", TickAt(pc), CloseLeg, tick' = tick
    PROVE  LiveInv'
<1> DEFINE n == Context(exits, raced, spent.stops)
           l == Naked(m)
           other == CancelIf(World, tick.at = "dead" /\ m.est[Opp(l)] = "RESTING", m.entry[Opp(l)])
<1>1. Sound(World, m.cid, n) /\ World.s = m /\ m \in MarketT /\ (Alone => RoundIsOn(m))
    BY WorldOfState DEF LiveInv, OwnExit
<1>2. "idle" \in Phases /\ "idle" \notin Turning BY DEF Phases, Turning
<1>3. CASE Goes(World, "idle") BY <1>1, <1>2, <1>3, PhaseKeeps
<1>4. CASE ~Goes(World, "idle")
    <2>1. Exposed(m)
          /\ \E x \in other :
                \/ /\ Become(Trigger(x)) /\ pc' = "idle" /\ raced' = raced
                   /\ exits' = [exits EXCEPT !["ticker"] = Reading(x.s, l)]
                \/ Goes(x, "idle")
        BY <1>4 DEF CloseLeg
    <2>2. OneFilled(m) /\ m.taken = "none" BY <2>1 DEF Exposed
    <2>3. l \in Legs /\ m.filled[l] /\ Opp(l) \in Legs BY <1>1, <2>2, NakedIsLeg
    <2>4. RoundIsOn(m) => ~m.pair
        BY <1>1, <2>2, MarketFacts DEF RoundIsOn, OneFilled, BothFilled, Legs
    <2>5. \A x \in other : x = World \/ x \in Cancel(World, World.s.entry[Opp(l)])
        BY <1>1 DEF CancelIf
    <2> HIDE DEF l, other, n
    <2>6. PICK x \in other :
            \/ /\ Become(Trigger(x)) /\ pc' = "idle" /\ raced' = raced
               /\ exits' = [exits EXCEPT !["ticker"] = Reading(x.s, l)]
            \/ Goes(x, "idle")
        BY <2>1
    <2>7. Sound(x, m.cid, n) /\ Kept(m, x.s) /\ x.s.exit = m.exit
        <3>1. x = World \/ x \in Cancel(World, World.s.entry[Opp(l)]) BY <2>5, <2>6
        <3> QED BY <1>1, <2>3, <3>1, CancelEntrySound
    <2>8. Alone => RoundIsOn(x.s) BY <1>1, <2>7 DEF Kept, RoundIsOn, BothFilled
    <2>9. x.s.cid = m.cid BY <2>7 DEF Kept
    <2>10. CASE Goes(x, "idle") BY <1>2, <2>7, <2>8, <2>9, <2>10, PhaseKeeps DEF n
    <2>11. CASE /\ Become(Trigger(x)) /\ pc' = "idle" /\ raced' = raced
                /\ exits' = [exits EXCEPT !["ticker"] = Reading(x.s, l)]
        <3> DEFINE w == Trigger(x)
        <3>1. /\ Sound(w, m.cid, n) /\ SameRound(x.s, w.s) /\ w.s.entry = x.s.entry
              /\ w.s.exit = x.s.exit
              /\ (Exiting(x.s, l) => RoundIsOn(w.s) /\ Exiting(w.s, l))
            BY <2>3, <2>7, TriggerSound
        <3>2. Become(w) /\ exits' = [exits EXCEPT !["ticker"] = Reading(x.s, l)] BY <2>11
        <3> HIDE DEF w
        <3>3. w.s.cid = m.cid BY <2>9, <3>1 DEF SameRound
        <3>4. Reading(x.s, l) = Reading(w.s, l) BY <2>9, <3>1, <3>3 DEF Reading
        <3>5. RoundIsOn(m) => Exiting(x.s, l) BY <2>2, <2>3, <2>4, <2>7 DEF Exiting, Kept
        <3>6. exits' = [exits EXCEPT !["ticker"] = Reading(w.s, l)] BY <3>2, <3>4
        <3>7. Alone => RoundIsOn(w.s) /\ Exiting(w.s, l) BY <1>1, <3>1, <3>5
        <3>8. pc' \in Phases /\ pc' \notin Turning /\ raced' = raced
              /\ Sound(w, m.cid, Context(exits, raced, spent.stops))
            BY <1>2, <2>11, <3>1 DEF n
        <3> QED BY <2>3, <3>2, <3>3, <3>6, <3>7, <3>8, TickExitKeeps
    <2> QED BY <2>6, <2>10, <2>11
<1> QED BY <1>3, <1>4

LEMMA CloseKeeps == LiveInv /\ Close => LiveInv'
<1> SUFFICES ASSUME LiveInv, Close PROVE LiveInv'
    OBVIOUS
<1> DEFINE n == Context(exits, raced, spent.stops)
<1>1. Sound(World, m.cid, n) /\ World.s = m /\ (Alone => RoundIsOn(World.s))
    BY WorldOfState DEF LiveInv, OwnExit
<1>2. /\ pc # "idle" /\ TickAt(pc) /\ tick' = tick /\ {"idle", "leg"} \subseteq Phases
      /\ {"idle", "leg"} \cap Turning = {}
    BY DEF Close, TickAt, Phases, Turning
<1>3. CASE BothFilled(m) /\ Goes(Merge(World), "idle")
    <2> DEFINE x == Merge(World)
    <2> HIDE DEF n
    <2>1. Sound(x, m.cid, n) /\ (RoundIsOn(World.s) => RoundIsOn(x.s)) /\ x.s.cid = m.cid
        BY <1>1, <1>3, MergeSound
    <2>2. Goes(x, "idle") BY <1>3
    <2> HIDE DEF x
    <2> QED BY <1>1, <1>2, <2>1, <2>2, PhaseKeeps DEF n
<1>4. CASE PendingExit(m) /\ Retry("leg") BY <1>2, <1>4, RetryKeeps
<1>5. CASE CloseLeg BY <1>2, <1>5, CloseLegKeeps
<1> QED BY <1>3, <1>4, <1>5 DEF Close

LEMMA LegKeeps == LiveInv /\ Leg => LiveInv'
<1> SUFFICES ASSUME LiveInv, Leg PROVE LiveInv'
    OBVIOUS
<1>1. Sound(World, m.cid, Context(exits, raced, spent.stops)) /\ World.s = m
      /\ (Alone => RoundIsOn(World.s))
    BY WorldOfState DEF LiveInv, OwnExit
<1>2. /\ pc # "idle" /\ TickAt(pc) /\ tick' = tick /\ "idle" \in Phases /\ "idle" \notin Turning
    BY DEF Leg, TickAt, Phases, Turning
<1>3. CASE Goes(World, "idle") BY <1>1, <1>2, <1>3, PhaseKeeps
<1>4. CASE CloseLeg BY <1>2, <1>4, CloseLegKeeps
<1> QED BY <1>3, <1>4 DEF Leg

\* An exit under way, and what the step of its thread leaves it at.
LEMMA OneExit ==
    ASSUME LiveInv, NEW t \in Threads, exits[t].at # "none"
    PROVE  /\ exits[t] \in ExitT /\ exits[t].leg \in Legs /\ exits[t].win \in Nat
           /\ exits[t].id \in Nat /\ exits[t].win <= m.cid
           /\ Alone => ~raced /\ RoundIsOn(m) /\ OnCourse(exits[t], m)
<1>1. exits \in [Threads -> ExitT] BY WorldOfState
<1>2. exits[t] \in ExitT /\ exits[t].leg \in Legs /\ exits[t].win <= m.cid
    BY <1>1 DEF LiveInv, UnderWay
<1>3. exits[t].win \in Nat /\ exits[t].id \in Nat BY <1>2 DEF ExitT
<1>4. Alone => t = "ticker" BY <1>1 DEF Alone
<1> QED BY <1>2, <1>3, <1>4 DEF LiveInv, OwnExit

\* The exit reads nothing more: what is promised is less only if it raced.
LEMMA StillRead ==
    ASSUME LiveInv, NEW t \in Threads, NEW e \in ExitT, e.other \in {None, exits[t].other},
           exits' = [exits EXCEPT ![t] = e], raced' \in BOOLEAN, raced => raced',
           NEW w, NEW c, Sound(w, c, Context(exits, raced, spent.stops))
    PROVE  Sound(w, c, Context(exits', raced', spent.stops))
<1>1. exits \in [Threads -> ExitT] /\ raced \in BOOLEAN BY WorldOfState
<1> DEFINE x == exits
           y == exits'
           r == raced
           q == raced'
           k == spent.stops
<1>2. x \in [Threads -> ExitT] /\ y = [x EXCEPT ![t] = e] /\ r \in BOOLEAN /\ q \in BOOLEAN
      /\ (r => q) /\ Sound(w, c, Context(x, r, k)) /\ e.other \in {None, x[t].other}
    BY <1>1
<1> HIDE DEF x, y, r, q, k
<1>3. ReadBy(y) \subseteq ReadBy(x) \cup ({e.other} \ {None}) BY <1>2, ExitFacts
<1>4. x[t].other = None \/ x[t].other \in ReadBy(x) BY DEF ReadBy
<1>5. \A i \in ReadBy(y) : i \in ReadBy(x) \/ (i \in DOMAIN w.os /\ w.os[i].side = "BUY")
    BY <1>2, <1>3, <1>4
<1>6. Sound(w, c, Context(y, q, k)) BY <1>2, <1>5, Reread
<1> QED BY <1>6 DEF y, q, k

LEMMA CancelOtherKeeps ==
    ASSUME LiveInv, NEW t \in Threads, CancelOther(t) PROVE LiveInv'
<1> DEFINE n == Context(exits, raced, spent.stops)
           i == exits[t].other
           e == [exits[t] EXCEPT !.at = "submit"]
<1>1. exits[t].at = "cancel" /\ pc' = pc /\ tick' = tick /\ raced' = raced
    BY DEF CancelOther, ticker
<1>2. PICK x \in Cancel(World, i) :
        \/ Become(x) /\ exits' = [exits EXCEPT ![t].at = "submit"]
        \/ Become(Pending(x)) /\ exits' = [exits EXCEPT ![t] = NoExit]
    BY DEF CancelOther
<1>3. /\ exits[t] \in ExitT /\ exits[t].leg \in Legs /\ exits[t].win <= m.cid
      /\ (Alone => ~raced /\ RoundIsOn(m) /\ OnCourse(exits[t], m))
    BY <1>1, OneExit
<1>4. Sound(World, m.cid, n) /\ World.s = m /\ World.os = orders /\ raced \in BOOLEAN
      /\ exits \in [Threads -> ExitT]
    BY WorldOfState DEF LiveInv
<1>5. i = None \/ (i \in DOMAIN World.os /\ World.os[i].side = "BUY")
    BY <1>4, ExitRead DEF Ids
<1>6. e \in ExitT /\ e.at = "submit" /\ e.leg = exits[t].leg /\ e.other = exits[t].other
      /\ e.id = exits[t].id /\ e.win = exits[t].win
    BY <1>3 DEF ExitT
<1>7. [exits EXCEPT ![t].at = "submit"] = [exits EXCEPT ![t] = e] OBVIOUS
<1> HIDE DEF n, i, e
<1>8. Sound(x, m.cid, n) /\ Kept(m, x.s) /\ x.s.exit = m.exit BY <1>2, <1>4, <1>5, CancelIsSound
<1>9. x.s.cid = m.cid BY <1>8 DEF Kept
<1>10. Sound(x, m.cid, Context(exits, raced, spent.stops)) BY <1>8 DEF n
<1>11. CASE Become(x) /\ exits' = [exits EXCEPT ![t].at = "submit"]
    <2>1. exits' = [exits EXCEPT ![t] = e] BY <1>7, <1>11
    <2>2. Sound(x, m.cid, Context(exits', raced', spent.stops))
        BY <1>1, <1>4, <1>6, <1>10, <2>1, StillRead
    <2>3. Alone => ~raced' /\ RoundIsOn(x.s) /\ OnCourse(e, x.s)
        BY <1>1, <1>3, <1>6, <1>8
           DEF Kept, RoundIsOn, BothFilled, OnCourse, Exiting
    <2>4. exits[t].at # "none" /\ e.leg \in Legs /\ e.win <= m.cid /\ UNCHANGED ticker
          /\ raced' \in BOOLEAN
        BY <1>1, <1>3, <1>4, <1>6 DEF ticker
    <2> QED BY <1>6, <1>9, <1>11, <2>1, <2>2, <2>3, <2>4, ExitKeeps
<1>12. CASE Become(Pending(x)) /\ exits' = [exits EXCEPT ![t] = NoExit]
    <2> DEFINE w == Pending(x)
    <2>1. Sound(w, m.cid, Context(exits, raced, spent.stops)) /\ SameRound(x.s, w.s)
          /\ \A l \in Legs : Exiting(x.s, l) => RoundIsOn(w.s)
        BY <1>10, PendingSound
    <2>2. Become(w) BY <1>12
    <2> HIDE DEF w
    <2>3. w.s.cid = m.cid BY <1>9, <2>1 DEF SameRound
    <2>4. Sound(w, m.cid, Context(exits', raced', spent.stops))
        BY <1>1, <1>4, <1>12, <2>1, NoExitFacts, StillRead
    <2>5. Alone => Exiting(x.s, exits[t].leg) BY <1>1, <1>3, <1>8 DEF Kept, OnCourse, Exiting
    <2>6. Alone => ~raced' /\ RoundIsOn(w.s) /\ OnCourse(NoExit, w.s)
        BY <1>1, <1>3, <2>1, <2>5, NoExitFacts DEF OnCourse
    <2> QED BY <1>1, <1>4, <1>12, <2>2, <2>3, <2>4, <2>6, NoExitFacts, ExitKeeps DEF ticker
<1> QED BY <1>2, <1>11, <1>12

LEMMA SubmitKeeps ==
    ASSUME LiveInv, NEW t \in Threads, Submit(t) PROVE LiveInv'
<1> DEFINE n == Context(exits', raced', spent.stops)
           e == exits[t]
           l == e.leg
           w == IF e.other = None THEN World ELSE Unhand(World, Opp(e.leg))
           own == Len(orders) + 1
<1>1. e.at = "submit" /\ pc' = pc /\ tick' = tick BY DEF Submit, ticker
<1>2. PICK x \in Submitted(w, e) :
        /\ Become(x)
        /\ exits' = [exits EXCEPT ![t].at = "ask",
                                  ![t].id = IF x.s.exit[l] = own THEN own ELSE @]
    BY DEF Submit
<1>3. raced' = (raced \/ (e.id = None /\ Stale(e))) BY DEF Submit
<1>4. /\ e \in ExitT /\ l \in Legs /\ e.win \in Nat /\ e.id \in Nat /\ e.win <= m.cid
      /\ (Alone => ~raced /\ RoundIsOn(m) /\ OnCourse(e, m))
    BY <1>1, OneExit
<1>5. /\ Sound(World, m.cid, Context(exits, raced, spent.stops)) /\ World.s = m
      /\ World.os = orders /\ raced \in BOOLEAN /\ exits \in [Threads -> ExitT]
      /\ orders \in Seq(OrderT) /\ m.cid \in Nat
    BY WorldOfState DEF LiveInv
<1>6. raced' \in BOOLEAN /\ (raced => raced') BY <1>3, <1>5
<1> DEFINE id == IF x.s.exit[l] = own THEN own ELSE e.id
           f == [e EXCEPT !.at = "ask", !.id = id]
<1>7. own \in Nat /\ own # None BY <1>5 DEF None
<1>8. f \in ExitT /\ f.at = "ask" /\ f.leg = l /\ f.other = e.other /\ f.id = id /\ f.win = e.win
    BY <1>4, <1>7 DEF ExitT
<1>9. exits' = [exits EXCEPT ![t] = f] BY <1>2
<1> HIDE DEF f, id
<1>10. Sound(World, m.cid, n)
    BY <1>4, <1>5, <1>6, <1>8, <1>9, StillRead
<1>11. Sound(w, m.cid, n) /\ Kept(m, w.s) /\ w.s.exit = m.exit /\ w.os = orders
    <2> HIDE DEF n
    <2>1. CASE e.other = None BY <1>5, <1>10, <2>1 DEF Kept
    <2>2. CASE e.other # None BY <1>4, <1>5, <1>10, <2>2, UnhandSound, LegsAre
    <2> QED BY <2>1, <2>2
<1>12. ~Stale(e) => m.exit[l] = e.id /\ m.cid = e.win /\ m.taken = "none"
                    /\ (e.id = None => m.filled[l])
    BY DEF Stale
<1>13. (n.books <=> ~raced') /\ (n.counts => ~raced') BY <1>6, ContextFacts
<1> HIDE DEF n, w
<1>14. /\ Sound(x, m.cid, n) /\ Kept(m, x.s)
       /\ x.s.exit[l] = own \/ x.s.exit = m.exit
    <2>1. CASE e.id # None BY <1>2, <1>11, <2>1 DEF Submitted
    <2>2. CASE e.id = None
        <3>1. x \in Sell(w, e) BY <1>2, <2>2 DEF Submitted
        <3>2. ~raced' => ~Stale(e) BY <1>3, <2>2
        <3>3. n.counts => w.s.exit[l] = None /\ w.s.filled[l] /\ e.win = m.cid
            BY <1>11, <1>12, <1>13, <2>2, <3>2 DEF Kept
        <3>4. n.books => w.s.taken # l
            BY <1>4, <1>11, <1>12, <1>13, <3>2 DEF Kept, Legs
        <3>5. own = NewId(w) BY <1>11 DEF NewId
        <3>6. l \in Legs /\ e.win \in Nat /\ e.win <= m.cid /\ m.cid \in Nat /\ e.leg = l
            BY <1>4, <1>5
        <3> HIDE DEF l, e, own
        <3>7. Sound(x, m.cid, n) /\ Kept(w.s, x.s) /\ (x.s.exit[l] = NewId(w) \/ x.s.exit = w.s.exit)
            BY <1>11, <3>1, <3>3, <3>4, <3>6, SellSound
        <3> QED BY <1>11, <3>5, <3>7 DEF Kept
    <2> QED BY <2>1, <2>2
<1>15. x.s.cid = m.cid BY <1>14 DEF Kept
<1>16. Alone => ~raced' /\ RoundIsOn(x.s) /\ OnCourse(f, x.s)
    <2> SUFFICES ASSUME Alone PROVE ~raced' /\ RoundIsOn(x.s) /\ OnCourse(f, x.s)
        OBVIOUS
    <2>1. ~raced /\ RoundIsOn(m) /\ Exiting(m, l) /\ m.exit[l] = e.id /\ m.cid = e.win
        BY <1>1, <1>4 DEF OnCourse
    <2>2. ~Stale(e) BY <2>1 DEF Stale, Exiting
    <2>3. ~raced' BY <1>3, <2>1, <2>2
    <2>4. Exiting(x.s, l) BY <1>7, <1>14, <2>1 DEF Exiting, Kept
    <2>5. RoundIsOn(x.s) BY <1>7, <1>14, <1>4, <2>1 DEF RoundIsOn, BothFilled, Kept
    <2>6. x.s.exit[l] = id BY <1>14, <2>1 DEF id
    <2>7. OnCourse(f, x.s) BY <1>4, <1>8, <1>15, <2>1, <2>4, <2>6 DEF OnCourse
    <2> QED BY <2>3, <2>5, <2>7
<1>17. Sound(x, m.cid, Context(exits', raced', spent.stops)) BY <1>14 DEF n
<1>18. e.at # "none" /\ exits[t].at # "none" /\ f.leg \in Legs /\ f.win <= m.cid /\ UNCHANGED ticker
    BY <1>1, <1>4, <1>8 DEF ticker
<1> QED BY <1>2, <1>6, <1>8, <1>9, <1>15, <1>16, <1>17, <1>18, ExitKeeps

LEMMA AskFillKeeps ==
    ASSUME LiveInv, NEW t \in Threads, AskFill(t) PROVE LiveInv'
<1> DEFINE n == Context(exits', raced', spent.stops)
           e == exits[t]
           l == e.leg
<1>1. e.at = "ask" /\ pc' = pc /\ tick' = tick /\ exits' = [exits EXCEPT ![t] = NoExit]
    BY DEF AskFill, ticker
<1>2. \/ /\ m.xst[l] = "FILLED" \/ Matched(e.id)
         /\ Become(Taken(World, l)) /\ raced' = (raced \/ Stale(e))
      \/ Become(Pending(World)) /\ raced' = raced
      \/ Become([Pending(World) EXCEPT !.f = @ + 1]) /\ raced' = raced
    BY DEF AskFill
<1>3. /\ e \in ExitT /\ l \in Legs /\ e.id \in Nat
      /\ (Alone => ~raced /\ RoundIsOn(m) /\ OnCourse(e, m))
    BY <1>1, OneExit
<1>4. /\ Sound(World, m.cid, Context(exits, raced, spent.stops)) /\ World.s = m
      /\ World.os = orders /\ raced \in BOOLEAN
    BY WorldOfState DEF LiveInv
<1>5. raced' \in BOOLEAN /\ (raced => raced') BY <1>2, <1>4
<1>6. Sound(World, m.cid, n) BY <1>1, <1>4, <1>5, NoExitFacts, StillRead
<1>7. n.books <=> ~raced' BY <1>5, ContextFacts
<1>8. Alone => Exiting(m, l) /\ ~Stale(e)
    BY <1>1, <1>3 DEF OnCourse, Exiting, Stale
<1> HIDE DEF n
<1>9. ASSUME NEW w, Become(w), Sound(w, m.cid, n), w.s.cid = m.cid,
             Alone => ~raced' /\ RoundIsOn(w.s)
      PROVE  LiveInv'
    <2>1. Alone => ~raced' /\ RoundIsOn(w.s) /\ OnCourse(NoExit, w.s)
        BY <1>9, NoExitFacts DEF OnCourse
    <2>2. Sound(w, m.cid, Context(exits', raced', spent.stops)) BY <1>9 DEF n
    <2> QED BY <1>1, <1>5, <1>9, <2>1, <2>2, NoExitFacts, ExitKeeps DEF ticker
<1>10. CASE /\ m.xst[l] = "FILLED" \/ Matched(e.id)
            /\ Become(Taken(World, l)) /\ raced' = (raced \/ Stale(e))
    <2> DEFINE w == Taken(World, l)
    <2>1. n.books /\ m.exit[l] # None => orders[m.exit[l]].st = "matched"
        <3> SUFFICES ASSUME n.books, m.exit[l] # None PROVE orders[m.exit[l]].st = "matched"
            OBVIOUS
        <3>1. ~raced' /\ m.exit[l] = e.id BY <1>7, <1>10 DEF Stale
        <3>2. CASE Matched(e.id) BY <3>1, <3>2 DEF Matched
        <3>3. CASE m.xst[l] = "FILLED"
            BY <1>3, <1>4, <1>6, <3>3 DEF Sound, Booked
        <3> QED BY <1>10, <3>2, <3>3
    <2>2. Sound(w, m.cid, n) /\ SameRound(m, w.s) /\ w.s.status = "STOP_EXIT"
        BY <1>3, <1>4, <1>6, <2>1, TakenSound
    <2>3. Become(w) BY <1>10
    <2> HIDE DEF w
    <2>4. Alone => ~raced' BY <1>3, <1>8, <1>10
    <2>5. Alone => RoundIsOn(w.s) BY <1>3, <2>2 DEF RoundIsOn, SameRound, BothFilled
    <2>6. w.s.cid = m.cid BY <2>2 DEF SameRound
    <2> QED BY <1>9, <2>2, <2>3, <2>4, <2>5, <2>6
<1> DEFINE p == Pending(World)
<1>11. Sound(p, m.cid, n) /\ SameRound(m, p.s) /\ \A k \in Legs : Exiting(m, k) => RoundIsOn(p.s)
    BY <1>4, <1>6, PendingSound
<1>12. CASE Become(p) /\ raced' = raced
    <2> HIDE DEF p
    <2>1. p.s.cid = m.cid /\ (Alone => ~raced' /\ RoundIsOn(p.s))
        BY <1>3, <1>8, <1>11, <1>12 DEF SameRound
    <2> QED BY <1>9, <1>11, <1>12, <2>1
<1>13. CASE Become([p EXCEPT !.f = @ + 1]) /\ raced' = raced
    <2> HIDE DEF p
    <2> DEFINE w == [p EXCEPT !.f = p.f + 1]
    <2>1. Become(w) BY <1>13
    <2>2. Sound(w, m.cid, n) /\ w.s = p.s BY <1>11, FaultSound
    <2> HIDE DEF w
    <2>3. w.s.cid = m.cid /\ (Alone => ~raced' /\ RoundIsOn(w.s))
        BY <1>3, <1>8, <1>11, <1>13, <2>2 DEF SameRound
    <2> QED BY <1>9, <2>1, <2>2, <2>3
<1> QED BY <1>2, <1>10, <1>12, <1>13

-----------------------------------------------------------------------------
(* The steps that are no phase of the tick's and no exit's *)

LEMMA WorldKeeps ==
    ASSUME LiveInv, pc' = pc, tick' = tick, clock' \in ClockT, clock.win <= clock'.win,
           {running', halted', stopping', raced'} \subseteq BOOLEAN,
           spent' \in [faults : Nat, stops : Nat], stopping' => spent'.stops # 0,
           NEW w, World' = w, w.s.cid = m.cid, UnderWay(exits', m.cid),
           Sound(w, m.cid, Context(exits', raced', spent'.stops)),
           m.cid = None =>
                /\ \A l \in Legs : w.s.entry[l] = None /\ w.s.exit[l] = None /\ ~w.s.filled[l]
                /\ \A t \in Threads : exits'[t].at = "none",
           OwnExit'
    PROVE  LiveInv'
<1>1. m' = w.s /\ w \in WorldT BY DEF World, Sound
<1>2. clock.win \in Nat /\ clock'.win \in Nat /\ m.cid \in Nat /\ tick.win \in Nat
    BY WorldOfState DEF ClockT
<1>3. LiveTypes' BY <1>1 DEF LiveInv, LiveTypes
<1>4. Windows'
    <2>1. m'.cid = m.cid BY <1>1
    <2>2. m.cid <= clock'.win /\ tick.win <= clock'.win BY <1>2 DEF LiveInv, Windows
    <2> QED BY <1>1, <2>1, <2>2 DEF LiveInv, Windows
<1>5. (UnderWay(exits, m.cid) /\ Sound(World, m.cid, Context(exits, raced, spent.stops)))' BY <1>1
<1> QED BY <1>3, <1>4, <1>5 DEF LiveInv

LEMMA NotAlone ==
    ASSUME LiveInv, NEW t \in Executors
    PROVE  ~Alone /\ t \in Threads
<1>1. DOMAIN exits = Threads BY WorldOfState
<1> QED BY <1>1, LiveAssumption DEF Alone, Threads

LEMMA TriggeredFacts ==
    ASSUME NEW l \in Legs
    PROVE  LET e == [NoExit EXCEPT !.at = "read", !.leg = l]
           IN e \in ExitT /\ e.leg = l /\ e.other = None /\ e.win = None
BY DEF NoExit, ExitT, None

LEMMA SpotTriggerKeeps ==
    ASSUME LiveInv, NEW t \in Executors, SpotTrigger(t) PROVE LiveInv'
<1> DEFINE v == "STOP_EXIT_PENDING"
           w == [World EXCEPT !.s.status = v]
           e == [NoExit EXCEPT !.at = "read", !.leg = Naked(m)]
<1>1. /\ OneFilled(m) /\ m' = [m EXCEPT !.status = v] /\ exits' = [exits EXCEPT ![t] = e]
      /\ running' = running /\ halted' = halted /\ stopping' = stopping /\ pc' = pc /\ tick' = tick
      /\ clock' = clock /\ orders' = orders /\ lost' = lost /\ dropped' = dropped
      /\ raced' = raced /\ spent' = spent
    BY DEF SpotTrigger, engine, ticker
<1>2. t \in Threads /\ ~Alone BY NotAlone
<1>3. /\ Sound(World, m.cid, Context(exits, raced, spent.stops)) /\ World.s = m /\ m \in MarketT
      /\ exits \in [Threads -> ExitT] /\ raced \in BOOLEAN /\ m.cid \in Nat
    BY WorldOfState DEF LiveInv
<1>4. Naked(m) \in Legs /\ m.filled[Naked(m)] BY <1>1, <1>3, NakedIsLeg
<1>5. e \in ExitT /\ e.leg \in Legs /\ e.other = None /\ e.win <= m.cid
    <2>1. e.win = None /\ None <= m.cid BY <1>3 DEF NoExit, None
    <2> QED BY <1>4, <2>1, TriggeredFacts
<1> HIDE DEF e
<1>6. Sound(w, m.cid, Context(exits, raced, spent.stops)) /\ SameRound(m, w.s)
    BY <1>3, StatusSound DEF Statuses
<1>7. World' = w BY <1>1 DEF World
<1> HIDE DEF w
<1>8. Sound(w, m.cid, Context(exits', raced', spent'.stops))
    BY <1>1, <1>2, <1>3, <1>5, <1>6, StillRead
<1>9. /\ exits' \in [Threads -> ExitT] /\ exits'[t] = e /\ \A u \in Threads : u # t => exits'[u] = exits[u]
    BY <1>1, <1>2, <1>3, <1>5, ExitFacts
<1>10. UnderWay(exits', m.cid) BY <1>5, <1>9 DEF UnderWay, LiveInv
<1>11. m.cid # None BY <1>4 DEF LiveInv, Windows
<1>12. OwnExit' BY <1>1, <1>2, <1>3, <1>9 DEF OwnExit, Alone
<1>13. w.s.cid = m.cid BY <1>6 DEF SameRound
<1>14. clock' \in ClockT /\ clock.win <= clock'.win BY <1>1, WorldOfState DEF LiveInv, LiveTypes
<1>15. {running', halted', stopping', raced'} \subseteq BOOLEAN /\ spent' \in [faults : Nat, stops : Nat]
       /\ (stopping' => spent'.stops # 0)
    BY <1>1 DEF LiveInv, LiveTypes
<1> QED BY <1>1, <1>7, <1>8, <1>10, <1>11, <1>12, <1>13, <1>14, <1>15, WorldKeeps

LEMMA ReadHandlesKeeps ==
    ASSUME LiveInv, NEW t \in Executors, ReadHandles(t) PROVE LiveInv'
<1>1. PICK bid \in BOOLEAN : exits' = [exits EXCEPT ![t] = IF bid THEN Reading(m, @.leg) ELSE NoExit]
    BY DEF ReadHandles
<1> DEFINE e == IF bid THEN Reading(m, exits[t].leg) ELSE NoExit
<1>2. /\ exits[t].at = "read" /\ m' = m
      /\ running' = running /\ halted' = halted /\ stopping' = stopping /\ pc' = pc /\ tick' = tick
      /\ clock' = clock /\ orders' = orders /\ lost' = lost /\ dropped' = dropped
      /\ raced' = raced /\ spent' = spent
    BY DEF ReadHandles, engine, ticker
<1>3. t \in Threads /\ ~Alone BY NotAlone
<1>4. exits' = [exits EXCEPT ![t] = e] BY <1>1
<1>5. /\ Sound(World, m.cid, Context(exits, raced, spent.stops)) /\ World.s = m /\ m \in MarketT
      /\ exits \in [Threads -> ExitT] /\ raced \in BOOLEAN /\ m.cid \in Nat
    BY WorldOfState DEF LiveInv
<1>6. exits[t].leg \in Legs BY <1>2, <1>3, OneExit
<1>7. Opp(exits[t].leg) \in Legs BY <1>6, LegsAre
<1>8. /\ e \in ExitT /\ (e.at # "none" => e.leg \in Legs /\ e.win <= m.cid)
      /\ e.other \in {None, m.entry[Opp(exits[t].leg)]}
    BY <1>5, <1>6, ReadingFacts, NoExitFacts
<1> HIDE DEF e
<1>9. m.entry[Opp(exits[t].leg)] = None
      \/ (m.entry[Opp(exits[t].leg)] \in DOMAIN World.os
          /\ World.os[m.entry[Opp(exits[t].leg)]].side = "BUY")
    BY <1>5, <1>7, HandlesAreOrders
<1>10. World' = World BY <1>2 DEF World
<1> DEFINE x == exits
           y == exits'
           w == World
           k == spent.stops
<1>11. /\ x \in [Threads -> ExitT] /\ y = [x EXCEPT ![t] = e] /\ Sound(w, m.cid, Context(x, raced, k))
       /\ (e.other = None \/ (e.other \in DOMAIN w.os /\ w.os[e.other].side = "BUY"))
    BY <1>4, <1>5, <1>8, <1>9
<1>12. Sound(w, m.cid, Context(y, raced, k))
    <2> HIDE DEF x, y, w, k
    <2>1. ReadBy(y) \subseteq ReadBy(x) \cup ({e.other} \ {None}) BY <1>3, <1>8, <1>11, ExitFacts
    <2>2. \A i \in ReadBy(y) : i \in ReadBy(x) \/ (i \in DOMAIN w.os /\ w.os[i].side = "BUY")
        BY <1>11, <2>1
    <2> QED BY <1>5, <1>11, <2>2, Reread
<1>13. /\ exits' \in [Threads -> ExitT] /\ exits'[t] = e /\ \A u \in Threads : u # t => exits'[u] = exits[u]
    BY <1>3, <1>4, <1>5, <1>8, ExitFacts
<1>14. UnderWay(exits', m.cid) BY <1>8, <1>13 DEF UnderWay, LiveInv
<1>15. m.cid # None BY <1>2, <1>3 DEF LiveInv, Windows
<1>16. OwnExit' BY <1>2, <1>3, <1>5, <1>13 DEF OwnExit, Alone
<1>17. clock' \in ClockT /\ clock.win <= clock'.win BY <1>2, WorldOfState DEF LiveInv, LiveTypes
<1>18. {running', halted', stopping', raced'} \subseteq BOOLEAN /\ spent' \in [faults : Nat, stops : Nat]
       /\ (stopping' => spent'.stops # 0)
    BY <1>2 DEF LiveInv, LiveTypes
<1>19. World.s.cid = m.cid /\ Sound(World, m.cid, Context(exits', raced', spent'.stops))
    BY <1>2, <1>5, <1>12
<1> QED BY <1>2, <1>10, <1>14, <1>15, <1>16, <1>17, <1>18, <1>19, WorldKeeps

LEMMA EventKeeps ==
    ASSUME LiveInv, NEW i \in Ids, OnUserOrderEvent(i) PROVE LiveInv'
<1> DEFINE c == m.cid
           n == Context(exits, raced, spent.stops)
<1>1. PICK st \in Told(i) : m' = Event(m, i, st) BY DEF OnUserOrderEvent
<1>2. /\ running' = running /\ halted' = halted /\ stopping' = stopping /\ pc' = pc /\ tick' = tick
      /\ clock' = clock /\ orders' = orders /\ lost' = lost /\ dropped' = dropped
      /\ raced' = raced /\ spent' = spent /\ exits' = exits
    BY DEF OnUserOrderEvent, engine, ticker
<1>3. Sound(World, c, n) /\ World.s = m /\ World.os = orders
    BY WorldOfState DEF LiveInv, LiveTypes
<1>4. st \in {"LIVE", "MATCHED", "CANCELED"} /\ (st = "MATCHED" => orders[i].st = "matched")
    BY <1>1 DEF Told
<1>5. i \in DOMAIN World.os BY <1>3 DEF Ids
<1> DEFINE t == Event(World.s, i, st)
           x == [World EXCEPT !.s = t]
<1>6. /\ Sound(x, c, n) /\ (RoundIsOn(m) => RoundIsOn(x.s)) /\ x.s = t
      /\ t.cid = m.cid /\ t.taken = m.taken /\ t.pair = m.pair /\ t.entry = m.entry /\ t.exit = m.exit
      /\ \A l \in Legs : t.filled[l] => m.filled[l] \/ m.entry[l] # None
      /\ \A l \in Legs : m.filled[l] => t.filled[l]
    <2> DEFINE w == World
    <2>1. w.s = m /\ Sound(w, c, n) /\ i \in DOMAIN w.os /\ (st = "MATCHED" => w.os[i].st = "matched")
        BY <1>3, <1>4, <1>5
    <2>2. t = Event(w.s, i, st) BY DEF w
    <2> HIDE DEF w, c, n, t
    <2> DEFINE y == [w EXCEPT !.s = t]
    <2>3. /\ Sound(y, c, n) /\ (RoundIsOn(w.s) => RoundIsOn(y.s)) /\ y.s = t
          /\ t.cid = w.s.cid /\ t.taken = w.s.taken /\ t.pair = w.s.pair
          /\ t.entry = w.s.entry /\ t.exit = w.s.exit
          /\ \A l \in Legs : t.filled[l] => w.s.filled[l] \/ w.s.entry[l] # None
          /\ \A l \in Legs : w.s.filled[l] => t.filled[l]
        BY <1>4, <2>1, <2>2, EventSound
    <2> QED BY <2>1, <2>3 DEF w
<1>7. m' = t BY <1>1, <1>3
<1> HIDE DEF t
<1>8. World' = x BY <1>2, <1>7 DEF World
<1> HIDE DEF x, n
<1>9. OwnExit'
    <2> SUFFICES ASSUME Alone PROVE ~raced /\ RoundIsOn(t) /\ OnCourse(exits["ticker"], t)
        BY <1>2, <1>7 DEF OwnExit, Alone
    <2> QED BY <1>6 DEF LiveInv, OwnExit, OnCourse, Exiting
<1>10. x.s.cid = m.cid /\ Sound(x, m.cid, Context(exits', raced', spent'.stops)) BY <1>2, <1>6 DEF n
<1>11. clock' \in ClockT /\ clock.win <= clock'.win BY <1>2, WorldOfState DEF LiveInv, LiveTypes
<1>12. {running', halted', stopping', raced'} \subseteq BOOLEAN /\ spent' \in [faults : Nat, stops : Nat]
       /\ (stopping' => spent'.stops # 0)
    BY <1>2 DEF LiveInv, LiveTypes
<1>13. UnderWay(exits', m.cid) BY <1>2 DEF LiveInv
<1>14. m.cid = None => /\ \A l \in Legs : x.s.entry[l] = None /\ x.s.exit[l] = None /\ ~x.s.filled[l]
                       /\ \A u \in Threads : exits'[u].at = "none"
    BY <1>2, <1>6 DEF LiveInv, Windows
<1> QED BY <1>2, <1>8, <1>9, <1>10, <1>11, <1>12, <1>13, <1>14, WorldKeeps

\* What a stop leaves of the orders: some that were live are cancelled.
Ending(os, gone) ==
    [i \in DOMAIN os |-> IF i \in gone THEN [os[i] EXCEPT !.st = "canceled"] ELSE os[i]]

LEMMA StopCancels ==
    ASSUME NEW os \in Seq(OrderT), NEW gone, \A i \in gone : os[i].st = "live",
           NEW q, q = Ending(os, gone)
    PROVE  /\ q \in Seq(OrderT) /\ DOMAIN q = DOMAIN os
           /\ \A i \in DOMAIN os :
                /\ q[i].leg = os[i].leg /\ q[i].side = os[i].side /\ q[i].win = os[i].win
                /\ q[i].st = "live" => os[i].st = "live"
                /\ os[i].st = "matched" => q[i].st = "matched"
<1> DEFINE Ended(i) == IF i \in gone THEN [os[i] EXCEPT !.st = "canceled"] ELSE os[i]
<1>1. \A i \in DOMAIN os :
        /\ Ended(i) \in OrderT
        /\ Ended(i).leg = os[i].leg /\ Ended(i).side = os[i].side /\ Ended(i).win = os[i].win
        /\ Ended(i).st = "live" => os[i].st = "live"
        /\ os[i].st = "matched" => Ended(i).st = "matched"
    <2> TAKE i \in DOMAIN os
    <2>1. os[i] \in OrderT BY ElementOfSeq
    <2>2. CASE i \in gone BY <2>1, <2>2 DEF OrderT
    <2>3. CASE i \notin gone BY <2>1, <2>3
    <2> QED BY <2>2, <2>3
<1>2. DOMAIN os = 1..Len(os) /\ Len(os) \in Nat OBVIOUS
<1>3. q = [i \in DOMAIN os |-> Ended(i)] BY DEF Ending
<1> HIDE DEF Ended
<1>4. q \in Seq(OrderT) BY <1>1, <1>2, <1>3
<1>5. DOMAIN q = DOMAIN os /\ \A i \in DOMAIN os : q[i] = Ended(i) BY <1>3
<1> QED BY <1>1, <1>4, <1>5

\* After a stop no count is promised.
LEMMA StoppedSound ==
    ASSUME NEW w, NEW x \in WorldT, NEW c, NEW n, Sound(w, c, n),
           NEW k, k.books => n.books, ~k.counts, k.read = n.read,
           DOMAIN x.os = DOMAIN w.os,
           \A i \in DOMAIN w.os :
                /\ x.os[i].leg = w.os[i].leg /\ x.os[i].side = w.os[i].side
                /\ x.os[i].win = w.os[i].win
                /\ x.os[i].st = "live" => w.os[i].st = "live"
                /\ w.os[i].st = "matched" => x.os[i].st = "matched",
           x.s.entry = w.s.entry, x.s.next = w.s.next, x.s.exit = w.s.exit,
           x.s.nextCid = w.s.nextCid, x.s.filled = w.s.filled, x.s.xst = w.s.xst,
           x.s.taken = w.s.taken, x.lost = w.lost, x.dropped = w.dropped
    PROVE  Sound(x, c, k)
<1>1. Handled(x, c)
    <2>1. EntriesOf(x, c) BY DEF Sound, Handled, EntriesOf, Of
    <2>2. NextOf(x) BY DEF Sound, Handled, NextOf, Of
    <2>3. ExitsOf(x) BY DEF Sound, Handled, ExitsOf, Of
    <2>4. SalesUpTo(x, c) BY DEF Sound, Handled, SalesUpTo
    <2> QED BY <2>1, <2>2, <2>3, <2>4 DEF Handled
<1>2. Known(x) BY DEF Sound, Known, Holds
<1>3. Backed(x, c)
    <2> SUFFICES ASSUME NEW l \in Legs, x.s.filled[l] PROVE Bought(x.os, l, c) # {}
        BY DEF Backed
    <2>1. PICK i : i \in Bought(w.os, l, c) BY DEF Sound, Backed
    <2>2. i \in Bought(x.os, l, c) BY <2>1 DEF Bought
    <2> QED BY <2>2
<1>4. k.books => Booked(x) BY DEF Sound, Booked, Handled, ExitsOf, Of
<1>5. Purchases(x.os, k.read) BY DEF Sound, Purchases
<1> QED BY <1>1, <1>2, <1>3, <1>4, <1>5 DEF Sound

LEMMA CalmedFacts ==
    ASSUME NEW s \in MarketT
    PROVE  LET t == Calmed(s)
           IN /\ t \in MarketT /\ t.cid = s.cid /\ t.nextCid = s.nextCid
              /\ t.entry = s.entry /\ t.next = s.next /\ t.exit = s.exit
              /\ t.filled = s.filled /\ t.xst = s.xst /\ t.taken = s.taken
<1> DEFINE v == IF s.status \in {"QUOTING", "STOP_EXIT_PENDING"} THEN "IDLE" ELSE s.status
           t == [s EXCEPT !.status = v]
<1>1. Calmed(s) = t BY DEF Calmed
<1>2. v \in Statuses BY MarketFacts DEF Statuses
<1> HIDE DEF v
<1>3. /\ t \in MarketT /\ t.cid = s.cid /\ t.nextCid = s.nextCid
      /\ t.entry = s.entry /\ t.next = s.next /\ t.exit = s.exit
      /\ t.filled = s.filled /\ t.xst = s.xst /\ t.taken = s.taken
    BY <1>2 DEF MarketT
<1> QED BY <1>1, <1>3

LEMMA StopKeeps ==
    ASSUME LiveInv, Stop PROVE LiveInv'
<1>1. /\ Sound(World, m.cid, Context(exits, raced, spent.stops)) /\ World.s = m /\ m \in MarketT
      /\ World.os = orders /\ World.lost = lost /\ World.dropped = dropped /\ World \in WorldT
      /\ orders \in Seq(OrderT) /\ raced \in BOOLEAN /\ m.cid \in Nat
      /\ spent \in [faults : Nat, stops : Nat]
    BY WorldOfState DEF LiveInv, LiveTypes
<1>2. /\ running' = FALSE /\ halted' = TRUE /\ pc' = pc /\ tick' = tick /\ exits' = exits
      /\ clock' = clock /\ lost' = lost /\ dropped' = dropped /\ raced' = raced
    BY DEF Stop, ticker
<1>3. PICK gone \in SUBSET Resting :
        /\ orders' = Ending(orders, gone)
        /\ m' \in {m, Calmed(m)} /\ stopping' \in {TRUE, stopping}
        /\ \/ spent' = [spent EXCEPT !.stops = @ + 1]
           \/ spent' = [faults |-> spent.faults + 1, stops |-> spent.stops + 1]
    <2>1. {} \in SUBSET Resting /\ Resting \in SUBSET Resting OBVIOUS
    <2> QED BY <2>1 DEF Stop, CancelAll, Ids, Ending
<1>4. spent' \in [faults : Nat, stops : Nat] /\ spent'.stops # 0 BY <1>1, <1>3
<1> DEFINE q == orders'
           w == World
           x == World'
           c == m.cid
           n == Context(exits, raced, spent.stops)
           k == Context(exits', raced', spent'.stops)
<1>5. \A i \in gone : orders[i].st = "live" BY <1>3 DEF Resting, Live
<1>6. /\ q \in Seq(OrderT) /\ DOMAIN q = DOMAIN orders
      /\ \A i \in DOMAIN orders :
            /\ q[i].leg = orders[i].leg /\ q[i].side = orders[i].side /\ q[i].win = orders[i].win
            /\ q[i].st = "live" => orders[i].st = "live"
            /\ orders[i].st = "matched" => q[i].st = "matched"
    <2> DEFINE os == orders
    <2>1. os \in Seq(OrderT) /\ q = Ending(os, gone) /\ \A i \in gone : os[i].st = "live"
        BY <1>1, <1>3, <1>5
    <2> HIDE DEF q, os
    <2>2. /\ q \in Seq(OrderT) /\ DOMAIN q = DOMAIN os
          /\ \A i \in DOMAIN os :
                /\ q[i].leg = os[i].leg /\ q[i].side = os[i].side /\ q[i].win = os[i].win
                /\ q[i].st = "live" => os[i].st = "live"
                /\ os[i].st = "matched" => q[i].st = "matched"
        BY <2>1, StopCancels
    <2> QED BY <2>2 DEF os
<1>7. /\ m' \in MarketT /\ m'.cid = m.cid /\ m'.nextCid = m.nextCid
      /\ m'.entry = m.entry /\ m'.next = m.next /\ m'.exit = m.exit
      /\ m'.filled = m.filled /\ m'.xst = m.xst /\ m'.taken = m.taken
    BY <1>1, <1>3, CalmedFacts
<1>8. /\ (k.books <=> ~raced') /\ (n.books <=> ~raced) /\ ~k.counts
      /\ k.read = ReadBy(exits') /\ n.read = ReadBy(exits)
    BY <1>1, <1>2, <1>4, ContextFacts
<1>9. /\ x = [s |-> m', os |-> q, lost |-> lost, dropped |-> dropped, f |-> spent'.faults]
      /\ lost \in IdSets /\ dropped \in IdSets
    BY <1>1, <1>2, WorldFacts DEF World
<1> HIDE DEF q, x
<1>10. /\ x \in WorldT /\ x.s = m' /\ x.os = q /\ x.lost = lost /\ x.dropped = dropped
    BY <1>4, <1>6, <1>7, <1>9 DEF WorldT, Books
<1>11. Sound(x, c, k)
    <2>1. Sound(w, c, n) /\ (k.books => n.books) /\ ~k.counts /\ k.read = n.read
        BY <1>1, <1>2, <1>8
    <2>2. /\ DOMAIN x.os = DOMAIN w.os
          /\ \A i \in DOMAIN w.os :
                /\ x.os[i].leg = w.os[i].leg /\ x.os[i].side = w.os[i].side
                /\ x.os[i].win = w.os[i].win
                /\ x.os[i].st = "live" => w.os[i].st = "live"
                /\ w.os[i].st = "matched" => x.os[i].st = "matched"
        BY <1>1, <1>6, <1>10
    <2>3. /\ x.s.entry = w.s.entry /\ x.s.next = w.s.next /\ x.s.exit = w.s.exit
          /\ x.s.nextCid = w.s.nextCid /\ x.s.filled = w.s.filled /\ x.s.xst = w.s.xst
          /\ x.s.taken = w.s.taken /\ x.lost = w.lost /\ x.dropped = w.dropped
        BY <1>1, <1>7, <1>10
    <2> HIDE DEF w, c, n, k
    <2> QED BY <1>10, <2>1, <2>2, <2>3, StoppedSound
<1>12. UnderWay(exits', m.cid) BY <1>2 DEF LiveInv
<1>13. OwnExit' BY <1>4 DEF OwnExit, Alone
<1>14. clock' \in ClockT /\ clock.win <= clock'.win BY <1>2, WorldOfState DEF LiveInv, LiveTypes
<1>15. {running', halted', stopping', raced'} \subseteq BOOLEAN /\ (stopping' => spent'.stops # 0)
    BY <1>2, <1>3, <1>4 DEF LiveInv, LiveTypes
<1>16. m.cid = None => /\ \A l \in Legs : x.s.entry[l] = None /\ x.s.exit[l] = None /\ ~x.s.filled[l]
                       /\ \A u \in Threads : exits'[u].at = "none"
    BY <1>2, <1>7, <1>10 DEF LiveInv, Windows
<1>17. x.s.cid = m.cid /\ World' = x BY <1>7, <1>10 DEF x
<1>18. Sound(x, m.cid, Context(exits', raced', spent'.stops)) BY <1>11
<1> HIDE DEF c, k, n, w
<1> QED BY <1>2, <1>4, <1>12, <1>13, <1>14, <1>15, <1>16, <1>17, <1>18, WorldKeeps

LEMMA StopClearsKeeps ==
    ASSUME LiveInv, StopClears PROVE LiveInv'
<1> DEFINE none == Both(None)
           off == Both("CANCELLED")
           r == Calmed(m)
           t == [r EXCEPT !.entry = none, !.est = off, !.exit = none, !.xst = off,
                          !.anchored = FALSE, !.next = none, !.nextQuoted = FALSE]
           gone == {i \in Ids : Live(i) /\ Holds(m, i)}
           w == World
           x == World'
           n == Context(exits, raced, spent.stops)
<1>1. /\ stopping /\ stopping' = FALSE /\ m' = t /\ dropped' = dropped \cup gone
      /\ running' = running /\ halted' = halted /\ pc' = pc /\ tick' = tick /\ exits' = exits
      /\ clock' = clock /\ orders' = orders /\ lost' = lost /\ raced' = raced /\ spent' = spent
    BY DEF StopClears, ticker
<1>2. /\ Sound(w, m.cid, n) /\ w.s = m /\ m \in MarketT
      /\ w.os = orders /\ w.lost = lost /\ w.dropped = dropped /\ w \in WorldT
      /\ orders \in Seq(OrderT) /\ raced \in BOOLEAN /\ m.cid \in Nat
      /\ spent \in [faults : Nat, stops : Nat]
    BY WorldOfState DEF LiveInv, LiveTypes
<1>3. spent.stops # 0 BY <1>1 DEF LiveInv, LiveTypes
<1>4. /\ none \in [Legs -> Nat] /\ off \in [Legs -> Tags] /\ \A l \in Legs : none[l] = None
    BY DEF Both, None, Tags
<1>5. /\ r \in MarketT /\ r.cid = m.cid /\ r.nextCid = m.nextCid
      /\ r.filled = m.filled /\ r.taken = m.taken
    BY <1>2, CalmedFacts
<1> HIDE DEF none, off, r
<1>6. /\ t \in MarketT /\ t.entry = none /\ t.next = none /\ t.exit = none /\ t.cid = m.cid
      /\ t.nextCid = m.nextCid /\ t.filled = m.filled /\ t.taken = m.taken
    BY <1>4, <1>5 DEF MarketT
<1> HIDE DEF t
<1>7. gone \in SUBSET Nat BY <1>2, OrderFacts DEF Ids
<1>8. x = [s |-> t, os |-> orders, lost |-> lost, dropped |-> dropped \cup gone, f |-> spent.faults]
    BY <1>1 DEF World
<1>9. lost \in IdSets /\ dropped \cup gone \in IdSets /\ orders \in Books
    BY <1>2, <1>7, WorldFacts DEF IdSets
<1>10. \A i \in DOMAIN orders : orders[i].st = "live" /\ Holds(m, i) => i \in gone
    BY DEF Ids, Live
<1> HIDE DEF gone, x, w
<1>11. /\ x \in WorldT /\ x.s = t /\ x.os = orders /\ x.lost = lost /\ x.dropped = dropped \cup gone
    BY <1>2, <1>6, <1>8, <1>9 DEF WorldT
<1>12. ~n.counts BY <1>2, <1>3, ContextFacts
<1> HIDE DEF n
<1>13. Sound(x, m.cid, n)
    <2> DEFINE c == m.cid
    <2>1. /\ LetsGo(w.s.entry, x.s.entry) /\ LetsGo(w.s.next, x.s.next) /\ LetsGo(w.s.exit, x.s.exit)
        BY <1>4, <1>6, <1>11 DEF LetsGo
    <2>2. /\ x.s.nextCid = w.s.nextCid /\ (\A l \in Legs : x.s.filled[l] => w.s.filled[l])
          /\ (\A l \in Legs : x.s.exit[l] = None) /\ x.s.taken = w.s.taken
        BY <1>2, <1>4, <1>6, <1>11
    <2>3. /\ x.os = w.os /\ x.lost = w.lost /\ w.dropped \subseteq x.dropped
          /\ \A i \in DOMAIN w.os : w.os[i].st = "live" /\ Holds(w.s, i) /\ ~Holds(x.s, i)
                                        => i \in x.dropped
        BY <1>2, <1>10, <1>11
    <2>4. Sound(w, c, n) BY <1>2
    <2> HIDE DEF c
    <2>5. Sound(x, c, n) BY <1>11, <1>12, <2>1, <2>2, <2>3, <2>4, LetGoSound
    <2> QED BY <2>5 DEF c
<1>14. UnderWay(exits', m.cid) BY <1>1 DEF LiveInv
<1>15. OwnExit' BY <1>1, <1>3 DEF OwnExit, Alone
<1>16. clock' \in ClockT /\ clock.win <= clock'.win BY <1>1, WorldOfState DEF LiveInv, LiveTypes
<1>17. {running', halted', stopping', raced'} \subseteq BOOLEAN /\ (stopping' => spent'.stops # 0)
       /\ spent' \in [faults : Nat, stops : Nat]
    BY <1>1, <1>2 DEF LiveInv, LiveTypes
<1>18. m.cid = None => /\ \A l \in Legs : x.s.entry[l] = None /\ x.s.exit[l] = None /\ ~x.s.filled[l]
                       /\ \A u \in Threads : exits'[u].at = "none"
    BY <1>1, <1>4, <1>6, <1>11 DEF LiveInv, Windows
<1>19. x.s.cid = m.cid /\ World' = x BY <1>6, <1>11 DEF x
<1>20. Sound(x, m.cid, Context(exits', raced', spent'.stops)) BY <1>1, <1>13 DEF n
<1> QED BY <1>1, <1>14, <1>15, <1>16, <1>17, <1>18, <1>19, <1>20, WorldKeeps

LEMMA StartKeeps ==
    ASSUME LiveInv, Start PROVE LiveInv'
<1>1. /\ running' = TRUE /\ halted' = FALSE /\ stopping' = stopping /\ pc' = pc /\ tick' = tick
      /\ exits' = exits /\ clock' = clock /\ m' = m /\ orders' = orders /\ lost' = lost
      /\ dropped' = dropped /\ raced' = raced /\ spent' = spent
    BY DEF Start, ticker
<1>2. World' = World BY <1>1 DEF World
<1>3. LiveTypes' /\ Windows' BY <1>1, <1>2 DEF LiveInv, LiveTypes, Windows
<1>4. (UnderWay(exits, m.cid) /\ Sound(World, m.cid, Context(exits, raced, spent.stops)))'
    BY <1>1, <1>2 DEF LiveInv
<1>5. OwnExit' BY <1>1 DEF LiveInv, OwnExit, Alone
<1> QED BY <1>3, <1>4, <1>5 DEF LiveInv

LEMMA AdvanceClockKeeps ==
    ASSUME LiveInv, AdvanceClock PROVE LiveInv'
<1>1. /\ running' = running /\ halted' = halted /\ stopping' = stopping /\ pc' = pc /\ tick' = tick
      /\ exits' = exits /\ m' = m /\ orders' = orders /\ lost' = lost
      /\ dropped' = dropped /\ raced' = raced /\ spent' = spent
    BY DEF AdvanceClock, engine, ticker
<1>2. clock \in ClockT BY DEF LiveInv, LiveTypes
<1>3. clock' \in ClockT /\ clock.win <= clock'.win /\ clock.win \in Nat /\ clock'.win \in Nat
    BY <1>2 DEF AdvanceClock, ClockT
<1>4. m.cid \in Nat /\ tick.win \in Nat BY WorldOfState
<1>5. World' = World BY <1>1 DEF World
<1>6. Windows'
    <2>1. m.cid <= clock'.win /\ tick.win <= clock'.win
        BY <1>3, <1>4 DEF LiveInv, Windows
    <2> QED BY <1>1, <2>1 DEF LiveInv, Windows
<1>7. LiveTypes' BY <1>1, <1>3, <1>5 DEF LiveInv, LiveTypes
<1>8. (UnderWay(exits, m.cid) /\ Sound(World, m.cid, Context(exits, raced, spent.stops)))'
    BY <1>1, <1>5 DEF LiveInv
<1>9. OwnExit' BY <1>1 DEF LiveInv, OwnExit, Alone
<1> QED BY <1>6, <1>7, <1>8, <1>9 DEF LiveInv

LEMMA VenueMatchesKeeps ==
    ASSUME LiveInv, NEW i \in Ids, VenueMatches(i) PROVE LiveInv'
<1> DEFINE q == [orders EXCEPT ![i].st = "matched"]
           x == [World EXCEPT !.os = q]
           n == Context(exits, raced, spent.stops)
<1>1. Sound(World, m.cid, n) /\ World.s = m /\ World.os = orders
      /\ World.lost = lost /\ World.dropped = dropped
      /\ orders \in Seq(OrderT) /\ World \in WorldT
    BY WorldOfState DEF LiveInv, LiveTypes
<1>2. Turned(orders, q, i, "matched") /\ orders[i].st = "live"
    BY <1>1, ExceptTurns DEF VenueMatches, Ids
<1>3. /\ orders' = q /\ m' = m /\ running' = running /\ halted' = halted /\ stopping' = stopping
      /\ pc' = pc /\ tick' = tick /\ exits' = exits
      /\ clock' = clock /\ lost' = lost /\ dropped' = dropped /\ raced' = raced /\ spent' = spent
    BY DEF VenueMatches, engine, ticker
<1> HIDE DEF q, n
<1>4. q \in Books BY <1>2 DEF Turned, Books
<1>5. x \in WorldT /\ x.s = m /\ x.os = q /\ x.lost = lost /\ x.dropped = dropped
    BY <1>1, <1>4, WithOrders
<1>6. World' = x BY <1>3 DEF World
<1> HIDE DEF x
<1>7. Sound(x, m.cid, n) BY <1>1, <1>2, <1>5, MatchSound
<1>8. (UnderWay(exits, m.cid) /\ Sound(World, m.cid, Context(exits, raced, spent.stops)))'
    BY <1>3, <1>6, <1>7 DEF LiveInv, n
<1>9. LiveTypes' BY <1>3, <1>5, <1>6 DEF LiveInv, LiveTypes
<1>10. Windows' BY <1>3 DEF LiveInv, Windows
<1>11. OwnExit' BY <1>3 DEF LiveInv, OwnExit, Alone
<1> QED BY <1>8, <1>9, <1>10, <1>11 DEF LiveInv

LEMMA InitLiveInv == Init => LiveInv
<1> SUFFICES ASSUME Init PROVE LiveInv
    OBVIOUS
<1>1. m \in MarketT
    BY DEF Init, Market, Both, None, MarketT, Statuses, Tags
<1>2. /\ m.cid = None /\ m.status = "IDLE" /\ ~m.pair /\ m.taken = "none"
      /\ \A l \in Legs : m.entry[l] = None /\ m.next[l] = None /\ m.exit[l] = None /\ ~m.filled[l]
    BY DEF Init, Market, Both
<1>3. /\ orders = <<>> /\ orders \in Seq(OrderT) /\ lost = {} /\ dropped = {}
      /\ spent = [faults |-> 0, stops |-> 0] /\ spent.stops = 0 /\ spent.faults = 0
      /\ clock = [win |-> 1, at |-> "open"] /\ tick = clock
      /\ pc = "idle" /\ running = TRUE /\ halted = FALSE /\ stopping = FALSE /\ raced = FALSE
    BY DEF Init
<1>4. DOMAIN orders = {} /\ orders \in Books BY <1>3 DEF Books
<1>5. World \in WorldT BY <1>1, <1>3, <1>4 DEF World, WorldT, IdSets
<1>6. World.s = m /\ World.os = orders /\ World.lost = {} BY <1>3 DEF World
<1>7. spent \in [faults : Nat, stops : Nat] BY <1>3
<1>8. clock \in ClockT /\ clock.win = 1 BY <1>3 DEF ClockT
<1>9. \A l \in Legs : \A c : Sold(orders, l, c) = {} /\ Bought(orders, l, c) = {}
    BY <1>4 DEF Sold, Bought
<1>10. /\ exits \in [Threads -> ExitT] /\ ReadBy(exits) = {}
       /\ \A t \in Threads : exits[t] = NoExit /\ exits[t].at = "none"
    <2>1. exits = [t \in Threads |-> NoExit] BY DEF Init
    <2> QED BY <2>1, NoExitFacts DEF ReadBy
<1> DEFINE n == Context(exits, raced, spent.stops)
<1>11. n.read = {} BY <1>3, <1>10, ContextFacts
<1>12. Sound(World, m.cid, n)
    <2> DEFINE w == World
               c == m.cid
    <2> HIDE DEF w, c, n
    <2>1. w \in WorldT /\ w.s = m /\ w.os = orders BY <1>5, <1>6 DEF w
    <2>2. Handled(w, c)
        BY <2>1, <1>2, <1>4 DEF Handled, EntriesOf, NextOf, ExitsOf, SalesUpTo
    <2>3. Known(w) BY <2>1, <1>4 DEF Known
    <2>4. Backed(w, c) BY <2>1, <1>2 DEF Backed
    <2>5. Booked(w) BY <2>1, <1>2 DEF Booked
    <2>6. Counted(w, c)
        <3> SUFFICES ASSUME NEW l \in Legs
                     PROVE  Cardinality(Sold(w.os, l, c)) + Left(w, l, c)
                                <= Cardinality(Bought(w.os, l, c))
            BY DEF Counted
        <3>1. Left(w, l, c) = 0 BY <2>1, <1>2 DEF Left, ToSell
        <3>2. Cardinality(Sold(w.os, l, c)) = 0 /\ Cardinality(Bought(w.os, l, c)) = 0
            BY <2>1, <1>9, FS_EmptySet
        <3> QED BY <3>1, <3>2
    <2>7. Purchases(w.os, n.read) BY <1>11 DEF Purchases
    <2>8. Sound(w, c, n) BY <2>1, <2>2, <2>3, <2>4, <2>5, <2>6, <2>7 DEF Sound
    <2> QED BY <2>8 DEF w, c
<1> HIDE DEF n
<1>13. OwnExit
    <2>1. RoundIsOn(m) BY <1>2 DEF RoundIsOn
    <2>2. exits["ticker"].at = "none" BY <1>10 DEF Threads
    <2> QED BY <1>3, <2>1, <2>2 DEF OwnExit, OnCourse
<1>14. LiveTypes BY <1>3, <1>5, <1>7, <1>8 DEF LiveTypes, Phases
<1>15. Windows BY <1>2, <1>3, <1>8, <1>10 DEF Windows, None, Turning
<1>16. UnderWay(exits, m.cid) BY <1>10 DEF UnderWay
<1> QED BY <1>12, <1>13, <1>14, <1>15, <1>16 DEF LiveInv, n

LEMMA StepKeeps == LiveInv /\ [Next]_vars => LiveInv'
<1> SUFFICES ASSUME LiveInv, [Next]_vars PROVE LiveInv'
    OBVIOUS
<1>1. CASE BeginTick BY <1>1, BeginTickKeeps
<1>2. CASE Roll BY <1>2, RollKeeps
<1>3. CASE Settle BY <1>3, SettleKeeps
<1>4. CASE Reset BY <1>4, ResetKeeps
<1>5. CASE Decide BY <1>5, DecideKeeps
<1>6. CASE Quote BY <1>6, QuoteKeeps
<1>7. CASE Poll BY <1>7, PollKeeps
<1>8. CASE Close BY <1>8, CloseKeeps
<1>9. CASE Leg BY <1>9, LegKeeps
<1>10. ASSUME NEW t \in Threads, ExitStep(t) PROVE LiveInv'
    BY <1>10, CancelOtherKeeps, SubmitKeeps, AskFillKeeps DEF ExitStep
<1>11. ASSUME NEW t \in Executors, SpotTrigger(t) \/ ReadHandles(t) PROVE LiveInv'
    BY <1>11, SpotTriggerKeeps, ReadHandlesKeeps
<1>12. CASE Stop BY <1>12, StopKeeps
<1>13. CASE StopClears BY <1>13, StopClearsKeeps
<1>14. CASE Start BY <1>14, StartKeeps
<1>15. CASE AdvanceClock BY <1>15, AdvanceClockKeeps
<1>16. ASSUME NEW i \in Ids, OnUserOrderEvent(i) \/ VenueMatches(i) PROVE LiveInv'
    BY <1>16, EventKeeps, VenueMatchesKeeps
<1>17. CASE UNCHANGED vars
    <2>1. /\ running' = running /\ halted' = halted /\ stopping' = stopping /\ pc' = pc
          /\ tick' = tick /\ exits' = exits /\ clock' = clock /\ m' = m /\ orders' = orders
          /\ lost' = lost /\ dropped' = dropped /\ raced' = raced /\ spent' = spent
        BY <1>17 DEF vars
    <2>2. World' = World BY <2>1 DEF World
    <2>3. LiveTypes' /\ Windows' BY <2>1, <2>2 DEF LiveInv, LiveTypes, Windows
    <2>4. (UnderWay(exits, m.cid) /\ Sound(World, m.cid, Context(exits, raced, spent.stops)))'
        BY <2>1, <2>2 DEF LiveInv
    <2>5. OwnExit' BY <2>1 DEF LiveInv, OwnExit, Alone
    <2> QED BY <2>3, <2>4, <2>5 DEF LiveInv
<1> QED BY <1>1, <1>2, <1>3, <1>4, <1>5, <1>6, <1>7, <1>8, <1>9, <1>10, <1>11, <1>12, <1>13,
           <1>14, <1>15, <1>16, <1>17 DEF Next

-----------------------------------------------------------------------------
(* The theorems *)

(* What the engine knows of its orders, and what the venue holds, stay in   *)
(* step: the invariant of every phase of the tick, of every step of a stop  *)
(* exit of the tick's or of an executor's thread, of the stream thread's    *)
(* unlocked writes, of the parts of a stop, and of the venue's matches.     *)
THEOREM LiveInvHolds == Spec => []LiveInv
<1>1. Init => LiveInv BY InitLiveInv
<1>2. LiveInv /\ [Next]_vars => LiveInv' BY StepKeeps
<1> QED BY <1>1, <1>2, PTL DEF Spec

(* No live order is unknown to the market, but for one whose answer was     *)
(* lost (place_live_quote, cancel_live_order) or whose handle was let go    *)
(* (_handle_window_rollover, _reset_round_to_clean, cancel_all_orders, and  *)
(* the unguarded write and clear of _execute_stop_exit); and a leg counts   *)
(* as filled only if it was bought in this window.                          *)
THEOREM OrdersAreKnown == Spec => []OrdersKnown
<1>1. LiveInv => OrdersKnown
    <2> SUFFICES ASSUME LiveInv PROVE OrdersKnown
        OBVIOUS
    <2>1. Known(World) /\ Backed(World, m.cid) BY DEF LiveInv, Sound
    <2>2. World.s = m /\ World.os = orders /\ World.lost = lost /\ World.dropped = dropped
        BY WorldOfState
    <2>3. Managed BY <2>1, <2>2 DEF Known, Managed, Live, Ids
    <2>4. FilledWasBought
        <3> SUFFICES ASSUME NEW l \in Legs, m.filled[l] PROVE Orders(l, "BUY", {"matched"}) # {}
            BY DEF FilledWasBought
        <3>1. Bought(orders, l, m.cid) # {} BY <2>1, <2>2 DEF Backed
        <3>2. Orders(l, "BUY", {"matched"}) = Bought(orders, l, m.cid)
            BY DEF Orders, Bought, Ids
        <3> QED BY <3>1, <3>2
    <2> QED BY <2>3, <2>4 DEF OrdersKnown
<1> QED BY <1>1, LiveInvHolds, PTL

(* However often an exit is retried (_execute_stop_exit), what it books is  *)
(* a sale at the venue, and no more of a leg is offered than was bought of  *)
(* it, while no answer of the venue is lost and no stop lets the exit's     *)
(* handle go: unless an exit acted on what another thread's had made        *)
(* untrue, which the tick alone, without spot ticks, never does.            *)
THEOREM SoldOnceHolds == Spec => []SoldOnce
<1>1. LiveInv => SoldOnce
    <2> SUFFICES ASSUME LiveInv PROVE SoldOnce
        OBVIOUS
    <2> DEFINE n == Context(exits, raced, spent.stops)
    <2>1. Handled(World, m.cid) /\ (n.books => Booked(World)) /\ (n.counts => Counted(World, m.cid))
        BY DEF LiveInv, Sound
    <2>2. World.s = m /\ World.os = orders /\ World.lost = lost /\ m \in MarketT
          /\ orders \in Seq(OrderT) /\ raced \in BOOLEAN
        BY WorldOfState
    <2>3. (n.books <=> ~raced) /\ (n.counts <=> ~raced /\ spent.stops = 0)
        BY <2>2, ContextFacts
    <2> HIDE DEF n
    <2>4. ExitWasSold
        <3> SUFFICES ASSUME ~raced, m.taken # "none", m.exit[m.taken] # None
                     PROVE  Matched(m.exit[m.taken])
            BY DEF ExitWasSold
        <3>1. m.taken \in Legs BY <2>2, MarketFacts
        <3>2. orders[m.exit[m.taken]].st = "matched" BY <2>1, <2>2, <2>3, <3>1 DEF Booked
        <3>3. m.exit[m.taken] \in DOMAIN orders
            BY <2>1, <2>2, <3>1 DEF Handled, ExitsOf, Of
        <3> QED BY <3>2, <3>3 DEF Matched, Ids
    <2>5. NeverOversold
        <3> SUFFICES ASSUME lost = {}, spent.stops = 0, ~raced, NEW l \in Legs
                     PROVE  Cardinality(Orders(l, "SELL", {"live", "matched"}))
                                <= Cardinality(Orders(l, "BUY", {"matched"}))
            BY DEF NeverOversold
        <3> DEFINE c == m.cid
        <3>1. Orders(l, "SELL", {"live", "matched"}) = Sold(orders, l, c)
            BY DEF Orders, Sold, Ids
        <3>2. Orders(l, "BUY", {"matched"}) = Bought(orders, l, c)
            BY DEF Orders, Bought, Ids
        <3>3. Cardinality(Sold(orders, l, c)) + Left(World, l, c) <= Cardinality(Bought(orders, l, c))
            BY <2>1, <2>2, <2>3 DEF Counted
        <3>4. Left(World, l, c) \in Nat BY DEF Left
        <3>5. Cardinality(Sold(orders, l, c)) \in Nat /\ Cardinality(Bought(orders, l, c)) \in Nat
            BY <2>2, CountsFinite
        <3> HIDE DEF c
        <3> QED BY <3>1, <3>2, <3>3, <3>4, <3>5
    <2>6. OnlySpotRaces BY DEF LiveInv, OwnExit, Alone, OnlySpotRaces
    <2> QED BY <2>4, <2>5, <2>6 DEF SoldOnce
<1> QED BY <1>1, LiveInvHolds, PTL
=============================================================================
