---------------------------- MODULE MarketFeed ----------------------------
(***************************************************************************)
(* The market socket of strategy/streaming.py (CLOBMarketWSClient): one    *)
(* thread opens sessions, subscribes, and reduces frames into books and    *)
(* print buffers; the collector's thread rotates the subscribed tokens,    *)
(* drains the prints and reads the books meanwhile.  Both transports are   *)
(* here: "direct", which drives the raw socket, and "sdk".                 *)
(*                                                                         *)
(* Each step is a lock section, or an unlocked read or write between two   *)
(* of them.  The venue is external: it owns the true books, and sends each *)
(* subscribed session a snapshot of every token and then its changes.  A   *)
(* ladder is the set of its bid levels; the ask side is its mirror image.  *)
(*                                                                         *)
(* A definition named Bug... is not part of the model: it is a plausible   *)
(* mistake in the definition after it, which one of the properties catches.*)
(***************************************************************************)
EXTENDS Integers, Sequences, FiniteSets, SequencesExt, FiniteSetsExt

CONSTANTS
    Tokens,             \* outcome tokens
    Levels,             \* bid levels, positive integers
    Transport,          \* "direct" or "sdk"
    RotateDuringSend,   \* may tokens rotate while a subscription is being sent?
    BufferMax,          \* CLOB_WS_TRADE_BUFFER_MAX
    BackoffCap,         \* doublings of the backoff until it is backoff_max
    MaxWire,            \* frames in flight
    MaxRotations,       \* bounds: calls of update_tokens,
    MaxMoves,           \*   changes of the venue's books,
    MaxPrints,          \*   prints,
    MaxFaults           \*   lost connections, refused connections, overdue pongs

ASSUME FeedAssumption ==
    /\ IsFiniteSet(Tokens) /\ Levels \subseteq Nat \ {0} /\ IsFiniteSet(Levels)
    /\ Transport \in {"direct", "sdk"} /\ RotateDuringSend \in BOOLEAN
    /\ BufferMax \in Nat \ {0} /\ BackoffCap \in Nat

None == -1      \* a quote a frame does not declare, a book not there

VARIABLES
    tokens,     \* token_ids
    filter,     \* _token_set
    version,    \* _tokens_version
    update,     \* update_tokens under way: [at, dropped]
    book,       \* books: token -> {None} or a set of levels
    frame,      \* _last_frame: token -> [kind, best]
    buffer,     \* _trade_buffer: token -> sequence of prints
    captured, overflowed,   \* trades_captured, trades_dropped
    link,       \* the session: idle, connecting, sending, up, waiting, stopped
    subscribed, \* what the session's subscription names
    subVersion, \* subscribed_version
    lastPong,   \* last_pong_ts: "none", "recent", or "old", past pong_timeout
    hand,       \* the frame being reduced, if any
    backoff, failures,  \* backoff (doublings), consecutive_failures
    venue,      \* external: the true books
    wire,       \* external: frames in flight
    ghosts,     \* external: levels of a token the session was not told are gone
    drained,    \* auxiliary: prints handed to the collector
    rotatedOff, \* auxiliary: prints discarded with a rotated token
    snapped,    \* auxiliary: tokens whose snapshot this session has applied
    ponged,     \* auxiliary: has this session received a pong?
    spent       \* the bounded counters: [rotations, moves, prints, faults]

books == <<book, frame>>
prints == <<buffer, captured, overflowed, drained, rotatedOff>>
subscription == <<tokens, filter, version, update>>
session == <<link, subscribed, subVersion, lastPong, ponged, backoff, failures>>
outside == <<venue, wire, ghosts>>
vars == <<books, prints, subscription, session, outside, hand, snapped, spent>>

NoBook == {None}
Idle == [kind |-> "none"]
Held(ts) == MapThenSumSet(LAMBDA t : Len(buffer[t]), ts)   \* prints in the buffers of ts
Best(levels) == Max(levels \cup {0})

Init ==
    /\ tokens \in SUBSET Tokens /\ filter = tokens /\ version = 0
    /\ update = [at |-> "idle", dropped |-> {}]
    /\ book = [t \in Tokens |-> NoBook]
    /\ frame = [t \in Tokens |-> [kind |-> "none", best |-> None]]
    /\ buffer = [t \in Tokens |-> <<>>]
    /\ captured = 0 /\ overflowed = 0 /\ drained = <<>> /\ rotatedOff = 0
    /\ link = "idle" /\ subscribed = {} /\ subVersion = 0
    /\ lastPong = "none" /\ ponged = FALSE /\ backoff = 0 /\ failures = 0
    /\ venue \in [Tokens -> SUBSET Levels] /\ wire = <<>>
    /\ ghosts = [t \in Tokens |-> {}]
    /\ hand = Idle /\ snapped = {}
    /\ spent = [rotations |-> 0, moves |-> 0, prints |-> 0, faults |-> 0]

Spend(what, bound) ==
    /\ spent[what] < bound
    /\ spent' = [spent EXCEPT ![what] = @ + 1]

-----------------------------------------------------------------------------
(* update_tokens, on the collector's thread.                               *)

BeginRotation ==
    /\ update.at = "idle" /\ Spend("rotations", MaxRotations)
    /\ RotateDuringSend \/ link # "sending"
    /\ \E new \in SUBSET Tokens :
        /\ new # tokens
        /\ tokens' = new
        /\ update' = [at |-> "filter", dropped |-> tokens \ new]
    /\ UNCHANGED <<filter, version, books, prints, session, outside, hand, snapped>>

SetFilter ==
    /\ update.at = "filter"
    /\ filter' = tokens
    /\ update' = [update EXCEPT !.at = "version"]
    /\ UNCHANGED <<tokens, version, books, prints, session, outside, hand, snapped, spent>>

BugBumpVersion ==
    /\ update.at = "version"
    /\ version' = IF update.dropped = {} THEN version ELSE version + 1
    /\ update' = [update EXCEPT !.at = IF update.dropped = {} THEN "idle" ELSE "buffers"]
    /\ UNCHANGED <<tokens, filter, books, prints, session, outside, hand, snapped, spent>>

BumpVersion ==
    /\ update.at = "version"
    /\ version' = version + 1
    /\ update' = [update EXCEPT !.at = IF update.dropped = {} THEN "idle" ELSE "buffers"]
    /\ UNCHANGED <<tokens, filter, books, prints, session, outside, hand, snapped, spent>>

DropBuffers ==
    /\ update.at = "buffers"
    /\ buffer' = [t \in Tokens |-> IF t \in update.dropped THEN <<>> ELSE buffer[t]]
    /\ rotatedOff' = rotatedOff + Held(update.dropped)
    /\ update' = [update EXCEPT !.at = "books"]
    /\ UNCHANGED <<tokens, filter, version, books, captured, overflowed, drained,
                   session, outside, hand, snapped, spent>>

DropBooks ==
    /\ update.at = "books"
    /\ book' = [t \in Tokens |-> IF t \in update.dropped THEN NoBook ELSE book[t]]
    /\ frame' = [t \in Tokens |-> IF t \in update.dropped
                                  THEN [kind |-> "none", best |-> None] ELSE frame[t]]
    /\ snapped' = snapped \ update.dropped
    /\ update' = [at |-> "idle", dropped |-> {}]
    /\ UNCHANGED <<tokens, filter, version, prints, session, outside, hand, spent>>

(* drain_trades_for_token: the collector empties one buffer.               *)
BugDrain(t) ==
    /\ buffer[t] # <<>>
    /\ drained' = drained \o buffer[t]
    /\ UNCHANGED <<buffer, captured, overflowed, rotatedOff, books, subscription,
                   session, outside, hand, snapped, spent>>

Drain(t) ==
    /\ buffer[t] # <<>>
    /\ drained' = drained \o buffer[t]
    /\ buffer' = [buffer EXCEPT ![t] = <<>>]
    /\ UNCHANGED <<captured, overflowed, rotatedOff, books, subscription,
                   session, outside, hand, snapped, spent>>

-----------------------------------------------------------------------------
(* Sessions: run_direct and _session, run for the SDK.                     *)

Connecting ==
    /\ link = "idle" /\ tokens # {}
    /\ link' = "connecting"
    /\ subVersion' = IF Transport = "sdk" THEN version ELSE subVersion
    /\ UNCHANGED <<subscribed, lastPong, ponged, backoff, failures, books, prints,
                   subscription, outside, hand, snapped, spent>>

\* The pong of the session before is taken for one of this session.
BugConnected ==
    /\ link = "connecting"
    /\ link' = "sending"
    /\ subscribed' = tokens
    /\ ponged' = FALSE
    /\ backoff' = 0 /\ failures' = 0
    /\ wire' = <<>>
    /\ snapped' = {}
    /\ UNCHANGED <<lastPong, subVersion, books, prints, subscription, venue, ghosts, hand, spent>>

(* The connection is there; the payload names the tokens of this moment.   *)
Connected ==
    /\ link = "connecting"
    /\ link' = "sending"
    /\ subscribed' = tokens
    /\ lastPong' = "none" /\ ponged' = FALSE
    /\ backoff' = 0 /\ failures' = 0
    /\ wire' = <<>>
    /\ snapped' = {}
    /\ UNCHANGED <<subVersion, books, prints, subscription, venue, ghosts, hand, spent>>

Snapshots(ts) ==
    [i \in 1..Cardinality(ts) |->
        LET t == SetToSeq(ts)[i] IN [kind |-> "book", token |-> t, levels |-> venue[t]]]

(* The subscription has been sent: the direct transport notes the version  *)
(* only now, and the venue answers with the books.                         *)
Subscribed ==
    /\ link = "sending"
    /\ link' = "up"
    /\ subVersion' = IF Transport = "direct" THEN version ELSE subVersion
    /\ wire' = Snapshots(subscribed)
    /\ ghosts' = [t \in Tokens |-> {}]
    /\ UNCHANGED <<subscribed, lastPong, ponged, backoff, failures, books, prints,
                   subscription, venue, hand, snapped, spent>>

PongExpired == Transport = "direct" /\ lastPong = "old"

(* Between two frames a session looks for a rotation; the SDK's does so    *)
(* when a frame comes, which it then throws away.                          *)
Rotated ==
    /\ link = "up" /\ hand = Idle
    /\ version # subVersion
    /\ Transport = "sdk" => wire # <<>>
    /\ link' = "idle"
    /\ UNCHANGED <<subscribed, subVersion, lastPong, ponged, backoff, failures, books,
                   prints, subscription, outside, hand, snapped, spent>>

Fail ==
    /\ link' = "waiting"
    /\ failures' = failures + 1
    /\ UNCHANGED <<subscribed, subVersion, lastPong, ponged, backoff, books, prints,
                   subscription, outside, hand, snapped>>

(* A refused connection, a socket that drops, a keepalive that cannot be   *)
(* sent.  A frame in hand is reduced before the loop comes round.          *)
ConnectionFails ==
    /\ link \in {"connecting", "sending", "up"} /\ hand = Idle
    /\ Spend("faults", MaxFaults)
    /\ Fail

PongOverdue ==
    /\ link = "up" /\ hand = Idle /\ version = subVersion
    /\ PongExpired
    /\ Fail /\ UNCHANGED spent

(* next_backoff, after the wait.  The SDK's loop waits two seconds always. *)
BackedOff ==
    /\ link = "waiting"
    /\ link' = "idle"
    /\ backoff' = IF Transport = "sdk" THEN 0 ELSE Min({backoff + 1, BackoffCap})
    /\ UNCHANGED <<subscribed, subVersion, lastPong, ponged, failures, books, prints,
                   subscription, outside, hand, snapped, spent>>

(* stop: seen at the top of a loop, between frames, and in a wait.         *)
Stop ==
    /\ link \in {"idle", "up", "waiting"} /\ hand = Idle
    /\ link' = "stopped"
    /\ UNCHANGED <<subscribed, subVersion, lastPong, ponged, backoff, failures, books,
                   prints, subscription, outside, hand, snapped, spent>>

-----------------------------------------------------------------------------
(* Frames: handle_raw_message and _handle_event.                           *)

(* In the direct transport every entry of a frame passes this filter.      *)
Allowed(t) == Transport = "sdk" \/ filter = {} \/ t \in filter

\* The frame, and that nothing of it is reduced yet.
InHand(f) == [x \in DOMAIN f \cup {"at"} |-> IF x = "at" THEN "apply" ELSE f[x]]

(* Take the next frame from the socket.                                    *)
Receive ==
    /\ link = "up" /\ hand = Idle /\ wire # <<>>
    /\ version = subVersion /\ ~PongExpired
    /\ wire' = Tail(wire)
    /\ IF Head(wire).kind = "pong"
       THEN /\ lastPong' = "recent" /\ ponged' = TRUE
            /\ UNCHANGED hand
       ELSE /\ hand' = IF Allowed(Head(wire).token)
                       THEN InHand(Head(wire)) ELSE Idle
            /\ UNCHANGED <<lastPong, ponged>>
    /\ UNCHANGED <<link, subscribed, subVersion, backoff, failures, books, prints,
                   subscription, venue, ghosts, snapped, spent>>

Label(t, kind, best) == frame' = [frame EXCEPT ![t] = [kind |-> kind, best |-> best]]

(* apply_book_snapshot                                                     *)
ApplyBook ==
    /\ hand.kind = "book"
    /\ book' = [book EXCEPT ![hand.token] = hand.levels]
    /\ Label(hand.token, "book", None)
    /\ hand' = Idle
    /\ snapped' = snapped \cup {hand.token}
    /\ UNCHANGED <<prints, subscription, session, outside, spent>>

Pruned(levels, best) ==
    IF best = None THEN levels ELSE {l \in levels : l <= best}

(* apply_price_change: one level set or removed, then the ladder pruned to *)
(* the best bid the venue declares.                                        *)
ApplyChange ==
    /\ hand.kind = "price_change" /\ hand.at = "apply"
    /\ LET old == book[hand.token] \ {None}
           new == IF hand.on THEN old \cup {hand.level} ELSE old \ {hand.level}
           best == IF Transport = "sdk" THEN None ELSE hand.best
       IN  /\ book' = [book EXCEPT ![hand.token] = Pruned(new, best)]
           /\ Label(hand.token, "price_change", best)
    /\ hand' = IF Transport = "sdk" THEN Idle
               ELSE [hand EXCEPT !.at = IF hand.best = None THEN "label" ELSE "quote"]
    /\ UNCHANGED <<prints, subscription, session, outside, snapped, spent>>

(* apply_best_bid_ask, of a frame of its own or within a price_change.     *)
ApplyQuote ==
    /\ \/ hand.kind = "best_bid_ask"
       \/ hand.kind = "price_change" /\ hand.at = "quote"
    /\ Label(hand.token, "best_bid_ask", hand.best)
    /\ hand' = IF hand.kind = "price_change" THEN [hand EXCEPT !.at = "label"] ELSE Idle
    /\ UNCHANGED <<book, prints, subscription, session, outside, snapped, spent>>

RelabelChange ==
    /\ hand.kind = "price_change" /\ hand.at = "label"
    /\ Label(hand.token, "price_change", hand.best)
    /\ hand' = Idle
    /\ UNCHANGED <<book, prints, subscription, session, outside, snapped, spent>>

(* record_trade: append, and drop the oldest beyond the buffer's limit.    *)
RecordTrade ==
    /\ hand.kind = "trade"
    /\ LET longer == Append(buffer[hand.token], hand.id)
           excess == Max({Len(longer) - BufferMax, 0})
       IN  /\ buffer' = [buffer EXCEPT ![hand.token] =
                            SubSeq(longer, excess + 1, Len(longer))]
           /\ overflowed' = overflowed + excess
    /\ captured' = captured + 1
    /\ hand' = Idle
    /\ UNCHANGED <<drained, rotatedOff, books, subscription, session, outside, snapped, spent>>

-----------------------------------------------------------------------------
(* The venue and time (external).                                          *)

Send(t, f) ==
    wire' = IF link = "up" /\ t \in subscribed THEN Append(wire, f) ELSE wire

(* A level appears or goes.  That it goes may be never said; what is said  *)
(* may come with the best bid after it.                                    *)
VenueMoves ==
    /\ Spend("moves", MaxMoves) /\ Len(wire) < MaxWire
    /\ \E t \in Tokens, l \in Levels, declared \in BOOLEAN, silent \in BOOLEAN :
        LET on == l \notin venue[t]
            new == IF on THEN venue[t] \cup {l} ELSE venue[t] \ {l}
        IN  /\ silent => ~on
            /\ venue' = [venue EXCEPT ![t] = new]
            /\ ghosts' = IF silent THEN [ghosts EXCEPT ![t] = @ \cup {l}] ELSE ghosts
            /\ IF silent THEN UNCHANGED wire
               ELSE Send(t, [kind |-> "price_change", token |-> t, level |-> l, on |-> on,
                             best |-> IF declared THEN Best(new) ELSE None])
    /\ UNCHANGED <<books, prints, subscription, session, hand, snapped>>

VenueQuotes ==
    /\ Spend("moves", MaxMoves) /\ Len(wire) < MaxWire
    /\ \E t \in Tokens : Send(t, [kind |-> "best_bid_ask", token |-> t, best |-> Best(venue[t])])
    /\ UNCHANGED <<venue, ghosts, books, prints, subscription, session, hand, snapped>>

VenueTrades ==
    /\ Spend("prints", MaxPrints) /\ Len(wire) < MaxWire
    /\ \E t \in Tokens : Send(t, [kind |-> "trade", token |-> t, id |-> spent.prints])
    /\ Transport = "direct"
    /\ UNCHANGED <<venue, ghosts, books, prints, subscription, session, hand, snapped>>

VenuePongs ==
    /\ Transport = "direct" /\ link = "up" /\ Len(wire) < MaxWire
    /\ lastPong # "recent" /\ \A i \in 1..Len(wire) : wire[i].kind # "pong"
    /\ wire' = Append(wire, [kind |-> "pong"])
    /\ UNCHANGED <<venue, ghosts, books, prints, subscription, session, hand, snapped, spent>>

(* pong_timeout passes without an answer.                                  *)
PongAges ==
    /\ lastPong = "recent" /\ Spend("faults", MaxFaults)
    /\ lastPong' = "old"
    /\ UNCHANGED <<link, subscribed, subVersion, ponged, backoff, failures, books, prints,
                   subscription, outside, hand, snapped>>

-----------------------------------------------------------------------------
Rotation == BeginRotation \/ SetFilter \/ BumpVersion \/ DropBuffers \/ DropBooks

Reduce ==
    \/ ApplyBook \/ ApplyChange \/ ApplyQuote \/ RelabelChange \/ RecordTrade

Socket ==
    \/ Connecting \/ Connected \/ Subscribed \/ Rotated \/ PongOverdue \/ BackedOff
    \/ Receive \/ Reduce

Next ==
    \/ Rotation \/ \E t \in Tokens : Drain(t)
    \/ Socket \/ ConnectionFails \/ Stop
    \/ VenueMoves \/ VenueQuotes \/ VenueTrades \/ VenuePongs \/ PongAges

Spec == Init /\ [][Next]_vars

(* The socket's loop and a rotation begun go on; everything else, the      *)
(* faults, the rotations and the venue's frames included, is bounded.      *)
FairSpec ==
    /\ Spec
    /\ WF_vars(Socket)
    /\ WF_vars(SetFilter \/ BumpVersion \/ DropBuffers \/ DropBooks)

-----------------------------------------------------------------------------
Bests == Levels \cup {0, None}

Frames ==
    [kind : {"book"}, token : Tokens, levels : SUBSET Levels]
    \cup [kind : {"price_change"}, token : Tokens, level : Levels, on : BOOLEAN, best : Bests]
    \cup [kind : {"best_bid_ask"}, token : Tokens, best : Bests]
    \cup [kind : {"trade"}, token : Tokens, id : Nat]
    \cup [kind : {"pong"}]

\* A frame in hand, and how far it is reduced.
Reducing ==
    [kind : {"book"}, token : Tokens, levels : SUBSET Levels, at : {"apply"}]
    \cup [kind : {"price_change"}, token : Tokens, level : Levels, on : BOOLEAN, best : Bests,
          at : {"apply", "quote", "label"}]
    \cup [kind : {"best_bid_ask"}, token : Tokens, best : Bests, at : {"apply"}]
    \cup [kind : {"trade"}, token : Tokens, id : Nat, at : {"apply"}]

(* The state has its type: an overflowing buffer is cut to its limit, and  *)
(* the backoff stays below backoff_max.                                    *)
TypeOK ==
    /\ tokens \subseteq Tokens /\ filter \subseteq Tokens /\ version \in Nat
    /\ update \in [at : {"idle", "filter", "version", "buffers", "books"},
                   dropped : SUBSET Tokens]
    /\ book \in [Tokens -> (SUBSET Levels) \cup {NoBook}]
    /\ frame \in [Tokens -> [kind : {"none", "book", "price_change", "best_bid_ask"}, best : Bests]]
    /\ buffer \in [Tokens -> Seq(Nat)] /\ \A t \in Tokens : Len(buffer[t]) <= BufferMax
    /\ drained \in Seq(Nat)
    /\ link \in {"idle", "connecting", "sending", "up", "waiting", "stopped"}
    /\ subscribed \subseteq Tokens /\ subVersion \in Nat
    /\ lastPong \in {"none", "recent", "old"}
    /\ backoff \in 0..BackoffCap /\ failures \in Nat
    /\ venue \in [Tokens -> SUBSET Levels] /\ ghosts \in [Tokens -> SUBSET Levels]
    /\ wire \in Seq(Frames) /\ hand \in Reducing \cup {Idle} /\ snapped \subseteq Tokens
    /\ spent \in [rotations : Nat, moves : Nat, prints : Nat, faults : Nat]

(* A session that sees no rotation to catch up with is subscribed to the   *)
(* tokens the collector asked for last (streaming.py:1127, "triggers       *)
(* resubscribe when changed").                                             *)
SubscriptionCurrent ==
    link = "up" /\ update.at = "idle" /\ subVersion = version => subscribed = tokens

(* Every captured print is in exactly one place: handed to the collector,  *)
(* in a buffer, counted as dropped, or gone with its rotated token.        *)
PrintsConserved ==
    captured = Len(drained) + overflowed + rotatedOff + Held(Tokens)

(* No print is handed over twice (streaming.py:734, "Pop buffered prints").*)
PrintsOnce ==
    \A i, j \in 1..Len(drained) : drained[i] = drained[j] => i = j

(* With no frame on the way and no rotation to catch up with, a book the   *)
(* session has a snapshot of is the venue's, but for ghosts: pruning       *)
(* removes nothing that is there, and a snapshot leaves nothing of an      *)
(* earlier session.                                                        *)
BookIsVenues ==
    (link = "up" /\ hand = Idle /\ wire = <<>> /\ subVersion = version) =>
        \A t \in snapped \cap subscribed \cap filter :
            venue[t] \subseteq book[t] /\ book[t] \subseteq venue[t] \cup ghosts[t]

(* A book whose last frame declares a best bid has none above it           *)
(* (streaming.py:609, "ghost depth left by a venue level removal").        *)
NoGhostTop ==
    \A t \in DOMAIN frame : frame[t].kind = "price_change" /\ frame[t].best # None =>
        \A l \in book[t] : l <= frame[t].best

(* What the collector may rely on, of either transport.                    *)
FeedSound == SubscriptionCurrent /\ PrintsOnce /\ BookIsVenues /\ NoGhostTop

(* A session is given up for a missing pong only when it had one itself    *)
(* (streaming.py:948, "a stale last_pong_ts from the dead session must not *)
(* carry into this one").                                                  *)
PongIsOfThisSession == [][PongOverdue => ponged]_vars

(* Outside a rotation nothing is kept for a token that rotated out         *)
(* (streaming.py:782, "without this it would re-create the very buffer and *)
(* book entries update_tokens just dropped").                              *)
RotatedTokenLeavesNothing ==
    update.at = "idle" /\ hand = Idle /\ filter # {} =>
        \A t \in Tokens \ filter : buffer[t] = <<>> /\ book[t] = NoBook
=============================================================================
