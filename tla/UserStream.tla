---------------------------- MODULE UserStream ----------------------------
(***************************************************************************)
(* The order stream of strategy/streaming.py (UserSpecStreamClient): order *)
(* events reduced into open and completed orders, and the buffer-first     *)
(* reconciliation with a REST snapshot after a boot or a reconnect.  The   *)
(* socket's thread reduces events; another thread buffers, fetches the     *)
(* snapshot and reconciles.  Nothing in the repository but its tests calls *)
(* the reconciliation: the caller is modelled as docs/live-dashboard-      *)
(* streaming-spec.md describes it, buffer first, then fetch.               *)
(*                                                                         *)
(* The venue is external: an order is live and then done, every change is  *)
(* an event, and a lost connection loses the events sent meanwhile.        *)
(*                                                                         *)
(* A definition named Bug... is not part of the model: it is a plausible   *)
(* mistake in the definition after it, which one of the properties catches.*)
(***************************************************************************)
EXTENDS Naturals, Sequences, FiniteSets, SequencesExt

CONSTANTS
    Orders,     \* order ids
    Apart,      \* TRUE: no event comes while a reconciliation runs
    MaxLosses,  \* lost connections
    MaxFetches  \* bound: fetches

UserAssumption ==
    IsFiniteSet(Orders) /\ Apart \in BOOLEAN /\ MaxLosses \in Nat /\ MaxFetches \in Nat

VARIABLES
    open, completed,    \* open_orders, completed_orders (their ids)
    buffering, buffer,  \* _buffering, _buffer
    caller,     \* the reconciling thread: ready, buffering, fetched, opened, replaying
    snapshot,   \* the REST answer: a status of every order the venue knows
    replay,     \* sorted_buffer, what is left of it
    venue,      \* external: order -> "unknown", "live" or "done"
    clock,      \* external: time stamps of events
    wire,       \* external: events on their way
    losses, fetches, \* bounded counters
    known       \* auxiliary: is nothing missed since the last snapshot?

vars == <<open, completed, buffering, buffer, caller, snapshot, replay,
          venue, clock, wire, losses, fetches, known>>
state == <<open, completed, buffering, buffer>>
outside == <<venue, clock, wire, losses, known>>

Init ==
    /\ open = {} /\ completed = {} /\ buffering = FALSE /\ buffer = <<>>
    /\ caller = "ready" /\ snapshot = [o \in Orders |-> "unknown"] /\ replay = <<>>
    /\ venue \in [Orders -> {"unknown", "live"}]
    /\ clock = 0 /\ wire = <<>> /\ losses = 0 /\ fetches = 0 /\ known = FALSE

-----------------------------------------------------------------------------
(* handle_order_event outside the buffer: MATCHED, FILLED and CANCELED     *)
(* complete an order; LIVE, DELAYED and UNMATCHED open it, whatever it was.*)
Reduce(e) ==
    IF e.status = "done"
    THEN open' = open \ {e.order} /\ completed' = completed \cup {e.order}
    ELSE open' = open \cup {e.order} /\ completed' = completed

(* handle_order_event on the socket's thread.                              *)
Handle ==
    /\ wire # <<>>
    /\ Apart => caller \in {"ready", "buffering", "fetched"}
    /\ wire' = Tail(wire)
    /\ IF buffering
       THEN /\ buffer' = Append(buffer, Head(wire))
            /\ UNCHANGED <<open, completed>>
       ELSE /\ Reduce(Head(wire))
            /\ UNCHANGED buffer
    /\ UNCHANGED <<buffering, caller, snapshot, replay, venue, clock, losses, fetches, known>>

StartBuffering ==
    /\ caller = "ready" /\ fetches < MaxFetches
    /\ buffering' = TRUE /\ buffer' = <<>>
    /\ caller' = "buffering"
    /\ UNCHANGED <<open, completed, snapshot, replay, outside, fetches>>

(* The answer of the orders endpoint is the venue's state of that moment.  *)
Fetch ==
    /\ caller = "buffering"
    /\ snapshot' = venue
    /\ fetches' = fetches + 1
    /\ known' = TRUE
    /\ caller' = "fetched"
    /\ UNCHANGED <<state, replay, venue, clock, wire, losses>>

(* reconcile_with_rest: stop buffering, ...                                *)
StopBuffering ==
    /\ caller = "fetched"
    /\ buffering' = FALSE
    /\ caller' = "opened"
    /\ UNCHANGED <<open, completed, buffer, snapshot, replay, outside, fetches>>

(* The buffer in the order of its time stamps; the sort is stable.         *)
ByTime(events) == SortSeq(events, LAMBDA d, e : d.time < e.time)

(* ... seed the state with the snapshot, sort the buffer, ...              *)
Seed ==
    /\ caller = "opened"
    /\ open' = open \cup {o \in Orders : snapshot[o] = "live"}
    /\ completed' = completed \cup {o \in Orders : snapshot[o] = "done"}
    /\ replay' = ByTime(buffer)
    /\ caller' = "replaying"
    /\ UNCHANGED <<buffering, buffer, snapshot, outside, fetches>>

(* ... replay it, and clear it.                                            *)
Replay ==
    /\ caller = "replaying"
    /\ IF replay = <<>>
       THEN /\ buffer' = <<>> /\ caller' = "ready"
            /\ UNCHANGED <<open, completed, replay>>
       ELSE /\ Reduce(Head(replay))
            /\ replay' = Tail(replay)
            /\ UNCHANGED <<buffer, caller>>
    /\ UNCHANGED <<buffering, snapshot, outside, fetches>>

-----------------------------------------------------------------------------
(* The venue (external).                                                   *)
Change(o) ==
    /\ venue[o] # "done"
    /\ LET to == IF venue[o] = "unknown" THEN "live" ELSE "done"
           e == [order |-> o, status |-> to, time |-> clock]
       IN  /\ venue' = [venue EXCEPT ![o] = to]
           /\ wire' = Append(wire, e)
    /\ clock' = clock + 1
    /\ UNCHANGED <<state, caller, snapshot, replay, losses, fetches, known>>

LoseConnection ==
    /\ wire # <<>> /\ losses < MaxLosses
    /\ caller = "ready"
    /\ wire' = <<>> /\ losses' = losses + 1 /\ known' = FALSE
    /\ UNCHANGED <<state, caller, snapshot, replay, venue, clock, fetches>>

Next ==
    \/ Handle \/ StartBuffering \/ Fetch \/ StopBuffering \/ Seed \/ Replay
    \/ \E o \in Orders : Change(o)
    \/ LoseConnection

Spec == Init /\ [][Next]_vars

-----------------------------------------------------------------------------
TypeOK ==
    /\ open \subseteq Orders /\ completed \subseteq Orders
    /\ buffering \in BOOLEAN
    /\ caller \in {"ready", "buffering", "fetched", "opened", "replaying"}
    /\ (caller = "ready" => buffer = <<>> /\ replay = <<>>)
    /\ buffering = (caller \in {"buffering", "fetched"})

Settled == wire = <<>> /\ caller = "ready" /\ known

(* With a snapshot taken, nothing missed since and nothing on its way, the *)
(* open orders are the venue's live ones (docs/live-dashboard-streaming-   *)
(* spec.md:11, "Guarantee accurate order and position tables").            *)
OpenIsLive == Settled => open = {o \in Orders : venue[o] = "live"}

(* The same after events were lost, but one way only: every live order is  *)
(* open (streaming.py:1211, "Seed base state with REST snapshot").         *)
LiveAreOpen == Settled => {o \in Orders : venue[o] = "live"} \subseteq open
=============================================================================
