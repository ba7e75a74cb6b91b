--------------------------- MODULE CollectorTape ---------------------------
(***************************************************************************)
(* The tape of one window in scripts/collect_ticks.py.  A print reaches    *)
(* the collector twice: on the socket, drained once per round, and in the  *)
(* REST tape, asked only for a leg the socket cannot vouch for.  A round   *)
(* is four steps of the main thread; prints, lost connections, rotations   *)
(* and a dead bridge thread fall between them.                             *)
(*                                                                         *)
(* Time is in units of WS_TOKEN_WARMUP / 2.  Levels are (leg, price).      *)
(*                                                                         *)
(* A definition named Bug... is not part of the model: it is a plausible   *)
(* mistake in the definition after it, which one of the properties catches.*)
(***************************************************************************)
EXTENDS Integers, Sequences, FiniteSets, SequencesExt, FiniteSetsExt

CONSTANTS
    Legs,           \* up_token, down_token
    Prices,         \* prices of prints
    Warmup,         \* WS_TOKEN_WARMUP
    Horizon,        \* WS_AUTHORITY_HORIZON
    DedupTtl,       \* WS_REST_DEDUP_TTL
    MaxRestarts,    \* MAX_WS_RESTARTS
    Faults,         \* subset of {"drop", "rotate", "thread", "rest", "redeliver"}
    MaxFaults, MaxPrints, MaxTime   \* bounds

TapeAssumption ==
    /\ IsFiniteSet(Legs) /\ Warmup \in Nat /\ Horizon \in Nat /\ DedupTtl \in Nat
    /\ Faults \subseteq {"drop", "rotate", "thread", "rest", "redeliver"}

Never == -1

VARIABLES
    clock,
    prints,         \* external: what has traded, [leg, price]; a print is its index
    bridge,         \* [alive, tokens, link, reconnects, restarts]
    buffer,         \* prints the socket has delivered and no drain has taken
    window,         \* [seenTape, seenWs, levels, readyAt, lastPrint], of windows[cid]
    knownReconnects,\* stats["ws_reconnects"]
    round,          \* [at, now, connected, rows, missing, reply], of poll_once,
                    \*   and auxiliary heard: listening when it started
    tape,           \* rows written: [print, source, now]
    listening,      \* auxiliary: since when the socket hears a leg without a gap
    unheard,        \* auxiliary: prints no socket delivered
    swallowed,      \* auxiliary: prints reported while nobody asked for their leg
    drained,        \* auxiliary: prints made before the last drain of a complete round
    faults          \* bound

ghosts == <<listening, unheard, swallowed, drained>>
vars == <<clock, prints, bridge, buffer, window, knownReconnects, round, tape,
          listening, unheard, swallowed, drained, faults>>

Level(p) == <<prints[p].leg, prints[p].price>>
Deaf == [l \in Legs |-> Never]
Idle == [at |-> "idle", now |-> 0, connected |-> FALSE, rows |-> <<>>,
         missing |-> {}, reply |-> {}, heard |-> Deaf]
FreshBridge == [alive |-> TRUE, tokens |-> FALSE, link |-> FALSE, reconnects |-> 0]

Init ==
    /\ clock = 0 /\ prints = <<>> /\ buffer = <<>> /\ tape = <<>>
    /\ bridge = FreshBridge @@ [restarts |-> 0]
    /\ window = [seenTape |-> {}, seenWs |-> {}, levels |-> <<>>,
                 readyAt |-> Deaf, lastPrint |-> Deaf]
    /\ knownReconnects = 0 /\ round = Idle
    /\ listening = Deaf /\ unheard = {} /\ swallowed = {} /\ drained = {}
    /\ faults = 0

-----------------------------------------------------------------------------
(* The venue and the socket's thread.                                      *)

\* A round is shorter than the unit of time.
Tick ==
    /\ clock < MaxTime /\ round.at = "idle"
    /\ clock' = clock + 1
    /\ UNCHANGED <<prints, bridge, buffer, window, knownReconnects, round, tape, ghosts, faults>>

\* A trade: in the REST tape at once, on the socket if it listens.
Trade ==
    /\ Len(prints) < MaxPrints
    /\ \E l \in Legs, x \in Prices :
        LET p == Len(prints) + 1 IN
        /\ prints' = Append(prints, [leg |-> l, price |-> x])
        /\ buffer' = IF listening[l] # Never THEN Append(buffer, p) ELSE buffer
        /\ unheard' = IF listening[l] # Never THEN unheard ELSE unheard \cup {p}
    /\ UNCHANGED <<clock, bridge, window, knownReconnects, round, tape, listening,
                   swallowed, drained, faults>>

Fault(what) == what \in Faults /\ faults < MaxFaults /\ faults' = faults + 1

\* The venue sends a frame again.
Redeliver ==
    /\ Fault("redeliver") /\ bridge.link
    /\ \E p \in DOMAIN prints \ unheard : buffer' = Append(buffer, p)
    /\ UNCHANGED <<clock, prints, bridge, window, knownReconnects, round, tape, ghosts>>

\* run_direct connects, once there are tokens to subscribe.
Connect ==
    /\ bridge.alive /\ bridge.tokens /\ ~bridge.link
    /\ bridge' = [bridge EXCEPT !.link = TRUE]
    /\ listening' = [l \in Legs |-> clock]
    /\ UNCHANGED <<clock, prints, buffer, window, knownReconnects, round, tape,
                   unheard, swallowed, drained, faults>>

\* The session ends: a lost connection is counted, a rotation is not.
SessionEnds(counted) ==
    /\ bridge.link
    /\ bridge' = [bridge EXCEPT !.link = FALSE, !.reconnects = @ + counted]
    /\ listening' = Deaf
    /\ UNCHANGED <<clock, prints, buffer, window, knownReconnects, round, tape,
                   unheard, swallowed, drained>>
Drop == Fault("drop") /\ SessionEnds(1)
Rotate == Fault("rotate") /\ SessionEnds(0)

ThreadDies ==
    /\ Fault("thread") /\ bridge.alive
    /\ bridge' = [bridge EXCEPT !.alive = FALSE, !.link = FALSE]
    /\ listening' = Deaf
    /\ UNCHANGED <<clock, prints, buffer, window, knownReconnects, round, tape,
                   unheard, swallowed, drained>>

-----------------------------------------------------------------------------
(* poll_once.                                                              *)

RoundStart ==
    /\ round.at = "idle"
    /\ round' = [Idle EXCEPT !.at = "status", !.now = clock, !.connected = bridge.link,
                             !.heard = listening]
    /\ UNCHANGED <<clock, prints, bridge, buffer, window, knownReconnects, tape, ghosts, faults>>

\* A reconnect since the last round restarts the warm-up of every leg.
ReadStatus ==
    /\ round.at = "status"
    /\ round' = [round EXCEPT !.at = "books"]
    /\ window' = IF bridge.reconnects # knownReconnects
                 THEN [window EXCEPT !.readyAt = Deaf] ELSE window
    /\ knownReconnects' = bridge.reconnects
    /\ UNCHANGED <<clock, prints, bridge, buffer, tape, ghosts, faults>>

\* drain_ws_tape: each print once, by its identity.
Fresh(w) == FoldLeft(LAMBDA acc, p : IF p \in w.seenWs \cup Range(acc) THEN acc
                                     ELSE Append(acc, p), <<>>, buffer)

\* prune_ws_levels, then the stamps of what was drained.
LevelsAfter(old, rows, now) ==
    [v \in {u \in DOMAIN old : old[u] >= now - DedupTtl} \cup {Level(p) : p \in Range(rows)} |->
        IF \E p \in Range(rows) : Level(p) = v THEN now ELSE old[v]]

\* ws_leg_authoritative
Authoritative(w, l, now, connected) ==
    /\ connected
    /\ w.readyAt[l] # Never /\ now - w.readyAt[l] >= Warmup
    /\ w.lastPrint[l] # Never /\ now - w.lastPrint[l] <= Horizon

\* Phase 2: drain the socket, and decide which legs need the REST tape.
Missing(w, streamed, now, connected) ==
    {l \in Legs \ streamed : ~Authoritative(w, l, now, connected)}

RoundDrain ==
    /\ round.at = "books"
    /\ LET rows == IF round.connected THEN Fresh(window) ELSE <<>>
           streamed == {prints[p].leg : p \in Range(rows)}
           w == [window EXCEPT
                    !.seenWs = @ \cup Range(rows),
                    !.levels = LevelsAfter(@, rows, round.now),
                    !.lastPrint = [l \in Legs |-> IF l \in streamed THEN round.now ELSE @[l]]]
       IN /\ window' = w
          /\ round' = [round EXCEPT !.at = "tape", !.rows = rows,
                           !.missing = Missing(w, streamed, round.now, round.connected)]
    /\ buffer' = IF round.connected THEN <<>> ELSE buffer
    /\ drained' = DOMAIN prints
    /\ UNCHANGED <<clock, prints, bridge, knownReconnects, tape, listening, unheard, swallowed, faults>>

\* recent_trades: what it has not reported before, of both legs.
Unreported == DOMAIN prints \ window.seenTape

FetchTape ==
    /\ round.at = "tape"
    /\ \/ /\ round.missing = {}
          /\ UNCHANGED <<window, swallowed, faults>>
          /\ round' = [round EXCEPT !.at = "write"]
       \/ /\ round.missing # {}
          /\ round' = [round EXCEPT !.at = "write", !.reply = Unreported]
          /\ window' = [window EXCEPT !.seenTape = DOMAIN prints]
          /\ swallowed' = swallowed \cup
                {p \in Unreported : prints[p].leg \notin round.missing}
          /\ UNCHANGED faults
       \/ /\ round.missing # {} /\ Fault("rest")
          /\ round' = [round EXCEPT !.at = "write"]
          /\ UNCHANGED <<window, swallowed>>
    /\ UNCHANGED <<clock, prints, bridge, buffer, knownReconnects, tape, listening,
                   unheard, drained>>

\* Phase 4: the REST rows of the legs asked for, less the levels of the socket.
BugFallback == {p \in round.reply : prints[p].leg \in round.missing
                    /\ prints[p].price \notin {v[2] : v \in DOMAIN window.levels}}
Fallback == {p \in round.reply : prints[p].leg \in round.missing
                                 /\ Level(p) \notin DOMAIN window.levels}

RoundWrite ==
    /\ round.at = "write"
    /\ tape' = tape \o [i \in DOMAIN round.rows |-> [print |-> round.rows[i], source |-> "ws", now |-> round.now]]
                    \o SetToSeq({[print |-> p, source |-> "rest", now |-> round.now] : p \in Fallback})
    /\ round' = [round EXCEPT !.at = "sync"]
    /\ UNCHANGED <<clock, prints, bridge, buffer, window, knownReconnects, ghosts, faults>>

\* restart_ws_bridge_if_dead
Rebuilds == ~bridge.alive /\ bridge.restarts < MaxRestarts

\* The legs join the subscription; their warm-up starts if the socket was up.
\* Then main rebuilds a bridge whose thread has died.
RoundSync ==
    /\ round.at = "sync"
    /\ window' = IF round.connected
                 THEN [window EXCEPT !.readyAt =
                         [l \in Legs |-> IF @[l] = Never THEN round.now ELSE @[l]]]
                 ELSE window
    /\ IF Rebuilds
       THEN /\ bridge' = FreshBridge @@ [restarts |-> bridge.restarts + 1]
            /\ buffer' = <<>>
       ELSE /\ bridge' = [bridge EXCEPT !.tokens = TRUE]
            /\ UNCHANGED buffer
    /\ round' = Idle
    /\ UNCHANGED <<clock, prints, knownReconnects, tape, ghosts, faults>>

Next ==
    \/ Tick \/ Trade \/ Redeliver \/ Connect \/ Drop \/ Rotate \/ ThreadDies
    \/ RoundStart \/ ReadStatus \/ RoundDrain \/ FetchTape \/ RoundWrite \/ RoundSync

Spec == Init /\ [][Next]_vars

-----------------------------------------------------------------------------
(* Properties.                                                             *)

TypeOK ==
    /\ clock \in 0..MaxTime
    /\ Range(buffer) \subseteq DOMAIN prints
    /\ round.at \in {"idle", "status", "books", "tape", "write", "sync"} /\ round.missing \subseteq Legs
    /\ window.seenTape \cup window.seenWs \subseteq DOMAIN prints
    /\ bridge.restarts \in 0..MaxRestarts /\ (bridge.link => bridge.alive)
    /\ \A i \in DOMAIN tape : tape[i].print \in DOMAIN prints

Twice(src1, src2, p) ==
    \E i, j \in DOMAIN tape : i < j /\ tape[i].print = p /\ tape[j].print = p
                              /\ tape[i].source = src1 /\ tape[j].source = src2

\* No source writes a print twice, whatever is redelivered, in one batch or
\* in a later one, and however often the REST tape repeats its last rows.
OncePerSource ==
    \A p \in DOMAIN prints : ~Twice("ws", "ws", p) /\ ~Twice("rest", "rest", p)

\* A print of the socket is not echoed by the REST tape in the rounds that
\* start within WS_REST_DEDUP_TTL of it.
NoEchoWithinTtl ==
    \A i, j \in DOMAIN tape :
        (tape[i].source = "ws" /\ tape[j].source = "rest" /\ i < j
            /\ tape[i].print = tape[j].print) => tape[j].now - tape[i].now > DedupTtl

\* A leg the collector trusts has been heard without a gap for WS_TOKEN_WARMUP
\* when the round starts: only then does silence mean "no trades".
TrustIsEarned ==
    round.at = "tape" =>
        \A l \in Legs :
            Authoritative(window, l, round.now, round.connected)
                => round.heard[l] # Never /\ round.now - round.heard[l] >= Warmup

\* Once a round is over, a print made before its drain is in the tape, or its
\* level was printed by the socket, or it waits in the buffer or for the REST
\* tape to be asked, or it was in a reply when nobody asked for its leg.
NothingElseMissed ==
    round.at = "idle" =>
        \A p \in drained :
            \/ \E i \in DOMAIN tape : tape[i].print = p
            \/ \E i \in DOMAIN tape : tape[i].source = "ws"
                                      /\ Level(tape[i].print) = Level(p)
            \/ p \in Range(buffer)
            \/ p \in unheard \ window.seenTape
            \/ p \in swallowed

(* What tests and comments say, and the code does not do.                  *)

\* The TTL dedup stops a print being delivered twice across the two sources.
DeliveredOnce == \A p \in DOMAIN prints : ~Twice("ws", "rest", p)

\* The same for a print the REST tape reports first.
SocketCopyDropped == \A p \in DOMAIN prints : ~Twice("rest", "ws", p)

\* Suppression can only under-count volume at a level already printed.
UndercountOnlyAtPrintedLevels ==
    round.at = "idle" =>
        \A p \in window.seenTape : \E i \in DOMAIN tape : Level(tape[i].print) = Level(p)
=============================================================================
