---------------------------- MODULE TradesStore ----------------------------
(***************************************************************************)
(* The trades of strategy/live_trader.py and the profit they add up to: a  *)
(* list in memory, a running total per market and one of the markets that  *)
(* were deselected, and trades.jsonl with its metadata, rewritten whole    *)
(* after each booking.  The ticker books; the dashboard's handlers reset,  *)
(* seed demo data, remove markets and, in a thread of the pool, rebuild    *)
(* the list from the activities of the wallet.                             *)
(*                                                                         *)
(* The lock of the engine is held from a booking to the end of its save,   *)
(* so it is free when saver = "idle".  Amounts are whole units.            *)
(*                                                                         *)
(* A definition named Bug... is not part of the model: it is a plausible   *)
(* mistake in the definition after it, which one of the properties catches.*)
(***************************************************************************)
EXTENDS Integers, Sequences, FiniteSets, SequencesExt

CONSTANTS
    Slugs,          \* series that may be configured
    Other,          \* a market the sync does not recognise
    Pnls,           \* what a round may earn
    Live,           \* mode == "live"
    Demo,           \* demo_trades, as a sequence of [slug, pnl]
    Earlier,        \* activities of the wallet before this session, from the marker on
    Ops,            \* what happens here: settle sync reset demo config exit kill
    QuietSync,      \* a sync is made with the engine at rest until it is over
    MaxTrades       \* bound: trades booked

TradesStoreAssumption ==
    /\ Other \notin Slugs /\ Pnls \subseteq Int
    /\ Live \in BOOLEAN /\ QuietSync \in BOOLEAN /\ MaxTrades \in Nat
    /\ Ops \subseteq {"settle", "sync", "reset", "demo", "config", "exit", "kill"}

VARIABLES
    up,             \* the process lives
    running,        \* is_running
    orders,         \* some market holds an order handle
    configured,     \* keys of markets
    trades,         \* sequence of [slug, pnl, n]
    realized,       \* realized_pnl_usd of each configured market
    historical,     \* historical_realized_pnl
    starting,       \* starting_balance
    settling,       \* a settlement added to realized and not yet to trades
    saver,          \* idle, open, write, meta: where _save_persisted_trades is
    sync,           \* [pc, acts, cash]
    reset,          \* idle, checked, unlinked, refused: where reset_pnl is
    disk,           \* [there, lines, torn, starting]
    wallet,         \* the venue's activities, as [win, slug, type, side, usdc]
    count,          \* trades booked so far
    saved,          \* trades whose save has completed since the last reset or sync
    cleared         \* the n below which a reset has cleared all trades

session == <<configured, trades, realized, historical, starting>>
ghosts == <<saved, cleared>>
vars == <<up, running, orders, configured, trades, realized, historical, starting,
          settling, saver, sync, reset, disk, wallet, count, saved, cleared>>

SumOf(seq) == FoldLeft(LAMBDA a, x : a + x, 0, seq)
PnlOf(ts) == SumOf([i \in DOMAIN ts |-> ts[i].pnl])
Of(ts, s) == SelectSeq(ts, LAMBDA t : t.slug = s)
NoSettlement == [slug |-> Other, pnl |-> 0]
NoSync == [pc |-> "idle", acts |-> <<>>, cash |-> 0]
NoDisk == [there |-> FALSE, lines |-> <<>>, torn |-> FALSE, starting |-> 0]
LockFree == up /\ saver = "idle"

\* Signed cash of an activity.
Cash(a) == IF a.type = "TRADE" /\ a.side = "BUY" THEN -a.usdc ELSE a.usdc

Init ==
    /\ up = TRUE /\ running = FALSE /\ orders = FALSE
    /\ configured = Slugs
    /\ trades = <<>> /\ realized = [s \in Slugs |-> 0]
    /\ historical = 0 /\ starting = 0
    /\ settling = NoSettlement /\ saver = "idle" /\ sync = NoSync /\ reset = "idle"
    /\ disk = NoDisk /\ wallet = Earlier
    /\ count = 0 /\ saved = <<>> /\ cleared = 0

-----------------------------------------------------------------------------
(* The ticker.                                                             *)

\* What a round of this profit leaves in the wallet: a pair bought and merged, or a
\* leg bought and sold.
RoundActs(s, p, n) ==
    LET act(type, side, usdc) == [win |-> n, slug |-> s, type |-> type, side |-> side, usdc |-> usdc]
    IN IF p >= 0 THEN <<act("TRADE", "BUY", 2), act("MERGE", "", 2 + p)>>
       ELSE <<act("TRADE", "BUY", 2), act("TRADE", "SELL", 2 + p)>>

Append1(s, p) ==
    /\ trades' = Append(trades, [slug |-> s, pnl |-> p, n |-> count + 1])
    /\ count' = count + 1
    /\ wallet' = IF Live THEN wallet \o RoundActs(s, p, count + 1) ELSE wallet
    /\ saver' = "open"

\* A merge or a stop exit, total and trade under one lock.
Book(s, p) ==
    /\ LockFree /\ running /\ s \in configured /\ count < MaxTrades
    /\ settling = NoSettlement
    /\ realized' = [realized EXCEPT ![s] = @ + p]
    /\ Append1(s, p)
    /\ UNCHANGED <<up, running, orders, configured, historical, starting, settling, sync, reset,
                   disk, ghosts>>

\* The settlement of a rollover adds to the total before it takes the lock.
SettleTotal(s, p) ==
    /\ "settle" \in Ops
    /\ up /\ running /\ s \in configured /\ count < MaxTrades
    /\ settling = NoSettlement
    /\ realized' = [realized EXCEPT ![s] = @ + p]
    /\ settling' = [slug |-> s, pnl |-> p]
    /\ UNCHANGED <<up, running, orders, configured, trades, historical, starting, saver, sync, reset,
                   disk, wallet, count, ghosts>>

SettleTrade ==
    /\ LockFree /\ settling # NoSettlement
    /\ Append1(settling.slug, settling.pnl)
    /\ settling' = NoSettlement
    /\ UNCHANGED <<up, running, orders, configured, realized, historical, starting, sync, reset,
                   disk, ghosts>>

PlaceOrder ==
    /\ LockFree /\ running /\ ~orders
    /\ orders' = TRUE
    /\ UNCHANGED <<up, running, session, settling, saver, sync, reset, disk, wallet, count, ghosts>>

-----------------------------------------------------------------------------
(* _save_persisted_trades.                                                 *)

SaveOpen ==
    /\ up /\ saver = "open"
    /\ saver' = "write"
    /\ disk' = [disk EXCEPT !.there = TRUE, !.lines = <<>>, !.torn = FALSE]
    /\ UNCHANGED <<up, running, orders, session, settling, sync, reset, wallet, count, ghosts>>

\* A file that reset_pnl has unlinked since it was opened is written to no purpose.
SaveLines ==
    /\ up /\ saver = "write"
    /\ saver' = "meta"
    /\ disk' = [disk EXCEPT !.lines = IF disk.there THEN trades ELSE <<>>]
    /\ UNCHANGED <<up, running, orders, session, settling, sync, reset, wallet, count, ghosts>>

SaveMeta ==
    /\ up /\ saver = "meta"
    /\ saver' = "idle"
    /\ disk' = [disk EXCEPT !.starting = starting]
    /\ saved' = trades
    /\ UNCHANGED <<up, running, orders, session, settling, sync, reset, wallet, count, cleared>>

\* The process dies: of a file being written any first part is there, perhaps with a
\* line cut in two.
Die ==
    /\ up
    /\ \/ "exit" \in Ops /\ saver = "idle" /\ settling = NoSettlement /\ disk' = disk
       \/ /\ "kill" \in Ops
          /\ IF saver = "write"
             THEN \E n \in 0..Len(trades), cut \in BOOLEAN :
                    disk' = [disk EXCEPT !.lines = SubSeq(trades, 1, n), !.torn = cut]
             ELSE disk' = disk
    /\ up' = FALSE /\ running' = FALSE /\ orders' = FALSE
    /\ saver' = "idle" /\ settling' = NoSettlement /\ sync' = NoSync /\ reset' = "idle"
    /\ UNCHANGED <<session, wallet, count, ghosts>>

-----------------------------------------------------------------------------
(* _recalculate_from_trades and the start of the process.                  *)

Recalculate(ts) ==
    /\ trades' = ts
    /\ realized' = [s \in Slugs |-> IF s \in configured' THEN PnlOf(Of(ts, s)) ELSE 0]
    /\ historical' = PnlOf(SelectSeq(ts, LAMBDA t : t.slug \notin configured'))

\* A line that does not parse loads nothing; the markets are those of the defaults.
Boot ==
    /\ ~up
    /\ up' = TRUE
    /\ configured' \in IF "config" \in Ops THEN SUBSET Slugs ELSE {Slugs}
    /\ starting' = disk.starting
    /\ Recalculate(IF disk.there /\ ~disk.torn THEN disk.lines ELSE <<>>)
    /\ UNCHANGED <<running, orders, settling, saver, sync, reset, disk, wallet, count, ghosts>>

-----------------------------------------------------------------------------
(* The handlers of the dashboard.                                          *)

Start ==
    /\ LockFree /\ ~running /\ reset = "idle"
    /\ QuietSync => sync.pc = "idle"
    /\ running' = TRUE
    /\ UNCHANGED <<up, orders, session, settling, saver, sync, reset, disk, wallet, count, ghosts>>

\* Stopping cancels the live orders, and a refusal of the venue keeps the handles.
Stop ==
    /\ LockFree /\ running /\ reset = "idle"
    /\ running' = FALSE
    /\ orders' \in {FALSE, orders}
    /\ UNCHANGED <<up, session, settling, saver, sync, reset, disk, wallet, count, ghosts>>

BugRemoveMarket(s) ==
    /\ "config" \in Ops
    /\ LockFree /\ ~running /\ s \in configured
    /\ configured' = configured \ {s}
    /\ realized' = [realized EXCEPT ![s] = 0]
    /\ UNCHANGED <<up, running, orders, trades, historical, starting, settling, saver, sync, reset,
                   disk, wallet, count, ghosts>>

\* The profit of a market that is deselected joins the historical one.
RemoveMarket(s) ==
    /\ "config" \in Ops
    /\ LockFree /\ ~running /\ s \in configured
    /\ configured' = configured \ {s}
    /\ historical' = historical + realized[s]
    /\ realized' = [realized EXCEPT ![s] = 0]
    /\ UNCHANGED <<up, running, orders, trades, starting, settling, saver, sync, reset,
                   disk, wallet, count, ghosts>>

AddMarket(s) ==
    /\ "config" \in Ops
    /\ LockFree /\ ~running /\ s \notin configured
    /\ configured' = configured \cup {s}
    /\ UNCHANGED <<up, running, orders, trades, realized, historical, starting, settling, saver,
                   sync, reset, disk, wallet, count, ghosts>>

HasOutstandingOrders == Live /\ orders

\* A reset is refused to a running live engine with orders; the orders of a stopped
\* one are cancelled at the venue first, and a failure refuses too.
ResetBegin ==
    /\ "reset" \in Ops
    /\ LockFree /\ reset \in {"idle", "refused"}
    /\ \/ HasOutstandingOrders /\ reset' = "refused"
       \/ (HasOutstandingOrders => ~running) /\ reset' = "checked"
    /\ UNCHANGED <<up, running, orders, session, settling, saver, sync, disk, wallet, count, ghosts>>

\* The files are deleted outside the lock.
ResetUnlink ==
    /\ up /\ reset = "checked"
    /\ reset' = "unlinked"
    /\ disk' = NoDisk
    /\ UNCHANGED <<up, running, orders, session, settling, saver, sync, wallet, count, ghosts>>

ResetClear ==
    /\ LockFree /\ reset = "unlinked"
    /\ IF HasOutstandingOrders /\ running
       THEN /\ reset' = "refused"
            /\ UNCHANGED <<trades, realized, historical, orders, ghosts>>
       ELSE /\ reset' = "idle"
            /\ trades' = <<>>
            /\ realized' = [s \in Slugs |-> 0]
            /\ historical' = 0
            /\ orders' = FALSE
            /\ saved' = <<>> /\ cleared' = count
    /\ UNCHANGED <<up, running, configured, starting, settling, saver, sync, disk, wallet, count>>

DemoPnl(s) == PnlOf(Of(Demo, s))

\* Demo trades replace the list, and each configured market of theirs gets its total;
\* nothing is saved.
SeedDemo ==
    /\ "demo" \in Ops
    /\ LockFree /\ reset = "idle"
    /\ running' = FALSE
    /\ trades' = Demo
    /\ realized' = [s \in Slugs |->
                      IF s \in configured /\ Of(Demo, s) # <<>> THEN DemoPnl(s) ELSE realized[s]]
    /\ saved' = <<>> /\ cleared' = count
    /\ UNCHANGED <<up, orders, configured, historical, starting, settling, saver, sync, reset,
                   disk, wallet, count>>

-----------------------------------------------------------------------------
(* sync_wallet_trades.                                                     *)

\* The activities and, after them, the balance are read with no lock held.
SyncFetch ==
    /\ "sync" \in Ops /\ Live
    /\ up /\ sync.pc = "idle"
    /\ QuietSync => ~running /\ settling = NoSettlement
    /\ wallet # <<>>
    /\ sync' = [pc |-> "acts", acts |-> wallet, cash |-> 0]
    /\ UNCHANGED <<up, running, orders, session, settling, saver, reset, disk, wallet, count, ghosts>>

NetCashFlow(acts) == SumOf([i \in DOMAIN acts |-> Cash(acts[i])])

\* The balance before the session is the present one less the session's cash flow.
SyncBalance ==
    /\ up /\ sync.pc = "acts"
    /\ LET now == NetCashFlow(wallet) IN
        /\ sync' = [sync EXCEPT !.pc = "balance", !.cash = now]
        /\ starting' = now - NetCashFlow(sync.acts)
    /\ UNCHANGED <<up, running, orders, configured, trades, realized, historical, settling, saver,
                   reset, disk, wallet, count, ghosts>>

\* One trade per window of a known series: what it brought in, less what it cost.
WindowActs(acts, w) == SelectSeq(acts, LAMBDA a : a.win = w)
WindowTrades(acts) ==
    LET wins == SetToSortSeq({acts[i].win : i \in {j \in DOMAIN acts : acts[j].slug \in Slugs}}, <)
        trade(w) == [slug |-> WindowActs(acts, w)[1].slug,
                     pnl |-> NetCashFlow(WindowActs(acts, w)), n |-> w]
    IN [i \in DOMAIN wins |-> trade(wins[i])]

SyncStore ==
    /\ LockFree /\ sync.pc = "balance"
    /\ sync' = NoSync
    /\ configured' = configured
    /\ Recalculate(WindowTrades(sync.acts))
    /\ saver' = "open"
    /\ UNCHANGED <<up, running, orders, starting, settling, reset, disk, wallet, count, ghosts>>

Next ==
    \/ \E s \in Slugs, p \in Pnls : Book(s, p) \/ SettleTotal(s, p)
    \/ SettleTrade \/ PlaceOrder
    \/ SaveOpen \/ SaveLines \/ SaveMeta
    \/ Die \/ Boot \/ Start \/ Stop
    \/ \E s \in Slugs : RemoveMarket(s) \/ AddMarket(s)
    \/ ResetBegin \/ ResetUnlink \/ ResetClear \/ SeedDemo
    \/ SyncFetch \/ SyncBalance \/ SyncStore

Spec == Init /\ [][Next]_vars

-----------------------------------------------------------------------------
(* Properties.                                                             *)

TypeOK ==
    /\ saver \in {"idle", "open", "write", "meta"}
    /\ reset \in {"idle", "checked", "unlinked", "refused"}
    /\ sync.pc \in {"idle", "acts", "balance"}
    /\ configured \subseteq Slugs /\ DOMAIN realized = Slugs
    /\ count \in 0..MaxTrades /\ cleared \in 0..MaxTrades
    /\ ~disk.there => disk.lines = <<>>

Total == historical + SumOf([i \in 1..Cardinality(Slugs) |-> realized[SetToSeq(Slugs)[i]]])

\* The profit the dashboard shows is the sum of the trades it lists, through bookings,
\* settlements, market removal, sync, reset and restart.
PnlIsTrades == (up /\ settling = NoSettlement) => Total = PnlOf(trades)

\* Between saves the file has the trades of the memory, so that a process that ends
\* then starts with what it had.
DiskIsMemory == (LockFree /\ disk.there) => disk.lines = trades /\ ~disk.torn

\* After a sync, and through the rounds and restarts that follow, the portfolio is
\* worth what the wallet holds.
PortfolioIsCash ==
    (LockFree /\ settling = NoSettlement /\ sync.pc = "idle" /\ disk.there
        /\ \E i \in DOMAIN trades : trades[i].n < 1)
        => starting + Total = NetCashFlow(wallet)

\* _save_persisted_trades: "Write all current trades and metadata to disk for
\* persistence".  A trade whose save has completed is there after a restart.
CrashKeepsTrades == up => \A i \in DOMAIN saved : \E j \in DOMAIN trades : trades[j].n = saved[i].n

\* reset_pnl: a reset refused clears nothing.
RefusedClearsNothing == (LockFree /\ reset = "refused" /\ saved # <<>>) => disk.there

\* reset_pnl: "Reset session PnL, trade history".  A trade a reset has cleared does
\* not come back.
ResetStaysReset == up => \A i \in DOMAIN trades : trades[i].n > cleared

=============================================================================
