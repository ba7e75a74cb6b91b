------------------------------ MODULE MCEngine ------------------------------
(***************************************************************************)
(* What surrounds the rounds of the live engine, for TLC: its configuration*)
(* (EngineConfig) and its trades in memory and on disk (TradesStore).  Each*)
(* is checked under settings of its own, a part; they share no state, so a *)
(* behaviour is of one part and leaves the others as they started.         *)
(***************************************************************************)
EXTENDS EngineConfig

CONSTANTS s1, s2, w1, w2

VARIABLES
    part,
    up, atWork, orders, configured, trades, realized, historical, starting,
    settling, saver, sync, reset, disk, activities, count, saved, cleared

tradesVars == <<up, atWork, orders, configured, trades, realized, historical, starting,
                settling, saver, sync, reset, disk, activities, count, saved, cleared>>

BothSides == <<"up", "down">>
OneSide == <<"up">>
Req(select, m, w, k, a) == [select |-> select, mode |-> m, wallet |-> w, knob |-> k, authority |-> a]
\* The same again, a deselection, and one with a change of mode and of wallet.
LiveRequests == {
    Req({}, Keep, Keep, Keep, "bool"), Req({s1}, Keep, Keep, Keep, "bool"),
    Req({s2}, "live", w2, Keep, "bool")}
\* The same in a row, with a deselection undone and a wallet left blank.
Twice == INSTANCE EngineConfig
    WITH Sides <- OneSide, MaxCalls <- 2,
         Requests <- LiveRequests \cup {Req({s1, s2}, Keep, Blank, Keep, "bool")}
\* Changes of parameter, mode and selection.
ModeRequests == {
    Req({}, Keep, Keep, 1, "bool"), Req({s1}, "paper", Keep, Keep, "bool"),
    Req({s2}, "live", Blank, Keep, "bool"), Req({s1}, Keep, w2, 1, "no bool")}
Faulty == INSTANCE EngineConfig
    WITH Sides <- OneSide, MaxCalls <- 2, Requests <- ModeRequests,
         Faults <- {"late", "refuse", "background"}

DemoTrades == <<[slug |-> s1, pnl |-> 2, n |-> 1], [slug |-> s2, pnl |-> -1, n |-> 2],
                [slug |-> s1, pnl |-> 2, n |-> 3]>>
act(w, s, type, side, usdc) == [win |-> w, slug |-> s, type |-> type, side |-> side, usdc |-> usdc]
\* Two windows of the session, interleaved: one merged, one bought and expired.
KnownActs == <<act(-1, s1, "TRADE", "BUY", 2), act(0, s2, "TRADE", "BUY", 3),
               act(-1, s1, "MERGE", "", 4)>>

Booking == INSTANCE TradesStore
    WITH running <- atWork, wallet <- activities, Other <- "other", Pnls <- {2, -1},
         Live <- FALSE, Earlier <- <<>>, Demo <- <<>>, QuietSync <- TRUE,
         Ops <- {"settle", "config", "exit"}, MaxTrades <- 4
Syncing == INSTANCE TradesStore
    WITH running <- atWork, wallet <- activities, Other <- "other", Pnls <- {2, -1},
         Live <- TRUE, Earlier <- KnownActs, Demo <- <<>>, QuietSync <- TRUE,
         Ops <- {"sync", "exit", "settle"}, MaxTrades <- 3
Resetting == INSTANCE TradesStore
    WITH running <- atWork, wallet <- activities, Other <- "other", Pnls <- {2, -1},
         Live <- TRUE, Earlier <- <<>>, Demo <- <<>>, QuietSync <- TRUE,
         Ops <- {"reset", "config"}, MaxTrades <- 3
Seeding == INSTANCE TradesStore
    WITH running <- atWork, wallet <- activities, Other <- "other", Pnls <- {2, -1},
         Live <- FALSE, Earlier <- <<>>, Demo <- DemoTrades, QuietSync <- TRUE,
         Ops <- {"demo", "exit"}, MaxTrades <- 3

ASSUME Booking!TradesStoreAssumption /\ Syncing!TradesStoreAssumption
ASSUME Resetting!TradesStoreAssumption /\ Seeding!TradesStoreAssumption
ASSUME Faulty!EngineConfigAssumption /\ Twice!EngineConfigAssumption

EngineInit ==
    /\ part \in {"config", "twice", "faulty", "booking", "syncing", "resetting", "seeding"}
    /\ ConfigInit
    /\ IF part = "syncing" THEN Syncing!Init ELSE Booking!Init

EngineNext ==
    /\ UNCHANGED part
    /\ \/ part = "config" /\ ConfigNext /\ UNCHANGED tradesVars
       \/ part = "twice" /\ Twice!ConfigNext /\ UNCHANGED tradesVars
       \/ part = "faulty" /\ Faulty!ConfigNext /\ UNCHANGED tradesVars
       \/ part = "booking" /\ Booking!Next /\ UNCHANGED configVars
       \/ part = "syncing" /\ Syncing!Next /\ UNCHANGED configVars
       \/ part = "resetting" /\ Resetting!Next /\ UNCHANGED configVars
       \/ part = "seeding" /\ Seeding!Next /\ UNCHANGED configVars

EngineSpec == EngineInit /\ [][EngineNext]_<<part, configVars, tradesVars>>

-----------------------------------------------------------------------------
(* The profit shown is the sum of the trades listed, the file has them      *)
(* between saves, and after a sync the portfolio is worth the wallet's cash.*)
ProfitSound ==
    /\ Booking!PnlIsTrades
    /\ part = "booking" => Booking!DiskIsMemory
    /\ part = "syncing" => Syncing!PortfolioIsCash
=============================================================================
