------------------------------- MODULE MCPaper -------------------------------
(***************************************************************************)
(* The paper round for TLC, under three settings, its parts: a market that *)
(* trades through two windows; one with an entry delay, stopped and        *)
(* started again; and one whose operator panics and reconfigures.          *)
(***************************************************************************)
EXTENDS PaperRound

VARIABLE part

Quote(b, a) == [bid |-> b, ask |-> a]
Book(up, down) == [l \in Legs |-> IF l = "UP" THEN up ELSE down]

Balanced  == Book(Quote(4900, 5100), Quote(4900, 5100))
UpCheap   == Book(Quote(4200, 4400), Quote(5600, 5800))
Firmer    == Book(Quote(4400, 4600), Quote(5300, 5500))
Decided   == Book(Quote(400, 600), Quote(9400, 9600))
OneSided  == Book(Quote(NoPrice, 5100), Quote(4900, NoPrice))

SwingBooks == {Balanced, Decided}
\* The UP leg cheap without and with room for the chase, and a decided market.
TradingBooks == {UpCheap, Firmer, Decided}

Delayed == INSTANCE PaperRound
    WITH Books <- SwingBooks \cup {OneSided}, EntryDelay <- 1, NakedAtExpiry <- "hold", Commands <- {"stop"}
Operated == INSTANCE PaperRound
    WITH Books <- SwingBooks, Offsets <- {200, 300}, PollLag <- 0,
         Commands <- {"cancel_all", "update_config"}

ASSUME Delayed!MarketAssumption /\ Operated!MarketAssumption
ASSUME Delayed!ClockAssumption /\ Operated!ClockAssumption

PaperInit ==
    /\ part \in {"trading", "delayed", "operated"}
    /\ IF part = "operated" THEN Operated!Init ELSE Init

PaperNext ==
    /\ UNCHANGED part
    /\ \/ part = "trading" /\ Next
       \/ part = "delayed" /\ Delayed!Next
       \/ part = "operated" /\ Operated!Next

PaperSpec == PaperInit /\ [][PaperNext]_<<part, vars>>

-----------------------------------------------------------------------------
(* Nothing is put on the book in the dead zone or during the entry delay.   *)
EntryGates ==
    [][~ OpensInDeadZone /\ (part = "delayed" => ~ Delayed!OpensDuringDelay)]_vars
=============================================================================
