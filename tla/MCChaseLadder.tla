--------------------------- MODULE MCChaseLadder ---------------------------
(* Quotes of the chase on both sides of a cent, below and above the cap.    *)
EXTENDS ChaseLadder

EntryPrices    == {4100, 4735, 5500}
OriginalQuotes == {4000 + 10 * i : i \in 0 .. 100}
AskPrices      == {NoPrice, 4400, 4810, 5190, 5800}
=============================================================================
