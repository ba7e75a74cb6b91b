------------------------------- MODULE MCLive -------------------------------
(***************************************************************************)
(* The engine's orders beside those of the venue (LiveRound), for TLC,     *)
(* under five settings: a behaviour is of one part.  The constants of the  *)
(* module itself are those of the first, "faulty": one window whose calls  *)
(* may be refused or their answers lost.                                   *)
(***************************************************************************)
EXTENDS LiveRound

VARIABLE part

\* Two windows, the second quoted ahead.
Ahead == INSTANCE LiveRound
    WITH Stream <- FALSE, Faults <- {}, NakedAtExpiry <- "close",
         PreQuotes <- TRUE, Executors <- {}, MaxOrders <- 6, MaxFaults <- 0, MaxStops <- 0, LastWindow <- 2
\* An engine that is stopped and started again and holds a leg to the end.
Stopped == INSTANCE LiveRound
    WITH Stream <- FALSE, Faults <- {"refuse", "lost"}, NakedAtExpiry <- "hold",
         PreQuotes <- FALSE, Executors <- {}, MaxOrders <- 3, MaxFaults <- 1, MaxStops <- 1, LastWindow <- 1
\* The rounds of one window, whose events may come when an exit is already pending.
Late == INSTANCE LiveRound
    WITH Stream <- TRUE, Faults <- {}, NakedAtExpiry <- "close",
         PreQuotes <- FALSE, Executors <- {}, MaxOrders <- 4, MaxFaults <- 0, MaxStops <- 0, LastWindow <- 1

\* A thread of the executor beside the tick, which goes over into a second window.
Spot == INSTANCE LiveRound
    WITH Stream <- FALSE, Faults <- {}, NakedAtExpiry <- "close",
         PreQuotes <- FALSE, Executors <- {"x1"}, MaxOrders <- 4, MaxFaults <- 0, MaxStops <- 0, LastWindow <- 2

ASSUME Ahead!LiveAssumption /\ Stopped!LiveAssumption /\ Late!LiveAssumption /\ Spot!LiveAssumption

LiveInit == \/ part \in {"faulty", "ahead", "stopped", "late"} /\ Init
            \/ part = "spot" /\ Spot!Init

LiveNext ==
    /\ UNCHANGED part
    /\ \/ part = "faulty" /\ Next
       \/ part = "ahead" /\ Ahead!Next
       \/ part = "stopped" /\ Stopped!Next
       \/ part = "late" /\ Late!Next
       \/ part = "spot" /\ Spot!Next

LiveSpec == LiveInit /\ [][LiveNext]_<<part, vars>>
=============================================================================
