--------------------------- MODULE MCWatchCinema ---------------------------
(* A hall of two seats and one spot on a couch, a friend with a kept seat   *)
(* and a guest.                                                             *)
EXTENDS WatchCinema, TLC

CONSTANTS host, friend, guest

MCUsers == {host, friend, guest}
MCSeats == {0, 1}
\* The front corner and its neighbour, of the smallest hall.
MCScore == [i \in MCSeats |-> ScoreIn(6, i)]

\* Every seat of a hall has a row of its own letter; no row is empty or
\* longer than the hall is wide (layoutFor, rowLen, code).
ASSUME HallsAreWhole ==
  \A n \in 6..60 :
    /\ Rows(n) \in 1..26
    /\ \A row \in 0..(Rows(n) - 1) : RowLen(n, row) \in 1..Cols(n)
    /\ \A i \in 0..(n - 1) : i % Cols(n) < RowLen(n, i \div Cols(n))

MCKept == friend :> 0
MCFaults == {{}, {guest}}
MCOld == {guest}
=============================================================================
