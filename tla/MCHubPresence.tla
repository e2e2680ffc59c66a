--------------------------- MODULE MCHubPresence ---------------------------
(* Small instances of HubPresence.                                         *)
EXTENDS HubPresence

Calm == [frames |-> 0, lost |-> 0, evictions |-> 0, stops |-> 0, rows |-> FALSE]

(* One trouble at a time, and the rows by themselves.                      *)
OneTrouble ==
  {[Calm EXCEPT !.frames = 1, !.lost = 1], [Calm EXCEPT !.evictions = 1],
   [Calm EXCEPT !.stops = 1], [Calm EXCEPT !.rows = TRUE]}
=============================================================================
