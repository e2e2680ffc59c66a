-------------------------- MODULE MCClusterFanout --------------------------
(* Small instances of ClusterFanout: two instances, and both users on one  *)
(* or both of them.                                                        *)
EXTENDS ClusterFanout

CONSTANTS n1, n2, s1, s2, r1, r2

Place == (s1 :> n1) @@ (s2 :> n2) @@ (r1 :> n1) @@ (r2 :> n2)
User == (s1 :> "sender") @@ (s2 :> "sender") @@ (r1 :> "receiver") @@ (r2 :> "receiver")

Talk == [sends |-> 1, moves |-> 0, lost |-> 0, breaks |-> 0, stops |-> 0, clock |-> FALSE]
Time == [Talk EXCEPT !.sends = 0, !.clock = TRUE]

(* A message while one other thing happens; or no message, and time.       *)
TalkOrTime ==
  {[Talk EXCEPT !.moves = 1], [Talk EXCEPT !.lost = 1],
   [Talk EXCEPT !.breaks = 1], [Talk EXCEPT !.stops = 1],
   [Time EXCEPT !.lost = 3], [Time EXCEPT !.stops = 1]}
=============================================================================
