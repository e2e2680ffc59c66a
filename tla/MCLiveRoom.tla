----------------------------- MODULE MCLiveRoom -----------------------------
(* LiveRoom for TLC: the first user is the host of every room. *)
EXTENDS LiveRoom, TLC

CONSTANTS FirstUser

EveryRoomIsFirstUsers == [r \in Rooms |-> FirstUser]
Symmetry == Permutations(Conns) \cup Permutations(Timers) \cup Permutations(Devices)

S(what, where, ts, ws, cs) ==
  [events |-> what, rooms |-> where, timers |-> ts, writes |-> ws, crashes |-> cs]

\* A host's transfer has three statements, an administrator's two.
ModerationOrTransfers ==
  {S({"moderation"}, Rooms, 2, 1, 0),
   S({"transfers", "roles"}, Rooms, 1, 2, 1),
   S({"transfers"}, Rooms, 0, 3, 0),
   S({"transfers", "roles", "failures"}, Rooms, 0, 2, 0),
   S({"roles", "failures"}, Rooms, 2, 0, 0)}

\* Within one room, by code or put out, or between two rooms.
One == {CHOOSE r \in Rooms : TRUE}
HandoverOrSwitching ==
  {S({"handover"}, One, 1, 0, 0),
   S({"moderation"}, One, 1, 0, 0),
   S({"switching"}, Rooms, 1, 0, 0)}
=============================================================================
