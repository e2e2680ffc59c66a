--------------------------- MODULE MCWatchMembers --------------------------
(* A room for three of four people, in three of its settings.                 *)
EXTENDS WatchMembers, TLC

CONSTANTS ann, bob, cem, dan

MCUsers == {ann, bob, cem, dan}
MCFollows == {ann} \X MCUsers
MCKnowCode == MCUsers \ {ann}
MCSettings ==
  {[access |-> "public", followersOnly |-> FALSE, locked |-> FALSE],
   [access |-> "approval", followersOnly |-> FALSE, locked |-> FALSE],
   [access |-> "code", followersOnly |-> TRUE, locked |-> FALSE]}
MCSockets == {ann, bob}
MCSymmetry == Permutations({cem, dan})
=============================================================================
