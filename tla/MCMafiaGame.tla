----------------------------- MODULE MCMafiaGame -----------------------------
(* MafiaGame for TLC: the players are the users 1, 2, ... *)
EXTENDS MafiaGame

\* Four players, handlers one after the other; three players, a write that
\* fails; three players, the third of them never voting, two goroutines that
\* interleave.
FourOrThree ==
  {[players |-> 1..4, voters |-> 1..4, width |-> 1, fails |-> 0],
   [players |-> 1..3, voters |-> 1..3, width |-> 1, fails |-> 1],
   [players |-> 1..3, voters |-> 1..2, width |-> 2, fails |-> 0]}

\* The table of roles fits up to eight players.  For nine and more, which
\* StartMafia admits as well, it has more roles than there are players.
ASSUME RolesForEight == \A n \in 3..8 : RolesNeeded(n) = n
ASSUME NotForNine == \A n \in 9..12 : RolesNeeded(n) > n
=============================================================================
