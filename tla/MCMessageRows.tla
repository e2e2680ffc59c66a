---------------------------- MODULE MCMessageRows ---------------------------
(* MessageRows for TLC: ids and requests are interchangeable.                 *)
EXTENDS MessageRows, TLC

Symmetry == Permutations(Ids) \cup Permutations(Reqs)
=============================================================================
