---------------------------- MODULE MCCircuitBreaker ----------------------------
(* CircuitBreaker for TLC: goroutines are interchangeable model values. *)
EXTENDS CircuitBreaker, TLC

Symmetry == Permutations(Calls)
=============================================================================
