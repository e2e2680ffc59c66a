------------------------------ MODULE MCMediaGC ------------------------------
(* MediaGC for TLC: keys are numbers, requests and NoRow are model values. *)
EXTENDS MediaGC
=============================================================================
