---------------------------- MODULE MCThrashing ----------------------------
(* Instances of Thrashing for TLC. *)
EXTENDS Thrashing
===========================================================================
