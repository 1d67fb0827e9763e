--------------------------- MODULE MCAllocators ---------------------------
(* Instances of Allocators for TLC. *)
EXTENDS Allocators
===========================================================================
