------------------------------ MODULE MCLocks ------------------------------
(* An instance of Locks for TLC. *)
EXTENDS Locks, TLC
ThreadsSymmetry == Permutations(Threads)
=============================================================================
