------------------------------ MODULE MCLocks ------------------------------
(***************************************************************************)
(* Values of Locks' constants for TLC.                                     *)
(***************************************************************************)
EXTENDS Locks, TLC

CONSTANTS g1, g2, g3

\* Goroutines are told apart by the calls they make.
GoroutineSymmetry == Permutations(Goroutines)
=============================================================================
