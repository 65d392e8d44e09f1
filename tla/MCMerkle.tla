------------------------------ MODULE MCMerkle ------------------------------
(***************************************************************************)
(* Values of Merkle's constants for TLC.                                   *)
(***************************************************************************)
EXTENDS Merkle

CONSTANTS t1, t2
=============================================================================
