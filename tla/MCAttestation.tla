--------------------------- MODULE MCAttestation ---------------------------
(***************************************************************************)
(* Values of Attestation's constants for TLC.                              *)
(***************************************************************************)
EXTENDS Attestation

CONSTANTS v1, r1, c1, c2
=============================================================================
