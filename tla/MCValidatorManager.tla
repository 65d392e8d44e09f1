------------------------- MODULE MCValidatorManager -------------------------
(***************************************************************************)
(* Values of ValidatorManager's constants for TLC.                         *)
(***************************************************************************)
EXTENDS ValidatorManager

CONSTANTS v1, v2, v3, r1, r2
=============================================================================
