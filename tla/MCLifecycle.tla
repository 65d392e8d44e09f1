---------------------------- MODULE MCLifecycle ----------------------------
(***************************************************************************)
(* Values of Lifecycle's constants for TLC.                                *)
(***************************************************************************)
EXTENDS Lifecycle

CONSTANTS v1, v2
=============================================================================
