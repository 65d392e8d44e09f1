--------------------------- MODULE MCShardManager ---------------------------
(***************************************************************************)
(* Values of ShardManager's constants for TLC.                             *)
(***************************************************************************)
EXTENDS ShardManager, TLC

CONSTANTS t1, t2, k1, k2

\* main.go generates data "IS:..." and "CS:...": many transactions, few keys.
MCKeyOf2 == (t1 :> k1) @@ (t2 :> k2)
=============================================================================
