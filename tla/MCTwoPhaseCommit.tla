------------------------- MODULE MCTwoPhaseCommit -------------------------
(***************************************************************************)
(* Values of TwoPhaseCommit's constants for TLC.                           *)
(***************************************************************************)
EXTENDS TwoPhaseCommit, TLC

CONSTANTS t1, t2, t3, s0, s1, s2, s3

\* Opposite directions between two shards, and a transaction to a shard that
\* may not exist yet.
MCFrom == (t1 :> s0) @@ (t2 :> s1) @@ (t3 :> s1)
MCTo == (t1 :> s1) @@ (t2 :> s0) @@ (t3 :> s3)
=============================================================================
