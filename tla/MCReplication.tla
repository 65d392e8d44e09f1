--------------------------- MODULE MCReplication ---------------------------
(***************************************************************************)
(* Replication with small constants; the module only names the run.        *)
(***************************************************************************)
EXTENDS Replication
=============================================================================
