---------------------------- MODULE MCBlockchain ----------------------------
(***************************************************************************)
(* Values of Blockchain's constants for TLC.                               *)
(***************************************************************************)
EXTENDS Blockchain, TLC

CONSTANTS t1, t2, t3, k1, k2, m1, m2

MCKeyOf2 == (t1 :> k1) @@ (t2 :> k2)
MCKeyOf3 == (t1 :> k1) @@ (t2 :> k2) @@ (t3 :> k1)

\* main.go generates IntraShard and CrossShardInitiate transactions; the
\* third type is the one MineShardBlock marks "Finalized".
MCTypeOf2 == (t1 :> "CrossShardInitiate") @@ (t2 :> "CrossShardFinalize")
MCTypeOf3 == MCTypeOf2 @@ (t3 :> "IntraShard")
MCIntraShard == [t \in Tx |-> "IntraShard"]

MCGenesisHash == (0 :> 1) @@ (1 :> 2)

\* Miners run the same code.
MinerSymmetry == Permutations(Miners)
=============================================================================
