-------------------------- MODULE BlockchainProofs --------------------------
(***************************************************************************)
(* Theorems about Blockchain for any number of miners, transactions,       *)
(* hashes and shard ids.                                                   *)
(*                                                                         *)
(* ChainLinked is not inductive: the height of an appended block was       *)
(* computed when its miner read the head, and only the hash is compared    *)
(* again.  LinkInv adds what connects the two: a miner's height follows    *)
(* its parent wherever in the chain the parent is by now, the hashes of a  *)
(* chain are distinct, and the hash of a block still to be appended is     *)
(* known to nobody else.  SMFrame shows that the composition takes steps   *)
(* of ShardManager only, so SMInv is part of LinkInv for free.             *)
(***************************************************************************)
EXTENDS Blockchain, ShardManagerProofs

\* What GetTransactionsForBlock hands a miner is a batch of at most MaxTx
\* transactions.
LEMMA TakenFromTxSeqs ==
  ASSUME SMInv, NEW s \in Ids
  PROVE  TakenFrom(s) \in TxSeqs
<1> DEFINE n == Smaller(MaxTx, Len(pool[s]))
<1>1. pool[s] \in Seq(Tx) /\ Len(pool[s]) \in Nat
  BY DEF SMInv, SMTypeOK
<1>2. n \in 0 .. MaxTx /\ n <= Len(pool[s])
  BY <1>1, TxAssumption DEF Smaller
<1>3. SubSeq(pool[s], 1, n) \in [1 .. n -> Tx]
  <2> DEFINE q == SubSeq(pool[s], 1, n)
  <2> HIDE DEF n
  <2>1. q \in Seq(Tx) /\ Len(q) = n
    BY <1>1, <1>2
  <2> HIDE DEF q
  <2>2. q = [i \in 1 .. Len(q) |-> q[i]] /\ \A i \in 1 .. Len(q) : q[i] \in Tx
    BY <2>1
  <2> QED BY <2>1, <2>2 DEF q
<1> QED BY <1>2, <1>3 DEF TakenFrom, TxSeqs

\* Whatever a miner, a caller or the management goroutine does is a step of the
\* ShardManager or leaves it alone.
LEMMA SMFrame ==
  ASSUME LinkInv, [Next]_vars
  PROVE  [SMNext]_smVars
<1>1. CASE UNCHANGED vars
  BY <1>1 DEF vars
<1>2. ASSUME NEW t \in Tx, Submit(t)
      PROVE  SMNext
  BY <1>2 DEF Submit, SMNext
<1>3. CASE Manage
  BY <1>3 DEF Manage, SMNext
<1>4. ASSUME NEW m \in Miners, MinerStep(m)
      PROVE  SMNext \/ UNCHANGED smVars
  <2>1. mshard[m] \in Created /\ mtxs[m] \in TxSeqs
    BY <1>4 DEF LinkInv, MinersInBounds
  <2>2. CASE TakeTransactions(m)
    BY <2>1, <2>2 DEF TakeTransactions, SMNext
  <2>3. CASE Apply(m)
    BY <2>1, <2>3 DEF Apply, SMNext
  <2>4. CASE ~TakeTransactions(m) /\ ~Apply(m)
    BY <1>4, <2>4 DEF MinerStep, MineShardBlock, ReadHead, NoProposer, NoTransactions,
       FinalizeFailed, FinalizeReached, AppendBlock, DiscardBlock, PruneChain,
       NothingToPrune, UpdateChainHeight
  <2> QED BY <2>2, <2>3, <2>4
<1> QED BY <1>1, <1>2, <1>3, <1>4 DEF Next

\* The two genesis chains main.go builds, with every miner idle, satisfy the
\* inductive invariant.
LEMMA LinkInitInv == Init => LinkInv
<1> SUFFICES ASSUME Init PROVE LinkInv
  OBVIOUS
<1>1. SMInv /\ SMTypeOK
  BY SMInitInv DEF Init, SMInv
<1>2. 0 \in Created /\ 0 \in Ids /\ <<>> \in TxSeqs
  <2>1. <<>> \in [1 .. 0 -> Tx] /\ 0 \in 0 .. MaxTx
    BY TxAssumption
  <2>2. <<>> \in TxSeqs
    BY <2>1 DEF TxSeqs
  <2> QED BY <2>2, ConfigAssumption DEF Init, SMInit, Created, Ids
<1>3. /\ DOMAIN chains = GenesisShards
      /\ \A s \in GenesisShards : chains[s] = <<GenesisBlock(s)>> /\ GenesisBlock(s) \in Block
      /\ \A s \in GenesisShards : GenesisBlock(s).hash \in Hashes
  BY ChainAssumption, StateDBDomain DEF Init, GenesisBlock, Block
<1>4. TypeOK
  <2>1. chains \in [GenesisShards -> Seq(Block)]
    BY <1>3 DEF Init
  <2> QED BY <1>1, <1>2, <1>3, <2>1, StateDBDomain, ChainAssumption
          DEF Init, TypeOK, Statuses, MinerSteps
<1>5. MinersInBounds
  BY <1>2 DEF Init, MinersInBounds
<1>6. \A s \in GenesisShards : DOMAIN chains[s] = {1} /\ Len(chains[s]) = 1
  BY <1>3
<1>7. HashesDistinct /\ ChainLinked
  BY <1>3, <1>6 DEF HashesDistinct, ChainLinked
<1>8. PendingHashesFresh /\ HeightFollowsParent
  BY DEF Init, PendingHashesFresh, HeightFollowsParent
<1> QED BY <1>1, <1>4, <1>5, <1>7, <1>8 DEF LinkInv

\* The steps of a miner that leave its locals as they were when it returns.
LEMMA ReturnTypes ==
  ASSUME LinkInv, NEW m \in Miners, Return(m)
  PROVE  /\ mpc' \in [Miners -> MinerSteps] /\ mshard' \in [Miners -> Ids]
         /\ mprev' \in [Miners -> Hashes \cup {NoHash}] /\ mheight' \in [Miners -> Nat]
         /\ mtxs' \in [Miners -> Seq(Tx)] /\ mroot' \in [Miners -> StateDB]
         /\ mhash' \in [Miners -> Hashes \cup {NoHash}]
<1>1. 0 \in Ids
  BY ConfigAssumption DEF Ids
<1>2. <<>> \in Seq(Tx) /\ EmptyDB \in StateDB
  BY StateDBDomain
<1> QED BY <1>1, <1>2 DEF LinkInv, TypeOK, Return, MinerSteps

\* A chain with blocks has a last one, with a hash and a height.
LEMMA HeadIsBlock ==
  ASSUME LinkInv, NEW s, HasBlocks(s)
  PROVE  /\ s \in DOMAIN chains /\ Len(chains[s]) \in Nat \ {0}
         /\ DOMAIN chains[s] = 1 .. Len(chains[s]) /\ Len(chains[s]) \in DOMAIN chains[s]
         /\ ChainHead(s) = chains[s][Len(chains[s])]
         /\ ChainHead(s) \in Block
         /\ ChainHead(s).hash \in Hashes /\ ChainHead(s).height \in Nat
<1>1. s \in DOMAIN chains /\ chains[s] \in Seq(Block) /\ chains[s] # <<>>
  BY DEF LinkInv, TypeOK, HasBlocks
<1>2. Len(chains[s]) \in Nat \ {0} /\ DOMAIN chains[s] = 1 .. Len(chains[s])
  BY <1>1
<1>3. ChainHead(s) = chains[s][Len(chains[s])] /\ ChainHead(s) \in Block
  BY <1>1, <1>2 DEF ChainHead
<1> QED BY <1>1, <1>2, <1>3 DEF Block

\* Every step of MineShardBlock preserves the types.
LEMMA TypeStep ==
  ASSUME LinkInv, NEW m \in Miners, MinerStep(m), SMTypeOK'
  PROVE  TypeOK'
<1> USE DEF TypeOK
<1>0. TypeOK /\ SMInv /\ MinersInBounds
  BY DEF LinkInv
<1>1. ASSUME NEW s \in Ids, MineShardBlock(m, s) PROVE TypeOK'
  BY <1>0, <1>1 DEF MineShardBlock, Goto, MinerSteps, chainVars
<1>2. CASE ReadHead(m)
  <2>1. HasBlocks(mshard[m]) => ChainHead(mshard[m]).hash \in Hashes /\ ChainHead(mshard[m]).height \in Nat
    BY HeadIsBlock
  <2>2. mprev' \in [Miners -> Hashes \cup {NoHash}] /\ mheight' \in [Miners -> Nat]
    BY <1>0, <1>2, <2>1 DEF ReadHead
  <2> QED BY <1>0, <1>2, <2>2 DEF ReadHead, Goto, MinerSteps, chainVars
<1>3. CASE NoProposer(m) \/ NoTransactions(m) \/ FinalizeFailed(m)
  BY <1>0, <1>3, ReturnTypes DEF NoProposer, NoTransactions, FinalizeFailed, chainVars
<1>4. CASE TakeTransactions(m)
  <2>1. TakenFrom(mshard[m]) \in Seq(Tx)
    <3>1. mshard[m] \in Ids /\ pool[mshard[m]] \in Seq(Tx)
      BY <1>0 DEF SMInv, SMTypeOK
    <3> QED BY <3>1, TxAssumption DEF TakenFrom, Smaller
  <2>2. mtxs' \in [Miners -> Seq(Tx)]
    BY <1>0, <1>4, <2>1 DEF TakeTransactions
  <2>3. status' \in [Tx -> Statuses]
    BY <1>0, <1>4 DEF TakeTransactions, Statuses
  <2> QED BY <1>0, <1>4, <2>2, <2>3 DEF TakeTransactions, Goto, MinerSteps, chainVars
<1>5. CASE Apply(m)
  <2>1. mroot' \in [Miners -> StateDB]
    BY <1>0, <1>5 DEF Apply, SMTypeOK
  <2> QED BY <1>0, <1>5, <2>1 DEF Apply, Goto, MinerSteps, chainVars
<1>6. CASE FinalizeReached(m)
  <2>1. mhash' \in [Miners -> Hashes \cup {NoHash}]
    <3>1. (CHOOSE h \in Hashes : h \notin UsedHashes) \in Hashes
      BY <1>6 DEF FinalizeReached, ProposeBlock
    <3> QED BY <1>0, <1>6, <3>1 DEF FinalizeReached, ProposeBlock
  <2>2. status' \in [Tx -> Statuses]
    BY <1>0, <1>6 DEF FinalizeReached, Statuses
  <2> QED BY <1>0, <1>6, <2>1, <2>2 DEF FinalizeReached, Goto, MinerSteps, chainVars
<1>7. CASE AppendBlock(m)
  <2>1. NewBlock(m) \in Block
    <3>1. mhash[m] \in Hashes
      BY <1>7 DEF LinkInv, PendingHashesFresh, AppendBlock, Goto
    <3> QED BY <1>0, <3>1 DEF NewBlock, Block
  <2>2. mshard[m] \in DOMAIN chains
    BY <1>7 DEF AppendBlock, LinksToHead, HasBlocks
  <2>3. Append(chains[mshard[m]], NewBlock(m)) \in Seq(Block)
    BY <1>0, <2>1, <2>2
  <2>4. DOMAIN chains' = DOMAIN chains /\ chains' \in [DOMAIN chains -> Seq(Block)]
    BY <1>0, <1>7, <2>2, <2>3 DEF AppendBlock
  <2> QED BY <1>0, <1>7, <2>4 DEF AppendBlock, Goto, MinerSteps
<1>8. CASE DiscardBlock(m)
  <2>1. DOMAIN chains' = DOMAIN chains \cup {mshard[m]}
    BY <1>8 DEF DiscardBlock
  <2>2. chains' \in [DOMAIN chains' -> Seq(Block)]
    <3>1. <<>> \in Seq(Block)
      OBVIOUS
    <3> QED BY <1>0, <1>8, <2>1, <3>1 DEF DiscardBlock
  <2> QED BY <1>0, <1>8, <2>1, <2>2, ReturnTypes DEF DiscardBlock
<1>9. CASE PruneChain(m)
  <2> DEFINE s == mshard[m]
             n == Len(chains[s]) - PruneKeepBlocks
             q == SubSeq(chains[s], n + 1, Len(chains[s]))
  <2>1. s \in DOMAIN chains /\ chains[s] \in Seq(Block) /\ s \in Ids
    BY <1>0, <1>9 DEF MinersInBounds, PruneChain, Goto
  <2>2. n \in 1 .. Len(chains[s]) /\ Len(chains[s]) \in Nat
    BY <1>9, <2>1, ChainAssumption DEF PruneChain
  <2>3. q \in Seq(Block) /\ chains[s][n] \in Block
    BY <2>1, <2>2
  <2>4. chains[s][n].height \in Nat
    BY <2>3 DEF Block
  <2> HIDE DEF n, q
  <2>5. chains' = [chains EXCEPT ![s] = q]
    BY <1>9 DEF PruneChain, n, q
  <2>6. DOMAIN chains' = DOMAIN chains /\ chains' \in [DOMAIN chains -> Seq(Block)]
    BY <1>0, <2>1, <2>3, <2>5
  <2>7. state[s] \in StateDB
    BY <1>0, <2>1 DEF SMInv, SMTypeOK
  <2>8. \/ archives' = archives
        \/ archives' = [x \in DOMAIN archives \cup {<<s, chains[s][n].height>>} |->
                         IF x = <<s, chains[s][n].height>> THEN state[s] ELSE archives[x]]
    BY <1>9 DEF PruneChain, n
  <2>9. DOMAIN archives' \subseteq Ids \X Nat /\ archives' \in [DOMAIN archives' -> StateDB]
    <3> DEFINE x0 == <<s, chains[s][n].height>>
    <3>1. x0 \in Ids \X Nat
      BY <2>1, <2>4
    <3> HIDE DEF x0
    <3>2. CASE archives' = archives
      BY <1>0, <3>2
    <3>3. CASE archives' = [x \in DOMAIN archives \cup {x0} |-> IF x = x0 THEN state[s] ELSE archives[x]]
      BY <1>0, <2>7, <3>1, <3>3
    <3> QED BY <2>8, <3>2, <3>3 DEF x0
  <2> QED BY <1>0, <1>9, <2>6, <2>9 DEF PruneChain, Goto, MinerSteps
<1>10. CASE NothingToPrune(m)
  BY <1>0, <1>10 DEF NothingToPrune, Goto, MinerSteps, chainVars
<1>11. CASE UpdateChainHeight(m)
  <2>1. chainHeight' \in Nat
    BY <1>0, <1>11 DEF UpdateChainHeight
  <2> QED BY <1>0, <1>11, <2>1, ReturnTypes DEF UpdateChainHeight
<1> QED BY <1>1, <1>2, <1>3, <1>4, <1>5, <1>6, <1>7, <1>8, <1>9, <1>10, <1>11 DEF MinerStep

\* The ids NewShard has handed out only become more, so a shard a miner holds
\* stays one that was created.
LEMMA CreatedGrows ==
  ASSUME SMInv, [SMNext]_smVars
  PROVE  Created \subseteq Created'
<1>1. nextShardID' = nextShardID \/ nextShardID' = nextShardID + 1
  BY DEF SMNext, DetermineShard, GetShard, AddTransaction, GetTransactionsForBlock,
         ApplyStateChanges, ManageStep, CheckSplit, DecideMerge, EndCycle, SplitBeyondBound, TriggerSplit,
         TriggerMerge, smVars, setVars
<1>2. nextShardID \in Int
  BY ConfigAssumption DEF SMInv, SMTypeOK
<1> QED BY <1>1, <1>2 DEF Created

\* A miner works on a created shard with a batch of bounded size, and prunes only
\* a chain that exists.
LEMMA BoundsStep ==
  ASSUME LinkInv, NEW m \in Miners, MinerStep(m)
  PROVE  MinersInBounds'
<1>1. /\ SMInv /\ MinersInBounds /\ mshard \in [Miners -> Ids] /\ mtxs \in [Miners -> Seq(Tx)]
      /\ mpc \in [Miners -> MinerSteps] /\ DOMAIN chains \subseteq DOMAIN chains'
  BY DEF LinkInv, TypeOK, MinerStep, MineShardBlock, ReadHead, NoProposer, TakeTransactions,
         NoTransactions, Apply, FinalizeFailed, FinalizeReached, AppendBlock, DiscardBlock,
         PruneChain, NothingToPrune, UpdateChainHeight, chainVars
<1>2. Created \subseteq Created'
  <2>1. [SMNext]_smVars
    BY SMFrame DEF Next
  <2> QED BY <1>1, <2>1, CreatedGrows
<1>3. 0 \in Created
  <2>1. \E s \in shards : s \in Created /\ s \in Ids
    BY <1>1 DEF SMInv, SMTypeOK, ShardCountBounds
  <2> QED BY <1>1, <2>1, ConfigAssumption DEF SMInv, SMTypeOK, Created, Ids
<1>4. <<>> \in TxSeqs
  <2>1. <<>> \in [1 .. 0 -> Tx] /\ 0 \in 0 .. MaxTx
    BY TxAssumption
  <2> QED BY <2>1 DEF TxSeqs
<1>5. CASE Return(m)
  BY <1>1, <1>2, <1>3, <1>4, <1>5 DEF Return, MinersInBounds
<1>6. ASSUME NEW s \in Ids, MineShardBlock(m, s) PROVE MinersInBounds'
  <2>1. s \in Created
    BY <1>1, <1>6 DEF MineShardBlock, SMInv
  <2> QED BY <1>1, <1>2, <1>6, <2>1 DEF MineShardBlock, Goto, MinersInBounds
<1>7. CASE TakeTransactions(m)
  <2>1. TakenFrom(mshard[m]) \in TxSeqs
    BY <1>1, TakenFromTxSeqs
  <2> QED BY <1>1, <1>2, <1>7, <2>1 DEF TakeTransactions, Goto, MinersInBounds
<1>8. CASE ReadHead(m) \/ Apply(m) \/ FinalizeReached(m) \/ PruneChain(m) \/ NothingToPrune(m)
  BY <1>1, <1>2, <1>8 DEF ReadHead, Apply, FinalizeReached, PruneChain, NothingToPrune, Goto, MinersInBounds
<1>9. CASE AppendBlock(m)
  <2>1. mshard[m] \in DOMAIN chains
    BY <1>9 DEF AppendBlock, LinksToHead, HasBlocks
  <2> QED BY <1>1, <1>2, <1>9, <2>1 DEF AppendBlock, Goto, MinersInBounds
<1>10. \/ Return(m) \/ \E s \in Ids : MineShardBlock(m, s)
       \/ TakeTransactions(m) \/ ReadHead(m) \/ Apply(m) \/ FinalizeReached(m)
       \/ PruneChain(m) \/ NothingToPrune(m) \/ AppendBlock(m)
  BY DEF MinerStep, NoProposer, NoTransactions, FinalizeFailed, DiscardBlock, UpdateChainHeight
<1> QED BY <1>5, <1>6, <1>7, <1>8, <1>9, <1>10

\* The four conjuncts about chains and hashes, kept together in the lemmas
\* below: one lemma for each way a miner's step can touch them.
HashInv == HashesDistinct /\ PendingHashesFresh /\ HeightFollowsParent /\ ChainLinked

\* A step that touches no chain, parent, height or hash keeps the facts about
\* hashes, as long as it does not move a miner into the steps between the head
\* read and the append.
LEMMA QuietHash ==
  ASSUME LinkInv, NEW m \in Miners, UNCHANGED <<chains, mprev, mheight, mhash>>,
         \E to \in {"head", "take", "apply", "finalize", "prune", "height"} : mpc' = [mpc EXCEPT ![m] = to],
         \A n \in Miners : mshard'[n] # mshard[n] => mpc'[n] = "head",
         mpc'[m] \in {"take", "apply", "finalize"} => mpc[m] \in {"take", "apply", "finalize"}
  PROVE  HashInv'
<1>1. mpc \in [Miners -> MinerSteps] /\ HashInv
  BY DEF LinkInv, TypeOK, HashInv
<1>2. \A n \in Miners : mpc'[n] = "append" => mpc[n] = "append"
  BY <1>1
<1>3. \A n \in Miners : mpc'[n] \in {"take", "apply", "finalize", "append"} =>
        mpc[n] \in {"take", "apply", "finalize", "append"} /\ mshard'[n] = mshard[n]
  BY <1>1
<1>4. HashesDistinct' /\ ChainLinked'
  BY <1>1 DEF HashInv, HashesDistinct, ChainLinked
<1>5. PendingHashesFresh'
  BY <1>1, <1>2 DEF HashInv, PendingHashesFresh
<1>6. HeightFollowsParent'
  BY <1>1, <1>3 DEF HashInv, HeightFollowsParent
<1> QED BY <1>4, <1>5, <1>6 DEF HashInv

\* A returning call keeps the facts about hashes: it forgets its own block and at
\* most leaves an empty chain behind, as the discard path of MineShardBlock does.
LEMMA ReturnHash ==
  ASSUME LinkInv, NEW m \in Miners, Return(m), DOMAIN chains \subseteq DOMAIN chains',
         \A s \in DOMAIN chains : chains'[s] = chains[s],
         \A s \in DOMAIN chains' \ DOMAIN chains : chains'[s] = <<>>
  PROVE  HashInv'
<1>1. /\ mpc \in [Miners -> MinerSteps] /\ mprev \in [Miners -> Hashes \cup {NoHash}]
      /\ mhash \in [Miners -> Hashes \cup {NoHash}] /\ mshard \in [Miners -> Ids]
      /\ mheight \in [Miners -> Nat]
      /\ HashInv
  BY DEF LinkInv, TypeOK, HashInv
<1>2. /\ mpc'[m] = "idle" /\ mprev'[m] = NoHash /\ mhash'[m] = NoHash
      /\ \A n \in Miners \ {m} : /\ mpc'[n] = mpc[n] /\ mprev'[n] = mprev[n] /\ mhash'[n] = mhash[n]
                                  /\ mshard'[n] = mshard[n] /\ mheight'[n] = mheight[n]
  BY <1>1 DEF Return
<1>3. \A s \in DOMAIN chains' : \A i \in DOMAIN chains'[s] : s \in DOMAIN chains /\ chains'[s] = chains[s]
  <2>1. DOMAIN <<>> = {}
    OBVIOUS
  <2> QED BY <2>1
<1>4. HashesDistinct'
  BY <1>1, <1>3 DEF HashInv, HashesDistinct
<1>5. ChainLinked'
  <2> SUFFICES ASSUME NEW s \in DOMAIN chains', NEW i \in 1 .. (Len(chains'[s]) - 1)
               PROVE  /\ chains'[s][i + 1].prev = chains'[s][i].hash
                      /\ chains'[s][i + 1].height = chains'[s][i].height + 1
    BY DEF ChainLinked
  <2>1. s \in DOMAIN chains
    <3>1. Len(<<>>) = 0
      OBVIOUS
    <3> QED BY <3>1
  <2> QED BY <1>1, <2>1 DEF HashInv, ChainLinked
<1>6. PendingHashesFresh'
  BY <1>1, <1>2, <1>3, ChainAssumption DEF HashInv, PendingHashesFresh
<1>7. HeightFollowsParent'
  BY <1>1, <1>2, <1>3 DEF HashInv, HeightFollowsParent
<1> QED BY <1>4, <1>5, <1>6, <1>7 DEF HashInv

\* Reading the head under ChainMu.RLock gives the miner a height that follows its
\* parent, and the parent is nobody's pending block.
LEMMA ReadHeadHash ==
  ASSUME LinkInv, NEW m \in Miners, ReadHead(m)
  PROVE  HashInv'
<1> DEFINE s == mshard[m]
<1>1. /\ mpc \in [Miners -> MinerSteps] /\ mprev \in [Miners -> Hashes \cup {NoHash}]
      /\ mheight \in [Miners -> Nat] /\ chains \in [DOMAIN chains -> Seq(Block)]
      /\ HashInv
  BY DEF LinkInv, TypeOK, HashInv
<1>2. /\ mpc' = [mpc EXCEPT ![m] = "take"] /\ UNCHANGED <<chains, mshard, mhash>>
      /\ mprev' = [mprev EXCEPT ![m] = IF HasBlocks(s) THEN ChainHead(s).hash ELSE NoHash]
      /\ mheight' = [mheight EXCEPT ![m] = IF HasBlocks(s) THEN ChainHead(s).height + 1 ELSE 1]
  BY DEF ReadHead, Goto, chainVars
<1>3. HashesDistinct' /\ ChainLinked'
  BY <1>1, <1>2 DEF HashInv, HashesDistinct, ChainLinked
<1>4. PendingHashesFresh'
  <2> SUFFICES ASSUME NEW n \in Miners, mpc'[n] = "append"
               PROVE  /\ mhash'[n] \in Hashes
                      /\ \A c \in DOMAIN chains' : \A i \in DOMAIN chains'[c] : chains'[c][i].hash # mhash'[n]
                      /\ \A o \in Miners : mprev'[o] # mhash'[n] /\ (o # n => mhash'[o] # mhash'[n])
    BY DEF PendingHashesFresh
  <2>1. mpc[n] = "append"
    BY <1>1, <1>2
  <2>2. /\ mhash[n] \in Hashes
        /\ \A c \in DOMAIN chains : \A i \in DOMAIN chains[c] : chains[c][i].hash # mhash[n]
        /\ \A o \in Miners : mprev[o] # mhash[n] /\ (o # n => mhash[o] # mhash[n])
    BY <1>1, <2>1 DEF HashInv, PendingHashesFresh
  <2>3. HasBlocks(s) => ChainHead(s).hash # mhash[n]
    BY <2>2, HeadIsBlock
  <2>4. mprev'[m] # mhash[n]
    BY <1>1, <1>2, <2>2, <2>3, ChainAssumption
  <2> QED BY <1>1, <1>2, <2>2, <2>4
<1>5. HeightFollowsParent'
  <2> SUFFICES ASSUME NEW n \in Miners, mpc'[n] \in {"take", "apply", "finalize", "append"},
                      mshard'[n] \in DOMAIN chains',
                      NEW i \in DOMAIN chains'[mshard'[n]],
                      chains'[mshard'[n]][i].hash = mprev'[n]
               PROVE  mheight'[n] = chains'[mshard'[n]][i].height + 1
    BY DEF HeightFollowsParent
  <2>1. CASE n # m
    BY <1>1, <1>2, <2>1 DEF HashInv, HeightFollowsParent
  <2>2. CASE n = m
    <3>1. HasBlocks(s) /\ s \in DOMAIN chains /\ i \in DOMAIN chains[s]
      <4>1. DOMAIN <<>> = {}
        OBVIOUS
      <4> QED BY <1>2, <2>2, <4>1 DEF HasBlocks
    <3>2. chains[s][i].hash = ChainHead(s).hash
      BY <1>1, <1>2, <2>2, <3>1
    <3>3. i = Len(chains[s])
      BY <1>1, <3>1, <3>2, HeadIsBlock DEF HashInv, HashesDistinct
    <3> QED BY <1>1, <1>2, <2>2, <3>1, <3>3, HeadIsBlock
  <2> QED BY <2>1, <2>2
<1> QED BY <1>3, <1>4, <1>5 DEF HashInv

\* The hash of a freshly mined block is in no chain and known to no other miner.
LEMMA ProposeHash ==
  ASSUME LinkInv, NEW m \in Miners, FinalizeReached(m)
  PROVE  HashInv'
<1> DEFINE h == CHOOSE x \in Hashes : x \notin UsedHashes
<1>1. /\ mpc \in [Miners -> MinerSteps] /\ mprev \in [Miners -> Hashes \cup {NoHash}]
      /\ mhash \in [Miners -> Hashes \cup {NoHash}] /\ HashInv
  BY DEF LinkInv, TypeOK, HashInv
<1>2. h \in Hashes /\ h \notin UsedHashes
  BY DEF FinalizeReached, ProposeBlock
<1>3. /\ mpc[m] = "finalize" /\ mpc' = [mpc EXCEPT ![m] = "append"] /\ mhash' = [mhash EXCEPT ![m] = h]
      /\ UNCHANGED <<chains, mshard, mprev, mheight>>
  BY DEF FinalizeReached, ProposeBlock, Goto, chainVars
<1> HIDE DEF h
<1>4. /\ \A c \in DOMAIN chains : \A i \in DOMAIN chains[c] : chains[c][i].hash # h
      /\ \A o \in Miners : mprev[o] # h /\ mhash[o] # h
  <2> DEFINE Of(c) == {chains[c][i].hash : i \in DOMAIN chains[c]}
             Chained == UNION {Of(c) : c \in DOMAIN chains}
  <2>1. UsedHashes = Range(mprev) \cup Range(mhash) \cup Chained
    BY DEF UsedHashes
  <2>2. ASSUME NEW c \in DOMAIN chains, NEW i \in DOMAIN chains[c]
        PROVE  chains[c][i].hash \in UsedHashes
    <3>1. chains[c][i].hash \in Of(c)
      OBVIOUS
    <3>2. Of(c) \subseteq Chained
      OBVIOUS
    <3> HIDE DEF Of, Chained
    <3> QED BY <2>1, <3>1, <3>2
  <2>3. \A o \in Miners : mprev[o] \in Range(mprev) /\ mhash[o] \in Range(mhash)
    <3>1. DOMAIN mprev = Miners /\ DOMAIN mhash = Miners
      BY <1>1
    <3> QED BY <3>1 DEF Range
  <2> HIDE DEF Chained
  <2>4. Range(mprev) \subseteq UsedHashes /\ Range(mhash) \subseteq UsedHashes
    BY <2>1
  <2>5. \A o \in Miners : mprev[o] \in UsedHashes /\ mhash[o] \in UsedHashes
    BY <2>3, <2>4
  <2> QED BY <1>2, <2>2, <2>5
<1>5. HashesDistinct' /\ ChainLinked'
  BY <1>1, <1>3 DEF HashInv, HashesDistinct, ChainLinked
<1>6. PendingHashesFresh'
  <2> SUFFICES ASSUME NEW n \in Miners, mpc'[n] = "append"
               PROVE  /\ mhash'[n] \in Hashes
                      /\ \A c \in DOMAIN chains' : \A i \in DOMAIN chains'[c] : chains'[c][i].hash # mhash'[n]
                      /\ \A o \in Miners : mprev'[o] # mhash'[n] /\ (o # n => mhash'[o] # mhash'[n])
    BY DEF PendingHashesFresh
  <2>1. CASE n = m
    BY <1>1, <1>2, <1>3, <1>4, <2>1
  <2>2. CASE n # m
    BY <1>1, <1>3, <1>4, <2>2 DEF HashInv, PendingHashesFresh
  <2> QED BY <2>1, <2>2
<1>7. HeightFollowsParent'
  BY <1>1, <1>3 DEF HashInv, HeightFollowsParent
<1> QED BY <1>5, <1>6, <1>7 DEF HashInv

\* Appending under ChainMu after the check of parent linkage keeps every chain
\* linked: the parent is the head, so the height read long before is the next one,
\* and the fresh hash keeps the hashes of the chain distinct.
LEMMA AppendHash ==
  ASSUME LinkInv, NEW m \in Miners, AppendBlock(m)
  PROVE  HashInv'
<1> DEFINE s == mshard[m]
           b == NewBlock(m)
           len == Len(chains[s])
<1>1. /\ mpc \in [Miners -> MinerSteps] /\ chains \in [DOMAIN chains -> Seq(Block)] /\ HashInv
  BY DEF LinkInv, TypeOK, HashInv
<1>2. /\ mpc[m] = "append" /\ mpc' = [mpc EXCEPT ![m] = "prune"]
      /\ chains' = [chains EXCEPT ![s] = Append(chains[s], b)]
      /\ UNCHANGED <<mshard, mprev, mheight, mhash>>
      /\ HasBlocks(s) /\ ChainHead(s).hash = mprev[m]
  BY DEF AppendBlock, Goto, LinksToHead
<1>3. b.hash = mhash[m] /\ b.prev = mprev[m] /\ b.height = mheight[m]
  BY DEF NewBlock
<1>4. /\ s \in DOMAIN chains /\ chains[s] \in Seq(Block) /\ len \in Nat \ {0} /\ DOMAIN chains[s] = 1 .. len
      /\ ChainHead(s) = chains[s][len]
  BY <1>1, <1>2, HeadIsBlock
<1>5. mheight[m] = chains[s][len].height + 1
  <2>1. len \in DOMAIN chains[s] /\ chains[s][len].hash = mprev[m]
    BY <1>2, <1>4
  <2> QED BY <1>1, <1>2, <1>4, <2>1 DEF HashInv, HeightFollowsParent
<1>6. /\ \A c \in DOMAIN chains : \A i \in DOMAIN chains[c] : chains[c][i].hash # mhash[m]
      /\ \A o \in Miners : mprev[o] # mhash[m] /\ (o # m => mhash[o] # mhash[m])
  BY <1>1, <1>2 DEF HashInv, PendingHashesFresh
<1> HIDE DEF b
<1>7. /\ DOMAIN chains' = DOMAIN chains /\ \A c \in DOMAIN chains \ {s} : chains'[c] = chains[c]
      /\ chains'[s] = Append(chains[s], b)
  BY <1>1, <1>2, <1>4
<1>8. /\ Len(chains'[s]) = len + 1 /\ DOMAIN chains'[s] = 1 .. (len + 1) /\ chains'[s][len + 1] = b
      /\ \A i \in 1 .. len : chains'[s][i] = chains[s][i]
  BY <1>4, <1>7
<1>9. \A c \in DOMAIN chains : \A i \in DOMAIN chains'[c] :
        \/ i \in DOMAIN chains[c] /\ chains'[c][i] = chains[c][i]
        \/ c = s /\ i = len + 1 /\ chains'[c][i] = b
  BY <1>4, <1>7, <1>8
<1> HIDE DEF s, len
<1>10. HashesDistinct'
  <2> SUFFICES ASSUME NEW c \in DOMAIN chains, NEW i \in DOMAIN chains'[c], NEW j \in DOMAIN chains'[c],
                      chains'[c][i].hash = chains'[c][j].hash
               PROVE  i = j
    BY <1>7 DEF HashesDistinct
  <2>1. CASE i \in DOMAIN chains[c] /\ chains'[c][i] = chains[c][i]
    <3>1. chains[c][i].hash # b.hash
      BY <1>3, <1>6, <2>1
    <3>2. j \in DOMAIN chains[c] /\ chains'[c][j] = chains[c][j]
      BY <1>9, <2>1, <3>1
    <3> QED BY <1>1, <2>1, <3>2 DEF HashInv, HashesDistinct
  <2>2. CASE c = s /\ i = len + 1 /\ chains'[c][i] = b
    <3>1. ~(j \in DOMAIN chains[c] /\ chains'[c][j] = chains[c][j])
      BY <1>3, <1>6, <2>2
    <3> QED BY <1>9, <2>2, <3>1
  <2> QED BY <1>9, <2>1, <2>2
<1>11. ChainLinked'
  <2> SUFFICES ASSUME NEW c \in DOMAIN chains, NEW i \in 1 .. (Len(chains'[c]) - 1)
               PROVE  /\ chains'[c][i + 1].prev = chains'[c][i].hash
                      /\ chains'[c][i + 1].height = chains'[c][i].height + 1
    BY <1>7 DEF ChainLinked
  <2>1. CASE c # s
    BY <1>1, <1>7, <2>1 DEF HashInv, ChainLinked
  <2>2. CASE c = s /\ i = len
    BY <1>2, <1>3, <1>4, <1>5, <1>8, <2>2
  <2>3. CASE c = s /\ i # len
    <3>1. i \in 1 .. (len - 1) /\ i \in 1 .. len /\ i + 1 \in 1 .. len
      BY <1>4, <1>8, <2>3
    <3>2. chains[s][i + 1].prev = chains[s][i].hash /\ chains[s][i + 1].height = chains[s][i].height + 1
      BY <1>1, <1>4, <3>1 DEF HashInv, ChainLinked, len
    <3> QED BY <1>8, <2>3, <3>1, <3>2
  <2> QED BY <2>1, <2>2, <2>3
<1>12. PendingHashesFresh'
  <2> SUFFICES ASSUME NEW n \in Miners, mpc'[n] = "append"
               PROVE  /\ mhash'[n] \in Hashes
                      /\ \A c \in DOMAIN chains' : \A i \in DOMAIN chains'[c] : chains'[c][i].hash # mhash'[n]
                      /\ \A o \in Miners : mprev'[o] # mhash'[n] /\ (o # n => mhash'[o] # mhash'[n])
    BY DEF PendingHashesFresh
  <2>1. n # m /\ mpc[n] = "append"
    BY <1>1, <1>2
  <2>2. /\ mhash[n] \in Hashes /\ mhash[n] # mhash[m]
        /\ \A c \in DOMAIN chains : \A i \in DOMAIN chains[c] : chains[c][i].hash # mhash[n]
        /\ \A o \in Miners : mprev[o] # mhash[n] /\ (o # n => mhash[o] # mhash[n])
    BY <1>1, <2>1 DEF HashInv, PendingHashesFresh
  <2> QED BY <1>2, <1>3, <1>7, <1>9, <2>2
<1>13. HeightFollowsParent'
  <2> SUFFICES ASSUME NEW n \in Miners, mpc'[n] \in {"take", "apply", "finalize", "append"},
                      mshard[n] \in DOMAIN chains,
                      NEW i \in DOMAIN chains'[mshard[n]],
                      chains'[mshard[n]][i].hash = mprev[n]
               PROVE  mheight[n] = chains'[mshard[n]][i].height + 1
    BY <1>2, <1>7 DEF HeightFollowsParent
  <2>1. n # m /\ mpc[n] = mpc'[n]
    BY <1>1, <1>2
  <2>2. i \in DOMAIN chains[mshard[n]] /\ chains'[mshard[n]][i] = chains[mshard[n]][i]
    BY <1>3, <1>6, <1>9
  <2> QED BY <1>1, <2>1, <2>2 DEF HashInv, HeightFollowsParent
<1> QED BY <1>10, <1>11, <1>12, <1>13 DEF HashInv

\* PruneChain drops the oldest blocks; what remains is a linked suffix, and a
\* miner whose parent was dropped makes no claim about it any more.
LEMMA PruneHash ==
  ASSUME LinkInv, NEW m \in Miners, PruneChain(m)
  PROVE  HashInv'
<1> DEFINE s == mshard[m]
           n == Len(chains[s]) - PruneKeepBlocks
           len == Len(chains[s])
<1>1. /\ mpc \in [Miners -> MinerSteps] /\ chains \in [DOMAIN chains -> Seq(Block)] /\ HashInv
  BY DEF LinkInv, TypeOK, HashInv
<1>2. /\ mpc' = [mpc EXCEPT ![m] = "height"] /\ UNCHANGED <<mshard, mprev, mheight, mhash>>
      /\ chains' = [chains EXCEPT ![s] = SubSeq(chains[s], n + 1, len)]
  BY DEF PruneChain, Goto
<1>3. s \in DOMAIN chains /\ chains[s] \in Seq(Block)
  BY <1>1 DEF LinkInv, MinersInBounds, PruneChain, Goto
<1>4. len \in Nat /\ n \in 1 .. len /\ DOMAIN chains[s] = 1 .. len
  BY <1>3, ChainAssumption DEF PruneChain
<1>5. /\ DOMAIN chains' = DOMAIN chains /\ \A c \in DOMAIN chains \ {s} : chains'[c] = chains[c]
      /\ chains'[s] = SubSeq(chains[s], n + 1, len)
  BY <1>1, <1>2, <1>3
<1> HIDE DEF s, n, len
<1>6. /\ Len(chains'[s]) = len - n /\ DOMAIN chains'[s] = 1 .. (len - n)
      /\ \A i \in 1 .. (len - n) : i + n \in DOMAIN chains[s] /\ chains'[s][i] = chains[s][i + n]
  BY <1>3, <1>4, <1>5 DEF len
<1>7. \A c \in DOMAIN chains : \A i \in DOMAIN chains'[c] :
        \E j \in DOMAIN chains[c] : chains'[c][i] = chains[c][j]
  BY <1>5, <1>6
<1>8. HashesDistinct'
  <2> SUFFICES ASSUME NEW c \in DOMAIN chains, NEW i \in DOMAIN chains'[c], NEW j \in DOMAIN chains'[c],
                      chains'[c][i].hash = chains'[c][j].hash
               PROVE  i = j
    BY <1>5 DEF HashesDistinct
  <2>1. CASE c # s
    BY <1>1, <1>5, <2>1 DEF HashInv, HashesDistinct
  <2>2. CASE c = s
    <3>1. i + n = j + n /\ i \in Int /\ j \in Int
      BY <1>1, <1>3, <1>6, <2>2 DEF HashInv, HashesDistinct
    <3> QED BY <1>4, <3>1
  <2> QED BY <2>1, <2>2
<1>9. ChainLinked'
  <2> SUFFICES ASSUME NEW c \in DOMAIN chains, NEW i \in 1 .. (Len(chains'[c]) - 1)
               PROVE  /\ chains'[c][i + 1].prev = chains'[c][i].hash
                      /\ chains'[c][i + 1].height = chains'[c][i].height + 1
    BY <1>5 DEF ChainLinked
  <2>1. CASE c # s
    BY <1>1, <1>5, <2>1 DEF HashInv, ChainLinked
  <2>2. CASE c = s
    <3>1. /\ i \in 1 .. (len - n) /\ i + 1 \in 1 .. (len - n) /\ i + n \in 1 .. (len - 1)
          /\ (i + 1) + n = (i + n) + 1
      BY <1>4, <1>6, <2>2
    <3>2. /\ chains[s][(i + n) + 1].prev = chains[s][i + n].hash
          /\ chains[s][(i + n) + 1].height = chains[s][i + n].height + 1
      BY <1>1, <1>3, <3>1 DEF HashInv, ChainLinked, len
    <3> QED BY <1>6, <2>2, <3>1, <3>2
  <2> QED BY <2>1, <2>2
<1>10. PendingHashesFresh'
  <2>1. \A o \in Miners : mpc'[o] = "append" => mpc[o] = "append"
    BY <1>1, <1>2
  <2> SUFFICES ASSUME NEW o \in Miners, mpc[o] = "append"
               PROVE  /\ mhash[o] \in Hashes
                      /\ \A c \in DOMAIN chains : \A i \in DOMAIN chains'[c] : chains'[c][i].hash # mhash[o]
                      /\ \A x \in Miners : mprev[x] # mhash[o] /\ (x # o => mhash[x] # mhash[o])
    BY ZenonT(30), <1>2, <1>5, <2>1 DEF PendingHashesFresh
  <2>2. /\ mhash[o] \in Hashes
        /\ \A c \in DOMAIN chains : \A i \in DOMAIN chains[c] : chains[c][i].hash # mhash[o]
        /\ \A x \in Miners : mprev[x] # mhash[o] /\ (x # o => mhash[x] # mhash[o])
    BY <1>1 DEF HashInv, PendingHashesFresh
  <2> QED BY <1>7, <2>2
<1>11. HeightFollowsParent'
  <2>1. \A o \in Miners : mpc'[o] \in {"take", "apply", "finalize", "append"} => mpc[o] = mpc'[o]
    BY <1>1, <1>2
  <2> SUFFICES ASSUME NEW o \in Miners, mpc[o] \in {"take", "apply", "finalize", "append"},
                      mshard[o] \in DOMAIN chains,
                      NEW i \in DOMAIN chains'[mshard[o]],
                      chains'[mshard[o]][i].hash = mprev[o]
               PROVE  mheight[o] = chains'[mshard[o]][i].height + 1
    BY ZenonT(30), <1>2, <1>5, <2>1 DEF HeightFollowsParent
  <2>2. PICK j \in DOMAIN chains[mshard[o]] : chains'[mshard[o]][i] = chains[mshard[o]][j]
    BY <1>7
  <2> QED BY <1>1, <2>2 DEF HashInv, HeightFollowsParent
<1> QED BY <1>8, <1>9, <1>10, <1>11 DEF HashInv

\* Every step of MineShardBlock preserves the facts about hashes and linkage.
LEMMA HashStep ==
  ASSUME LinkInv, NEW m \in Miners, MinerStep(m)
  PROVE  HashInv'
<1>0. mpc \in [Miners -> MinerSteps] /\ mshard \in [Miners -> Ids]
  BY DEF LinkInv, TypeOK
<1>1. ASSUME NEW s \in Ids, MineShardBlock(m, s) PROVE HashInv'
  <2>1. \A n \in Miners : mshard'[n] # mshard[n] => mpc'[n] = "head"
    BY <1>0, <1>1 DEF MineShardBlock, Goto
  <2>2. mpc' = [mpc EXCEPT ![m] = "head"] /\ mpc'[m] = "head"
    BY <1>0, <1>1 DEF MineShardBlock, Goto
  <2> QED BY <1>1, <2>1, <2>2, QuietHash DEF MineShardBlock, chainVars
<1>2. CASE TakeTransactions(m)
  BY <1>0, <1>2, QuietHash DEF TakeTransactions, Goto, chainVars
<1>3. CASE Apply(m)
  BY <1>0, <1>3, QuietHash DEF Apply, Goto, chainVars
<1>4. CASE NothingToPrune(m)
  BY <1>0, <1>4, QuietHash DEF NothingToPrune, Goto, chainVars
<1>5. CASE NoProposer(m) \/ NoTransactions(m) \/ FinalizeFailed(m) \/ UpdateChainHeight(m)
  BY <1>5, ReturnHash DEF NoProposer, NoTransactions, FinalizeFailed, UpdateChainHeight, chainVars
<1>6. CASE DiscardBlock(m)
  BY <1>6, ReturnHash DEF DiscardBlock
<1> QED BY <1>1, <1>2, <1>3, <1>4, <1>5, <1>6, ReadHeadHash, ProposeHash, AppendHash, PruneHash
        DEF MinerStep

\* Every step of the composition preserves the inductive invariant.
LEMMA LinkStepInv == LinkInv /\ [Next]_vars => LinkInv'
<1> SUFFICES ASSUME LinkInv, [Next]_vars PROVE LinkInv'
  OBVIOUS
<1>1. SMInv' /\ SMTypeOK'
  BY SMFrame, SMStepInv DEF LinkInv, SMInv
<1>2. ASSUME NEW m \in Miners, MinerStep(m) PROVE LinkInv'
  BY <1>1, <1>2, TypeStep, BoundsStep, HashStep DEF LinkInv, HashInv
<1>3. CASE UNCHANGED bcVars
  <2>1. TypeOK'
    BY <1>1, <1>3 DEF LinkInv, TypeOK, bcVars, chainVars, minerVars
  <2>2. MinersInBounds'
    <3>1. Created \subseteq Created'
      BY SMFrame, CreatedGrows DEF LinkInv
    <3> QED BY <1>3, <3>1 DEF LinkInv, MinersInBounds, bcVars, chainVars, minerVars
  <2>3. HashInv'
    BY <1>3 DEF LinkInv, HashInv, HashesDistinct, PendingHashesFresh, HeightFollowsParent,
                ChainLinked, bcVars, chainVars, minerVars
  <2> QED BY <1>1, <2>1, <2>2, <2>3 DEF LinkInv, HashInv
<1> QED BY <1>2, <1>3 DEF Next, Submit, Manage, vars

\* The inductive invariant holds in every reachable state of the composition.
THEOREM LinkInvariant == Spec => []LinkInv
<1> QED BY LinkInitInv, LinkStepInv, PTL DEF Spec

\* Every chain stays linked by hash and height, for any number of miners, shards,
\* splits, merges and prunings: the check MineShardBlock makes under ChainMu is
\* enough although everything it compares with was read long before.
THEOREM ChainsStayLinked == Spec => []ChainLinked
<1>1. LinkInv => ChainLinked
  BY DEF LinkInv
<1> QED BY <1>1, LinkInvariant, PTL

\* Type correctness of the composition of miners and shards.
THEOREM TypeCorrect == Spec => []TypeOK
<1>1. LinkInv => TypeOK
  BY DEF LinkInv
<1> QED BY <1>1, LinkInvariant, PTL

\* The miners, callers and management cycle of the composition implement the
\* ShardManager's specification, which lets miners do anything at any time; so the
\* theorems of ShardManagerProofs hold of the composition.
THEOREM ImplementsShardManager == Spec => SMSpec
<1>1. Init => SMInit
  BY DEF Init
<1>2. LinkInv /\ [Next]_vars => [SMNext]_smVars
  BY SMFrame
<1> QED BY <1>1, <1>2, LinkInvariant, PTL DEF Spec, SMSpec

\* A step leaves a chain alone, appends one block to it or drops its oldest ones.
LEMMA HistoryStep ==
  ASSUME LinkInv, [Next]_vars, NEW s \in DOMAIN chains
  PROVE  s \in DOMAIN chains' /\ KeepsHistory(chains[s], chains'[s])
<1>1. chains \in [DOMAIN chains -> Seq(Block)] /\ chains[s] \in Seq(Block)
  BY DEF LinkInv, TypeOK
<1>2. CASE UNCHANGED chains
  BY <1>2 DEF KeepsHistory
<1>3. ASSUME NEW m \in Miners, AppendBlock(m)
      PROVE  s \in DOMAIN chains' /\ KeepsHistory(chains[s], chains'[s])
  <2>1. chains' = [chains EXCEPT ![mshard[m]] = Append(chains[mshard[m]], NewBlock(m))]
    BY <1>3 DEF AppendBlock
  <2>2. CASE s # mshard[m]
    BY <1>1, <2>1, <2>2 DEF KeepsHistory
  <2>3. CASE s = mshard[m]
    <3>1. NewBlock(m) \in Block
      <4>1. mhash[m] \in Hashes
        BY <1>3 DEF LinkInv, PendingHashesFresh, AppendBlock, Goto
      <4> QED BY <1>3, <4>1 DEF LinkInv, TypeOK, NewBlock, Block
    <3>2. s \in DOMAIN chains' /\ chains'[s] = Append(chains[s], NewBlock(m))
      BY <1>1, <2>1, <2>3
    <3>3. Len(chains'[s]) = Len(chains[s]) + 1 /\ SubSeq(chains'[s], 1, Len(chains[s])) = chains[s]
      BY <1>1, <3>1, <3>2
    <3> QED BY <3>2, <3>3 DEF KeepsHistory
  <2> QED BY <2>2, <2>3
<1>4. ASSUME NEW m \in Miners, PruneChain(m)
      PROVE  s \in DOMAIN chains' /\ KeepsHistory(chains[s], chains'[s])
  <2> DEFINE n == Len(chains[mshard[m]]) - PruneKeepBlocks
  <2>1. /\ chains' = [chains EXCEPT ![mshard[m]] = SubSeq(chains[mshard[m]], n + 1, Len(chains[mshard[m]]))]
        /\ PruneKeepBlocks > 0 /\ n > 0
    BY <1>4 DEF PruneChain
  <2>2. CASE s # mshard[m]
    BY <1>1, <2>1, <2>2 DEF KeepsHistory
  <2>3. CASE s = mshard[m]
    <3>0. Len(chains[s]) \in Nat /\ n = Len(chains[s]) - PruneKeepBlocks
      BY <1>1, <2>3
    <3>1. /\ s \in DOMAIN chains' /\ chains'[s] = SubSeq(chains[s], n + 1, Len(chains[s]))
          /\ n \in 1 .. (Len(chains[s]) - 1) /\ Len(chains[s]) \in Nat
      <4> HIDE DEF n
      <4> QED BY SMTT(30), <1>1, <2>1, <2>3, <3>0, ChainAssumption
    <3>2. Len(chains'[s]) = Len(chains[s]) - n
      BY <1>1, <3>1
    <3> HIDE DEF n
    <3>3. Len(chains'[s]) \in 1 .. (Len(chains[s]) - 1) /\ n + 1 = Len(chains[s]) - Len(chains'[s]) + 1
      BY <3>1, <3>2
    <3> QED BY <3>1, <3>3 DEF KeepsHistory
  <2> QED BY <2>2, <2>3
<1>5. ASSUME NEW m \in Miners, DiscardBlock(m)
      PROVE  s \in DOMAIN chains' /\ KeepsHistory(chains[s], chains'[s])
  BY <1>5 DEF DiscardBlock, KeepsHistory
<1>6. UNCHANGED chains \/ \E m \in Miners : AppendBlock(m) \/ PruneChain(m) \/ DiscardBlock(m)
  BY DEF Next, Submit, Manage, MinerStep, MineShardBlock, ReadHead, NoProposer, TakeTransactions,
         NoTransactions, Apply, FinalizeFailed, FinalizeReached, NothingToPrune,
         UpdateChainHeight, vars, bcVars, chainVars
<1> QED BY <1>2, <1>3, <1>4, <1>5, <1>6

\* Finality: a block in a chain is never replaced and the head never goes back,
\* for any number of miners appending and pruning.
THEOREM FinalizedBlocksAreFinal == Spec => FinalizedBlocksStay
<1>1. LinkInv /\ [Next]_vars =>
        [\A s \in DOMAIN chains : s \in DOMAIN chains' /\ KeepsHistory(chains[s], chains'[s])]_vars
  BY HistoryStep
<1> QED BY <1>1, LinkInvariant, PTL DEF Spec, FinalizedBlocksStay

\* The miners PruneBound counts.
Pruners(s) == {m \in Miners : mpc[m] = "prune" /\ mshard[m] = s}

\* PruneBound is preserved: an append adds one block and one miner that is about
\* to prune, and a prune leaves PruneKeepBlocks blocks.
LEMMA PruneBoundStep ==
  ASSUME LinkInv, PruneBound, [Next]_vars
  PROVE  PruneBound'
<1> SUFFICES ASSUME PruneKeepBlocks > 0, NEW s \in DOMAIN chains'
             PROVE  Len(chains'[s]) <= PruneKeepBlocks + Cardinality(Pruners(s)')
  BY DEF PruneBound, Pruners
<1>1. /\ chains \in [DOMAIN chains -> Seq(Block)] /\ mpc \in [Miners -> MinerSteps]
      /\ mshard \in [Miners -> Ids] /\ PruneKeepBlocks \in Nat
      /\ \A c \in DOMAIN chains : Len(chains[c]) \in Nat
  BY ChainAssumption DEF LinkInv, TypeOK
<1>2. IsFiniteSet(Pruners(s)) /\ Cardinality(Pruners(s)) \in Nat
  <2>1. Pruners(s) \in SUBSET Miners
    BY DEF Pruners
  <2> QED BY <2>1, ChainAssumption, FS_Subset, FS_CardinalityType
<1>3. IsFiniteSet(Pruners(s)') /\ Cardinality(Pruners(s)') \in Nat
  <2>1. Pruners(s)' \in SUBSET Miners
    BY DEF Pruners
  <2> QED BY <2>1, ChainAssumption, FS_Subset, FS_CardinalityType
<1>4. s \in DOMAIN chains => Len(chains[s]) <= PruneKeepBlocks + Cardinality(Pruners(s))
  BY DEF PruneBound, Pruners
<1>5. CASE UNCHANGED chains /\ Pruners(s)' = Pruners(s)
  BY <1>4, <1>5
<1>6. ASSUME NEW m \in Miners, MinerStep(m), UNCHANGED chains, mpc[m] # "prune", mpc'[m] # "prune"
      PROVE  Pruners(s)' = Pruners(s)
  <2>1. \A n \in Miners \ {m} : mpc'[n] = mpc[n] /\ mshard'[n] = mshard[n]
    BY <1>1, <1>6 DEF MinerStep, MineShardBlock, ReadHead, NoProposer, TakeTransactions, NoTransactions,
       Apply, FinalizeFailed, FinalizeReached, AppendBlock, DiscardBlock, PruneChain,
       NothingToPrune, UpdateChainHeight, Goto, Return
  <2> QED BY <1>6, <2>1 DEF Pruners
<1>7. ASSUME NEW m \in Miners, AppendBlock(m)
      PROVE  Len(chains'[s]) <= PruneKeepBlocks + Cardinality(Pruners(s)')
  <2>1. /\ mpc[m] = "append" /\ mpc' = [mpc EXCEPT ![m] = "prune"] /\ UNCHANGED mshard
        /\ chains' = [chains EXCEPT ![mshard[m]] = Append(chains[mshard[m]], NewBlock(m))]
    BY <1>7 DEF AppendBlock, Goto
  <2>2. CASE s # mshard[m]
    <3>1. Pruners(s)' = Pruners(s)
      BY <1>1, <2>1, <2>2 DEF Pruners
    <3> QED BY <1>1, <1>4, <2>1, <2>2, <3>1
  <2>3. CASE s = mshard[m]
    <3>1. Pruners(s)' = Pruners(s) \cup {m} /\ m \notin Pruners(s)
      BY <1>1, <2>1, <2>3 DEF Pruners
    <3>2. Cardinality(Pruners(s)') = Cardinality(Pruners(s)) + 1
      BY <1>2, <3>1, FS_AddElement
    <3>3. s \in DOMAIN chains /\ Len(chains'[s]) = Len(chains[s]) + 1
      BY <1>1, <2>1, <2>3
    <3> QED BY <1>1, <1>2, <1>4, <3>2, <3>3
  <2> QED BY <2>2, <2>3
<1>8. ASSUME NEW m \in Miners, PruneChain(m) \/ NothingToPrune(m)
      PROVE  Len(chains'[s]) <= PruneKeepBlocks + Cardinality(Pruners(s)')
  <2>1. mpc[m] = "prune" /\ mpc' = [mpc EXCEPT ![m] = "height"] /\ UNCHANGED mshard /\ mshard[m] \in DOMAIN chains
    BY <1>8 DEF PruneChain, NothingToPrune, Goto, LinkInv, MinersInBounds
  <2>2. CASE s # mshard[m]
    <3>1. Pruners(s)' = Pruners(s)
      BY <1>1, <2>1, <2>2 DEF Pruners
    <3>2. s \in DOMAIN chains /\ chains'[s] = chains[s]
      BY <1>1, <1>8, <2>2 DEF PruneChain, NothingToPrune, chainVars
    <3> QED BY <1>4, <3>1, <3>2
  <2>3. CASE s = mshard[m]
    <3>1. CASE NothingToPrune(m)
      BY <1>1, <1>3, <2>1, <2>3, <3>1 DEF NothingToPrune, chainVars
    <3>2. CASE PruneChain(m)
      <4> DEFINE n == Len(chains[s]) - PruneKeepBlocks
      <4>1. n > 0 /\ chains'[s] = SubSeq(chains[s], n + 1, Len(chains[s])) /\ chains[s] \in Seq(Block)
        BY <1>1, <2>1, <2>3, <3>2 DEF PruneChain
      <4>2. Len(chains'[s]) = PruneKeepBlocks
        BY <1>1, <2>1, <2>3, <4>1
      <4> QED BY <1>1, <1>3, <4>2
    <3> QED BY <1>8, <3>1, <3>2
  <2> QED BY <2>2, <2>3
<1>9. ASSUME NEW m \in Miners, DiscardBlock(m)
      PROVE  Len(chains'[s]) <= PruneKeepBlocks + Cardinality(Pruners(s)')
  <2>1. Pruners(s)' = Pruners(s)
    BY <1>1, <1>9 DEF DiscardBlock, Return, Pruners
  <2>2. CASE s \in DOMAIN chains
    BY <1>4, <1>9, <2>1, <2>2 DEF DiscardBlock
  <2>3. CASE s \notin DOMAIN chains
    <3>1. chains'[s] = <<>> /\ Len(<<>>) = 0
      BY <1>9, <2>3 DEF DiscardBlock
    <3> QED BY <1>1, <1>3, <3>1
  <2> QED BY <2>2, <2>3
<1>10. ASSUME NEW m \in Miners, MinerStep(m)
       PROVE  \/ AppendBlock(m) \/ DiscardBlock(m) \/ PruneChain(m) \/ NothingToPrune(m)
              \/ UNCHANGED chains /\ mpc[m] # "prune" /\ mpc'[m] # "prune"
  BY <1>1, <1>10 DEF MinerStep, MineShardBlock, ReadHead, NoProposer, TakeTransactions, NoTransactions,
     Apply, FinalizeFailed, FinalizeReached, UpdateChainHeight, Goto, Return, chainVars
<1>11. ASSUME NEW m \in Miners, MinerStep(m)
       PROVE  Len(chains'[s]) <= PruneKeepBlocks + Cardinality(Pruners(s)')
  BY <1>5, <1>6, <1>7, <1>8, <1>9, <1>10, <1>11
<1>12. CASE UNCHANGED bcVars
  BY <1>5, <1>12 DEF bcVars, chainVars, minerVars, Pruners
<1> QED BY <1>11, <1>12 DEF Next, Submit, Manage, vars

\* Chains stay bounded: a chain exceeds PruneKeepBlocks at most by the number of
\* miners between their append and their PruneChain.
THEOREM ChainsStayPruned == Spec => []PruneBound
<1>1. Init => PruneBound
  <2> SUFFICES ASSUME Init, PruneKeepBlocks > 0, NEW s \in DOMAIN chains
               PROVE  Len(chains[s]) <= PruneKeepBlocks + Cardinality(Pruners(s))
    BY DEF PruneBound, Pruners
  <2>1. Len(chains[s]) = 1
    BY DEF Init
  <2>2. Cardinality(Pruners(s)) \in Nat
    <3>1. Pruners(s) \in SUBSET Miners
      BY DEF Pruners
    <3> QED BY <3>1, ChainAssumption, FS_Subset, FS_CardinalityType
  <2> QED BY <2>1, <2>2, ChainAssumption
<1>2. LinkInv /\ PruneBound /\ [Next]_vars => PruneBound'
  BY PruneBoundStep
<1> QED BY <1>1, <1>2, LinkInvariant, PTL DEF Spec
-----------------------------------------------------------------------------
(***************************************************************************)
(* A transaction is in one place.  PoolInv says so of the pools; PlaceInv  *)
(* adds what miners hold and what is in blocks, and that these exclude     *)
(* each other: Shard.AddTransaction appends what was nowhere before,       *)
(* GetTransactionsForBlock takes a transaction out of the pool it hands    *)
(* out, and a miner that appended its block lets go of its batch.          *)
(***************************************************************************)

InPool(t) == \E s \in Ids : \E i \in DOMAIN pool[s] : pool[s][i] = t

InHand(t) == \E m \in Miners : mpc[m] \in Holding /\ \E i \in DOMAIN mtxs[m] : mtxs[m][i] = t

InBlock(t) ==
  \E s \in DOMAIN chains : \E i \in DOMAIN chains[s] : \E j \in DOMAIN chains[s][i].txs :
    chains[s][i].txs[j] = t

HandsApart ==
  \A m, n \in Miners : \A i \in DOMAIN mtxs[m] : \A j \in DOMAIN mtxs[n] :
    mpc[m] \in Holding /\ mpc[n] \in Holding /\ mtxs[m][i] = mtxs[n][j] => m = n /\ i = j

BlocksApart ==
  \A s, c \in DOMAIN chains : \A i \in DOMAIN chains[s] : \A k \in DOMAIN chains[c] :
    \A j \in DOMAIN chains[s][i].txs : \A l \in DOMAIN chains[c][k].txs :
      chains[s][i].txs[j] = chains[c][k].txs[l] => s = c /\ i = k /\ j = l

PlacesExclude ==
  \A t \in Tx : /\ ~(InPool(t) /\ InHand(t))
                /\ ~(InPool(t) /\ InBlock(t))
                /\ ~(InHand(t) /\ InBlock(t))
                /\ InHand(t) \/ InBlock(t) => call[t] = "accepted"

PlaceInv == PoolInv /\ HandsApart /\ BlocksApart /\ PlacesExclude

\* Only AddTransaction puts a transaction into a pool that was in none, and a call
\* that was accepted stays so.
LEMMA PoolsGainByCalls ==
  ASSUME SMInv, [SMNext]_smVars, NEW t \in Tx
  PROVE  /\ call[t] = "accepted" => call'[t] = "accepted"
         /\ InPool(t)' /\ call[t] = "accepted" => InPool(t)
<1>1. /\ pool \in [Ids -> Seq(Tx)] /\ call \in [Tx -> CallStates] /\ Created \subseteq Ids
      /\ dest \in [Tx -> Ids]
  BY ConfigAssumption DEF SMInv, SMTypeOK, Created, Ids
<1>2. call[t] = "accepted" => call'[t] = "accepted"
  BY <1>1 DEF SMNext, DetermineShard, GetShard, AddTransaction, GetTransactionsForBlock,
     ApplyStateChanges, ManageStep, CheckSplit, DecideMerge, EndCycle, SplitBeyondBound, TriggerSplit,
     TriggerMerge, smVars, callVars
<1>3. SUFFICES ASSUME call[t] = "accepted", NEW s \in Ids, NEW i \in DOMAIN pool'[s], pool'[s][i] = t
               PROVE  InPool(t)
  BY <1>2 DEF InPool, Ids
<1>4. CASE UNCHANGED pool
  BY <1>3, <1>4 DEF InPool
<1>5. ASSUME NEW u \in Tx, AddTransaction(u) PROVE InPool(t)
  <2>1. u # t /\ pool' = [pool EXCEPT ![dest[u]] = Append(pool[dest[u]], u)]
    BY <1>3, <1>5 DEF AddTransaction
  <2>2. i \in DOMAIN pool[s] /\ pool[s][i] = t
    BY <1>1, <1>3, <2>1
  <2> QED BY <2>2 DEF InPool
<1>6. ASSUME NEW c \in Created, GetTransactionsForBlock(c) PROVE InPool(t)
  <2> DEFINE n == Smaller(MaxTx, Len(pool[c]))
  <2>1. pool[c] \in Seq(Tx) /\ Len(pool[c]) \in Nat /\ n \in 0 .. Len(pool[c]) /\ c \in Ids
    BY <1>1, TxAssumption DEF Smaller
  <2>2. pool' = [pool EXCEPT ![c] = SubSeq(pool[c], n + 1, Len(pool[c]))]
    BY <1>6 DEF GetTransactionsForBlock
  <2> HIDE DEF n
  <2>3. CASE s # c
    BY <1>1, <1>3, <2>2, <2>3 DEF InPool
  <2>4. CASE s = c
    <3>1. i + n \in DOMAIN pool[c] /\ pool[c][i + n] = t
      BY <1>1, <1>3, <2>1, <2>2, <2>4
    <3> QED BY <2>1, <3>1 DEF InPool
  <2> QED BY <2>3, <2>4
<1>7. CASE TriggerSplit
  <2>1. pool' = [pool EXCEPT ![nextShardID] = <<>>]
    BY <1>7 DEF TriggerSplit
  <2>2. i \in DOMAIN pool[s] /\ pool[s][i] = t
    BY <1>1, <1>3, <2>1
  <2> QED BY <2>2 DEF InPool
<1>8. CASE TriggerMerge
  <2> DEFINE a == manage.a
             b == manage.b
             q == pool[a] \o pool[b]
  <2>1. a \in Ids /\ b \in Ids /\ a # b
    BY <1>8 DEF SMInv, SMTypeOK, DecisionStillValid, TriggerMerge
  <2>2. pool' = [pool EXCEPT ![a] = q, ![b] = <<>>]
    BY <1>8 DEF TriggerMerge
  <2> HIDE DEF a, b
  <2>3. \A j \in DOMAIN q : q[j] = t => InPool(t)
    BY <1>1, <2>1, ConcatPlaces DEF InPool
  <2> HIDE DEF q
  <2>4. CASE s = a
    BY <1>1, <1>3, <2>1, <2>2, <2>3, <2>4
  <2>5. CASE s = b
    BY <1>1, <1>3, <2>1, <2>2, <2>5
  <2>6. CASE s # a /\ s # b
    <3>1. pool'[s] = pool[s]
      BY <1>1, <2>1, <2>2, <2>6
    <3> QED BY <1>3, <3>1 DEF InPool
  <2> QED BY <2>4, <2>5, <2>6
<1>9. \/ UNCHANGED pool
      \/ \E u \in Tx : AddTransaction(u)
      \/ \E c \in Created : GetTransactionsForBlock(c)
      \/ TriggerSplit \/ TriggerMerge
  BY DEF SMNext, DetermineShard, GetShard, ApplyStateChanges, ManageStep, CheckSplit, DecideMerge,
         EndCycle, SplitBeyondBound, smVars, shardVars
<1> QED BY <1>4, <1>5, <1>6, <1>7, <1>8, <1>9

\* A step after which every batch held and every block was there before keeps
\* the places apart, whatever happens to the pools.
LEMMA QuietPlaces ==
  ASSUME LinkInv, PlaceInv, [SMNext]_smVars,
         \A m \in Miners : mpc'[m] \in Holding => mpc[m] \in Holding /\ mtxs'[m] = mtxs[m],
         \A s \in DOMAIN chains' : \/ DOMAIN chains'[s] = {}
                                   \/ s \in DOMAIN chains /\ chains'[s] = chains[s]
  PROVE  PlaceInv'
<1>1. PoolInv'
  BY PoolStepInv DEF LinkInv, PlaceInv
<1>2. HandsApart'
  BY DEF PlaceInv, HandsApart
<1>3. BlocksApart'
  BY DEF PlaceInv, BlocksApart
<1>4. \A t \in Tx : InHand(t)' => InHand(t)
  BY DEF InHand
<1>5. \A t \in Tx : InBlock(t)' => InBlock(t)
  BY DEF InBlock
<1>6. \A t \in Tx : /\ call[t] = "accepted" => call'[t] = "accepted"
                    /\ InPool(t)' /\ call[t] = "accepted" => InPool(t)
  BY PoolsGainByCalls DEF LinkInv
<1>7. PlacesExclude'
  BY <1>4, <1>5, <1>6 DEF PlaceInv, PlacesExclude
<1> QED BY <1>1, <1>2, <1>3, <1>7 DEF PlaceInv

\* What a miner takes out of a pool is in no pool any more.
LEMMA TakeKeepsPlaces ==
  ASSUME LinkInv, PlaceInv, [SMNext]_smVars, NEW m \in Miners, TakeTransactions(m)
  PROVE  PlaceInv'
<1> DEFINE s0 == mshard[m]
           n == Smaller(MaxTx, Len(pool[s0]))
           txs == TakenFrom(s0)
<1>1. /\ s0 \in Ids /\ pool \in [Ids -> Seq(Tx)] /\ pool[s0] \in Seq(Tx) /\ Len(pool[s0]) \in Nat
      /\ mpc \in [Miners -> MinerSteps] /\ mtxs \in [Miners -> Seq(Tx)] /\ call \in [Tx -> CallStates]
  BY DEF LinkInv, TypeOK, SMTypeOK
<1>2. n \in 0 .. Len(pool[s0])
  BY <1>1, TxAssumption DEF Smaller
<1>3. /\ pool' = [pool EXCEPT ![s0] = SubSeq(pool[s0], n + 1, Len(pool[s0]))]
      /\ mtxs' = [mtxs EXCEPT ![m] = txs] /\ mpc' = [mpc EXCEPT ![m] = "apply"]
      /\ UNCHANGED <<chains, call>>
  BY DEF TakeTransactions, GetTransactionsForBlock, Goto, chainVars, callVars
<1>4. txs = SubSeq(pool[s0], 1, n)
  BY DEF TakenFrom
<1> HIDE DEF n, txs, s0
<1>5. DOMAIN txs = 1 .. n /\ \A i \in 1 .. n : i \in DOMAIN pool[s0] /\ txs[i] = pool[s0][i] /\ txs[i] \in Tx
  BY <1>1, <1>2, <1>4
<1>6. \A s \in Ids : \A i \in DOMAIN pool'[s] :
        \E j \in DOMAIN pool[s] : pool'[s][i] = pool[s][j] /\ (s = s0 => j > n)
  <2> SUFFICES ASSUME NEW s \in Ids, NEW i \in DOMAIN pool'[s]
               PROVE  \E j \in DOMAIN pool[s] : pool'[s][i] = pool[s][j] /\ (s = s0 => j > n)
    OBVIOUS
  <2>1. CASE s # s0
    BY <1>1, <1>3, <2>1
  <2>2. CASE s = s0
    <3>1. i + n \in DOMAIN pool[s0] /\ pool'[s][i] = pool[s0][i + n] /\ i + n > n
      BY <1>1, <1>2, <1>3, <2>2
    <3> QED BY <2>2, <3>1
  <2> QED BY <2>1, <2>2
<1>7. ASSUME NEW t \in Tx, NEW i \in 1 .. n, txs[i] = t
      PROVE  InPool(t) /\ ~InPool(t)' /\ call[t] = "accepted"
  <2>1. InPool(t) /\ call[t] = "accepted"
    BY <1>1, <1>5, <1>7 DEF InPool, PlaceInv, PoolInv, PooledAccepted
  <2>2. ASSUME NEW s \in Ids, NEW k \in DOMAIN pool'[s], pool'[s][k] = t
        PROVE  FALSE
    <3>1. PICK j \in DOMAIN pool[s] : pool[s][j] = t /\ (s = s0 => j > n)
      BY <1>6, <2>2
    <3>2. i \in DOMAIN pool[s0] /\ pool[s0][i] = t
      BY <1>5, <1>7
    <3>3. s = s0 /\ j = i
      BY <1>1, <3>1, <3>2 DEF PlaceInv, PoolInv, PooledApart
    <3> QED BY <1>2, <3>1, <3>3
  <2> QED BY <2>1, <2>2 DEF InPool, Ids
<1>8. PoolInv'
  BY PoolStepInv DEF LinkInv, PlaceInv
<1>9. /\ \A o \in Miners \ {m} : mpc'[o] = mpc[o] /\ mtxs'[o] = mtxs[o]
      /\ mpc'[m] = "apply" /\ mtxs'[m] = txs
  BY <1>1, <1>3
<1>10. HandsApart'
  <2> SUFFICES ASSUME NEW a \in Miners, NEW b \in Miners,
                      NEW i \in DOMAIN mtxs'[a], NEW j \in DOMAIN mtxs'[b],
                      mpc'[a] \in Holding, mpc'[b] \in Holding, mtxs'[a][i] = mtxs'[b][j]
               PROVE  a = b /\ i = j
    BY DEF HandsApart
  <2>1. CASE a = m /\ b = m
    <3>1. i \in DOMAIN pool[s0] /\ j \in DOMAIN pool[s0] /\ pool[s0][i] = pool[s0][j]
      BY <1>5, <1>9, <2>1
    <3> QED BY <1>1, <2>1, <3>1 DEF PlaceInv, PoolInv, PooledApart
  <2>2. CASE a = m /\ b # m
    <3>1. InPool(mtxs[b][j]) /\ InHand(mtxs[b][j]) /\ mtxs[b][j] \in Tx
      BY <1>1, <1>5, <1>7, <1>9, <2>2 DEF InHand
    <3> QED BY <3>1 DEF PlaceInv, PlacesExclude
  <2>3. CASE a # m /\ b = m
    <3>1. InPool(mtxs[a][i]) /\ InHand(mtxs[a][i]) /\ mtxs[a][i] \in Tx
      BY <1>1, <1>5, <1>7, <1>9, <2>3 DEF InHand
    <3> QED BY <3>1 DEF PlaceInv, PlacesExclude
  <2>4. CASE a # m /\ b # m
    BY <1>9, <2>4 DEF PlaceInv, HandsApart
  <2> QED BY <2>1, <2>2, <2>3, <2>4
<1>11. BlocksApart'
  BY <1>3 DEF PlaceInv, BlocksApart
<1>12. \A t \in Tx : InBlock(t)' <=> InBlock(t)
  BY <1>3 DEF InBlock
<1>13. \A t \in Tx : InHand(t)' => InHand(t) \/ \E i \in 1 .. n : mtxs'[m][i] = t
  BY <1>5, <1>9 DEF InHand
<1>14. \A t \in Tx : /\ call'[t] = call[t]
                     /\ InPool(t)' /\ call[t] = "accepted" => InPool(t)
  BY <1>3, PoolsGainByCalls DEF LinkInv
<1>15. PlacesExclude'
  <2> SUFFICES ASSUME NEW t \in Tx
               PROVE  /\ ~(InPool(t)' /\ InHand(t)') /\ ~(InPool(t)' /\ InBlock(t)')
                      /\ ~(InHand(t)' /\ InBlock(t)') /\ (InHand(t)' \/ InBlock(t)' => call'[t] = "accepted")
    BY DEF PlacesExclude
  <2>1. CASE \E i \in 1 .. n : mtxs'[m][i] = t
    BY <1>7, <1>9, <1>12, <1>14, <2>1 DEF PlaceInv, PlacesExclude
  <2>2. CASE ~(\E i \in 1 .. n : mtxs'[m][i] = t)
    BY <1>12, <1>13, <1>14, <2>2 DEF PlaceInv, PlacesExclude
  <2> QED BY <2>1, <2>2
<1> QED BY <1>8, <1>10, <1>11, <1>15 DEF PlaceInv

\* A miner that appends its block lets go of the batch in it.
LEMMA AppendKeepsPlaces ==
  ASSUME LinkInv, PlaceInv, [SMNext]_smVars, NEW m \in Miners, AppendBlock(m)
  PROVE  PlaceInv'
<1> DEFINE s0 == mshard[m]
           n == Len(chains[s0])
           b == NewBlock(m)
<1>1. /\ chains \in [DOMAIN chains -> Seq(Block)] /\ mpc \in [Miners -> MinerSteps]
      /\ mtxs \in [Miners -> Seq(Tx)]
  BY DEF LinkInv, TypeOK
<1>2. /\ s0 \in DOMAIN chains /\ chains[s0] \in Seq(Block) /\ n \in Nat /\ DOMAIN chains[s0] = 1 .. n
      /\ mpc[m] = "append"
  BY <1>1 DEF AppendBlock, LinksToHead, HasBlocks, Goto
<1>3. /\ chains' = [chains EXCEPT ![s0] = Append(chains[s0], b)]
      /\ mpc' = [mpc EXCEPT ![m] = "prune"] /\ UNCHANGED <<mtxs, call, pool>>
  BY DEF AppendBlock, Goto, smVars, callVars, shardVars
<1>4. b.txs = mtxs[m]
  BY DEF NewBlock
<1> HIDE DEF b, n, s0
<1>5. /\ DOMAIN chains' = DOMAIN chains
      /\ \A s \in DOMAIN chains \ {s0} : chains'[s] = chains[s]
      /\ DOMAIN chains'[s0] = 1 .. (n + 1) /\ chains'[s0][n + 1] = b
      /\ \A i \in DOMAIN chains[s0] : chains'[s0][i] = chains[s0][i]
  BY <1>1, <1>2, <1>3
<1>6. \A s \in DOMAIN chains' : \A i \in DOMAIN chains'[s] :
        \/ s = s0 /\ i = n + 1 /\ chains'[s][i] = b
        \/ s \in DOMAIN chains /\ i \in DOMAIN chains[s] /\ chains'[s][i] = chains[s][i]
  BY <1>2, <1>5
<1>7. mpc[m] \in Holding /\ mpc'[m] \notin Holding /\ \A o \in Miners \ {m} : mpc'[o] = mpc[o]
  BY <1>1, <1>2, <1>3 DEF Holding
<1>8. \A j \in DOMAIN mtxs[m] : mtxs[m][j] \in Tx /\ InHand(mtxs[m][j]) /\ ~InBlock(mtxs[m][j])
  BY <1>1, <1>7 DEF InHand, PlaceInv, PlacesExclude
<1>9. PoolInv'
  BY PoolStepInv DEF LinkInv, PlaceInv
<1>10. HandsApart'
  BY <1>3, <1>7 DEF PlaceInv, HandsApart
<1>11. BlocksApart'
  <2> SUFFICES ASSUME NEW s \in DOMAIN chains', NEW c \in DOMAIN chains',
                      NEW i \in DOMAIN chains'[s], NEW k \in DOMAIN chains'[c],
                      NEW j \in DOMAIN chains'[s][i].txs, NEW l \in DOMAIN chains'[c][k].txs,
                      chains'[s][i].txs[j] = chains'[c][k].txs[l]
               PROVE  s = c /\ i = k /\ j = l
    BY DEF BlocksApart
  <2> DEFINE IsNew(x, y) == x = s0 /\ y = n + 1 /\ chains'[x][y] = b
             IsOld(x, y) == x \in DOMAIN chains /\ y \in DOMAIN chains[x] /\ chains'[x][y] = chains[x][y]
  <2>1. (IsNew(s, i) \/ IsOld(s, i)) /\ (IsNew(c, k) \/ IsOld(c, k))
    BY <1>6
  <2>2. CASE IsNew(s, i) /\ IsNew(c, k)
    <3>1. j \in DOMAIN mtxs[m] /\ l \in DOMAIN mtxs[m] /\ mtxs[m][j] = mtxs[m][l]
      BY <1>4, <2>2
    <3> QED BY <1>7, <2>2, <3>1 DEF PlaceInv, HandsApart
  <2>3. CASE IsNew(s, i) /\ IsOld(c, k)
    <3>1. j \in DOMAIN mtxs[m] /\ InBlock(mtxs[m][j])
      BY <1>4, <2>3 DEF InBlock
    <3> QED BY <1>8, <3>1
  <2>4. CASE IsOld(s, i) /\ IsNew(c, k)
    <3>1. l \in DOMAIN mtxs[m] /\ InBlock(mtxs[m][l])
      BY <1>4, <2>4 DEF InBlock
    <3> QED BY <1>8, <3>1
  <2>5. CASE IsOld(s, i) /\ IsOld(c, k)
    BY <2>5 DEF PlaceInv, BlocksApart
  <2> QED BY <2>1, <2>2, <2>3, <2>4, <2>5
<1>12. \A t \in Tx : InPool(t)' = InPool(t)
  BY <1>3 DEF InPool, Ids
<1>13. \A t \in Tx : InHand(t)' => InHand(t) /\ ~(\E j \in DOMAIN mtxs[m] : mtxs[m][j] = t)
  BY <1>3, <1>7 DEF InHand, PlaceInv, HandsApart
<1>14. \A t \in Tx : InBlock(t)' => InBlock(t) \/ \E j \in DOMAIN mtxs[m] : mtxs[m][j] = t
  BY <1>4, <1>6 DEF InBlock
<1>15. PlacesExclude'
  <2> SUFFICES ASSUME NEW t \in Tx
               PROVE  /\ ~(InPool(t)' /\ InHand(t)') /\ ~(InPool(t)' /\ InBlock(t)')
                      /\ ~(InHand(t)' /\ InBlock(t)') /\ (InHand(t)' \/ InBlock(t)' => call'[t] = "accepted")
    BY DEF PlacesExclude
  <2>1. CASE \E j \in DOMAIN mtxs[m] : mtxs[m][j] = t
    <3>1. InHand(t) /\ ~InHand(t)'
      BY <1>8, <1>13, <2>1
    <3> QED BY <1>3, <1>12, <3>1 DEF PlaceInv, PlacesExclude
  <2>2. CASE ~(\E j \in DOMAIN mtxs[m] : mtxs[m][j] = t)
    BY <1>3, <1>12, <1>13, <1>14, <2>2 DEF PlaceInv, PlacesExclude
  <2> QED BY <2>1, <2>2
<1> QED BY <1>9, <1>10, <1>11, <1>15 DEF PlaceInv

\* Pruning drops blocks and renumbers the others.
LEMMA PruneKeepsPlaces ==
  ASSUME LinkInv, PlaceInv, [SMNext]_smVars, NEW m \in Miners, PruneChain(m)
  PROVE  PlaceInv'
<1> DEFINE s0 == mshard[m]
           len == Len(chains[s0])
           n == len - PruneKeepBlocks
<1>1. chains \in [DOMAIN chains -> Seq(Block)] /\ mpc \in [Miners -> MinerSteps]
  BY DEF LinkInv, TypeOK
<1>2. s0 \in DOMAIN chains /\ chains[s0] \in Seq(Block) /\ len \in Nat /\ mpc[m] = "prune"
  BY <1>1 DEF LinkInv, MinersInBounds, PruneChain, Goto
<1>3. n \in 1 .. len
  BY <1>2, ChainAssumption DEF PruneChain
<1>4. /\ chains' = [chains EXCEPT ![s0] = SubSeq(chains[s0], n + 1, len)]
      /\ mpc' = [mpc EXCEPT ![m] = "height"] /\ UNCHANGED <<mtxs, call, pool>>
  BY DEF PruneChain, Goto, smVars, callVars, shardVars
<1> HIDE DEF n, len, s0
<1>5. /\ DOMAIN chains' = DOMAIN chains
      /\ \A s \in DOMAIN chains \ {s0} : chains'[s] = chains[s]
  BY <1>1, <1>4
<1>6. \A i \in DOMAIN chains'[s0] :
        i \in Int /\ i + n \in DOMAIN chains[s0] /\ chains'[s0][i] = chains[s0][i + n]
  BY <1>1, <1>2, <1>3, <1>4 DEF len
<1>7. \A s \in DOMAIN chains' : \A i \in DOMAIN chains'[s] :
        /\ s \in DOMAIN chains
        /\ \/ s # s0 /\ i \in DOMAIN chains[s] /\ chains'[s][i] = chains[s][i]
           \/ s = s0 /\ i \in Int /\ i + n \in DOMAIN chains[s] /\ chains'[s][i] = chains[s][i + n]
  BY <1>5, <1>6
<1>8. \A o \in Miners : mpc'[o] \in Holding <=> mpc[o] \in Holding
  BY <1>1, <1>2, <1>4 DEF Holding
<1>9. PoolInv'
  BY PoolStepInv DEF LinkInv, PlaceInv
<1>10. HandsApart'
  BY <1>4, <1>8 DEF PlaceInv, HandsApart
<1>11. BlocksApart'
  <2> SUFFICES ASSUME NEW s \in DOMAIN chains', NEW c \in DOMAIN chains',
                      NEW i \in DOMAIN chains'[s], NEW k \in DOMAIN chains'[c],
                      NEW j \in DOMAIN chains'[s][i].txs, NEW l \in DOMAIN chains'[c][k].txs,
                      chains'[s][i].txs[j] = chains'[c][k].txs[l]
               PROVE  s = c /\ i = k /\ j = l
    BY DEF BlocksApart
  <2>1. CASE s = s0 /\ c = s0
    <3>1. i + n = k + n /\ j = l /\ i \in Int /\ k \in Int
      BY <1>6, <1>2, <2>1 DEF PlaceInv, BlocksApart
    <3> QED BY <1>3, <1>2, <2>1, <3>1
  <2>2. CASE s # s0 \/ c # s0
    BY <1>7, <2>2 DEF PlaceInv, BlocksApart
  <2> QED BY <2>1, <2>2
<1>12. \A t \in Tx : InPool(t)' = InPool(t)
  BY <1>4 DEF InPool, Ids
<1>13. \A t \in Tx : InHand(t)' = InHand(t)
  BY <1>4, <1>8 DEF InHand
<1>14. \A t \in Tx : InBlock(t)' => InBlock(t)
  BY <1>7 DEF InBlock
<1>15. PlacesExclude'
  BY <1>4, <1>12, <1>13, <1>14 DEF PlaceInv, PlacesExclude
<1> QED BY <1>9, <1>10, <1>11, <1>15 DEF PlaceInv

\* Every step of miners, callers and the management cycle keeps the places apart.
LEMMA PlaceStepInv == LinkInv /\ PlaceInv /\ [Next]_vars => PlaceInv'
<1> SUFFICES ASSUME LinkInv, PlaceInv, [Next]_vars PROVE PlaceInv'
  OBVIOUS
<1>1. [SMNext]_smVars
  BY SMFrame
<1>2. mpc \in [Miners -> MinerSteps] /\ mtxs \in [Miners -> Seq(Tx)]
  BY DEF LinkInv, TypeOK
<1>3. CASE UNCHANGED bcVars
  BY <1>1, <1>3, QuietPlaces DEF bcVars, chainVars, minerVars
<1>4. ASSUME NEW m \in Miners, MinerStep(m) PROVE PlaceInv'
  <2>1. CASE TakeTransactions(m) \/ AppendBlock(m) \/ PruneChain(m)
    BY <1>1, <2>1, TakeKeepsPlaces, AppendKeepsPlaces, PruneKeepsPlaces
  <2>2. CASE DiscardBlock(m)
    <3>1. \A o \in Miners : mpc'[o] \in Holding => mpc[o] \in Holding /\ mtxs'[o] = mtxs[o]
      BY <1>2, <2>2 DEF DiscardBlock, Return, Holding
    <3>2. \A s \in DOMAIN chains' : \/ DOMAIN chains'[s] = {}
                                    \/ s \in DOMAIN chains /\ chains'[s] = chains[s]
      BY <2>2 DEF DiscardBlock
    <3> QED BY <1>1, <3>1, <3>2, QuietPlaces
  <2>3. CASE ~(TakeTransactions(m) \/ AppendBlock(m) \/ PruneChain(m) \/ DiscardBlock(m))
    <3>1. UNCHANGED chains
      BY <1>4, <2>3 DEF MinerStep, MineShardBlock, ReadHead, NoProposer, NoTransactions, Apply,
         FinalizeFailed, FinalizeReached, NothingToPrune, UpdateChainHeight, chainVars
    <3>2. \A o \in Miners : mpc'[o] \in Holding => mpc[o] \in Holding /\ mtxs'[o] = mtxs[o]
      BY <1>2, <1>4, <2>3 DEF MinerStep, MineShardBlock, ReadHead, NoProposer, NoTransactions, Apply,
         FinalizeFailed, FinalizeReached, NothingToPrune, UpdateChainHeight, Goto, Return, Holding
    <3> QED BY <1>1, <3>1, <3>2, QuietPlaces
  <2> QED BY <2>1, <2>2, <2>3
<1> QED BY <1>3, <1>4 DEF Next, Submit, Manage, vars

\* At the start every transaction is still to be submitted.
LEMMA PlaceInitInv == Init => PlaceInv
<1> SUFFICES ASSUME Init PROVE PlaceInv
  OBVIOUS
<1>1. PoolInv
  BY DEF Init, SMInit, PoolInv, PooledApart, PooledAccepted
<1>2. \A s \in DOMAIN chains : \A i \in DOMAIN chains[s] : DOMAIN chains[s][i].txs = {}
  BY DEF Init, GenesisBlock
<1>3. HandsApart /\ BlocksApart
  BY <1>2 DEF Init, HandsApart, BlocksApart
<1>4. \A t \in Tx : ~InHand(t) /\ ~InBlock(t)
  <2>1. \A m \in Miners : mpc[m] \notin Holding
    BY DEF Init, Holding
  <2> QED BY <1>2, <2>1 DEF InHand, InBlock
<1>5. PlacesExclude
  BY <1>4 DEF PlacesExclude
<1> QED BY <1>1, <1>3, <1>5 DEF PlaceInv

\* A transaction is in one pool, in the hands of one miner or in one block: it is
\* never mined twice, for any number of miners racing on a shard and merges under
\* miners that hold the removed shard.
THEOREM NothingMinedTwice == Spec => []MinedAtMostOnce
<1>1. PlaceInv => MinedAtMostOnce
  <2> SUFFICES ASSUME PlaceInv, NEW t \in Tx PROVE Cardinality(Places(t)) <= 1
    BY DEF MinedAtMostOnce
  <2>1. \A x \in PoolPlaces(t) : \E s \in Ids : \E i \in DOMAIN pool[s] : pool[s][i] = t /\ x = <<s, i>>
    BY DEF PoolPlaces
  <2>2. \A x \in MinerPlaces(t) : \E m \in Miners : \E i \in DOMAIN mtxs[m] :
          mpc[m] \in Holding /\ mtxs[m][i] = t /\ x = <<m, i>>
    BY DEF MinerPlaces
  <2>3. \A x \in ChainPlaces(t) : \E s \in DOMAIN chains : \E i \in DOMAIN chains[s] :
          \E j \in DOMAIN chains[s][i].txs : chains[s][i].txs[j] = t /\ x = <<s, i, j>>
    BY DEF ChainPlaces
  <2>4. \A x, y \in PoolPlaces(t) : x = y
    BY <2>1 DEF PlaceInv, PoolInv, PooledApart
  <2>5. \A x, y \in MinerPlaces(t) : x = y
    BY <2>2 DEF PlaceInv, HandsApart
  <2>6. \A x, y \in ChainPlaces(t) : x = y
    BY <2>3 DEF PlaceInv, BlocksApart
  <2>7. PoolPlaces(t) # {} => InPool(t)
    BY <2>1 DEF InPool
  <2>8. MinerPlaces(t) # {} => InHand(t)
    BY <2>2 DEF InHand
  <2>9. ChainPlaces(t) # {} => InBlock(t)
    BY <2>3 DEF InBlock
  <2>10. \A x, y \in Places(t) : x = y
    BY <2>4, <2>5, <2>6, <2>7, <2>8, <2>9 DEF Places, PlaceInv, PlacesExclude
  <2> QED BY <2>10, AtMostOneMember
<1> QED BY <1>1, PlaceInitInv, PlaceStepInv, LinkInvariant, PTL DEF Spec
-----------------------------------------------------------------------------
(***************************************************************************)
(* Heads and heights.  The head of a chain only moves by an append, whose  *)
(* block is one higher; so a miner that has read the head is never ahead   *)
(* of it by more than the one block it is building on, and one that has    *)
(* appended is never above it.                                             *)
(***************************************************************************)

Building == {"take", "apply", "finalize", "append"}
Appended == {"prune", "height"}

\* main.go's two chains never run empty.
GenesisShardsHaveBlocks == \A s \in GenesisShards : HasBlocks(s)

\* A miner's parent is the head, or the head has reached the miner's height.
BuildsOnHeadOrBeaten ==
  \A m \in Miners : mpc[m] \in Building /\ HasBlocks(mshard[m]) =>
    \/ ChainHead(mshard[m]).height >= mheight[m]
    \/ ChainHead(mshard[m]).height + 1 = mheight[m] /\ ChainHead(mshard[m]).hash = mprev[m]

AppendedNotAboveHead ==
  \A m \in Miners : mpc[m] \in Appended =>
    HasBlocks(mshard[m]) /\ ChainHead(mshard[m]).height >= mheight[m]

\* The two parts of ChainHeightTracks: no head is above bc.ChainHeight but for
\* miners still on their way to update it, and some head is as high.
HeadsReported ==
  \A s \in DOMAIN chains :
    HasBlocks(s) =>
      \/ ChainHead(s).height <= chainHeight
      \/ \E m \in Miners : /\ mpc[m] \in Appended /\ mshard[m] = s
                           /\ mheight[m] >= ChainHead(s).height

HeightReached == \E s \in DOMAIN chains : HasBlocks(s) /\ ChainHead(s).height >= chainHeight

HeadInv ==
  /\ GenesisShardsHaveBlocks /\ BuildsOnHeadOrBeaten /\ AppendedNotAboveHead
  /\ HeadsReported /\ HeightReached

\* An append makes the new block the head, one above the old one.
LEMMA AppendMovesHead ==
  ASSUME LinkInv, NEW m \in Miners, AppendBlock(m)
  PROVE  /\ HasBlocks(mshard[m]) /\ HasBlocks(mshard[m])'
         /\ mheight[m] = ChainHead(mshard[m]).height + 1
         /\ ChainHead(mshard[m])' = NewBlock(m)
         /\ \A s : s # mshard[m] => /\ HasBlocks(s)' = HasBlocks(s)
                                    /\ HasBlocks(s) => ChainHead(s)' = ChainHead(s)
<1> DEFINE c == mshard[m]
           n == Len(chains[c])
<1>1. HasBlocks(c) /\ ChainHead(c).hash = mprev[m] /\ mpc[m] = "append"
  BY DEF AppendBlock, LinksToHead, Goto
<1>2. /\ c \in DOMAIN chains /\ n \in Nat \ {0} /\ n \in DOMAIN chains[c] /\ ChainHead(c) = chains[c][n]
      /\ chains \in [DOMAIN chains -> Seq(Block)] /\ chains[c] \in Seq(Block)
  BY <1>1, HeadIsBlock DEF LinkInv, TypeOK
<1>3. mheight[m] = ChainHead(c).height + 1
  BY <1>1, <1>2 DEF LinkInv, HeightFollowsParent
<1>4. chains' = [chains EXCEPT ![c] = Append(chains[c], NewBlock(m))] /\ mshard' = mshard
  BY DEF AppendBlock
<1>5. /\ DOMAIN chains' = DOMAIN chains /\ \A s \in DOMAIN chains \ {c} : chains'[s] = chains[s]
      /\ chains'[c] = Append(chains[c], NewBlock(m))
  BY <1>2, <1>4
<1>6. Len(chains'[c]) = n + 1 /\ chains'[c][n + 1] = NewBlock(m) /\ chains'[c] # <<>>
  BY <1>2, <1>5
<1>7. HasBlocks(mshard[m])' /\ ChainHead(mshard[m])' = NewBlock(m)
  BY <1>2, <1>4, <1>5, <1>6 DEF HasBlocks, ChainHead
<1>8. \A s : s # c => HasBlocks(s)' = HasBlocks(s) /\ (HasBlocks(s) => ChainHead(s)' = ChainHead(s))
  BY <1>5 DEF HasBlocks, ChainHead
<1> QED BY <1>1, <1>3, <1>7, <1>8

\* No other step gives a chain its first block, empties one or moves a head.
LEMMA OtherStepsKeepHeads ==
  ASSUME LinkInv, [Next]_vars, \A m \in Miners : ~AppendBlock(m), NEW s
  PROVE  /\ HasBlocks(s)' = HasBlocks(s)
         /\ HasBlocks(s) => ChainHead(s)' = ChainHead(s)
<1>1. CASE UNCHANGED chains
  BY <1>1 DEF HasBlocks, ChainHead
<1>2. ASSUME NEW m \in Miners, DiscardBlock(m)
      PROVE  HasBlocks(s)' = HasBlocks(s) /\ (HasBlocks(s) => ChainHead(s)' = ChainHead(s))
  <2>1. CASE s \in DOMAIN chains
    <3>1. s \in DOMAIN chains' /\ chains'[s] = chains[s]
      BY <1>2, <2>1 DEF DiscardBlock
    <3> QED BY <2>1, <3>1 DEF HasBlocks, ChainHead
  <2>2. CASE s \notin DOMAIN chains
    <3>1. s \in DOMAIN chains' => chains'[s] = <<>>
      BY <1>2, <2>2 DEF DiscardBlock
    <3> QED BY <2>2, <3>1 DEF HasBlocks
  <2> QED BY <2>1, <2>2
<1>3. ASSUME NEW m \in Miners, PruneChain(m)
      PROVE  HasBlocks(s)' = HasBlocks(s) /\ (HasBlocks(s) => ChainHead(s)' = ChainHead(s))
  <2> DEFINE c == mshard[m]
             len == Len(chains[c])
             n == len - PruneKeepBlocks
  <2>1. /\ c \in DOMAIN chains /\ chains \in [DOMAIN chains -> Seq(Block)] /\ chains[c] \in Seq(Block)
        /\ len \in Nat
    BY <1>3 DEF LinkInv, TypeOK, MinersInBounds, PruneChain, Goto
  <2>2. n \in 1 .. (len - 1)
    BY <1>3, <2>1, ChainAssumption DEF PruneChain
  <2>3. chains' = [chains EXCEPT ![c] = SubSeq(chains[c], n + 1, len)]
    BY <1>3 DEF PruneChain
  <2> HIDE DEF n
  <2>4. /\ DOMAIN chains' = DOMAIN chains /\ \A x \in DOMAIN chains \ {c} : chains'[x] = chains[x]
        /\ chains'[c] = SubSeq(chains[c], n + 1, len)
    BY <2>1, <2>3
  <2> HIDE DEF c
  <2>5. /\ chains'[c] # <<>> /\ chains[c] # <<>>
        /\ chains'[c][Len(chains'[c])] = chains[c][Len(chains[c])]
    <3>1. Len(chains'[c]) = len - n /\ chains'[c][len - n] = chains[c][len]
      BY <2>1, <2>2, <2>4
    <3> QED BY <2>1, <2>2, <3>1
  <2>6. CASE s = c
    BY <2>1, <2>4, <2>5, <2>6 DEF HasBlocks, ChainHead
  <2>7. CASE s # c
    BY <2>4, <2>7 DEF HasBlocks, ChainHead
  <2> QED BY <2>6, <2>7
<1>4. UNCHANGED chains \/ \E m \in Miners : PruneChain(m) \/ DiscardBlock(m)
  BY DEF Next, Submit, Manage, MinerStep, MineShardBlock, ReadHead, NoProposer, TakeTransactions,
         NoTransactions, Apply, FinalizeFailed, FinalizeReached, NothingToPrune,
         UpdateChainHeight, vars, bcVars, chainVars
<1> QED BY <1>1, <1>2, <1>3, <1>4

\* How a step moves a miner through MineShardBlock, and whose height it reports.
LEMMA MinerMoves ==
  ASSUME LinkInv, [Next]_vars, NEW n \in Miners
  PROVE  /\ mpc'[n] \in Building =>
              \/ ReadHead(n)
              \/ /\ mpc[n] \in Building /\ mshard'[n] = mshard[n]
                 /\ mprev'[n] = mprev[n] /\ mheight'[n] = mheight[n]
         /\ mpc'[n] \in Appended =>
              /\ AppendBlock(n) \/ mpc[n] \in Appended
              /\ mshard'[n] = mshard[n] /\ mheight'[n] = mheight[n]
         /\ mpc[n] \in Appended =>
              \/ UpdateChainHeight(n)
              \/ mpc'[n] \in Appended /\ mshard'[n] = mshard[n] /\ mheight'[n] = mheight[n]
<1>1. /\ mpc \in [Miners -> MinerSteps] /\ mshard \in [Miners -> Ids]
      /\ mprev \in [Miners -> Hashes \cup {NoHash}] /\ mheight \in [Miners -> Nat]
  BY DEF LinkInv, TypeOK
<1>2. CASE UNCHANGED <<mpc, mshard, mprev, mheight>>
  BY <1>2
<1>3. ASSUME NEW m \in Miners, MinerStep(m), m # n
      PROVE  mpc'[n] = mpc[n] /\ mshard'[n] = mshard[n] /\ mprev'[n] = mprev[n] /\ mheight'[n] = mheight[n]
  BY <1>1, <1>3 DEF MinerStep, MineShardBlock, ReadHead, NoProposer, TakeTransactions,
     NoTransactions, Apply, FinalizeFailed, FinalizeReached, AppendBlock, DiscardBlock,
     PruneChain, NothingToPrune, UpdateChainHeight, Goto, Return
<1>4. CASE AppendBlock(n) \/ PruneChain(n) \/ NothingToPrune(n)
  BY <1>1, <1>4 DEF AppendBlock, PruneChain, NothingToPrune, Goto, Building, Appended
<1>5. CASE Return(n)
  <2>1. mpc'[n] = "idle"
    BY <1>1, <1>5 DEF Return
  <2>2. mpc[n] \in Appended => UpdateChainHeight(n) \/ mpc'[n] # "idle"
    BY <1>1, <1>3, <1>4, <2>1 DEF Next, Submit, Manage, MinerStep, MineShardBlock, ReadHead, NoProposer,
       TakeTransactions, NoTransactions, Apply, FinalizeFailed, FinalizeReached, DiscardBlock, Goto,
       Appended, vars, bcVars, minerVars
  <2> QED BY <2>1, <2>2 DEF Building, Appended
<1>6. CASE TakeTransactions(n) \/ Apply(n) \/ FinalizeReached(n)
  BY <1>1, <1>6 DEF TakeTransactions, Apply, FinalizeReached, Goto, Building, Appended
<1>7. CASE ReadHead(n) \/ \E s \in Ids : MineShardBlock(n, s)
  BY <1>1, <1>7 DEF ReadHead, MineShardBlock, Goto, Building, Appended
<1>8. \/ UNCHANGED <<mpc, mshard, mprev, mheight>>
      \/ \E m \in Miners \ {n} : MinerStep(m)
      \/ MinerStep(n)
  BY DEF Next, Submit, Manage, vars, bcVars, minerVars
<1>9. MinerStep(n) => \/ AppendBlock(n) \/ PruneChain(n) \/ NothingToPrune(n) \/ Return(n)
                      \/ TakeTransactions(n) \/ Apply(n) \/ FinalizeReached(n)
                      \/ ReadHead(n) \/ \E s \in Ids : MineShardBlock(n, s)
  BY DEF MinerStep, NoProposer, NoTransactions, FinalizeFailed, DiscardBlock, UpdateChainHeight
<1> QED BY <1>2, <1>3, <1>4, <1>5, <1>6, <1>7, <1>8, <1>9

\* Every step of the composition keeps the facts about heads and heights.
LEMMA HeadStepInv == LinkInv /\ HeadInv /\ [Next]_vars => HeadInv'
<1> SUFFICES ASSUME LinkInv, HeadInv, [Next]_vars PROVE HeadInv'
  OBVIOUS
<1>1. /\ mheight \in [Miners -> Nat] /\ chainHeight \in Nat /\ mshard \in [Miners -> Ids]
      /\ mpc \in [Miners -> MinerSteps] /\ mprev \in [Miners -> Hashes \cup {NoHash}]
      /\ \A s : HasBlocks(s) => ChainHead(s).height \in Nat
  BY HeadIsBlock DEF LinkInv, TypeOK
<1>2. CASE \A m \in Miners : ~AppendBlock(m)
  <2>1. \A s : HasBlocks(s)' = HasBlocks(s) /\ (HasBlocks(s) => ChainHead(s)' = ChainHead(s))
    BY <1>2, OtherStepsKeepHeads
  <2>2. GenesisShardsHaveBlocks'
    BY <2>1 DEF HeadInv, GenesisShardsHaveBlocks
  <2>3. BuildsOnHeadOrBeaten'
    <3> SUFFICES ASSUME NEW n \in Miners, mpc'[n] \in Building, HasBlocks(mshard[n])'
                 PROVE  \/ (ChainHead(mshard[n]).height >= mheight[n])'
                        \/ (ChainHead(mshard[n]).height + 1 = mheight[n] /\ ChainHead(mshard[n]).hash = mprev[n])'
      BY DEF BuildsOnHeadOrBeaten, Building
    <3> DEFINE s == mshard'[n]
    <3>1. HasBlocks(s) /\ chains'[s][Len(chains'[s])] = ChainHead(s)
      BY <2>1 DEF HasBlocks, ChainHead
    <3>2. CASE ReadHead(n)
      <4>1. s = mshard[n] /\ mheight'[n] = ChainHead(s).height + 1 /\ mprev'[n] = ChainHead(s).hash
        BY <1>1, <3>1, <3>2 DEF ReadHead
      <4> QED BY <3>1, <4>1 DEF ChainHead
    <3>3. CASE ~ReadHead(n)
      <4>1. mpc[n] \in Building /\ s = mshard[n] /\ mprev'[n] = mprev[n] /\ mheight'[n] = mheight[n]
        BY <3>3, MinerMoves
      <4> QED BY <3>1, <4>1 DEF HeadInv, BuildsOnHeadOrBeaten, ChainHead
    <3> QED BY <3>2, <3>3
  <2>4. AppendedNotAboveHead'
    <3> SUFFICES ASSUME NEW n \in Miners, mpc'[n] \in Appended
                 PROVE  HasBlocks(mshard[n])' /\ (ChainHead(mshard[n]).height >= mheight[n])'
      BY DEF AppendedNotAboveHead, Appended
    <3>1. mpc[n] \in Appended /\ mshard'[n] = mshard[n] /\ mheight'[n] = mheight[n]
      BY <1>2, MinerMoves
    <3>2. HasBlocks(mshard[n]) /\ ChainHead(mshard[n]).height >= mheight[n]
      BY <3>1 DEF HeadInv, AppendedNotAboveHead
    <3> QED BY <2>1, <3>1, <3>2 DEF HasBlocks, ChainHead
  <2>5. \A m \in Miners : UpdateChainHeight(m) => chainHeight' >= mheight[m] /\ chainHeight' >= chainHeight
    BY <1>1 DEF UpdateChainHeight
  <2>6. \/ chainHeight' = chainHeight
        \/ \E m \in Miners : UpdateChainHeight(m) /\ mpc[m] \in Appended /\ chainHeight' = mheight[m]
    BY DEF Next, Submit, Manage, MinerStep, MineShardBlock, ReadHead, NoProposer, TakeTransactions,
       NoTransactions, Apply, FinalizeFailed, FinalizeReached, AppendBlock, DiscardBlock, PruneChain,
       NothingToPrune, UpdateChainHeight, Appended, vars, bcVars, chainVars
  <2>7. HeadsReported'
    <3> SUFFICES ASSUME NEW s, HasBlocks(s), ~(ChainHead(s).height <= chainHeight')
                 PROVE  \E m \in Miners : /\ mpc'[m] \in Appended /\ mshard'[m] = s
                                          /\ mheight'[m] >= ChainHead(s).height
      BY <2>1 DEF HeadsReported, Appended
    <3>1. PICK m \in Miners : mpc[m] \in Appended /\ mshard[m] = s /\ mheight[m] >= ChainHead(s).height
      <4>1. s \in DOMAIN chains /\ chainHeight' \in Nat /\ chainHeight' >= chainHeight
        BY <1>1, <2>5, <2>6 DEF HasBlocks
      <4> QED BY <1>1, <4>1 DEF HeadInv, HeadsReported
    <3>2. ~UpdateChainHeight(m)
      BY <1>1, <2>5, <2>6, <3>1
    <3> QED BY <3>1, <3>2, MinerMoves
  <2>8. HeightReached'
    <3>1. \E s : HasBlocks(s) /\ ChainHead(s).height >= chainHeight'
      BY <2>6 DEF HeadInv, HeightReached, AppendedNotAboveHead
    <3>2. PICK s : HasBlocks(s) /\ ChainHead(s).height >= chainHeight'
      BY <3>1
    <3>3. HasBlocks(s)' /\ ChainHead(s)' = ChainHead(s)
      BY <2>1, <3>2
    <3> QED BY <3>2, <3>3 DEF HeightReached, HasBlocks
  <2> QED BY <2>2, <2>3, <2>4, <2>7, <2>8 DEF HeadInv
<1>3. ASSUME NEW m \in Miners, AppendBlock(m) PROVE HeadInv'
  <2> DEFINE c == mshard[m]
  <2>1. /\ HasBlocks(c) /\ mheight[m] = ChainHead(c).height + 1 /\ ChainHead(c).height \in Nat
        /\ \A s : HasBlocks(s)' = HasBlocks(s)
        /\ \A s : HasBlocks(s) => ChainHead(s)' = IF s = c THEN NewBlock(m) ELSE ChainHead(s)
    <3>1. c' = c
      BY <1>3 DEF AppendBlock
    <3> QED BY <1>1, <1>3, <3>1, AppendMovesHead DEF HasBlocks, ChainHead
  <2>2. NewBlock(m).height = mheight[m]
    BY DEF NewBlock
  <2>3. /\ mpc[m] = "append" /\ mpc' = [mpc EXCEPT ![m] = "prune"]
        /\ UNCHANGED <<mshard, mprev, mheight, chainHeight>>
    BY <1>3 DEF AppendBlock, Goto
  <2> HIDE DEF c
  <2>4. GenesisShardsHaveBlocks'
    BY <2>1 DEF HeadInv, GenesisShardsHaveBlocks
  <2>5. BuildsOnHeadOrBeaten'
    <3> SUFFICES ASSUME NEW n \in Miners, mpc'[n] \in Building, HasBlocks(mshard[n])
                 PROVE  \/ (ChainHead(mshard[n]).height >= mheight[n])'
                        \/ (ChainHead(mshard[n]).height + 1 = mheight[n] /\ ChainHead(mshard[n]).hash = mprev[n])'
      BY <2>1, <2>3 DEF BuildsOnHeadOrBeaten, Building, HasBlocks
    <3>1. mpc[n] \in Building
      BY <1>1, <2>3 DEF Building
    <3>2. \/ ChainHead(mshard[n]).height >= mheight[n]
          \/ ChainHead(mshard[n]).height + 1 = mheight[n] /\ ChainHead(mshard[n]).hash = mprev[n]
      BY <3>1 DEF HeadInv, BuildsOnHeadOrBeaten
    <3>3. CASE mshard[n] = c
      <4>1. mheight[m] >= mheight[n]
        BY <1>1, <2>1, <3>2, <3>3
      <4> QED BY <2>1, <2>2, <2>3, <3>3, <4>1 DEF ChainHead
    <3>4. CASE mshard[n] # c
      BY <2>1, <2>3, <3>2, <3>4 DEF ChainHead
    <3> QED BY <3>3, <3>4
  <2>6. AppendedNotAboveHead'
    <3> SUFFICES ASSUME NEW n \in Miners, mpc'[n] \in Appended
                 PROVE  HasBlocks(mshard[n])' /\ (ChainHead(mshard[n]).height >= mheight[n])'
      BY DEF AppendedNotAboveHead, Appended
    <3>1. CASE n = m
      BY <1>1, <2>1, <2>2, <2>3, <3>1 DEF c, ChainHead, HasBlocks
    <3>2. CASE n # m
      <4>1. HasBlocks(mshard[n]) /\ ChainHead(mshard[n]).height >= mheight[n]
        BY <1>1, <2>3, <3>2 DEF HeadInv, AppendedNotAboveHead
      <4>2. mshard[n] = c => NewBlock(m).height >= mheight[n]
        BY <1>1, <2>1, <2>2, <4>1
      <4> QED BY <2>1, <2>3, <4>1, <4>2 DEF ChainHead, HasBlocks
    <3> QED BY <3>1, <3>2
  <2>7. HeadsReported'
    <3> SUFFICES ASSUME NEW s, HasBlocks(s)
                 PROVE  \/ ChainHead(s)'.height <= chainHeight
                        \/ \E n \in Miners : /\ mpc'[n] \in Appended /\ mshard[n] = s
                                             /\ mheight[n] >= ChainHead(s)'.height
      BY <2>1, <2>3 DEF HeadsReported, Appended
    <3>1. CASE s = c
      <4>1. mpc'[m] \in Appended /\ mshard[m] = s /\ mheight[m] >= ChainHead(s)'.height
        BY <1>1, <2>1, <2>2, <2>3, <3>1 DEF c, Appended
      <4> QED BY <4>1
    <3>2. CASE s # c
      <4>1. \A n \in Miners : mpc[n] \in Appended => mpc'[n] \in Appended
        BY <1>1, <2>3 DEF Appended
      <4>2. s \in DOMAIN chains /\ ChainHead(s)' = ChainHead(s)
        BY <2>1, <3>2 DEF HasBlocks
      <4> QED BY <4>1, <4>2 DEF HeadInv, HeadsReported
    <3> QED BY <3>1, <3>2
  <2>8. HeightReached'
    <3>1. PICK s \in DOMAIN chains : HasBlocks(s) /\ ChainHead(s).height >= chainHeight
      BY DEF HeadInv, HeightReached
    <3>2. HasBlocks(s)' /\ ChainHead(s)'.height >= chainHeight'
      BY <1>1, <2>1, <2>2, <2>3, <3>1
    <3> QED BY <3>2 DEF HeightReached, HasBlocks
  <2> QED BY <2>4, <2>5, <2>6, <2>7, <2>8 DEF HeadInv
<1> QED BY <1>2, <1>3

\* The genesis blocks are at height 0 and so is bc.ChainHeight.
LEMMA HeadInitInv == Init => HeadInv
<1> SUFFICES ASSUME Init PROVE HeadInv
  OBVIOUS
<1>1. \A s \in DOMAIN chains : s \in GenesisShards /\ HasBlocks(s) /\ ChainHead(s).height = 0
  BY DEF Init, HasBlocks, ChainHead, GenesisBlock
<1>2. GenesisShards = DOMAIN chains /\ chainHeight = 0 /\ 0 \in DOMAIN chains
  BY DEF Init, GenesisShards
<1>3. \A m \in Miners : mpc[m] = "idle"
  BY DEF Init
<1>4. GenesisShardsHaveBlocks /\ HeadsReported /\ HeightReached
  BY <1>1, <1>2 DEF GenesisShardsHaveBlocks, HeadsReported, HeightReached
<1>5. BuildsOnHeadOrBeaten /\ AppendedNotAboveHead
  BY <1>3 DEF BuildsOnHeadOrBeaten, AppendedNotAboveHead, Building, Appended
<1> QED BY <1>4, <1>5 DEF HeadInv

\* The facts about heads hold in every reachable state.
LEMMA HeadInvariant == Spec => []HeadInv
<1> QED BY HeadInitInv, HeadStepInv, LinkInvariant, PTL DEF Spec

\* bc.ChainHeight is exact up to the miners still on their way to update it, in
\* whatever order they arrive.
THEOREM ChainHeightIsTracked == Spec => []ChainHeightTracks
<1>1. HeadInv => ChainHeightTracks
  BY DEF HeadInv, HeadsReported, HeightReached, Appended, ChainHeightTracks
<1> QED BY <1>1, HeadInvariant, PTL

\* MineShardBlock throws an agreed block away only if another block took its height,
\* or on a shard that came out of a split and has no genesis block.
THEOREM DiscardsAreJustified == Spec => []DiscardedOnlyIfBeaten
<1>1. LinkInv /\ HeadInv => DiscardedOnlyIfBeaten
  <2> SUFFICES ASSUME LinkInv, HeadInv, NEW m \in Miners, mpc[m] = "append", ~LinksToHead(m)
               PROVE  IF HasBlocks(mshard[m]) THEN ChainHead(mshard[m]).height >= mheight[m]
                      ELSE mshard[m] \notin DOMAIN GenesisHash
    BY DEF DiscardedOnlyIfBeaten
  <2>1. CASE HasBlocks(mshard[m])
    <3>1. ChainHead(mshard[m]).height \in Nat /\ mheight[m] \in Nat
      BY <2>1, HeadIsBlock DEF LinkInv, TypeOK
    <3>2. \/ ChainHead(mshard[m]).height >= mheight[m]
          \/ ChainHead(mshard[m]).height + 1 = mheight[m] /\ ChainHead(mshard[m]).hash = mprev[m]
      BY <2>1 DEF HeadInv, BuildsOnHeadOrBeaten, Building
    <3>3. ~(ChainHead(mshard[m]).height + 1 = mheight[m] /\ ChainHead(mshard[m]).hash = mprev[m])
      BY <2>1, <3>1 DEF LinksToHead
    <3> QED BY <2>1, <3>2, <3>3
  <2>2. CASE ~HasBlocks(mshard[m])
    BY <2>2, ChainAssumption DEF HeadInv, GenesisShardsHaveBlocks
  <2> QED BY <2>1, <2>2
<1> QED BY <1>1, HeadInvariant, LinkInvariant, PTL
-----------------------------------------------------------------------------
(***************************************************************************)
(* What blocks wrote.  A write is applied under shard.mu long before its   *)
(* block is appended, and the shard may leave the map in between; so the   *)
(* claims about blocks are carried by claims about miners on their way to  *)
(* the append.                                                             *)
(***************************************************************************)

Writes(txs) == {KeyOf[t] : t \in Range(txs)}

\* Where a write to shard s must be found: in the map, or in s if s left it.
Where(s) == LiveKeys \cup (IF s \in shards THEN {} ELSE DOMAIN state[s])

Written == {"finalize", "append"}

\* A chain of a shard that is still to be created is a genesis block of main.go.
UncreatedIsGenesis ==
  \A s \in DOMAIN chains : s \notin Created => chains[s] = <<GenesisBlock(s)>>

BlockWritesSurvive ==
  \A s \in DOMAIN chains : \A i \in DOMAIN chains[s] : Writes(chains[s][i].txs) \subseteq Where(s)

MinerWritesSurvive ==
  \A m \in Miners : mpc[m] \in Written => Writes(mtxs[m]) \subseteq Where(mshard[m])

WriteInv == UncreatedIsGenesis /\ BlockWritesSurvive /\ MinerWritesSurvive

\* What is to be found for a created shard only becomes more: merges move keys to
\* a shard of the map, and a shard outside it is never emptied.
LEMMA WhereGrows ==
  ASSUME SMInv, [SMNext]_smVars, NEW s \in Created
  PROVE  Where(s) \subseteq Where(s)'
<1>1. LiveKeys \subseteq LiveKeys'
  BY KeysStep
<1>2. CASE s \in shards
  BY <1>1, <1>2 DEF Where
<1>3. CASE s \notin shards
  <2>1. s \notin shards' /\ DOMAIN state[s] \subseteq DOMAIN state'[s]
    BY <1>3, StateGrows
  <2> QED BY <1>1, <1>3, <2>1 DEF Where
<1> QED BY <1>2, <1>3

\* ApplyStateChanges leaves what it found and what it wrote.
LEMMA AppliedHolds ==
  ASSUME SMInv, NEW s \in Ids, NEW txs \in TxSeqs, ApplyStateChanges(s, txs)
  PROVE  DOMAIN state'[s] = DOMAIN state[s] \cup Writes(txs) /\ shards' = shards
<1>1. PICK f \in Applied(state[s], txs) : state' = [state EXCEPT ![s] = f]
  BY DEF ApplyStateChanges
<1>2. DOMAIN f = DOMAIN state[s] \cup Writes(txs)
  BY <1>1 DEF Applied, Writes
<1>3. state'[s] = f /\ shards' = shards
  BY <1>1 DEF SMInv, SMTypeOK, ApplyStateChanges, setVars
<1> QED BY <1>2, <1>3

\* A miner on its way from its writes to its append has just applied them, or
\* goes on with the locals it had.
LEMMA WriterMoves ==
  ASSUME LinkInv, [Next]_vars, NEW n \in Miners, mpc'[n] \in Written
  PROVE  \/ Apply(n)
         \/ /\ mpc[n] \in Written /\ mshard'[n] = mshard[n] /\ mtxs'[n] = mtxs[n]
            /\ mroot'[n] = mroot[n] /\ mprev'[n] = mprev[n]
<1>1. /\ mpc \in [Miners -> MinerSteps] /\ mshard \in [Miners -> Ids] /\ mtxs \in [Miners -> Seq(Tx)]
      /\ mroot \in [Miners -> StateDB] /\ mprev \in [Miners -> Hashes \cup {NoHash}]
  BY DEF LinkInv, TypeOK
<1>2. CASE UNCHANGED bcVars
  BY <1>2 DEF bcVars, minerVars
<1>3. ASSUME NEW m \in Miners, MinerStep(m), m # n
      PROVE  /\ mpc'[n] = mpc[n] /\ mshard'[n] = mshard[n] /\ mtxs'[n] = mtxs[n]
             /\ mroot'[n] = mroot[n] /\ mprev'[n] = mprev[n]
  BY <1>1, <1>3 DEF MinerStep, MineShardBlock, ReadHead, NoProposer, TakeTransactions,
     NoTransactions, Apply, FinalizeFailed, FinalizeReached, AppendBlock, DiscardBlock,
     PruneChain, NothingToPrune, UpdateChainHeight, Goto, Return
<1>4. CASE MinerStep(n)
  <2>1. CASE FinalizeReached(n)
    BY <1>1, <2>1 DEF FinalizeReached, Goto, Written
  <2>2. CASE ~FinalizeReached(n) /\ ~Apply(n)
    <3>1. mpc'[n] \notin Written
      BY <1>1, <1>4, <2>2 DEF MinerStep, MineShardBlock, ReadHead, NoProposer, TakeTransactions,
         NoTransactions, FinalizeFailed, AppendBlock, DiscardBlock, PruneChain, NothingToPrune,
         UpdateChainHeight, Goto, Return, Written
    <3> QED BY <3>1
  <2> QED BY <2>1, <2>2
<1> QED BY <1>2, <1>3, <1>4 DEF Next, Submit, Manage, vars

\* A block of a chain was in that chain before, or was just appended.
LEMMA BlocksComeFrom ==
  ASSUME LinkInv, [Next]_vars, NEW s \in DOMAIN chains', NEW i \in DOMAIN chains'[s]
  PROVE  \/ s \in DOMAIN chains /\ \E j \in DOMAIN chains[s] : chains'[s][i] = chains[s][j]
         \/ \E m \in Miners : AppendBlock(m) /\ s = mshard[m] /\ chains'[s][i] = NewBlock(m)
<1>1. chains \in [DOMAIN chains -> Seq(Block)]
  BY DEF LinkInv, TypeOK
<1>2. CASE UNCHANGED chains
  BY <1>2
<1>3. ASSUME NEW m \in Miners, AppendBlock(m)
      PROVE  \/ s \in DOMAIN chains /\ \E j \in DOMAIN chains[s] : chains'[s][i] = chains[s][j]
             \/ s = mshard[m] /\ chains'[s][i] = NewBlock(m)
  <2> DEFINE c == mshard[m]
             b == NewBlock(m)
  <2>1. c \in DOMAIN chains /\ chains[c] \in Seq(Block) /\ chains' = [chains EXCEPT ![c] = Append(chains[c], b)]
    BY <1>1, <1>3 DEF AppendBlock, LinksToHead, HasBlocks
  <2> HIDE DEF b, c
  <2>2. CASE s # c
    BY <1>1, <2>1, <2>2
  <2>3. CASE s = c
    <3>1. chains'[s] = Append(chains[s], b) /\ chains[s] \in Seq(Block) /\ s \in DOMAIN chains
      BY <1>1, <2>1, <2>3
    <3>2. (i \in DOMAIN chains[s] /\ chains'[s][i] = chains[s][i]) \/ chains'[s][i] = b
      BY <3>1
    <3> QED BY <2>3, <3>1, <3>2 DEF b, c
  <2> QED BY <2>2, <2>3
<1>4. ASSUME NEW m \in Miners, PruneChain(m)
      PROVE  s \in DOMAIN chains /\ \E j \in DOMAIN chains[s] : chains'[s][i] = chains[s][j]
  <2> DEFINE c == mshard[m]
             len == Len(chains[c])
             n == len - PruneKeepBlocks
  <2>1. c \in DOMAIN chains /\ chains[c] \in Seq(Block) /\ len \in Nat
    BY <1>1, <1>4 DEF LinkInv, MinersInBounds, PruneChain, Goto
  <2>2. n \in 1 .. len
    BY <1>4, <2>1, ChainAssumption DEF PruneChain
  <2>3. chains' = [chains EXCEPT ![c] = SubSeq(chains[c], n + 1, len)]
    BY <1>4 DEF PruneChain
  <2> HIDE DEF n, c
  <2>4. CASE s # c
    BY <1>1, <2>3, <2>4
  <2>5. CASE s = c
    <3>1. s \in DOMAIN chains /\ i + n \in DOMAIN chains[s] /\ chains'[s][i] = chains[s][i + n]
      BY <1>1, <2>1, <2>2, <2>3, <2>5
    <3> QED BY <3>1
  <2> QED BY <2>4, <2>5
<1>5. ASSUME NEW m \in Miners, DiscardBlock(m)
      PROVE  s \in DOMAIN chains /\ \E j \in DOMAIN chains[s] : chains'[s][i] = chains[s][j]
  <2>1. (s \in DOMAIN chains /\ chains'[s] = chains[s]) \/ chains'[s] = <<>>
    BY <1>5 DEF DiscardBlock
  <2> QED BY <2>1
<1>6. UNCHANGED chains \/ \E m \in Miners : AppendBlock(m) \/ PruneChain(m) \/ DiscardBlock(m)
  BY DEF Next, Submit, Manage, MinerStep, MineShardBlock, ReadHead, NoProposer, TakeTransactions,
         NoTransactions, Apply, FinalizeFailed, FinalizeReached, NothingToPrune,
         UpdateChainHeight, vars, bcVars, chainVars
<1> QED BY <1>2, <1>3, <1>4, <1>5, <1>6

\* Only miners change chains, and a miner works on a created shard.
LEMMA UncreatedStep ==
  ASSUME LinkInv, UncreatedIsGenesis, [Next]_vars
  PROVE  UncreatedIsGenesis'
<1> SUFFICES ASSUME NEW s \in DOMAIN chains', s \notin Created'
             PROVE  chains'[s] = <<GenesisBlock(s)>>
  BY DEF UncreatedIsGenesis, GenesisBlock, EmptyDB
<1>1. s \notin Created
  BY SMFrame, CreatedGrows DEF LinkInv
<1>2. \A m \in Miners : mshard[m] # s
  BY <1>1 DEF LinkInv, MinersInBounds
<1>3. s \in DOMAIN chains /\ chains'[s] = chains[s]
  <2>1. chains \in [DOMAIN chains -> Seq(Block)]
    BY DEF LinkInv, TypeOK
  <2> QED BY <1>2, <2>1 DEF Next, Submit, Manage, MinerStep, MineShardBlock, ReadHead, NoProposer,
       TakeTransactions, NoTransactions, Apply, FinalizeFailed, FinalizeReached, AppendBlock,
       DiscardBlock, PruneChain, NothingToPrune, UpdateChainHeight, LinksToHead, HasBlocks,
       vars, bcVars, chainVars
<1> QED BY <1>1, <1>3 DEF UncreatedIsGenesis

\* Every step of the composition keeps the writes of blocks and of miners.
LEMMA WriteStepInv == LinkInv /\ WriteInv /\ [Next]_vars => WriteInv'
<1> SUFFICES ASSUME LinkInv, WriteInv, [Next]_vars PROVE WriteInv'
  OBVIOUS
<1>1. /\ SMInv /\ [SMNext]_smVars
      /\ \A m \in Miners : mshard[m] \in Created /\ mtxs[m] \in TxSeqs
      /\ mtxs \in [Miners -> Seq(Tx)] /\ mshard \in [Miners -> Ids]
  BY SMFrame DEF LinkInv, MinersInBounds, TypeOK
<1>2. UncreatedIsGenesis'
  BY UncreatedStep DEF WriteInv
<1>3. \A s \in Created : Where(s) \subseteq Where(s)'
  BY <1>1, WhereGrows
<1>4. ASSUME NEW s \in DOMAIN chains', NEW i \in DOMAIN chains'[s]
      PROVE  Writes(chains'[s][i].txs) \subseteq Where(s)'
  <2>1. ASSUME s \in DOMAIN chains, NEW j \in DOMAIN chains[s], chains'[s][i] = chains[s][j]
        PROVE  Writes(chains'[s][i].txs) \subseteq Where(s)'
    <3>1. CASE s \in Created
      BY <1>3, <2>1, <3>1 DEF WriteInv, BlockWritesSurvive
    <3>2. CASE s \notin Created
      <4>1. chains[s][j].txs = <<>>
        BY <2>1, <3>2 DEF WriteInv, UncreatedIsGenesis, GenesisBlock
      <4> QED BY <2>1, <4>1 DEF Writes, Range
    <3> QED BY <3>1, <3>2
  <2>2. ASSUME NEW m \in Miners, AppendBlock(m), s = mshard[m], chains'[s][i] = NewBlock(m)
        PROVE  Writes(chains'[s][i].txs) \subseteq Where(s)'
    <3>1. mpc[m] \in Written /\ NewBlock(m).txs = mtxs[m] /\ s \in Created
      BY <1>1, <2>2 DEF AppendBlock, Goto, Written, NewBlock
    <3> QED BY <1>3, <2>2, <3>1 DEF WriteInv, MinerWritesSurvive
  <2> QED BY <1>4, <2>1, <2>2, BlocksComeFrom
<1>5. BlockWritesSurvive'
  BY <1>4 DEF BlockWritesSurvive
<1>6. ASSUME NEW n \in Miners, mpc'[n] \in Written
      PROVE  \E s \in Created : s = mshard'[n] /\ Writes(mtxs'[n]) \subseteq Where(s)'
  <2>1. CASE Apply(n)
    <3> DEFINE s == mshard[n]
    <3>1. s \in Ids /\ s \in Created /\ ApplyStateChanges(s, mtxs[n]) /\ mshard' = mshard /\ mtxs' = mtxs
      BY <1>1, <2>1 DEF Apply
    <3>2. PICK c \in Created : c = s
      BY <3>1
    <3>3. DOMAIN state'[c] = DOMAIN state[c] \cup Writes(mtxs[n]) /\ shards' = shards /\ c \in Ids
      BY <1>1, <3>1, <3>2, AppliedHolds
    <3>4. DOMAIN state'[c] \subseteq Where(c)'
      BY <3>3 DEF Where, LiveKeys
    <3> QED BY <3>1, <3>2, <3>3, <3>4
  <2>2. CASE ~Apply(n)
    <3>1. mpc[n] \in Written /\ mshard'[n] = mshard[n] /\ mtxs'[n] = mtxs[n]
      BY <1>6, <2>2, WriterMoves
    <3>2. PICK s \in Created : s = mshard[n]
      BY <1>1
    <3> QED BY <1>3, <3>1, <3>2 DEF WriteInv, MinerWritesSurvive
  <2> QED BY <2>1, <2>2
<1>7. MinerWritesSurvive'
  <2> SUFFICES ASSUME NEW n \in Miners, mpc'[n] \in Written
               PROVE  Writes(mtxs'[n]) \subseteq Where(mshard[n])'
    BY DEF MinerWritesSurvive, Written
  <2>1. PICK s \in Created : s = mshard'[n] /\ Writes(mtxs'[n]) \subseteq Where(s)'
    BY <1>6
  <2> QED BY <2>1 DEF Where
<1> QED BY <1>2, <1>5, <1>7 DEF WriteInv

\* Nothing was written before the genesis blocks.
LEMMA WriteInitInv == Init => WriteInv
<1> SUFFICES ASSUME Init PROVE WriteInv
  OBVIOUS
<1>1. \A s \in DOMAIN chains : chains[s] = <<GenesisBlock(s)>> /\ GenesisBlock(s).txs = <<>>
  BY DEF Init, GenesisBlock
<1>2. Writes(<<>>) = {}
  BY DEF Writes, Range
<1>3. UncreatedIsGenesis /\ BlockWritesSurvive
  BY <1>1, <1>2 DEF UncreatedIsGenesis, BlockWritesSurvive
<1>4. MinerWritesSurvive
  BY DEF Init, MinerWritesSurvive, Written
<1> QED BY <1>3, <1>4 DEF WriteInv

\* Every reachable state keeps them.
LEMMA WriteInvariant == Spec => []WriteInv
<1> QED BY WriteInitInv, WriteStepInv, LinkInvariant, PTL DEF Spec

\* No split, merge or race drops a write of a block: it is in a shard of the map, or
\* in the block's own shard if that left the map under its miner.
THEOREM FinalizedWritesAreKept == Spec => []FinalizedWritesSurvive
<1>1. WriteInv => FinalizedWritesSurvive
  BY DEF WriteInv, BlockWritesSurvive, Where, Writes, FinalizedWritesSurvive, BlockKeys
<1> QED BY <1>1, WriteInvariant, PTL

-----------------------------------------------------------------------------
(***************************************************************************)
(* State roots.  The root of a block is computed from the state its miner  *)
(* applied its batch to; that this state holds what the head's root stands *)
(* for is true when the batch is applied and stays true as long as the     *)
(* head does, which is what the check of parent linkage asks for.          *)
(***************************************************************************)

LiveHeadsStored ==
  \A s \in shards : HasBlocks(s) => DOMAIN ChainHead(s).root \subseteq DOMAIN state[s]

PendingRootsHoldWrites ==
  \A m \in Miners : mpc[m] \in Written => Writes(mtxs[m]) \subseteq DOMAIN mroot[m]

PendingRootsGrow ==
  \A m \in Miners : mpc[m] \in Written /\ mshard[m] \in shards =>
    /\ DOMAIN mroot[m] \subseteq DOMAIN state[mshard[m]]
    /\ HasBlocks(mshard[m]) /\ ChainHead(mshard[m]).hash = mprev[m] =>
         DOMAIN ChainHead(mshard[m]).root \subseteq DOMAIN mroot[m]

RootInv ==
  /\ UncreatedIsGenesis /\ LiveHeadsStored /\ PendingRootsHoldWrites /\ PendingRootsGrow
  /\ StateRootsGrow

\* The head of a shard of the map stands for a state the shard still holds.
LEMMA LiveHeadsStep ==
  ASSUME LinkInv, RootInv, [Next]_vars
  PROVE  LiveHeadsStored'
<1> SUFFICES ASSUME NEW s \in shards', HasBlocks(s)'
             PROVE  DOMAIN ChainHead(s)'.root \subseteq DOMAIN state'[s]
  BY DEF LiveHeadsStored
<1>1. SMInv /\ [SMNext]_smVars /\ shards \subseteq Created
  BY SMFrame DEF LinkInv, SMInv
<1>2. CASE s \notin Created
  <2>1. \A m \in Miners : ~(AppendBlock(m) /\ mshard[m] = s)
    BY <1>2 DEF LinkInv, MinersInBounds
  <2>2. HasBlocks(s) /\ ChainHead(s)' = ChainHead(s)
    BY <2>1, AppendMovesHead, OtherStepsKeepHeads
  <2>3. ChainHead(s).root = EmptyDB
    BY <1>2, <2>2 DEF RootInv, UncreatedIsGenesis, GenesisBlock, HasBlocks, ChainHead
  <2> QED BY <2>2, <2>3, StateDBDomain
<1>3. CASE s \in Created
  <2>1. s \in shards /\ DOMAIN state[s] \subseteq DOMAIN state'[s]
    BY <1>1, <1>3, StateGrows
  <2>2. ASSUME NEW m \in Miners, AppendBlock(m), mshard[m] = s
        PROVE  DOMAIN ChainHead(s)'.root \subseteq DOMAIN state'[s]
    <3>1. ChainHead(s)' = NewBlock(m) /\ NewBlock(m).root = mroot[m] /\ mpc[m] \in Written
      <4>1. mshard' = mshard
        BY <2>2 DEF AppendBlock
      <4> QED BY <2>2, <4>1, AppendMovesHead DEF NewBlock, AppendBlock, Goto, Written, ChainHead
    <3> QED BY <2>1, <2>2, <3>1 DEF RootInv, PendingRootsGrow
  <2>3. CASE \A m \in Miners : ~(AppendBlock(m) /\ mshard[m] = s)
    <3>1. HasBlocks(s) /\ ChainHead(s)' = ChainHead(s)
      BY <2>3, AppendMovesHead, OtherStepsKeepHeads
    <3> QED BY <2>1, <3>1 DEF RootInv, LiveHeadsStored
  <2> QED BY <2>2, <2>3
<1> QED BY <1>2, <1>3

\* The root a miner carries to its append holds its writes, is stored in its shard and
\* covers the head it builds on, if that is still the head.
LEMMA PendingRootsStep ==
  ASSUME LinkInv, RootInv, [Next]_vars
  PROVE  PendingRootsHoldWrites' /\ PendingRootsGrow'
<1>1. /\ SMInv /\ [SMNext]_smVars /\ shards \subseteq Created /\ mpc \in [Miners -> MinerSteps]
      /\ \A m \in Miners : mshard[m] \in Created /\ mshard[m] \in Ids /\ mtxs[m] \in TxSeqs
      /\ mroot \in [Miners -> StateDB]
  BY SMFrame DEF LinkInv, SMInv, MinersInBounds, TypeOK
<1>2. ASSUME NEW n \in Miners, mpc'[n] \in Written
      PROVE  /\ Writes(mtxs'[n]) \subseteq DOMAIN mroot'[n]
             /\ mshard'[n] \in shards' =>
                  /\ DOMAIN mroot'[n] \subseteq DOMAIN state'[mshard'[n]]
                  /\ HasBlocks(mshard[n])' /\ ChainHead(mshard[n])'.hash = mprev'[n] =>
                       DOMAIN ChainHead(mshard[n])'.root \subseteq DOMAIN mroot'[n]
  <2> DEFINE s == mshard[n]
  <2>1. s \in Created /\ s \in Ids /\ mtxs[n] \in TxSeqs
    BY <1>1
  <2>2. CASE Apply(n)
    <3>1. /\ ApplyStateChanges(s, mtxs[n]) /\ mroot'[n] = state'[s]
          /\ UNCHANGED <<chains, mshard, mtxs, mprev>>
      BY <1>1, <2>2 DEF Apply, chainVars
    <3>2. DOMAIN state'[s] = DOMAIN state[s] \cup Writes(mtxs[n]) /\ shards' = shards
      BY <1>1, <2>1, <3>1, AppliedHolds
    <3>3. HasBlocks(mshard[n])' = HasBlocks(s) /\ ChainHead(mshard[n])' = ChainHead(s)
      BY <3>1 DEF HasBlocks, ChainHead
    <3>4. s \in shards /\ HasBlocks(s) => DOMAIN ChainHead(s).root \subseteq DOMAIN state[s]
      BY DEF RootInv, LiveHeadsStored
    <3> QED BY <3>1, <3>2, <3>3, <3>4
  <2>3. CASE ~Apply(n)
    <3>1. /\ mpc[n] \in Written /\ mshard'[n] = s /\ mtxs'[n] = mtxs[n]
          /\ mroot'[n] = mroot[n] /\ mprev'[n] = mprev[n]
      BY <1>2, <2>3, WriterMoves
    <3>2. Writes(mtxs'[n]) \subseteq DOMAIN mroot'[n]
      BY <3>1 DEF RootInv, PendingRootsHoldWrites
    <3>3. s \in shards' => s \in shards /\ DOMAIN state[s] \subseteq DOMAIN state'[s]
      BY <1>1, <2>1, StateGrows
    <3>4. s \in shards' => DOMAIN mroot'[n] \subseteq DOMAIN state'[s]
      BY <3>1, <3>3 DEF RootInv, PendingRootsGrow
    <3> DEFINE head == chains'[s][Len(chains'[s])]
               blocks == s \in DOMAIN chains' /\ chains'[s] # <<>>
    <3>5. HasBlocks(mshard[n])' = blocks /\ ChainHead(mshard[n])' = head
      BY <3>1 DEF HasBlocks, ChainHead
    <3>6. ASSUME NEW m \in Miners, AppendBlock(m), mshard[m] = s
          PROVE  head.hash # mprev'[n]
      <4>1. mshard' = mshard /\ mpc[m] = "append"
        BY <3>6 DEF AppendBlock, Goto
      <4>2. head = NewBlock(m)
        BY <3>6, <4>1, AppendMovesHead DEF ChainHead
      <4> QED BY <3>1, <4>1, <4>2 DEF NewBlock, LinkInv, PendingHashesFresh
    <3>7. CASE \A m \in Miners : ~(AppendBlock(m) /\ mshard[m] = s)
      <4>1. PICK c : c = s
        OBVIOUS
      <4>2. blocks = HasBlocks(c) /\ (HasBlocks(c) => head = ChainHead(c))
        <5>1. HasBlocks(c)' = HasBlocks(c) /\ (HasBlocks(c) => ChainHead(c)' = ChainHead(c))
          BY <3>7, <4>1, AppendMovesHead, OtherStepsKeepHeads
        <5> QED BY <4>1, <5>1 DEF HasBlocks, ChainHead
      <4>3. s \in shards /\ HasBlocks(s) /\ ChainHead(s).hash = mprev[n] =>
              DOMAIN ChainHead(s).root \subseteq DOMAIN mroot[n]
        BY <3>1 DEF RootInv, PendingRootsGrow
      <4>4. s \in shards' /\ blocks /\ head.hash = mprev'[n] => DOMAIN head.root \subseteq DOMAIN mroot'[n]
        BY <3>1, <3>3, <4>1, <4>2, <4>3
      <4> QED BY <3>1, <3>2, <3>4, <3>5, <4>4
    <3> QED BY <3>1, <3>2, <3>4, <3>5, <3>6, <3>7
  <2> QED BY <2>2, <2>3
<1>3. PendingRootsHoldWrites'
  BY <1>2 DEF PendingRootsHoldWrites, Written
<1>4. PendingRootsGrow'
  BY <1>2 DEF PendingRootsGrow, Written
<1> QED BY <1>3, <1>4

\* What StateRootsGrow says of two neighbours.
RootGrows(b, c) == DOMAIN b.root \cup Writes(c.txs) \subseteq DOMAIN c.root

\* A block appended to a shard of the map stands for more than its parent.
LEMMA RootsStep ==
  ASSUME LinkInv, RootInv, [Next]_vars
  PROVE  StateRootsGrow'
<1> SUFFICES ASSUME NEW s \in shards', s \in DOMAIN chains', NEW i \in 1 .. (Len(chains'[s]) - 1)
             PROVE  RootGrows(chains'[s][i], chains'[s][i + 1])
  BY DEF StateRootsGrow, RootGrows, Writes, BlockKeys
<1>1. /\ SMInv /\ [SMNext]_smVars /\ chains \in [DOMAIN chains -> Seq(Block)]
  BY SMFrame DEF LinkInv, TypeOK
<1>2. s \in Created
  <2>1. CASE s \notin Created
    <3>1. \A m \in Miners : mshard[m] # s
      BY <2>1 DEF LinkInv, MinersInBounds
    <3>2. s \in DOMAIN chains /\ chains'[s] = chains[s]
      BY <1>1, <3>1 DEF Next, Submit, Manage, MinerStep, MineShardBlock, ReadHead, NoProposer,
       TakeTransactions, NoTransactions, Apply, FinalizeFailed, FinalizeReached, AppendBlock,
       DiscardBlock, PruneChain, NothingToPrune, UpdateChainHeight, LinksToHead, HasBlocks,
       vars, bcVars, chainVars
    <3>3. Len(chains'[s]) = 1
      BY <2>1, <3>2 DEF RootInv, UncreatedIsGenesis
    <3> QED BY <3>3
  <2> QED BY <2>1
<1>3. s \in shards
  BY <1>1, <1>2, StateGrows
<1>4. \A j : s \in DOMAIN chains /\ j \in 1 .. (Len(chains[s]) - 1) => RootGrows(chains[s][j], chains[s][j + 1])
  BY <1>3 DEF RootInv, StateRootsGrow, RootGrows, Writes, BlockKeys
<1>5. CASE UNCHANGED chains
  BY <1>4, <1>5
<1>6. ASSUME NEW m \in Miners, AppendBlock(m)
      PROVE  RootGrows(chains'[s][i], chains'[s][i + 1])
  <2> DEFINE c == mshard[m]
             n == Len(chains[c])
             b == NewBlock(m)
  <2>1. /\ c \in DOMAIN chains /\ chains[c] \in Seq(Block) /\ n \in Nat \ {0}
        /\ ChainHead(c) = chains[c][n] /\ HasBlocks(c) /\ ChainHead(c).hash = mprev[m] /\ mpc[m] \in Written
    BY <1>6, HeadIsBlock DEF AppendBlock, LinksToHead, Goto, Written, LinkInv, TypeOK
  <2>2. chains' = [chains EXCEPT ![c] = Append(chains[c], b)]
    BY <1>6 DEF AppendBlock
  <2>3. b.root = mroot[m] /\ b.txs = mtxs[m]
    BY DEF NewBlock
  <2>4. c \in shards => RootGrows(chains[c][n], b)
    BY <2>1, <2>3 DEF RootInv, PendingRootsGrow, PendingRootsHoldWrites, RootGrows
  <2> HIDE DEF b, c, n
  <2>5. CASE s # c
    BY <1>1, <1>4, <2>2, <2>5
  <2>6. CASE s = c
    <3>1. chains'[s] = Append(chains[s], b) /\ n = Len(chains[s]) /\ n \in Nat \ {0} /\ chains[s] \in Seq(Block)
      BY <1>1, <2>1, <2>2, <2>6 DEF n
    <3>2. CASE i = n
      <4>1. chains'[s][i] = chains[s][n] /\ chains'[s][i + 1] = b
        BY <3>1, <3>2
      <4> QED BY <1>3, <2>4, <2>6, <4>1
    <3>3. CASE i # n
      <4>1. /\ i \in 1 .. (Len(chains[s]) - 1)
            /\ chains'[s][i] = chains[s][i] /\ chains'[s][i + 1] = chains[s][i + 1]
        BY <3>1, <3>3
      <4> QED BY <1>4, <2>1, <2>6, <4>1
    <3> QED BY <3>2, <3>3
  <2> QED BY <2>5, <2>6
<1>7. ASSUME NEW m \in Miners, PruneChain(m)
      PROVE  RootGrows(chains'[s][i], chains'[s][i + 1])
  <2> DEFINE c == mshard[m]
             len == Len(chains[c])
             n == len - PruneKeepBlocks
  <2>1. c \in DOMAIN chains /\ chains[c] \in Seq(Block) /\ len \in Nat
    BY <1>1, <1>7 DEF LinkInv, MinersInBounds, PruneChain, Goto
  <2>2. n \in 1 .. len
    BY SMTT(30), <1>7, <2>1, ChainAssumption DEF PruneChain
  <2>3. chains' = [chains EXCEPT ![c] = SubSeq(chains[c], n + 1, len)]
    BY <1>7 DEF PruneChain
  <2> HIDE DEF n, c
  <2>4. CASE s # c
    BY <1>1, <1>4, <2>3, <2>4
  <2>5. CASE s = c
    <3>1. chains'[s] = SubSeq(chains[s], n + 1, len) /\ len = Len(chains[s]) /\ s \in DOMAIN chains
      BY <1>1, <2>1, <2>3, <2>5
    <3>2. /\ i + n \in 1 .. (len - 1) /\ (i + n) + 1 = (i + 1) + n
          /\ chains'[s][i] = chains[s][i + n] /\ chains'[s][i + 1] = chains[s][(i + n) + 1]
      <4> DEFINE q == chains[s]
      <4>1. q \in Seq(Block) /\ len \in Nat /\ n \in 1 .. len /\ len = Len(q)
        BY <2>1, <2>2, <2>5, <3>1
      <4>2. i \in 1 .. (Len(SubSeq(q, n + 1, len)) - 1)
        BY <3>1
      <4> HIDE DEF q, len
      <4>3. Len(SubSeq(q, n + 1, len)) = len - n
            /\ \A k \in 1 .. len - n : SubSeq(q, n + 1, len)[k] = q[k + n]
        <5>1. Len(SubSeq(q, n + 1, len)) = len - n
          BY SMTT(30), <4>1
        <5>2. ASSUME NEW k \in 1 .. len - n
              PROVE  SubSeq(q, n + 1, len)[k] = q[k + n]
          <6>1. k + n = n + 1 + k - 1 /\ k \in 1 .. len - (n + 1) + 1
            BY <4>1, <5>2
          <6>2. SubSeq(q, n + 1, len)[k] = q[n + 1 + k - 1]
            BY SMTT(30), <4>1, <6>1
          <6> QED BY <6>1, <6>2
        <5> QED BY <5>1, <5>2
      <4>4. i \in 1 .. len - n /\ i + 1 \in 1 .. len - n /\ i + n \in 1 .. (len - 1)
            /\ (i + n) + 1 = (i + 1) + n
        BY <4>1, <4>2, <4>3
      <4> DEFINE r == SubSeq(q, n + 1, len)
      <4>5. r[i] = q[i + n] /\ r[i + 1] = q[(i + 1) + n]
        BY <4>3, <4>4
      <4>6. chains'[s] = r /\ chains[s] = q
        BY <3>1 DEF q
      <4> HIDE DEF r
      <4> QED BY <4>4, <4>5, <4>6
    <3> QED BY <1>4, <3>1, <3>2
  <2> QED BY <2>4, <2>5
<1>8. ASSUME NEW m \in Miners, DiscardBlock(m)
      PROVE  RootGrows(chains'[s][i], chains'[s][i + 1])
  <2>1. s \in DOMAIN chains /\ chains'[s] = chains[s]
    <3>1. chains'[s] # <<>>
      OBVIOUS
    <3> QED BY <1>8, <3>1 DEF DiscardBlock
  <2> QED BY <1>4, <2>1
<1>9. UNCHANGED chains \/ \E m \in Miners : AppendBlock(m) \/ PruneChain(m) \/ DiscardBlock(m)
  BY DEF Next, Submit, Manage, MinerStep, MineShardBlock, ReadHead, NoProposer, TakeTransactions,
         NoTransactions, Apply, FinalizeFailed, FinalizeReached, NothingToPrune,
         UpdateChainHeight, vars, bcVars, chainVars
<1> QED BY <1>5, <1>6, <1>7, <1>8, <1>9

\* Along a chain the state that the roots stand for only grows, although miners that
\* lose the race for a height have applied their batches to the same state.
THEOREM RootsOnlyGrow == Spec => []StateRootsGrow
<1>1. Init => RootInv
  <2> SUFFICES ASSUME Init PROVE RootInv
    OBVIOUS
  <2>1. /\ \A s \in DOMAIN chains : chains[s] = <<GenesisBlock(s)>> /\ GenesisBlock(s).root = EmptyDB
        /\ \A m \in Miners : mpc[m] = "idle"
    BY DEF Init, GenesisBlock
  <2>2. UncreatedIsGenesis /\ PendingRootsHoldWrites /\ PendingRootsGrow
    BY <2>1 DEF UncreatedIsGenesis, PendingRootsHoldWrites, PendingRootsGrow, Written
  <2>3. LiveHeadsStored
    BY <2>1, StateDBDomain DEF LiveHeadsStored, HasBlocks, ChainHead
  <2>4. \A s \in DOMAIN chains : Len(chains[s]) = 1
    BY <2>1
  <2>5. StateRootsGrow
    BY <2>4 DEF StateRootsGrow
  <2> QED BY <2>2, <2>3, <2>5 DEF RootInv
<1>2. LinkInv /\ RootInv /\ [Next]_vars => RootInv'
  BY UncreatedStep, LiveHeadsStep, PendingRootsStep, RootsStep DEF RootInv
<1>3. RootInv => StateRootsGrow
  BY DEF RootInv
<1> QED BY <1>1, <1>2, <1>3, LinkInvariant, PTL DEF Spec
=============================================================================
