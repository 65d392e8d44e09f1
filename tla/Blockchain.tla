----------------------------- MODULE Blockchain -----------------------------
(***************************************************************************)
(* Blockchain.MineShardBlock (core/blockchain.go) over the shards of       *)
(* ShardManager: concurrent miners, the chains of the shards, pruning and  *)
(* archiving, the status of cross-shard transactions.                      *)
(*                                                                         *)
(* A miner takes and releases its locks many times during one call, so a   *)
(* call is a sequence of steps:                                            *)
(*   GetShard; the head under ChainMu.RLock; VRF selection and the pool    *)
(*   under shard.mu; the state under shard.mu; proposal and dBFT; the      *)
(*   append under ChainMu; pruning under ChainMu; ChainHeight under bc.mu. *)
(* Everything read in one step may be stale in the next.  Any calls may    *)
(* overlap, as the locks and the check of parent linkage provide for; the  *)
(* loop of main.go overlaps the calls for different shards only.           *)
(*                                                                         *)
(* The ValidatorManager answers two questions here, "who proposes" and     *)
(* "was consensus reached"; both answers are free (module ValidatorManager *)
(* has its reasons).  A block hash is an identity: SHA-256 does not        *)
(* collide.  A state root is the state it is computed from.                *)
(***************************************************************************)
EXTENDS ShardManager

CONSTANTS
  Miners,           \* concurrent calls of MineShardBlock
  Hashes, NoHash,   \* block hashes (a bound: mining stops when all are in use); NoHash is
                    \* the empty PrevBlockHash
  GenesisHash,      \* hashes of the two genesis blocks of main.go
  PruneKeepBlocks,  \* BlockchainConfig, 0 = no pruning
  TypeOf            \* TypeOf[t]: TransactionType

TxTypes == {"IntraShard", "CrossShardInitiate", "CrossShardFinalize"}

\* main.go creates the genesis blocks of shards 0 and 1 before it starts
\* any loop, and nothing creates one for another shard.
GenesisShards == {0, 1}

ASSUME ChainAssumption ==
  /\ NoHash \notin Hashes
  /\ GenesisHash \in [GenesisShards -> Hashes] /\ GenesisHash[0] # GenesisHash[1]
  /\ PruneKeepBlocks \in Nat
  /\ TypeOf \in [Tx -> TxTypes]
  /\ GenesisShards \subseteq Ids
  /\ IsFiniteSet(Miners)

VARIABLES
  chains,       \* bc.BlockChains: a map from shard ids to block sequences
  chainHeight,  \* bc.ChainHeight
  archives,     \* archive files: <<shard, height>> to the archived state
  status,       \* status[t]: tx.Status
  mpc,          \* mpc[m]: the next step of miner m
  mshard,       \* and its local variables: the shard,
  mprev,        \*   prevBlockHash,
  mheight,      \*   nextBlockHeight,
  mtxs,         \*   transactions,
  mroot,        \*   finalStateRoot,
  mhash         \*   newBlock.Hash

chainVars == <<chains, chainHeight, archives>>
minerVars == <<mpc, mshard, mprev, mheight, mtxs, mroot, mhash>>
bcVars == <<chainVars, status, minerVars>>
vars == <<smVars, bcVars>>

Block == [hash : Hashes, prev : Hashes \cup {NoHash}, height : Nat, txs : Seq(Tx), root : StateDB]
Statuses == {"New", "Prepared", "Committed", "Finalized"}
MinerSteps == {"idle", "head", "take", "apply", "finalize", "append", "prune", "height"}

TypeOK ==
  /\ SMTypeOK
  /\ DOMAIN chains \subseteq Ids /\ chains \in [DOMAIN chains -> Seq(Block)]
  /\ chainHeight \in Nat
  /\ DOMAIN archives \subseteq Ids \X Nat /\ archives \in [DOMAIN archives -> StateDB]
  /\ status \in [Tx -> Statuses]
  /\ mpc \in [Miners -> MinerSteps]
  /\ mshard \in [Miners -> Ids]
  /\ mprev \in [Miners -> Hashes \cup {NoHash}]
  /\ mheight \in [Miners -> Nat]
  /\ mtxs \in [Miners -> Seq(Tx)]
  /\ mroot \in [Miners -> StateDB]
  /\ mhash \in [Miners -> Hashes \cup {NoHash}]

-----------------------------------------------------------------------------
HasBlocks(s) == s \in DOMAIN chains /\ chains[s] # <<>>
ChainHead(s) == chains[s][Len(chains[s])]

GenesisBlock(s) ==
  [hash |-> GenesisHash[s], prev |-> NoHash, height |-> 0, txs |-> <<>>, root |-> EmptyDB]

Init ==
  /\ SMInit
  /\ chains = [s \in GenesisShards |-> <<GenesisBlock(s)>>]
  /\ chainHeight = 0
  /\ archives = [x \in {} |-> EmptyDB]
  /\ status = [t \in Tx |-> "New"]
  /\ mpc = [m \in Miners |-> "idle"]
  /\ mshard = [m \in Miners |-> 0]
  /\ mprev = [m \in Miners |-> NoHash]
  /\ mheight = [m \in Miners |-> 0]
  /\ mtxs = [m \in Miners |-> <<>>]
  /\ mroot = [m \in Miners |-> EmptyDB]
  /\ mhash = [m \in Miners |-> NoHash]

\* The call returns, with a block or an error.
Return(m) ==
  /\ mpc' = [mpc EXCEPT ![m] = "idle"]
  /\ mshard' = [mshard EXCEPT ![m] = 0]
  /\ mprev' = [mprev EXCEPT ![m] = NoHash]
  /\ mheight' = [mheight EXCEPT ![m] = 0]
  /\ mtxs' = [mtxs EXCEPT ![m] = <<>>]
  /\ mroot' = [mroot EXCEPT ![m] = EmptyDB]
  /\ mhash' = [mhash EXCEPT ![m] = NoHash]

Goto(m, from, to) == mpc[m] = from /\ mpc' = [mpc EXCEPT ![m] = to]

-----------------------------------------------------------------------------
\* The miner loop of main.go calls this for every id of GetAllShardIDs that
\* GetShard still finds.
MineShardBlock(m, s) ==
  /\ Goto(m, "idle", "head")
  /\ SmReadable /\ s \in shards
  /\ mshard' = [mshard EXCEPT ![m] = s]
  /\ UNCHANGED <<smVars, chainVars, status, mprev, mheight, mtxs, mroot, mhash>>

\* Mutant of ReadHead: the height of the head instead of the next one.
ReadHeadSameHeight(m) ==
  LET s == mshard[m] IN
  /\ Goto(m, "head", "take")
  /\ mprev' = [mprev EXCEPT ![m] = IF HasBlocks(s) THEN ChainHead(s).hash ELSE NoHash]
  /\ mheight' = [mheight EXCEPT ![m] = IF HasBlocks(s) THEN ChainHead(s).height ELSE 1]
  /\ UNCHANGED <<smVars, chainVars, status, mshard, mtxs, mroot, mhash>>

ReadHead(m) ==
  LET s == mshard[m] IN
  /\ Goto(m, "head", "take")
  /\ mprev' = [mprev EXCEPT ![m] = IF HasBlocks(s) THEN ChainHead(s).hash ELSE NoHash]
  /\ mheight' = [mheight EXCEPT ![m] = IF HasBlocks(s) THEN ChainHead(s).height + 1 ELSE 1]
  /\ UNCHANGED <<smVars, chainVars, status, mshard, mtxs, mroot, mhash>>

\* SelectDelegateWithVRF finds nobody, or the proof it returns is invalid.
NoProposer(m) ==
  /\ mpc[m] = "take"
  /\ Return(m)
  /\ UNCHANGED <<smVars, chainVars, status>>

\* The prepare phase marks the cross-shard transactions just taken.
TakeTransactions(m) ==
  LET txs == TakenFrom(mshard[m]) IN
  /\ ~(txs = <<>> /\ mheight[m] > 1)
  /\ Goto(m, "take", "apply")
  /\ GetTransactionsForBlock(mshard[m])
  /\ mtxs' = [mtxs EXCEPT ![m] = txs]
  /\ status' = [t \in Tx |-> IF t \in Range(txs) /\ TypeOf[t] = "CrossShardInitiate"
                             THEN "Prepared" ELSE status[t]]
  /\ UNCHANGED <<chainVars, mshard, mprev, mheight, mroot, mhash>>

NoTransactions(m) ==
  /\ mpc[m] = "take"
  /\ TakenFrom(mshard[m]) = <<>> /\ mheight[m] > 1
  /\ Return(m)
  /\ UNCHANGED <<smVars, chainVars, status>>

\* Mutant of Apply: the root is taken before the changes are applied.
ApplyRootsFirst(m) ==
  LET s == mshard[m] IN
  /\ Goto(m, "apply", "finalize")
  /\ ApplyStateChanges(s, mtxs[m])
  /\ mroot' = [mroot EXCEPT ![m] = state[s]]
  /\ UNCHANGED <<chainVars, status, mshard, mprev, mheight, mtxs, mhash>>

Apply(m) ==
  LET s == mshard[m] IN
  /\ Goto(m, "apply", "finalize")
  /\ ApplyStateChanges(s, mtxs[m])
  /\ mroot' = [mroot EXCEPT ![m] = state'[s]]
  /\ UNCHANGED <<chainVars, status, mshard, mprev, mheight, mtxs, mhash>>

UsedHashes ==
  Range(mprev) \cup Range(mhash)
    \cup UNION {{chains[s][i].hash : i \in DOMAIN chains[s]} : s \in DOMAIN chains}

\* ProposeBlock: proof of work over the header gives the block its hash.
ProposeBlock(m) ==
  /\ \E h \in Hashes : h \notin UsedHashes
  /\ mhash' = [mhash EXCEPT ![m] = CHOOSE h \in Hashes : h \notin UsedHashes]

\* Mutant of FinalizeFailed: the transactions go back to the pool behind the
\* metric's back.
FinalizeFailedRequeues(m) ==
  /\ mpc[m] = "finalize"
  /\ pool' = [pool EXCEPT ![mshard[m]] = mtxs[m] \o @]
  /\ Return(m)
  /\ UNCHANGED <<setVars, state, pendingTxPool, stateSize, manage, callVars, chainVars, status>>

\* FinalizeBlockDBFT rejects the proposed block, whose hash nobody else has
\* seen; the transactions are dropped and the state stays as applied.
FinalizeFailed(m) ==
  /\ mpc[m] = "finalize"
  /\ Return(m)
  /\ UNCHANGED <<smVars, chainVars, status>>

\* Consensus is reached and the commit phase marks the transactions.
FinalizeReached(m) ==
  /\ Goto(m, "finalize", "append")
  /\ ProposeBlock(m)
  /\ status' = [t \in Tx |->
       IF t \in Range(mtxs[m])
       THEN CASE TypeOf[t] = "CrossShardInitiate" /\ status[t] = "Prepared" -> "Committed"
              [] TypeOf[t] = "CrossShardFinalize" -> "Finalized"
              [] OTHER -> status[t]
       ELSE status[t]]
  /\ UNCHANGED <<smVars, chainVars, mshard, mprev, mheight, mtxs, mroot>>

NewBlock(m) ==
  [hash |-> mhash[m], prev |-> mprev[m], height |-> mheight[m],
   txs |-> mtxs[m], root |-> mroot[m]]

\* Mutant of LinksToHead: the oldest block is taken for the head.
LinksToOldest(m) ==
  LET s == mshard[m] IN
  /\ HasBlocks(s)
  /\ chains[s][1].hash = mprev[m]
  /\ mheight[m] = 1 => chains[s][1].height = 0

\* The check of parent linkage under ChainMu.
LinksToHead(m) ==
  LET s == mshard[m] IN
  /\ HasBlocks(s)
  /\ ChainHead(s).hash = mprev[m]
  /\ mheight[m] = 1 => ChainHead(s).height = 0

AppendBlock(m) ==
  LET s == mshard[m] IN
  /\ LinksToHead(m)
  /\ Goto(m, "append", "prune")
  /\ chains' = [chains EXCEPT ![s] = Append(@, NewBlock(m))]
  /\ UNCHANGED <<smVars, chainHeight, archives, status, mshard, mprev, mheight, mtxs, mroot, mhash>>

\* A chain that was missing from the map stays behind empty.
DiscardBlock(m) ==
  LET s == mshard[m] IN
  /\ mpc[m] = "append" /\ ~LinksToHead(m)
  /\ chains' = [c \in DOMAIN chains \cup {s} |-> IF c \in DOMAIN chains THEN chains[c] ELSE <<>>]
  /\ Return(m)
  /\ UNCHANGED <<smVars, chainHeight, archives, status>>

\* Mutants of PruneChain: one block too many stays; the newest are dropped.
PruneTo(m, kept, height) ==
  LET x == <<mshard[m], height>> IN
  /\ Goto(m, "prune", "height")
  /\ PruneKeepBlocks > 0 /\ Len(chains[mshard[m]]) > PruneKeepBlocks
  /\ SmReadable
  /\ chains' = [chains EXCEPT ![mshard[m]] = kept]
  /\ archives' = [y \in DOMAIN archives \cup {x} |-> IF y = x THEN state[mshard[m]] ELSE archives[y]]
  /\ UNCHANGED <<smVars, chainHeight, status, mshard, mprev, mheight, mtxs, mroot, mhash>>

PruneOffByOne(m) ==
  LET q == chains[mshard[m]] IN
  PruneTo(m, SubSeq(q, Len(q) - PruneKeepBlocks, Len(q)), q[Len(q) - PruneKeepBlocks].height)
PruneNewest(m) ==
  LET q == chains[mshard[m]] IN PruneTo(m, SubSeq(q, 1, PruneKeepBlocks), q[Len(q)].height)

\* PruneChain drops the oldest blocks and, if the manager still holds the
\* shard, writes its current state to the file of the last dropped height.
PruneChain(m) ==
  LET s == mshard[m]
      n == Len(chains[s]) - PruneKeepBlocks
  IN
  /\ Goto(m, "prune", "height")
  /\ PruneKeepBlocks > 0 /\ n > 0
  /\ SmReadable
  /\ chains' = [chains EXCEPT ![s] = SubSeq(@, n + 1, Len(@))]
  /\ archives' = IF s \in shards
                 THEN [x \in DOMAIN archives \cup {<<s, chains[s][n].height>>} |->
                         IF x = <<s, chains[s][n].height>> THEN state[s] ELSE archives[x]]
                 ELSE archives
  /\ UNCHANGED <<smVars, chainHeight, status, mshard, mprev, mheight, mtxs, mroot, mhash>>

NothingToPrune(m) ==
  /\ Goto(m, "prune", "height")
  /\ PruneKeepBlocks = 0 \/ Len(chains[mshard[m]]) <= PruneKeepBlocks
  /\ UNCHANGED <<smVars, chainVars, status, mshard, mprev, mheight, mtxs, mroot, mhash>>

\* Mutant of UpdateChainHeight: the last miner wins.
SetChainHeight(m) ==
  /\ mpc[m] = "height"
  /\ chainHeight' = mheight[m]
  /\ Return(m)
  /\ UNCHANGED <<smVars, chains, archives, status>>

UpdateChainHeight(m) ==
  /\ mpc[m] = "height"
  /\ chainHeight' = IF mheight[m] > chainHeight THEN mheight[m] ELSE chainHeight
  /\ Return(m)
  /\ UNCHANGED <<smVars, chains, archives, status>>

-----------------------------------------------------------------------------
MinerStep(m) ==
  \/ \E s \in Ids : MineShardBlock(m, s)
  \/ ReadHead(m)
  \/ NoProposer(m)
  \/ TakeTransactions(m) \/ NoTransactions(m)
  \/ Apply(m)
  \/ FinalizeFailed(m) \/ FinalizeReached(m)
  \/ AppendBlock(m) \/ DiscardBlock(m)
  \/ PruneChain(m) \/ NothingToPrune(m)
  \/ UpdateChainHeight(m)

Submit(t) == (DetermineShard(t) \/ GetShard(t) \/ AddTransaction(t)) /\ UNCHANGED bcVars

Manage == ManageStep /\ UNCHANGED bcVars

Next == (\E m \in Miners : MinerStep(m)) \/ (\E t \in Tx : Submit(t)) \/ Manage

Spec == Init /\ [][Next]_vars
-----------------------------------------------------------------------------
(***************************************************************************)
(* Properties.                                                             *)
(***************************************************************************)

\* Every block of a chain names the hash of the block before it and has the
\* next height, however many miners built on the same head and however
\* pruning and merging interleave with them.
ChainLinked ==
  \A s \in DOMAIN chains : \A i \in 1 .. (Len(chains[s]) - 1) :
    /\ chains[s][i + 1].prev = chains[s][i].hash
    /\ chains[s][i + 1].height = chains[s][i].height + 1

KeepsHistory(old, new) ==
  \/ new = old
  \/ Len(new) = Len(old) + 1 /\ SubSeq(new, 1, Len(old)) = old
  \/ /\ Len(new) \in 1 .. (Len(old) - 1)
     /\ new = SubSeq(old, Len(old) - Len(new) + 1, Len(old))

\* Finality: a block in a chain is never replaced and the head never goes
\* back; a chain only grows by one block or loses its oldest ones.
FinalizedBlocksStay ==
  [][\A s \in DOMAIN chains :
       s \in DOMAIN chains' /\ KeepsHistory(chains[s], chains'[s])]_vars

Holding == {"apply", "finalize", "append"}

MinerPlaces(t) ==
  UNION {{m} \X {i \in DOMAIN mtxs[m] : mtxs[m][i] = t} : m \in {n \in Miners : mpc[n] \in Holding}}

ChainPlaces(t) ==
  UNION {UNION {{s} \X {i} \X {j \in DOMAIN chains[s][i].txs : chains[s][i].txs[j] = t}
                  : i \in DOMAIN chains[s]} : s \in DOMAIN chains}

Places(t) == PoolPlaces(t) \cup MinerPlaces(t) \cup ChainPlaces(t)

\* A transaction is never mined twice: it is in one pool, in the hands of one
\* miner or in one block, through merges under a miner that still holds the
\* removed shard and through miners racing on one shard.
MinedAtMostOnce == \A t \in Tx : Cardinality(Places(t)) <= 1

\* bc.ChainHeight, updated after ChainMu is released, is the highest block of
\* all shards once the miners that are past their append have finished, and
\* never runs ahead of the chains.
ChainHeightTracks ==
  /\ \A s \in DOMAIN chains :
       HasBlocks(s) =>
         \/ ChainHead(s).height <= chainHeight
         \/ \E m \in Miners : /\ mpc[m] \in {"prune", "height"} /\ mshard[m] = s
                              /\ mheight[m] >= ChainHead(s).height
  /\ \E s \in DOMAIN chains : HasBlocks(s) /\ ChainHead(s).height >= chainHeight

\* Memory stays bounded: a chain exceeds PruneKeepBlocks only by the blocks
\* whose miners have not reached PruneChain yet.
PruneBound ==
  PruneKeepBlocks > 0 =>
    \A s \in DOMAIN chains :
      Len(chains[s]) <= PruneKeepBlocks
                          + Cardinality({m \in Miners : mpc[m] = "prune" /\ mshard[m] = s})

\* A block on which the validators agreed is thrown away only if another block
\* of its height got into the chain first, or if its shard came out of a split,
\* which gives no genesis block to build on.
DiscardedOnlyIfBeaten ==
  \A m \in Miners :
    (mpc[m] = "append" /\ ~LinksToHead(m))
      => IF HasBlocks(mshard[m]) THEN ChainHead(mshard[m]).height >= mheight[m]
         ELSE mshard[m] \notin DOMAIN GenesisHash

(***************************************************************************)
(* What ChainLinked rests on: the inductive invariant of BlockchainProofs. *)
(***************************************************************************)
MinersInBounds ==
  \A m \in Miners : /\ mshard[m] \in Created /\ mtxs[m] \in TxSeqs
                    /\ mpc[m] = "prune" => mshard[m] \in DOMAIN chains

HashesDistinct ==
  \A s \in DOMAIN chains : \A i, j \in DOMAIN chains[s] :
    chains[s][i].hash = chains[s][j].hash => i = j

\* The hash of a block waiting for ChainMu is in no chain, and nobody else
\* has it as a parent or as a block of its own.
PendingHashesFresh ==
  \A m \in Miners : mpc[m] = "append" =>
    /\ mhash[m] \in Hashes
    /\ \A s \in DOMAIN chains : \A i \in DOMAIN chains[s] : chains[s][i].hash # mhash[m]
    /\ \A n \in Miners : mprev[n] # mhash[m] /\ (n # m => mhash[n] # mhash[m])

\* A miner's height is right as long as the parent it read is in the chain,
\* wherever in the chain that parent is by now.
HeightFollowsParent ==
  \A m \in Miners :
    (mpc[m] \in {"take", "apply", "finalize", "append"} /\ mshard[m] \in DOMAIN chains) =>
      \A i \in DOMAIN chains[mshard[m]] :
        chains[mshard[m]][i].hash = mprev[m] => mheight[m] = chains[mshard[m]][i].height + 1

LinkInv ==
  /\ SMInv /\ TypeOK /\ MinersInBounds
  /\ HashesDistinct /\ PendingHashesFresh /\ HeightFollowsParent
  /\ ChainLinked

BlockKeys(b) == {KeyOf[t] : t \in Range(b.txs)}

\* Along the chain of a shard in the map the state that the roots stand for only
\* grows and holds what the block itself wrote, although miners that lose the race
\* for a height leave their writes behind.
StateRootsGrow ==
  \A s \in shards \cap DOMAIN chains : \A i \in 1 .. (Len(chains[s]) - 1) :
    DOMAIN chains[s][i].root \cup BlockKeys(chains[s][i + 1]) \subseteq DOMAIN chains[s][i + 1].root

\* What a finalized block wrote is in some shard of the map, wherever merges have
\* moved it, unless it was applied to a shard that was removed under its miner: then
\* it is still in that shard, where nobody looks.  No merge drops a finalized write.
FinalizedWritesSurvive ==
  \A s \in DOMAIN chains : \A i \in DOMAIN chains[s] :
    BlockKeys(chains[s][i]) \subseteq LiveKeys \cup (IF s \in shards THEN {} ELSE DOMAIN state[s])

-----------------------------------------------------------------------------
(***************************************************************************)
(* Fairness: the miner loop of main.go mines every shard of the map in     *)
(* every round, and miners, callers and management cycles that can go on   *)
(* do (WF).  Management cycles that come again and again do not lock out   *)
(* the steps that read-lock sm.mu (SF): sync.RWMutex lets blocked readers  *)
(* in.  Rounds without a proposer do not recur for ever at the expense of  *)
(* a shard (SF): the validators are assumed not to be all ineligible for   *)
(* good.                                                                   *)
(***************************************************************************)
Fairness ==
  /\ \A m \in Miners : /\ WF_vars(MinerStep(m))
                        /\ SF_vars(TakeTransactions(m)) /\ SF_vars(PruneChain(m))
  /\ \A s \in Ids : SF_vars(\E m \in Miners : MineShardBlock(m, s))
  /\ \A t \in Tx : SF_vars(Submit(t))
  /\ WF_vars(Manage)

FairSpec == Spec /\ Fairness

InLivePool(t) == \E s \in shards : t \in Range(pool[s])

\* A transaction waiting in a shard of the map is eventually picked up by a
\* miner: first-in first-out pools and merges that append do not starve it.
PooledIsTaken == \A t \in Tx : InLivePool(t) ~> ~InLivePool(t)
=============================================================================
