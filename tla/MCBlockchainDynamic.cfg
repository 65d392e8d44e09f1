\* Two shards that are merged and split under two miners.
CONSTANTS
  t1 = t1  t2 = t2  t3 = t3
  k1 = k1  k2 = k2
  m1 = m1  m2 = m2
  Tx = {t1, t2}
  Keys = {k1, k2}
  KeyOf <- MCKeyOf2
  TypeOf <- MCIntraShard
  InitialShards = 2
  MinShards = 1
  MaxShards = 2
  SplitThresholdStateSize = 0
  SplitThresholdTxPool = 1
  MergeThresholdStateSize = 2
  MergeTargetThresholdSize = 1
  MaxTx = 1
  ShardIdLimit = 3
  Miners = {m1, m2}
  Hashes = {1, 2, 3, 4, 5, 6, 7}
  NoHash = 0
  GenesisHash <- MCGenesisHash
  PruneKeepBlocks = 2
SYMMETRY MinerSymmetry
SPECIFICATION Spec
INVARIANTS ChainLinked MinedAtMostOnce FinalizedWritesSurvive StateRootsGrow
PROPERTY FinalizedBlocksStay
