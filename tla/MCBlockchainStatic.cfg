\* One shard that is never split, two miners racing on it.
CONSTANTS
  t1 = t1  t2 = t2  t3 = t3
  k1 = k1  k2 = k2
  m1 = m1  m2 = m2
  Tx = {t1, t2, t3}
  Keys = {k1, k2}
  KeyOf <- MCKeyOf3
  TypeOf <- MCTypeOf3
  InitialShards = 1
  MinShards = 1
  MaxShards = 1
  SplitThresholdStateSize = 0
  SplitThresholdTxPool = 0
  MergeThresholdStateSize = 0
  MergeTargetThresholdSize = 0
  MaxTx = 2
  ShardIdLimit = 2
  Miners = {m1, m2}
  Hashes = {1, 2, 3, 4, 5, 6, 7, 8, 9}
  NoHash = 0
  GenesisHash <- MCGenesisHash
  PruneKeepBlocks = 1
SYMMETRY MinerSymmetry
SPECIFICATION Spec
INVARIANTS ChainHeightTracks PruneBound DiscardedOnlyIfBeaten
