\* Splits by pool and by state, merges, and calls racing both.
CONSTANTS
  t1 = t1  t2 = t2
  k1 = k1  k2 = k2
  Tx = {t1, t2}
  Keys = {k1, k2}
  KeyOf <- MCKeyOf2
  InitialShards = 2
  MinShards = 1
  MaxShards = 3
  SplitThresholdStateSize = 1
  SplitThresholdTxPool = 1
  MergeThresholdStateSize = 2
  MergeTargetThresholdSize = 2
  MaxTx = 2
  ShardIdLimit = 4
SPECIFICATION SMSpec
INVARIANTS RoutingConsistent ShardCountBounds DecisionStillValid MetricsExact 
PROPERTY KeysNeverLost
