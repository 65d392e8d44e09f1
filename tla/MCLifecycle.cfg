\* Both drivers, the miner and the authentication loop, splits up to shard 2.
CONSTANTS
  v1 = v1  v2 = v2
  Drivers = {"main", "embedded"}
  SimLoops = {"miner", "auth"}
  Validators = {v1}
  MaxShardId = 2
  BaseLatencies = {0, 249}
  ExtraLatencies = {2}
  CleanLosses = {5}
  PartitionLosses = {50}
SPECIFICATION LifecycleFairSpec
INVARIANTS ShardsStoppedOnce 
PROPERTIES LeavesStrongOnlyInPartition 
CHECK_DEADLOCK FALSE
