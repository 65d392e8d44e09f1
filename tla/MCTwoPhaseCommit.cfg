\* Two opposite transactions and one to a shard that a split may create,
\* under splits and merges.
CONSTANTS
  t1 = t1  t2 = t2  t3 = t3
  s0 = s0  s1 = s1  s2 = s2  s3 = s3
  Tx = {t1, t2, t3}
  Shards = {s0, s1, s2, s3}
  From <- MCFrom
  To <- MCTo
  InitialShards = {s0, s1, s2}
  Free = Free
SPECIFICATION TPCSpec
INVARIANT ReturnedHoldsNothing
PROPERTY Atomicity
CHECK_DEADLOCK FALSE
