\* Three replicas, two writes each, and three deliveries in any order.
CONSTANTS
  Replicas = {1, 2, 3}
  MaxWrites = 2
  MaxDeliveries = 3
SPECIFICATION ReplicationSpec
INVARIANTS ClocksMirrorHistory FirstConflictAgrees
PROPERTY HistoryGrows
CHECK_DEADLOCK FALSE
