\* Any three calls at a time.
CONSTANTS
  g1 = g1  g2 = g2  g3 = g3
  Goroutines = {g1, g2, g3}
  Calls = {"mine0", "mine1", "submit0", "submit1", "manage", "api", "report",
           "authenticate", "monitor", "commit01", "commit10"}
SPECIFICATION LocksSpec
INVARIANTS  DeadlockOnlyByKnownNesting
SYMMETRY GoroutineSymmetry
CHECK_DEADLOCK FALSE
