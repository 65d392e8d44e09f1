\* All pairs of lists of up to seven transactions.
CONSTANTS
  t1 = t1  t2 = t2
  Data = {t1, t2}
  MaxLeaves = 7
SPECIFICATION MerkleSpec
INVARIANTS EveryProofVerifies AcceptedIsThere SameRootSameBlock
CHECK_DEADLOCK FALSE
