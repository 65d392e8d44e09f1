\* A challenger of main.go's loop and one of Blockchain.Start's at the same
\* validator, its answers late, crossing or not signed at all, and a round of
\* consensus beside them.
CONSTANTS
  v1 = v1  r1 = r1
  c1 = c1  c2 = c2
  Validators = {v1}
  Rounds = {r1}
  InitialReputation = 1
  Slashable = {}
  Challengers = {c1, c2}
  MaxChallenges = 2
  Signing = {"digest"}
  MainLoop = {c1}
SPECIFICATION AttestFairSpec
INVARIANTS RejectedOnlyIfOverlapped SettlementsBounded
PROPERTIES ChallengesDrain 
CHECK_DEADLOCK FALSE
