\* Two overlapping rounds of three validators, two of them slashed at any time.
CONSTANTS
  v1 = v1  v2 = v2  v3 = v3
  r1 = r1  r2 = r2
  Validators = {v1, v2, v3}
  Rounds = {r1, r2}
  InitialReputation = 10
  Slashable = {v1, v2}
SPECIFICATION VMSpec
INVARIANTS ScoresKeepFloor QuorumExactWhenStill QuorumShortfallBounded ScoresMirrorReputation
PROPERTY GainIsOneReward
CHECK_DEADLOCK FALSE
