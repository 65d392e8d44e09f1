\* The authentication loop of main.go: one challenger per round, active
\* validators only, nodes sign the bare challenge.
CONSTANTS
  v1 = v1  r1 = r1
  c1 = c1  c2 = c2
  Validators = {v1}
  Rounds = {}
  InitialReputation = 10
  Slashable = {}
  Challengers = {c1}
  MaxChallenges = 2
  Signing = {"raw"}
  MainLoop = {c1}
SPECIFICATION AttestSpec
INVARIANT HonestStayEligible
CHECK_DEADLOCK FALSE
