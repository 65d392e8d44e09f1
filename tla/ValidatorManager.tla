-------------------------- MODULE ValidatorManager --------------------------
(***************************************************************************)
(* The ValidatorManager (core/consensus.go): reputations, slashing, the    *)
(* choice of a proposer and dBFT rounds that overlap in time.              *)
(*                                                                         *)
(* MineShardBlock runs once per shard, concurrently, and each run is one   *)
(* element of Rounds: SelectDelegateWithVRF, FinalizeBlockDBFT, and the    *)
(* reward or penalty of its proposer.  A round fixes its threshold under   *)
(* vm.mu, releases the lock, and lets every validator vote from its own    *)
(* goroutine; each vote adds the reputation the validator has by then.     *)
(* The reputations are updated by a goroutine that outlives the call.      *)
(*                                                                         *)
(* Nodes sign with their own keys and vote on the block as it was mined,   *)
(* so the branches for an invalid vote signature, an invalid VRF proof of  *)
(* the chosen proposer and a block hash that does not match are never      *)
(* taken and are left out.  So is Node.TrustScore: it is printed, and      *)
(* otherwise read only by a monitor that nothing calls.                    *)
(***************************************************************************)
EXTENDS Integers, FiniteSets, Functions

CONSTANTS
  Validators,
  Rounds,             \* the calls of MineShardBlock considered
  InitialReputation,  \* BlockchainConfig
  Slashable           \* validators VerifyAndSlash is called for, once each

ASSUME VMAssumption ==
  /\ InitialReputation \in Nat \ {0}
  /\ IsFiniteSet(Validators) /\ Validators # {} /\ Slashable \subseteq Validators
  /\ IsFiniteSet(Rounds)

DbftConsensusReward == 1
DbftConsensusPenalty == -2
SlashPenalty == -20
InactiveBelow == 10     \* "Threshold for slashing"

VARIABLES
  rep,       \* Validator.Reputation
  score,     \* vm.ReputationScores
  active,    \* Validator.IsActive
  slashable, \* slashing calls still to come
  rpc,       \* progress of a round
  proposer,  \* the delegate of a round
  eligible,  \* eligibleValidators of a round
  threshold, \* thresholdReputation
  waiting,   \* validators whose vote is not in
  agreed,    \* keys of agreeingSignatures
  votes,     \* votesReputation
  update,    \* the goroutine that will update the reputations is pending
  base,      \* history: reputations the threshold was computed from
  moved      \* history: some reputation changed while the round was voting

repVars == <<rep, score, active, slashable>>
roundVars == <<rpc, proposer, eligible, threshold, waiting, agreed, votes, update, base>>
vmVars == <<repVars, roundVars, moved>>

RoundSteps == {"idle", "selected", "voting", "reached", "failed", "accepted", "rejected", "over"}

VMTypeOK ==
  /\ rep \in [Validators -> Int] /\ score \in [Validators -> Int]
  /\ active \in [Validators -> BOOLEAN]
  /\ slashable \subseteq Slashable
  /\ rpc \in [Rounds -> RoundSteps]
  /\ proposer \in [Rounds -> Validators]
  /\ eligible \in [Rounds -> SUBSET Validators]
  /\ waiting \in [Rounds -> SUBSET Validators]
  /\ agreed \in [Rounds -> SUBSET Validators]
  /\ threshold \in [Rounds -> Int] /\ votes \in [Rounds -> Int]
  /\ update \in [Rounds -> BOOLEAN] /\ moved \in [Rounds -> BOOLEAN]
  /\ base \in [Rounds -> [Validators -> Int]]

-----------------------------------------------------------------------------
\* NewBlockchain authenticates every node before it adds it, and nothing
\* revokes an authentication.
VMInit ==
  /\ rep = [v \in Validators |-> InitialReputation]
  /\ score = rep
  /\ active = [v \in Validators |-> TRUE]
  /\ slashable = Slashable
  /\ rpc = [r \in Rounds |-> "idle"]
  /\ proposer = [r \in Rounds |-> CHOOSE v \in Validators : TRUE]
  /\ eligible = [r \in Rounds |-> {}]
  /\ waiting = [r \in Rounds |-> {}]
  /\ agreed = [r \in Rounds |-> {}]
  /\ threshold = [r \in Rounds |-> 0]
  /\ votes = [r \in Rounds |-> 0]
  /\ update = [r \in Rounds |-> FALSE]
  /\ base = [r \in Rounds |-> rep]
  /\ moved = [r \in Rounds |-> FALSE]

\* Mutant of AtLeastOne: no floor.
NoFloor(n) == n

AtLeastOne(n) == IF n < 1 THEN 1 ELSE n

GetActiveValidatorsForShard == {v \in Validators : active[v]}

\* floor(total * 2 / 3), and 0 when there is nothing to weigh.  Go's division
\* rounds towards zero.
CalculateAdaptiveThreshold(vs) ==
  LET total == SumFunctionOnSet(rep, vs)
  IN IF total >= 0 THEN (2 * total) \div 3 ELSE -((-2 * total) \div 3)

\* Any change of a reputation while rounds are voting is remembered by them.
RecordMove ==
  moved' = [r \in Rounds |-> moved[r] \/ (rpc[r] = "voting" /\ rep' # rep)]

\* Mutant of UpdateReputation: ReputationScores is not written.
UpdateLiveOnly(v, change) ==
  LET new == AtLeastOne(rep[v] + change) IN
  /\ rep' = [rep EXCEPT ![v] = new]
  /\ active' = [active EXCEPT ![v] = @ /\ ~(change < 0 /\ new < InactiveBelow)]
  /\ RecordMove
  /\ UNCHANGED score

UpdateReputation(v, change) ==
  LET new == AtLeastOne(rep[v] + change) IN
  /\ rep' = [rep EXCEPT ![v] = new]
  /\ score' = [score EXCEPT ![v] = new]
  /\ active' = [active EXCEPT ![v] = @ /\ ~(change < 0 /\ new < InactiveBelow)]
  /\ RecordMove

-----------------------------------------------------------------------------
\* SelectDelegateWithVRF: the lowest VRF output wins, which may be anyone's.
SelectDelegateWithVRF(r) ==
  /\ rpc[r] = "idle"
  /\ \E v \in GetActiveValidatorsForShard : proposer' = [proposer EXCEPT ![r] = v]
  /\ rpc' = [rpc EXCEPT ![r] = "selected"]
  /\ UNCHANGED <<repVars, eligible, threshold, waiting, agreed, votes, update, base, moved>>

NoDelegate(r) ==
  /\ rpc[r] = "idle" /\ GetActiveValidatorsForShard = {}
  /\ rpc' = [rpc EXCEPT ![r] = "over"]
  /\ UNCHANGED <<repVars, proposer, eligible, threshold, waiting, agreed, votes, update, base, moved>>

\* The miner may find no transactions, after it has chosen a proposer.
NothingToMine(r) ==
  /\ rpc[r] = "selected"
  /\ rpc' = [rpc EXCEPT ![r] = "over"]
  /\ UNCHANGED <<repVars, proposer, eligible, threshold, waiting, agreed, votes, update, base, moved>>

\* FinalizeBlockDBFT up to the unlock.  Without eligible validators it fails
\* at once and leaves no goroutine behind.
StartVoting(r) ==
  LET vs == GetActiveValidatorsForShard IN
  /\ rpc[r] = "selected"
  /\ eligible' = [eligible EXCEPT ![r] = vs]
  /\ threshold' = [threshold EXCEPT ![r] = CalculateAdaptiveThreshold(vs)]
  /\ waiting' = [waiting EXCEPT ![r] = vs]
  /\ base' = [base EXCEPT ![r] = rep]
  /\ rpc' = [rpc EXCEPT ![r] = IF vs = {} THEN "failed" ELSE "voting"]
  /\ UNCHANGED <<repVars, proposer, agreed, votes, update, moved>>

VoteYes(r, v) ==
  /\ rpc[r] = "voting" /\ v \in waiting[r]
  /\ waiting' = [waiting EXCEPT ![r] = @ \ {v}]
  /\ agreed' = [agreed EXCEPT ![r] = @ \cup {v}]
  /\ votes' = [votes EXCEPT ![r] = @ + rep[v]]
  /\ UNCHANGED <<repVars, rpc, proposer, eligible, threshold, update, base, moved>>

\* Mutant of VoteNo: the reputation is added whatever the vote.
VoteNoCounts(r, v) ==
  /\ rpc[r] = "voting" /\ v \in waiting[r]
  /\ waiting' = [waiting EXCEPT ![r] = @ \ {v}]
  /\ votes' = [votes EXCEPT ![r] = @ + rep[v]]
  /\ UNCHANGED <<repVars, rpc, proposer, eligible, threshold, agreed, update, base, moved>>

VoteNo(r, v) ==
  /\ rpc[r] = "voting" /\ v \in waiting[r]
  /\ waiting' = [waiting EXCEPT ![r] = @ \ {v}]
  /\ UNCHANGED <<repVars, rpc, proposer, eligible, threshold, agreed, votes, update, base, moved>>

\* Mutants of CloseVote: the threshold itself is enough; waits for signatures
\* instead of votes.
CloseVoteWith(r, closed, reached) ==
  /\ rpc[r] = "voting" /\ closed
  /\ rpc' = [rpc EXCEPT ![r] = IF reached THEN "reached" ELSE "failed"]
  /\ update' = [update EXCEPT ![r] = TRUE]
  /\ UNCHANGED <<repVars, proposer, eligible, threshold, waiting, agreed, votes, base, moved>>

CloseVoteAtThreshold(r) == CloseVoteWith(r, waiting[r] = {}, votes[r] >= threshold[r])
CloseVoteOnSignatures(r) == CloseVoteWith(r, agreed[r] = eligible[r], votes[r] > threshold[r])

\* wg.Wait returns, the votes are compared, the update goroutine is started.
CloseVote(r) ==
  /\ rpc[r] = "voting" /\ waiting[r] = {}
  /\ rpc' = [rpc EXCEPT ![r] = IF votes[r] > threshold[r] THEN "reached" ELSE "failed"]
  /\ update' = [update EXCEPT ![r] = TRUE]
  /\ UNCHANGED <<repVars, proposer, eligible, threshold, waiting, agreed, votes, base, moved>>

Reached(r) == rpc[r] \in {"reached", "accepted"}

OutcomeChange(r, v) ==
  CASE Reached(r) /\ v \in agreed[r]  -> DbftConsensusReward
    [] Reached(r) /\ v \notin agreed[r] -> DbftConsensusPenalty
    [] ~Reached(r) /\ v \notin agreed[r] -> -1
    [] OTHER -> 0

\* Mutant of UpdateReputations: starts from the reputations the round began with.
UpdateFromSnapshot(r) ==
  LET new(v) == AtLeastOne(base[r][v] + OutcomeChange(r, v)) IN
  /\ update[r]
  /\ score' = [v \in Validators |-> IF v \in eligible[r] THEN new(v) ELSE score[v]]
  /\ rep' = [v \in Validators |-> IF v \in eligible[r] THEN new(v) ELSE rep[v]]
  /\ update' = [update EXCEPT ![r] = FALSE]
  /\ RecordMove
  /\ UNCHANGED <<active, slashable, rpc, proposer, eligible, threshold,
                 waiting, agreed, votes, base>>

\* The goroutine starts from ReputationScores and never touches IsActive.
UpdateReputations(r) ==
  LET new(v) == AtLeastOne(score[v] + OutcomeChange(r, v)) IN
  /\ update[r]
  /\ score' = [v \in Validators |-> IF v \in eligible[r] THEN new(v) ELSE score[v]]
  /\ rep' = [v \in Validators |-> IF v \in eligible[r] THEN new(v) ELSE rep[v]]
  /\ update' = [update EXCEPT ![r] = FALSE]
  /\ RecordMove
  /\ UNCHANGED <<active, slashable, rpc, proposer, eligible, threshold,
                 waiting, agreed, votes, base>>

\* MineShardBlock rewards the proposer of a block it appends, ...
RewardProposer(r) ==
  /\ rpc[r] = "reached"
  /\ UpdateReputation(proposer[r], DbftConsensusReward)
  /\ rpc' = [rpc EXCEPT ![r] = "accepted"]
  /\ UNCHANGED <<slashable, proposer, eligible, threshold, waiting,
                 agreed, votes, update, base>>

\* ... not that of a finalized block it discards, ...
DiscardBlock(r) ==
  /\ rpc[r] = "reached"
  /\ rpc' = [rpc EXCEPT ![r] = "accepted"]
  /\ UNCHANGED <<repVars, proposer, eligible, threshold, waiting, agreed, votes,
                 update, base, moved>>

\* ... and penalizes the proposer of a rejected one.
PenalizeProposer(r) ==
  /\ rpc[r] = "failed"
  /\ UpdateReputation(proposer[r], DbftConsensusPenalty)
  /\ rpc' = [rpc EXCEPT ![r] = "rejected"]
  /\ UNCHANGED <<slashable, proposer, eligible, threshold, waiting,
                 agreed, votes, update, base>>

\* VerifyAndSlash: SlashValidator changes Reputation alone, without a floor.
SlashValidator(v) ==
  /\ v \in slashable
  /\ slashable' = slashable \ {v}
  /\ rep' = [rep EXCEPT ![v] = @ + SlashPenalty]
  /\ active' = [active EXCEPT ![v] = @ /\ rep[v] + SlashPenalty >= InactiveBelow]
  /\ RecordMove
  /\ UNCHANGED <<score, roundVars>>

RoundStep(r) ==
  \/ SelectDelegateWithVRF(r) \/ NoDelegate(r)
  \/ NothingToMine(r)
  \/ StartVoting(r)
  \/ \E v \in Validators : VoteYes(r, v) \/ VoteNo(r, v)
  \/ CloseVote(r)
  \/ RewardProposer(r) \/ DiscardBlock(r) \/ PenalizeProposer(r)

VMNext ==
  \/ \E r \in Rounds : RoundStep(r) \/ UpdateReputations(r)
  \/ \E v \in Validators : SlashValidator(v)

VMSpec == VMInit /\ [][VMNext]_vmVars

-----------------------------------------------------------------------------
(***************************************************************************)
(* Properties.                                                             *)
(***************************************************************************)
Decided(r) == rpc[r] \in {"reached", "failed", "accepted", "rejected"} /\ eligible[r] # {}

BaseSum(r, vs) == SumFunctionOnSet(base[r], vs)

\* When no reputation moves while a round is voting, consensus is reached
\* exactly by validators with more than two thirds of the eligible reputation:
\* neither the rounding of the threshold nor the order of the votes matters.
QuorumExactWhenStill ==
  \A r \in Rounds : (Decided(r) /\ ~moved[r] /\ BaseSum(r, eligible[r]) > 0) =>
    (Reached(r) <=> 3 * BaseSum(r, agreed[r]) > 2 * BaseSum(r, eligible[r]))

\* When rounds overlap, the validators that carried a block fell short of two
\* thirds by at most the rewards the other rounds can have paid meanwhile: one
\* to each voter and one to a proposer per round, as long as nobody is slashed.
QuorumShortfallBounded ==
  \A r \in Rounds : (Reached(r) /\ slashable = Slashable) =>
    3 * (BaseSum(r, agreed[r]) + (Cardinality(agreed[r]) + 1) * (Cardinality(Rounds) - 1))
      > 2 * BaseSum(r, eligible[r])

\* Every validator's two records of reputation agree, although one goroutine
\* starts from ReputationScores and every other update from Reputation.
ScoresMirrorReputation ==
  slashable = Slashable => score = rep

\* The recorded scores keep the floor of 1 under any overlap of rewards,
\* penalties and slashing, and so does the live value until it is slashed.
ScoresKeepFloor ==
  \A v \in Validators :
    score[v] >= 1 /\ (v \notin Slashable \ slashable => rep[v] >= 1)

\* Until somebody is slashed, no step gives a validator more than one reward:
\* the goroutine that settles a round never reinstates an older, higher value.
GainIsOneReward ==
  [][slashable = Slashable =>
       \A v \in Validators : rep'[v] <= rep[v] + DbftConsensusReward]_vmVars

-----------------------------------------------------------------------------
\* The goroutines of rounds and those that update the reputations do not all stop
\* for ever.  As each has finitely many steps to take, no more is needed.
VMFairness == WF_vmVars(\E r \in Rounds : RoundStep(r) \/ UpdateReputations(r))

\* Every vote ends, its outcome reaches the reputations and the call returns,
\* even when validators are deactivated while the round is under way.
RoundsSettle ==
  <>[](\A r \in Rounds : rpc[r] \in {"accepted", "rejected", "over"} /\ ~update[r])
=============================================================================
