--------------------------- MODULE ConsensusProofs ---------------------------
(***************************************************************************)
(* What holds of core/consensus.go: of reputations and of the quorum for   *)
(* any number of validators and of overlapping rounds, and of challenge-   *)
(* response authentication with challengers that cross each other.         *)
(* Reputations need no sums, and RepType is all the typing they need;      *)
(* thresholds and votes come after the facts about sums over finite sets;  *)
(* authentication, with consensus rounds beside it, comes last.            *)
(***************************************************************************)
EXTENDS Attestation, FiniteSetTheorems, TLAPS

RepType ==
  /\ rep \in [Validators -> Int] /\ score \in [Validators -> Int]
  /\ slashable \subseteq Slashable
  /\ proposer \in [Rounds -> Validators]

\* The inductive invariant: the two records of reputation and their floors.
RepInv == RepType /\ ScoresMirrorReputation /\ ScoresKeepFloor

\* A new validator manager satisfies the invariant: every validator starts with the
\* same positive reputation in both records.
LEMMA RepInit == VMInit => RepInv
<1> SUFFICES ASSUME VMInit PROVE RepInv
  OBVIOUS
<1>1. RepType
  <2>1. (CHOOSE v \in Validators : TRUE) \in Validators
    BY VMAssumption
  <2> QED BY <2>1, VMAssumption DEF VMInit, RepType
<1>2. ScoresMirrorReputation /\ ScoresKeepFloor
  BY VMAssumption DEF VMInit, ScoresMirrorReputation, ScoresKeepFloor
<1> QED BY <1>1, <1>2 DEF RepInv

\* A direct reward or penalty writes both records from the live value, so it keeps
\* them equal where they were and at least 1.
LEMMA DirectUpdate ==
  ASSUME RepInv, NEW v \in Validators, NEW change \in Int, UpdateReputation(v, change),
         UNCHANGED <<slashable, proposer>>
  PROVE  RepInv'
<1> DEFINE new == AtLeastOne(rep[v] + change)
<1>1. new \in Int /\ new >= 1
  BY DEF RepInv, RepType, AtLeastOne
<1>2. rep' = [rep EXCEPT ![v] = new] /\ score' = [score EXCEPT ![v] = new]
  BY DEF UpdateReputation
<1> HIDE DEF new
<1>3. RepType'
  BY <1>1, <1>2 DEF RepInv, RepType
<1>4. ScoresMirrorReputation'
  BY <1>2 DEF RepInv, RepType, ScoresMirrorReputation
<1>5. ScoresKeepFloor'
  BY <1>1, <1>2 DEF RepInv, RepType, ScoresKeepFloor
<1> QED BY <1>3, <1>4, <1>5 DEF RepInv

\* The goroutine that settles a round writes both records from ReputationScores:
\* equal wherever it writes, and at least 1.
LEMMA RoundUpdate ==
  ASSUME RepInv, NEW r \in Rounds, UpdateReputations(r)
  PROVE  RepInv'
<1> DEFINE new(v) == AtLeastOne(score[v] + OutcomeChange(r, v))
<1>1. \A v \in Validators : new(v) \in Int /\ new(v) >= 1
  <2>1. \A v \in Validators : OutcomeChange(r, v) \in Int
    BY DEF OutcomeChange, DbftConsensusReward, DbftConsensusPenalty
  <2>2. \A v \in Validators : score[v] \in Int
    BY DEF RepInv, RepType
  <2> QED BY <2>1, <2>2 DEF AtLeastOne
<1>2. /\ score' = [v \in Validators |-> IF v \in eligible[r] THEN new(v) ELSE score[v]]
      /\ rep' = [v \in Validators |-> IF v \in eligible[r] THEN new(v) ELSE rep[v]]
      /\ UNCHANGED <<slashable, proposer>>
  BY DEF UpdateReputations
<1> HIDE DEF new
<1>3. RepType'
  BY <1>1, <1>2 DEF RepInv, RepType
<1>4. ScoresMirrorReputation'
  BY <1>2 DEF RepInv, RepType, ScoresMirrorReputation
<1>5. ScoresKeepFloor'
  BY <1>1, <1>2 DEF RepInv, RepType, ScoresKeepFloor
<1> QED BY <1>3, <1>4, <1>5 DEF RepInv

\* Slashing writes the live value alone, and from then on neither claim is made for
\* the slashed validator's live value.
LEMMA Slash ==
  ASSUME RepInv, NEW v \in Validators, SlashValidator(v)
  PROVE  RepInv'
<1>1. /\ v \in slashable /\ slashable' = slashable \ {v} /\ UNCHANGED <<score, proposer>>
      /\ rep' = [rep EXCEPT ![v] = rep[v] - 20]
  BY DEF SlashValidator, SlashPenalty, roundVars, RepInv, RepType
<1>2. RepType'
  BY <1>1 DEF RepInv, RepType
<1>3. ScoresMirrorReputation'
  BY <1>1 DEF RepInv, RepType, ScoresMirrorReputation
<1>4. ScoresKeepFloor'
  BY <1>1 DEF RepInv, RepType, ScoresKeepFloor
<1> QED BY <1>2, <1>3, <1>4 DEF RepInv

\* Every step of every round and every slashing preserves the invariant.
LEMMA RepStep == RepInv /\ [VMNext]_vmVars => RepInv'
<1> SUFFICES ASSUME RepInv, [VMNext]_vmVars PROVE RepInv'
  OBVIOUS
<1>1. CASE UNCHANGED <<rep, score, slashable, proposer>>
  BY <1>1 DEF RepInv, RepType, ScoresMirrorReputation, ScoresKeepFloor
<1>2. ASSUME NEW r \in Rounds, SelectDelegateWithVRF(r) PROVE RepInv'
  <2>1. proposer' \in [Rounds -> Validators]
    BY <1>2 DEF SelectDelegateWithVRF, GetActiveValidatorsForShard, RepInv, RepType
  <2> QED BY <1>2, <2>1 DEF SelectDelegateWithVRF, repVars, RepInv, RepType,
                            ScoresMirrorReputation, ScoresKeepFloor
<1>3. ASSUME NEW r \in Rounds, RewardProposer(r) \/ PenalizeProposer(r) PROVE RepInv'
  <2>1. proposer[r] \in Validators
    BY <1>3 DEF RepInv, RepType
  <2>2. DbftConsensusReward \in Int /\ DbftConsensusPenalty \in Int
    BY DEF DbftConsensusReward, DbftConsensusPenalty
  <2> QED BY <1>3, <2>1, <2>2, DirectUpdate DEF RewardProposer, PenalizeProposer
<1>4. ASSUME NEW r \in Rounds, UpdateReputations(r) PROVE RepInv'
  BY <1>4, RoundUpdate
<1>5. ASSUME NEW v \in Validators, SlashValidator(v) PROVE RepInv'
  BY <1>5, Slash
<1>6. \/ UNCHANGED <<rep, score, slashable, proposer>>
      \/ \E r \in Rounds : \/ SelectDelegateWithVRF(r) \/ RewardProposer(r) \/ PenalizeProposer(r)
                           \/ UpdateReputations(r)
      \/ \E v \in Validators : SlashValidator(v)
  BY DEF VMNext, RoundStep, NoDelegate, NothingToMine, StartVoting, VoteYes, VoteNo, CloseVote,
         DiscardBlock, vmVars, repVars, roundVars
<1> QED BY <1>1, <1>2, <1>3, <1>4, <1>5, <1>6

\* The invariant holds in every reachable state of the ValidatorManager.
THEOREM RepInvariant == VMSpec => []RepInv
<1> QED BY RepInit, RepStep, PTL DEF VMSpec

\* Until the first slashing the two records of every reputation agree, although one
\* goroutine computes from one of them and every other update from the other.
THEOREM RecordsAgree == VMSpec => []ScoresMirrorReputation
<1>1. RepInv => ScoresMirrorReputation
  BY DEF RepInv
<1> QED BY <1>1, RepInvariant, PTL

\* Recorded scores never fall below 1, and neither does the live reputation of a
\* validator that is not slashed, however rounds overlap.
THEOREM FloorHolds == VMSpec => []ScoresKeepFloor
<1>1. RepInv => ScoresKeepFloor
  BY DEF RepInv
<1> QED BY <1>1, RepInvariant, PTL

\* Until somebody is slashed, no step gives a validator more than the reward of one round: the
\* goroutine's update never reinstates an older, higher value.
THEOREM GainIsBounded == VMSpec => GainIsOneReward
<1>1. ASSUME RepInv, slashable = Slashable, [VMNext]_vmVars, NEW v \in Validators
      PROVE  rep'[v] <= rep[v] + DbftConsensusReward
  <2>1. /\ score = rep /\ rep \in [Validators -> Int] /\ rep[v] \in Int /\ rep[v] >= 1
    BY <1>1 DEF RepInv, RepType, ScoresMirrorReputation, ScoresKeepFloor
  <2>2. CASE UNCHANGED rep
    BY <2>1, <2>2 DEF DbftConsensusReward
  <2>3. ASSUME NEW w \in Validators, NEW change \in {1, -2}, UpdateReputation(w, change)
        PROVE  rep'[v] <= rep[v] + DbftConsensusReward
    BY <2>1, <2>3 DEF UpdateReputation, AtLeastOne, DbftConsensusReward
  <2>4. ASSUME NEW r \in Rounds, UpdateReputations(r)
        PROVE  rep'[v] <= rep[v] + DbftConsensusReward
    <3>1. OutcomeChange(r, v) \in {1, -2, -1, 0}
      BY DEF OutcomeChange, DbftConsensusReward, DbftConsensusPenalty
    <3>2. rep'[v] = rep[v] \/ rep'[v] = AtLeastOne(rep[v] + OutcomeChange(r, v))
      BY <2>1, <2>4 DEF UpdateReputations
    <3> QED BY <2>1, <3>1, <3>2 DEF AtLeastOne, DbftConsensusReward
  <2>5. ASSUME NEW w \in Validators, SlashValidator(w)
        PROVE  rep'[v] <= rep[v] + DbftConsensusReward
    BY <2>1, <2>5 DEF SlashValidator, SlashPenalty, DbftConsensusReward
  <2>6. ASSUME NEW r \in Rounds, RewardProposer(r) \/ PenalizeProposer(r)
        PROVE  rep'[v] <= rep[v] + DbftConsensusReward
    <3>1. proposer[r] \in Validators
      BY <1>1, <2>6 DEF RepInv, RepType
    <3>2. UpdateReputation(proposer[r], 1) \/ UpdateReputation(proposer[r], -2)
      BY <2>6 DEF RewardProposer, PenalizeProposer, DbftConsensusReward, DbftConsensusPenalty
    <3> QED BY <2>3, <3>1, <3>2
  <2>7. \/ UNCHANGED rep
        \/ \E r \in Rounds : RewardProposer(r) \/ PenalizeProposer(r) \/ UpdateReputations(r)
        \/ \E w \in Validators : SlashValidator(w)
    BY <1>1 DEF VMNext, RoundStep, SelectDelegateWithVRF, NoDelegate, NothingToMine, StartVoting,
       VoteYes, VoteNo, CloseVote, DiscardBlock, vmVars, repVars
  <2> QED BY <2>2, <2>4, <2>5, <2>6, <2>7
<1>2. RepInv /\ [VMNext]_vmVars =>
        [slashable = Slashable =>
           \A v \in Validators : rep'[v] <= rep[v] + DbftConsensusReward]_vmVars
  BY <1>1
<1> QED BY <1>2, RepInvariant, PTL DEF VMSpec, GainIsOneReward

-----------------------------------------------------------------------------
(***************************************************************************)
(* Sums over finite sets.  SumFunctionOnSet takes its elements in the      *)
(* order of a CHOOSE; what is needed of it is that the order is irrelevant.*)
(* Each induction is the absence of a minimal counterexample (WFMin).      *)
(***************************************************************************)

\* A set of finite sets with a member has one without proper subsets in it.
LEMMA MinimalSet ==
  ASSUME NEW S, IsFiniteSet(S), NEW T \in SUBSET (SUBSET S), T # {}
  PROVE  \E m \in T : \A s \in T : ~(s \subseteq m /\ s # m)
<1>1. T \subseteq FiniteSubsetsOf(S)
  BY FS_Subset DEF FiniteSubsetsOf
<1>2. IsWellFoundedOn(StrictSubsetOrdering(S), FiniteSubsetsOf(S))
  BY FS_StrictSubsetOrderingWellFounded
<1>3. PICK m \in T : \A s \in T : <<s, m>> \notin StrictSubsetOrdering(S)
  BY <1>1, <1>2, WFMin
<1>4. \A s \in T : ~(s \subseteq m /\ s # m)
  BY <1>3 DEF StrictSubsetOrdering
<1> QED BY <1>4

Picked(s) == CHOOSE x \in s : TRUE
Rest(s) == s \ {Picked(s)}

\* One level of the recursion that SumFunctionOnSet stands for.
Summed(f, g, s) == IF s = {} THEN 0 ELSE f[Picked(s)] + g[Rest(s)]
Sums(f, g, S) == [s \in SUBSET S |-> Summed(f, g, s)]
SumTable(f, S) == CHOOSE g : g = Sums(f, g, S)

\* The fold of the community modules is that table.
LEMMA SumUnfolded == ASSUME NEW f, NEW S PROVE SumFunctionOnSet(f, S) = SumTable(f, S)[S]
<1> QED BY Zenon DEF SumFunctionOnSet, FoldFunctionOnSet, MapThenFoldSet, SumTable, Sums, Summed,
                     Picked, Rest

\* A non-empty set of naturals has a least member.
LEMMA LeastMember ==
  ASSUME NEW T \in SUBSET Nat, T # {}
  PROVE  \E m \in T : \A k \in T : m <= k
<1>1. IsWellFoundedOn(OpToRel(<, Nat), Nat)
  BY NatLessThanWellFounded
<1>2. PICK m \in T : \A k \in T : <<k, m>> \notin OpToRel(<, Nat)
  BY <1>1, WFMin
<1>3. \A k \in T : ~(k < m)
  BY <1>2 DEF OpToRel
<1> QED BY <1>3

\* The rest of a set is smaller.
LEMMA RestSmaller ==
  ASSUME NEW S, IsFiniteSet(S), S # {}
  PROVE  /\ Picked(S) \in S /\ Rest(S) \subseteq S /\ Rest(S) # S /\ IsFiniteSet(Rest(S))
         /\ Cardinality(S) \in Nat /\ Cardinality(Rest(S)) \in Nat
         /\ Cardinality(Rest(S)) < Cardinality(S)
<1>1. Picked(S) \in S
  BY DEF Picked
<1>2. IsFiniteSet(Rest(S)) /\ Cardinality(Rest(S)) = Cardinality(S) - 1
  BY <1>1, FS_RemoveElement DEF Rest
<1>3. Cardinality(S) \in Nat /\ Cardinality(Rest(S)) \in Nat
  BY <1>2, FS_CardinalityType
<1> QED BY <1>1, <1>2, <1>3 DEF Rest

\* The recursion has a solution: one for the subsets smaller than n gives one for
\* those smaller than n + 1.
LEMMA SumsExist ==
  ASSUME NEW f, NEW S, IsFiniteSet(S)
  PROVE  SumTable(f, S) = Sums(f, SumTable(f, S), S)
<1> DEFINE Below(n) == {s \in SUBSET S : Cardinality(s) < n}
           Solved(n) == \E g : \A s \in Below(n) : g[s] = Summed(f, g, s)
           Bad == {n \in Nat : ~Solved(n)}
<1>1. \A s \in SUBSET S : IsFiniteSet(s) /\ Cardinality(s) \in Nat
  BY FS_Subset, FS_CardinalityType
<1>2. Solved(0)
  BY <1>1
<1>3. ASSUME NEW n \in Nat, Solved(n) PROVE Solved(n + 1)
  <2>1. PICK g : \A s \in Below(n) : g[s] = Summed(f, g, s)
    BY <1>3
  <2> DEFINE h == Sums(f, g, S)
  <2>2. \A s \in SUBSET S : h[s] = Summed(f, g, s)
    BY DEF Sums
  <2> HIDE DEF h
  <2>3. ASSUME NEW s \in Below(n + 1) PROVE h[s] = Summed(f, h, s)
    <3>1. CASE s = {}
      BY <2>2, <3>1 DEF Summed
    <3>2. CASE s # {}
      <4>1. IsFiniteSet(s) /\ s \in SUBSET S
        BY <1>1
      <4>2. Rest(s) \in SUBSET S /\ Cardinality(Rest(s)) \in Nat /\ Cardinality(s) \in Nat
            /\ Cardinality(Rest(s)) < Cardinality(s)
        BY <3>2, <4>1, RestSmaller
      <4>3. Rest(s) \in Below(n)
        BY <4>2
      <4>4. g[Rest(s)] = h[Rest(s)]
        BY <2>1, <2>2, <4>2, <4>3
      <4> QED BY <2>2, <3>2, <4>1, <4>4 DEF Summed
    <3> QED BY <3>1, <3>2
  <2> QED BY <2>3
<1>4. Bad = {}
  <2> SUFFICES ASSUME Bad # {} PROVE FALSE
    OBVIOUS
  <2>1. PICK m \in Bad : \A k \in Bad : m <= k
    <3> HIDE DEF Solved
    <3>1. Bad \in SUBSET Nat
      OBVIOUS
    <3> HIDE DEF Bad
    <3> QED BY <3>1, LeastMember
  <2> HIDE DEF Solved
  <2>2. m \in Nat /\ m # 0 /\ ~Solved(m)
    BY <1>2, <2>1
  <2>3. m - 1 \in Nat /\ Solved(m - 1)
    BY <2>1, <2>2
  <2>4. Solved(m)
    BY <1>3, <2>2, <2>3
  <2> QED BY <2>2, <2>4
<1>5. Cardinality(S) \in Nat /\ \A s \in SUBSET S : Cardinality(s) < Cardinality(S) + 1
  BY <1>1, FS_Subset, FS_CardinalityType
<1>6. Solved(Cardinality(S) + 1)
  <2> HIDE DEF Solved
  <2> QED BY <1>4, <1>5
<1>7. PICK g : \A s \in SUBSET S : g[s] = Summed(f, g, s)
  BY <1>5, <1>6
<1>8. \A s \in SUBSET S : Rest(s) \in SUBSET S
  BY DEF Rest
<1> DEFINE h == Sums(f, g, S)
<1>9. \A s \in SUBSET S : h[s] = g[s]
  BY <1>7 DEF Sums
<1>10. \A s \in SUBSET S : Summed(f, g, s) = Summed(f, h, s)
  BY <1>8, <1>9 DEF Summed
<1>11. h = Sums(f, h, S)
  BY <1>10 DEF Sums
<1> HIDE DEF h
<1> QED BY <1>11 DEF SumTable

\* Tables over different sets agree where both are defined.
LEMMA TablesAgree ==
  ASSUME NEW f, NEW S, IsFiniteSet(S), NEW U \in SUBSET S
  PROVE  SumTable(f, U)[U] = SumTable(f, S)[U]
<1> DEFINE a == SumTable(f, U)
           b == SumTable(f, S)
           Bad == {s \in SUBSET U : a[s] # b[s]}
<1>1. IsFiniteSet(U)
  BY FS_Subset
<1>2. a = Sums(f, a, U) /\ b = Sums(f, b, S)
  BY <1>1, SumsExist
<1>3. \A s \in SUBSET U : a[s] = Summed(f, a, s) /\ b[s] = Summed(f, b, s)
  <2> HIDE DEF a, b
  <2>1. \A s \in SUBSET U : Sums(f, a, U)[s] = Summed(f, a, s)
                            /\ Sums(f, b, S)[s] = Summed(f, b, s)
    BY DEF Sums
  <2> QED BY <1>2, <2>1
<1> HIDE DEF a, b
<1>4. Bad = {}
  <2> SUFFICES ASSUME Bad # {} PROVE FALSE
    OBVIOUS
  <2>1. PICK m \in Bad : \A s \in Bad : ~(s \subseteq m /\ s # m)
    <3>1. Bad \in SUBSET (SUBSET U)
      OBVIOUS
    <3> HIDE DEF Bad
    <3> QED BY <1>1, <3>1, MinimalSet
  <2>2. CASE m = {}
    BY <1>3, <2>2 DEF Summed
  <2>3. CASE m # {}
    <3>1. IsFiniteSet(m)
      BY <1>1, FS_Subset
    <3>2. Rest(m) \subseteq m /\ Rest(m) # m
      BY <2>3, <3>1, RestSmaller
    <3>3. a[Rest(m)] = b[Rest(m)]
      BY <2>1, <3>2
    <3> QED BY <1>3, <2>3, <3>3 DEF Summed
  <2> QED BY <2>2, <2>3
<1>5. U \in SUBSET U
  OBVIOUS
<1> QED BY <1>4, <1>5 DEF a, b

\* The recursion equation of sums.
LEMMA SumEquation ==
  ASSUME NEW f, NEW S, IsFiniteSet(S)
  PROVE  SumFunctionOnSet(f, S) =
           IF S = {} THEN 0 ELSE f[Picked(S)] + SumFunctionOnSet(f, Rest(S))
<1> DEFINE b == SumTable(f, S)
<1>1. b = Sums(f, b, S)
  BY SumsExist
<1>2. b[S] = Summed(f, b, S)
  <2> HIDE DEF b
  <2>1. Sums(f, b, S)[S] = Summed(f, b, S)
    BY DEF Sums
  <2> QED BY <1>1, <2>1
<1>3. SumTable(f, Rest(S))[Rest(S)] = b[Rest(S)]
  <2>1. Rest(S) \in SUBSET S
    BY DEF Rest
  <2> QED BY <2>1, TablesAgree
<1>4. SumFunctionOnSet(f, S) = b[S] /\ SumFunctionOnSet(f, Rest(S)) = SumTable(f, Rest(S))[Rest(S)]
  BY SumUnfolded
<1> HIDE DEF b
<1> QED BY <1>2, <1>3, <1>4 DEF Summed

\* A sum of integers is an integer.
LEMMA SumIsInt ==
  ASSUME NEW S, IsFiniteSet(S), NEW f, \A x \in S : f[x] \in Int
  PROVE  SumFunctionOnSet(f, S) \in Int
<1> DEFINE Bad == {s \in SUBSET S : SumFunctionOnSet(f, s) \notin Int}
<1>1. Bad = {}
  <2> SUFFICES ASSUME Bad # {} PROVE FALSE
    OBVIOUS
  <2>1. PICK m \in Bad : \A s \in Bad : ~(s \subseteq m /\ s # m)
    <3>1. Bad \in SUBSET (SUBSET S)
      OBVIOUS
    <3> HIDE DEF Bad
    <3> QED BY <3>1, MinimalSet
  <2>2. IsFiniteSet(m)
    BY FS_Subset
  <2>3. SumFunctionOnSet(f, m) =
          IF m = {} THEN 0 ELSE f[Picked(m)] + SumFunctionOnSet(f, Rest(m))
    BY <2>2, SumEquation
  <2>4. CASE m # {}
    <3>1. Picked(m) \in S /\ Rest(m) \in SUBSET S /\ Rest(m) \subseteq m /\ Rest(m) # m
      BY <2>2, <2>4, RestSmaller
    <3>2. SumFunctionOnSet(f, Rest(m)) \in Int
      BY <2>1, <3>1
    <3> QED BY <2>1, <2>3, <2>4, <3>1, <3>2
  <2> QED BY <2>1, <2>3, <2>4
<1>2. S \in SUBSET S
  OBVIOUS
<1> QED BY <1>1, <1>2

\* Any member may be taken out first.
LEMMA SumWithout ==
  ASSUME NEW S, IsFiniteSet(S), NEW f, \A x \in S : f[x] \in Int, NEW v \in S
  PROVE  SumFunctionOnSet(f, S) = f[v] + SumFunctionOnSet(f, S \ {v})
<1> DEFINE Bad == {s \in SUBSET S : \E x \in s : SumFunctionOnSet(f, s) #
                                                  f[x] + SumFunctionOnSet(f, s \ {x})}
<1>1. Bad = {}
  <2> SUFFICES ASSUME Bad # {} PROVE FALSE
    OBVIOUS
  <2>1. PICK m \in Bad : \A s \in Bad : ~(s \subseteq m /\ s # m)
    <3>1. Bad \in SUBSET (SUBSET S)
      OBVIOUS
    <3> HIDE DEF Bad
    <3> QED BY <3>1, MinimalSet
  <2>2. PICK x \in m : SumFunctionOnSet(f, m) # f[x] + SumFunctionOnSet(f, m \ {x})
    BY <2>1
  <2> DEFINE c == Picked(m)
  <2>3. m \in SUBSET S /\ IsFiniteSet(m) /\ c \in m /\ m # {}
    <3>1. m \in SUBSET S /\ m # {}
      BY <2>1, <2>2
    <3>2. IsFiniteSet(m)
      BY <3>1, FS_Subset
    <3> QED BY <3>1, <3>2, RestSmaller
  <2>4. SumFunctionOnSet(f, m) = f[c] + SumFunctionOnSet(f, m \ {c})
    BY <2>3, SumEquation DEF Rest
  <2> HIDE DEF c
  <2>5. c # x
    BY <2>2, <2>4
  <2>6. m \ {c} \notin Bad /\ m \ {x} \notin Bad
    <3>1. m \ {c} \subseteq m /\ m \ {c} # m /\ m \ {x} \subseteq m /\ m \ {x} # m
      BY <2>3
    <3> HIDE DEF Bad
    <3> QED BY <2>1, <3>1
  <2>7. SumFunctionOnSet(f, m \ {c}) = f[x] + SumFunctionOnSet(f, (m \ {c}) \ {x})
    BY <2>3, <2>5, <2>6
  <2>8. SumFunctionOnSet(f, m \ {x}) = f[c] + SumFunctionOnSet(f, (m \ {x}) \ {c})
    BY <2>3, <2>5, <2>6
  <2>9. (m \ {c}) \ {x} = (m \ {x}) \ {c}
    OBVIOUS
  <2>10. f[x] \in Int /\ f[c] \in Int
    BY <2>3
  <2>11. SumFunctionOnSet(f, (m \ {c}) \ {x}) \in Int
    <3>1. (m \ {c}) \ {x} \subseteq S
      BY <2>3
    <3>2. IsFiniteSet((m \ {c}) \ {x})
      BY <3>1, FS_Subset
    <3> QED BY <3>1, <3>2, SumIsInt
  <2> QED BY <2>2, <2>4, <2>7, <2>8, <2>9, <2>10, <2>11
<1>2. S \in SUBSET S
  OBVIOUS
<1> QED BY <1>1, <1>2

\* Before the first vote the sum is empty.
LEMMA SumOfNothing == ASSUME NEW f PROVE SumFunctionOnSet(f, {}) = 0
<1> QED BY FS_EmptySet, SumEquation

\* One member more adds its value.
LEMMA SumWith ==
  ASSUME NEW S, IsFiniteSet(S), NEW f, NEW v, v \notin S, \A x \in S \cup {v} : f[x] \in Int
  PROVE  SumFunctionOnSet(f, S \cup {v}) = SumFunctionOnSet(f, S) + f[v]
<1>1. IsFiniteSet(S \cup {v})
  BY FS_AddElement
<1>2. (S \cup {v}) \ {v} = S
  OBVIOUS
<1>3. SumFunctionOnSet(f, S \cup {v}) = f[v] + SumFunctionOnSet(f, (S \cup {v}) \ {v})
  BY <1>1, SumWithout
<1>4. SumFunctionOnSet(f, S) \in Int
  BY SumIsInt
<1>5. SumFunctionOnSet(f, S \cup {v}) = f[v] + SumFunctionOnSet(f, S)
  BY <1>2, <1>3
<1> QED BY <1>4, <1>5

-----------------------------------------------------------------------------
(***************************************************************************)
(* Thresholds and votes.                                                   *)
(***************************************************************************)

\* floor(total * 2 / 3) where there is something to weigh.
TwoThirds(total) == IF total >= 0 THEN (2 * total) \div 3 ELSE -((-2 * total) \div 3)

DecidedSteps == {"reached", "failed", "accepted", "rejected"}

\* A round that has fixed its threshold.
Weighed(r) == rpc[r] = "voting" \/ (rpc[r] \in DecidedSteps /\ eligible[r] # {})

\* What a round knows.  As long as no reputation has moved while it votes, it counts
\* the reputations its threshold was computed from.
RoundOK(r) ==
  /\ agreed[r] \subseteq eligible[r] /\ waiting[r] \subseteq eligible[r]
  /\ agreed[r] \cap waiting[r] = {}
  /\ rpc[r] \in {"idle", "selected"} => agreed[r] = {} /\ votes[r] = 0
  /\ update[r] => rpc[r] \in DecidedSteps
  /\ rpc[r] \in {"voting", "reached", "accepted"} => eligible[r] # {}
  /\ Weighed(r) => threshold[r] = TwoThirds(BaseSum(r, eligible[r]))
  /\ rpc[r] = "voting" /\ ~moved[r] => rep = base[r]
  /\ Weighed(r) /\ ~moved[r] => votes[r] = BaseSum(r, agreed[r])
  /\ Decided(r) => (Reached(r) <=> votes[r] > threshold[r])

QuorumInv == \A r \in Rounds : RoundOK(r)

\* Two thirds of an integer, rounded towards zero.
LEMMA TwoThirdsBounds ==
  ASSUME NEW total \in Int
  PROVE  /\ TwoThirds(total) \in Int
         /\ 3 * TwoThirds(total) >= 2 * total - 2
         /\ total >= 0 => 3 * TwoThirds(total) <= 2 * total
         /\ \A n \in Int : n > TwoThirds(total) => 3 * n > 2 * total
<1>1. CASE total >= 0
  <2>1. (2 * total) \div 3 \in Int /\ 3 * ((2 * total) \div 3) <= 2 * total
        /\ 2 * total < 3 * ((2 * total) \div 3) + 3
    OBVIOUS
  <2> QED BY <1>1, <2>1 DEF TwoThirds
<1>2. CASE total < 0
  <2> DEFINE n == -2 * total
  <2>1. n \in Int /\ n >= 0 /\ n = -(2 * total)
    BY <1>2
  <2> HIDE DEF n
  <2>2. n \div 3 \in Int /\ 3 * (n \div 3) <= n /\ n < 3 * (n \div 3) + 3
    BY <2>1
  <2>3. TwoThirds(total) = -(n \div 3)
    BY <1>2 DEF TwoThirds, n
  <2> QED BY <1>2, <2>1, <2>2, <2>3
<1> QED BY <1>1, <1>2

\* Every variable has its type; thresholds and votes are integers because sums are.
LEMMA VMTypeStep == VMTypeOK /\ [VMNext]_vmVars => VMTypeOK'
<1> SUFFICES ASSUME VMTypeOK, [VMNext]_vmVars PROVE VMTypeOK'
  OBVIOUS
<1>1. CASE UNCHANGED vmVars
  BY <1>1 DEF vmVars, repVars, roundVars, VMTypeOK
<1>2. ASSUME NEW v \in Validators, NEW change \in Int, UpdateReputation(v, change)
      PROVE  /\ rep' \in [Validators -> Int] /\ score' \in [Validators -> Int]
             /\ active' \in [Validators -> BOOLEAN] /\ moved' \in [Rounds -> BOOLEAN]
  <2> DEFINE new == AtLeastOne(rep[v] + change)
  <2>1. new \in Int
    BY DEF AtLeastOne, VMTypeOK
  <2>2. rep' = [rep EXCEPT ![v] = new] /\ score' = [score EXCEPT ![v] = new]
    BY <1>2 DEF UpdateReputation
  <2> HIDE DEF new
  <2>3. rep' \in [Validators -> Int] /\ score' \in [Validators -> Int]
    BY <2>1, <2>2 DEF VMTypeOK
  <2>4. active' \in [Validators -> BOOLEAN]
    BY <1>2, Zenon DEF UpdateReputation, VMTypeOK
  <2>5. moved' \in [Rounds -> BOOLEAN]
    BY <1>2, Zenon DEF UpdateReputation, RecordMove, VMTypeOK
  <2> QED BY <2>3, <2>4, <2>5
<1>3. ASSUME NEW r \in Rounds, SelectDelegateWithVRF(r) PROVE VMTypeOK'
  BY <1>3 DEF SelectDelegateWithVRF, GetActiveValidatorsForShard, RoundSteps, repVars, VMTypeOK
<1>4. ASSUME NEW r \in Rounds, NoDelegate(r) \/ NothingToMine(r) \/ DiscardBlock(r) PROVE VMTypeOK'
  BY <1>4 DEF NoDelegate, NothingToMine, DiscardBlock, RoundSteps, repVars, VMTypeOK
<1>5. ASSUME NEW r \in Rounds, StartVoting(r) PROVE VMTypeOK'
  <2> DEFINE vs == GetActiveValidatorsForShard
  <2>1. vs \in SUBSET Validators
    BY DEF GetActiveValidatorsForShard
  <2>2. IsFiniteSet(vs) /\ \A v \in vs : rep[v] \in Int
    BY <2>1, VMAssumption, FS_Subset DEF VMTypeOK
  <2>3. SumFunctionOnSet(rep, vs) \in Int
    BY <2>2, SumIsInt
  <2>4. CalculateAdaptiveThreshold(vs) \in Int
    BY <2>3, TwoThirdsBounds DEF CalculateAdaptiveThreshold, TwoThirds
  <2>5. threshold' = [threshold EXCEPT ![r] = CalculateAdaptiveThreshold(vs)]
    BY <1>5 DEF StartVoting
  <2>6. threshold' \in [Rounds -> Int]
    BY <2>4, <2>5 DEF VMTypeOK
  <2>7. eligible' \in [Rounds -> SUBSET Validators] /\ waiting' \in [Rounds -> SUBSET Validators]
    BY <1>5, <2>1 DEF StartVoting, VMTypeOK
  <2>8. base' \in [Rounds -> [Validators -> Int]] /\ rpc' \in [Rounds -> RoundSteps]
    BY <1>5 DEF StartVoting, RoundSteps, VMTypeOK
  <2> QED BY <1>5, <2>6, <2>7, <2>8 DEF StartVoting, repVars, VMTypeOK
<1>6. ASSUME NEW r \in Rounds, NEW v \in Validators, VoteYes(r, v) \/ VoteNo(r, v)
      PROVE  VMTypeOK'
  <2>1. waiting' \in [Rounds -> SUBSET Validators]
    <3>1. waiting' = [waiting EXCEPT ![r] = waiting[r] \ {v}]
      BY <1>6 DEF VoteYes, VoteNo
    <3> QED BY <3>1 DEF VMTypeOK
  <2>2. agreed' \in [Rounds -> SUBSET Validators] /\ votes' \in [Rounds -> Int]
    <3>1. rep[v] \in Int
      BY DEF VMTypeOK
    <3>2. CASE VoteYes(r, v)
      BY <3>1, <3>2 DEF VoteYes, VMTypeOK
    <3>3. CASE VoteNo(r, v)
      BY <3>3 DEF VoteNo, VMTypeOK
    <3> QED BY <1>6, <3>2, <3>3
  <2> QED BY <1>6, <2>1, <2>2 DEF VoteYes, VoteNo, repVars, VMTypeOK
<1>7. ASSUME NEW r \in Rounds, CloseVote(r) PROVE VMTypeOK'
  BY <1>7 DEF CloseVote, RoundSteps, repVars, VMTypeOK
<1>8. ASSUME NEW r \in Rounds, RewardProposer(r) \/ PenalizeProposer(r) PROVE VMTypeOK'
  <2>1. proposer[r] \in Validators
    BY DEF VMTypeOK
  <2>2. \E change \in Int : UpdateReputation(proposer[r], change)
    BY <1>8 DEF RewardProposer, PenalizeProposer, DbftConsensusReward, DbftConsensusPenalty
  <2>3. /\ rep' \in [Validators -> Int] /\ score' \in [Validators -> Int]
        /\ active' \in [Validators -> BOOLEAN] /\ moved' \in [Rounds -> BOOLEAN]
    BY <1>2, <2>1, <2>2
  <2>4. rpc' \in [Rounds -> RoundSteps]
    BY <1>8 DEF RewardProposer, PenalizeProposer, RoundSteps, VMTypeOK
  <2> QED BY <1>8, <2>3, <2>4 DEF RewardProposer, PenalizeProposer, VMTypeOK
<1>9. ASSUME NEW r \in Rounds, UpdateReputations(r) PROVE VMTypeOK'
  <2> DEFINE new(v) == AtLeastOne(score[v] + OutcomeChange(r, v))
  <2>1. \A v \in Validators : new(v) \in Int
    <3>1. \A v \in Validators : OutcomeChange(r, v) \in Int /\ score[v] \in Int
      BY DEF OutcomeChange, DbftConsensusReward, DbftConsensusPenalty, VMTypeOK
    <3> QED BY <3>1 DEF AtLeastOne
  <2>2. /\ score' = [v \in Validators |-> IF v \in eligible[r] THEN new(v) ELSE score[v]]
        /\ rep' = [v \in Validators |-> IF v \in eligible[r] THEN new(v) ELSE rep[v]]
    BY <1>9 DEF UpdateReputations
  <2> HIDE DEF new
  <2>3. rep' \in [Validators -> Int] /\ score' \in [Validators -> Int]
    BY <2>1, <2>2 DEF VMTypeOK
  <2>4. update' \in [Rounds -> BOOLEAN]
    BY <1>9 DEF UpdateReputations, VMTypeOK
  <2>5. moved' \in [Rounds -> BOOLEAN]
    BY <1>9, Zenon DEF UpdateReputations, RecordMove, VMTypeOK
  <2> QED BY <1>9, <2>3, <2>4, <2>5 DEF UpdateReputations, VMTypeOK
<1>10. ASSUME NEW v \in Validators, SlashValidator(v) PROVE VMTypeOK'
  <2>1. rep' \in [Validators -> Int]
    BY <1>10 DEF SlashValidator, SlashPenalty, VMTypeOK
  <2>2. active' \in [Validators -> BOOLEAN]
    BY <1>10, Zenon DEF SlashValidator, VMTypeOK
  <2>3. moved' \in [Rounds -> BOOLEAN]
    BY <1>10, Zenon DEF SlashValidator, RecordMove, VMTypeOK
  <2> QED BY <1>10, <2>1, <2>2, <2>3 DEF SlashValidator, roundVars, VMTypeOK
<1> QED BY <1>1, <1>3, <1>4, <1>5, <1>6, <1>7, <1>8, <1>9, <1>10 DEF VMNext, RoundStep

\* The types hold before the first round.
LEMMA VMTypeInit == VMInit => VMTypeOK
<1>1. (CHOOSE v \in Validators : TRUE) \in Validators
  BY VMAssumption
<1> QED BY <1>1, VMAssumption DEF VMInit, VMTypeOK, RoundSteps

\* A round keeps what it knows while others act, and while its own call returns.
LEMMA RoundKept ==
  ASSUME VMTypeOK, NEW r \in Rounds, RoundOK(r),
         agreed'[r] = agreed[r], waiting'[r] = waiting[r], eligible'[r] = eligible[r],
         votes'[r] = votes[r], threshold'[r] = threshold[r], base'[r] = base[r],
         update'[r] => update[r],
         \/ rpc'[r] = rpc[r]
         \/ rpc[r] = "reached" /\ rpc'[r] = "accepted"
         \/ rpc[r] = "failed" /\ rpc'[r] = "rejected",
         ~moved'[r] => ~moved[r] /\ (rpc[r] = "voting" => rep' = rep)
  PROVE  RoundOK(r)'
<1>1. /\ Decided(r)' = Decided(r) /\ Reached(r)' = Reached(r) /\ Weighed(r)' = Weighed(r)
      /\ rpc'[r] \in {"idle", "selected"} => rpc[r] \in {"idle", "selected"}
      /\ rpc[r] \in DecidedSteps => rpc'[r] \in DecidedSteps
      /\ rpc'[r] \in {"voting", "reached", "accepted"} =>
           rpc[r] \in {"voting", "reached", "accepted"}
      /\ rpc'[r] = "voting" => rpc[r] = "voting"
  BY DEF Decided, Reached, Weighed, DecidedSteps
<1>2. /\ BaseSum(r, agreed[r])' = BaseSum(r, agreed[r])
      /\ BaseSum(r, eligible[r])' = BaseSum(r, eligible[r])
  BY DEF BaseSum
<1>3. /\ agreed'[r] \subseteq eligible'[r] /\ waiting'[r] \subseteq eligible'[r]
      /\ agreed'[r] \cap waiting'[r] = {}
      /\ rpc'[r] \in {"idle", "selected"} => agreed'[r] = {} /\ votes'[r] = 0
      /\ update'[r] => rpc'[r] \in DecidedSteps
      /\ rpc'[r] \in {"voting", "reached", "accepted"} => eligible'[r] # {}
  BY <1>1 DEF RoundOK
<1>4. /\ Weighed(r)' => threshold'[r] = TwoThirds(BaseSum(r, eligible[r])')
      /\ Weighed(r)' /\ ~moved'[r] => votes'[r] = BaseSum(r, agreed[r])'
      /\ Decided(r)' => (Reached(r)' <=> votes'[r] > threshold'[r])
  BY <1>1, <1>2 DEF RoundOK
<1>5. rpc'[r] = "voting" /\ ~moved'[r] => rep' = base'[r]
  BY <1>1 DEF RoundOK
<1> QED BY <1>3, <1>4, <1>5 DEF RoundOK

\* The moves of a round itself: the threshold is two thirds of the reputations of that
\* moment, and every vote that counts counts what went into it.
LEMMA RoundMoves ==
  ASSUME VMTypeOK, NEW r \in Rounds, RoundOK(r), RoundStep(r)
  PROVE  RoundOK(r)'
<1>1. CASE SelectDelegateWithVRF(r) \/ NoDelegate(r) \/ NothingToMine(r)
  <2>1. /\ rpc[r] \in {"idle", "selected"} /\ rpc'[r] \in {"selected", "over"}
        /\ UNCHANGED <<agreed, waiting, eligible, votes, update>>
    BY <1>1 DEF SelectDelegateWithVRF, NoDelegate, NothingToMine, VMTypeOK
  <2> QED BY <2>1 DEF RoundOK, Weighed, Decided, DecidedSteps
<1>2. CASE StartVoting(r)
  <2> DEFINE vs == GetActiveValidatorsForShard
  <2>1. /\ rpc[r] = "selected" /\ rpc'[r] = (IF vs = {} THEN "failed" ELSE "voting")
        /\ eligible'[r] = vs /\ waiting'[r] = vs /\ base'[r] = rep
        /\ threshold'[r] = CalculateAdaptiveThreshold(vs)
        /\ UNCHANGED <<agreed, votes, update, rep>>
    BY <1>2 DEF StartVoting, repVars, VMTypeOK
  <2>2. agreed[r] = {} /\ votes[r] = 0 /\ ~update[r]
    BY <2>1 DEF RoundOK, DecidedSteps
  <2> HIDE DEF vs
  <2>3. threshold'[r] = TwoThirds(BaseSum(r, eligible[r])')
    BY <2>1 DEF CalculateAdaptiveThreshold, TwoThirds, BaseSum
  <2>4. votes'[r] = BaseSum(r, agreed[r])'
    BY <2>1, <2>2, SumOfNothing DEF BaseSum
  <2>5. /\ Weighed(r)' => rpc'[r] = "voting" /\ eligible'[r] # {}
        /\ ~Decided(r)'
    BY <2>1 DEF Weighed, Decided, DecidedSteps
  <2>6. /\ agreed'[r] = {} /\ ~update'[r] /\ rpc'[r] \in {"failed", "voting"}
        /\ rpc'[r] = "voting" => eligible'[r] # {}
    BY <2>1, <2>2
  <2> QED BY <2>1, <2>3, <2>4, <2>5, <2>6 DEF RoundOK
<1>3. ASSUME NEW v \in Validators, VoteYes(r, v) PROVE RoundOK(r)'
  <2>1. /\ rpc[r] = "voting" /\ v \in waiting[r] /\ waiting'[r] = waiting[r] \ {v}
        /\ agreed'[r] = agreed[r] \cup {v} /\ votes'[r] = votes[r] + rep[v]
        /\ UNCHANGED <<rep, rpc, eligible, threshold, update, base, moved>>
    BY <1>3 DEF VoteYes, repVars, VMTypeOK
  <2>2. BaseSum(r, eligible[r])' = BaseSum(r, eligible[r])
    BY <2>1 DEF BaseSum
  <2>3. BaseSum(r, agreed[r])' = BaseSum(r, agreed[r]) + base[r][v]
    <3>1. agreed[r] \in SUBSET Validators
      BY DEF VMTypeOK
    <3>2. IsFiniteSet(agreed[r])
      BY <3>1, VMAssumption, FS_Subset
    <3>3. v \notin agreed[r] /\ \A x \in agreed[r] \cup {v} : base[r][x] \in Int
      BY <2>1, <3>1 DEF RoundOK, VMTypeOK
    <3>4. SumFunctionOnSet(base[r], agreed[r] \cup {v}) =
            SumFunctionOnSet(base[r], agreed[r]) + base[r][v]
      BY <3>2, <3>3, SumWith
    <3> QED BY <2>1, <3>4 DEF BaseSum
  <2>4. ~moved[r] => votes'[r] = BaseSum(r, agreed[r])'
    BY <2>1, <2>3 DEF RoundOK, Weighed
  <2>5. /\ agreed'[r] \subseteq eligible[r] /\ waiting'[r] \subseteq eligible[r]
        /\ agreed'[r] \cap waiting'[r] = {} /\ eligible[r] # {} /\ ~update[r]
        /\ threshold[r] = TwoThirds(BaseSum(r, eligible[r]))
        /\ ~moved[r] => rep = base[r]
    BY <2>1 DEF RoundOK, Weighed, DecidedSteps
  <2>6. ~Decided(r)'
    BY <2>1 DEF Decided
  <2> QED BY <2>1, <2>2, <2>4, <2>5, <2>6 DEF RoundOK
<1>4. ASSUME NEW v \in Validators, VoteNo(r, v) PROVE RoundOK(r)'
  <2>1. /\ rpc[r] = "voting" /\ waiting'[r] = waiting[r] \ {v}
        /\ UNCHANGED <<rep, rpc, agreed, votes, eligible, threshold, update, base, moved>>
    BY <1>4 DEF VoteNo, repVars, VMTypeOK
  <2>2. /\ BaseSum(r, eligible[r])' = BaseSum(r, eligible[r])
        /\ BaseSum(r, agreed[r])' = BaseSum(r, agreed[r])
    BY <2>1 DEF BaseSum
  <2>3. /\ agreed[r] \subseteq eligible[r] /\ waiting'[r] \subseteq eligible[r]
        /\ agreed[r] \cap waiting'[r] = {} /\ eligible[r] # {} /\ ~update[r]
        /\ threshold[r] = TwoThirds(BaseSum(r, eligible[r]))
        /\ ~moved[r] => rep = base[r] /\ votes[r] = BaseSum(r, agreed[r])
    BY <2>1 DEF RoundOK, Weighed, DecidedSteps
  <2>4. ~Decided(r)'
    BY <2>1 DEF Decided
  <2> QED BY <2>1, <2>2, <2>3, <2>4 DEF RoundOK
<1>5. CASE CloseVote(r)
  <2>1. /\ rpc[r] = "voting"
        /\ rpc'[r] = (IF votes[r] > threshold[r] THEN "reached" ELSE "failed")
        /\ UNCHANGED <<agreed, waiting, votes, eligible, threshold, base, moved>>
    BY <1>5 DEF CloseVote, VMTypeOK
  <2>2. /\ BaseSum(r, eligible[r])' = BaseSum(r, eligible[r])
        /\ BaseSum(r, agreed[r])' = BaseSum(r, agreed[r])
    BY <2>1 DEF BaseSum
  <2>3. /\ agreed[r] \subseteq eligible[r] /\ waiting[r] \subseteq eligible[r]
        /\ agreed[r] \cap waiting[r] = {} /\ eligible[r] # {}
        /\ threshold[r] = TwoThirds(BaseSum(r, eligible[r]))
        /\ ~moved[r] => votes[r] = BaseSum(r, agreed[r])
    BY <2>1 DEF RoundOK, Weighed
  <2>4. Reached(r)' <=> votes[r] > threshold[r]
    BY <2>1 DEF Reached
  <2>5. rpc'[r] \in DecidedSteps /\ rpc'[r] \notin {"idle", "selected", "voting"}
    BY <2>1 DEF DecidedSteps
  <2> QED BY <2>1, <2>2, <2>3, <2>4, <2>5 DEF RoundOK
<1>6. CASE RewardProposer(r) \/ DiscardBlock(r) \/ PenalizeProposer(r)
  <2>1. /\ agreed'[r] = agreed[r] /\ waiting'[r] = waiting[r] /\ eligible'[r] = eligible[r]
        /\ votes'[r] = votes[r] /\ threshold'[r] = threshold[r] /\ base'[r] = base[r]
        /\ update'[r] = update[r]
        /\ rpc[r] # "voting"
    BY <1>6 DEF RewardProposer, DiscardBlock, PenalizeProposer
  <2>2. \/ rpc[r] = "reached" /\ rpc'[r] = "accepted"
        \/ rpc[r] = "failed" /\ rpc'[r] = "rejected"
    BY <1>6 DEF RewardProposer, DiscardBlock, PenalizeProposer, VMTypeOK
  <2>3. ~moved'[r] => ~moved[r]
    BY <1>6, Zenon DEF RewardProposer, DiscardBlock, PenalizeProposer, UpdateReputation, RecordMove
  <2> QED BY <2>1, <2>2, <2>3, RoundKept
<1> QED BY <1>1, <1>2, <1>3, <1>4, <1>5, <1>6 DEF RoundStep

\* To another round a step is at most a change of reputations, which it remembers if
\* it is voting.
LEMMA OthersMove ==
  ASSUME VMTypeOK, NEW r \in Rounds,
         \/ \E q \in Rounds \ {r} : RoundStep(q)
         \/ \E q \in Rounds : UpdateReputations(q)
         \/ \E v \in Validators : SlashValidator(v)
  PROVE  /\ agreed'[r] = agreed[r] /\ waiting'[r] = waiting[r] /\ eligible'[r] = eligible[r]
         /\ votes'[r] = votes[r] /\ threshold'[r] = threshold[r] /\ base'[r] = base[r]
         /\ update'[r] => update[r]
         /\ rpc'[r] = rpc[r] /\ proposer'[r] = proposer[r]
         /\ ~moved'[r] => ~moved[r] /\ (rpc[r] = "voting" => rep' = rep)
<1>1. ASSUME NEW q \in Rounds \ {r}, RoundStep(q)
      PROVE  /\ agreed'[r] = agreed[r] /\ waiting'[r] = waiting[r] /\ eligible'[r] = eligible[r]
             /\ votes'[r] = votes[r] /\ threshold'[r] = threshold[r] /\ base'[r] = base[r]
             /\ update'[r] = update[r] /\ rpc'[r] = rpc[r] /\ proposer'[r] = proposer[r]
             /\ ~moved'[r] => ~moved[r] /\ (rpc[r] = "voting" => rep' = rep)
  <2>1. CASE SelectDelegateWithVRF(q) \/ NoDelegate(q) \/ NothingToMine(q)
    BY <2>1 DEF SelectDelegateWithVRF, NoDelegate, NothingToMine, repVars, VMTypeOK
  <2>2. CASE StartVoting(q)
    BY <2>2 DEF StartVoting, repVars, VMTypeOK
  <2>3. ASSUME NEW v \in Validators, VoteYes(q, v)
        PROVE  /\ agreed'[r] = agreed[r] /\ waiting'[r] = waiting[r] /\ votes'[r] = votes[r]
               /\ UNCHANGED <<rep, rpc, proposer, eligible, threshold, update, base, moved>>
    BY <2>3 DEF VoteYes, repVars, VMTypeOK
  <2>4. ASSUME NEW v \in Validators, VoteNo(q, v)
        PROVE  /\ waiting'[r] = waiting[r]
               /\ UNCHANGED <<rep, rpc, proposer, eligible, threshold, agreed, votes, update,
                              base, moved>>
    BY <2>4 DEF VoteNo, repVars, VMTypeOK
  <2>5. CASE CloseVote(q) \/ DiscardBlock(q)
    BY <2>5 DEF CloseVote, DiscardBlock, repVars, VMTypeOK
  <2>6. CASE RewardProposer(q) \/ PenalizeProposer(q)
    <3>1. ~moved'[r] => ~moved[r] /\ (rpc[r] = "voting" => rep' = rep)
      BY <2>6, Zenon DEF RewardProposer, PenalizeProposer, UpdateReputation, RecordMove
    <3>2. rpc'[r] = rpc[r] /\ UNCHANGED <<proposer, eligible, threshold, waiting, agreed, votes,
                                          update, base>>
      BY <2>6 DEF RewardProposer, PenalizeProposer, VMTypeOK
    <3> QED BY <3>1, <3>2
  <2> QED BY <1>1, <2>1, <2>2, <2>3, <2>4, <2>5, <2>6 DEF RoundStep
<1>2. ASSUME NEW q \in Rounds, UpdateReputations(q)
      PROVE  /\ UNCHANGED <<agreed, waiting, eligible, votes, threshold, base, rpc, proposer>>
             /\ update'[r] => update[r]
             /\ ~moved'[r] => ~moved[r] /\ (rpc[r] = "voting" => rep' = rep)
  <2>1. ~moved'[r] => ~moved[r] /\ (rpc[r] = "voting" => rep' = rep)
    BY <1>2, Zenon DEF UpdateReputations, RecordMove
  <2>2. update'[r] => update[r]
    BY <1>2 DEF UpdateReputations, VMTypeOK
  <2> QED BY <1>2, <2>1, <2>2 DEF UpdateReputations
<1>3. ASSUME NEW v \in Validators, SlashValidator(v)
      PROVE  /\ UNCHANGED <<agreed, waiting, eligible, votes, threshold, base, rpc, proposer, update>>
             /\ ~moved'[r] => ~moved[r] /\ (rpc[r] = "voting" => rep' = rep)
  <2>1. ~moved'[r] => ~moved[r] /\ (rpc[r] = "voting" => rep' = rep)
    BY <1>3, Zenon DEF SlashValidator, RecordMove
  <2> QED BY <1>3, <2>1 DEF SlashValidator, roundVars
<1> QED BY <1>1, <1>2, <1>3

\* Every step keeps what every round knows.
LEMMA QuorumStep == VMTypeOK /\ QuorumInv /\ [VMNext]_vmVars => QuorumInv'
<1> SUFFICES ASSUME VMTypeOK, QuorumInv, [VMNext]_vmVars, NEW r \in Rounds PROVE RoundOK(r)'
  BY DEF QuorumInv
<1>1. RoundOK(r)
  BY DEF QuorumInv
<1>2. CASE UNCHANGED vmVars
  BY <1>1, <1>2, RoundKept DEF vmVars, repVars, roundVars
<1>3. CASE RoundStep(r)
  BY <1>1, <1>3, RoundMoves
<1>4. CASE \/ \E q \in Rounds \ {r} : RoundStep(q)
           \/ \E q \in Rounds : UpdateReputations(q)
           \/ \E v \in Validators : SlashValidator(v)
  <2>1. /\ agreed'[r] = agreed[r] /\ waiting'[r] = waiting[r] /\ eligible'[r] = eligible[r]
        /\ votes'[r] = votes[r] /\ threshold'[r] = threshold[r] /\ base'[r] = base[r]
        /\ update'[r] => update[r]
        /\ rpc'[r] = rpc[r]
        /\ ~moved'[r] => ~moved[r] /\ (rpc[r] = "voting" => rep' = rep)
    BY <1>4, OthersMove
  <2> QED BY <1>1, <2>1, RoundKept
<1> QED BY <1>2, <1>3, <1>4 DEF VMNext

\* No round has begun.
LEMMA QuorumInit == VMInit => QuorumInv
<1> QED BY DEF VMInit, QuorumInv, RoundOK, Weighed, Decided, DecidedSteps

\* Every reachable state is of the declared type and keeps what the rounds know.
THEOREM QuorumInvariant == VMSpec => [](VMTypeOK /\ QuorumInv)
<1> QED BY VMTypeInit, QuorumInit, VMTypeStep, QuorumStep, PTL DEF VMSpec

\* With the types, what the rounds know decides them by more than two thirds.
LEMMA ExactQuorum == VMTypeOK /\ QuorumInv => QuorumExactWhenStill
<1>1. ASSUME VMTypeOK, QuorumInv, NEW r \in Rounds, Decided(r), ~moved[r],
             BaseSum(r, eligible[r]) > 0
      PROVE  Reached(r) <=> 3 * BaseSum(r, agreed[r]) > 2 * BaseSum(r, eligible[r])
  <2> DEFINE all == BaseSum(r, eligible[r])
             yes == BaseSum(r, agreed[r])
  <2>1. all \in Int /\ yes \in Int
    <3>1. agreed[r] \in SUBSET Validators /\ eligible[r] \in SUBSET Validators
      BY <1>1 DEF VMTypeOK
    <3>2. IsFiniteSet(agreed[r]) /\ IsFiniteSet(eligible[r])
      BY <3>1, VMAssumption, FS_Subset
    <3>3. \A x \in Validators : base[r][x] \in Int
      BY <1>1 DEF VMTypeOK
    <3> QED BY <3>1, <3>2, <3>3, SumIsInt DEF BaseSum
  <2>2. /\ Weighed(r) /\ threshold[r] = TwoThirds(all) /\ votes[r] = yes
        /\ Reached(r) <=> votes[r] > threshold[r]
    BY <1>1 DEF QuorumInv, RoundOK, Weighed, Decided, DecidedSteps
  <2>3. all > 0
    BY <1>1
  <2> HIDE DEF all, yes
  <2>4. /\ TwoThirds(all) \in Int /\ 3 * TwoThirds(all) <= 2 * all
        /\ yes > TwoThirds(all) => 3 * yes > 2 * all
    BY <2>1, <2>3, TwoThirdsBounds
  <2>5. 3 * yes > 2 * all => yes > TwoThirds(all)
    BY <2>1, <2>4
  <2>6. Reached(r) <=> 3 * yes > 2 * all
    BY <2>2, <2>4, <2>5
  <2> QED BY <2>6 DEF all, yes
<1> QED BY <1>1 DEF QuorumExactWhenStill

\* Without a reputation moving while it votes, a round is decided exactly by validators with
\* more than two thirds of the eligible reputation.
THEOREM QuorumIsExact == VMSpec => []QuorumExactWhenStill
<1> QED BY ExactQuorum, QuorumInvariant, PTL

-----------------------------------------------------------------------------
(***************************************************************************)
(* What overlapping rounds can add to each other's votes.                  *)
(***************************************************************************)

\* The other rounds that have paid or charged their voters, or never will, ...
Settled(r) == {q \in Rounds \ {r} : rpc[q] \in DecidedSteps /\ ~update[q]}

\* ... and those that are done with a proposer in vs.
Paid(r, vs) == {q \in Rounds \ {r} : rpc[q] = "accepted" /\ proposer[q] \in vs}

\* While a round votes, a reputation is at most one reward for each of them above the
\* one its threshold counted, ...
GainBounded(r) ==
  rpc[r] = "voting" =>
    \A v \in Validators :
      rep[v] <= base[r][v] + Cardinality(Settled(r)) + Cardinality(Paid(r, {v}))

\* ... and so is every vote.
VotesBounded(r) ==
  Weighed(r) =>
    votes[r] <= BaseSum(r, agreed[r]) + Cardinality(agreed[r]) * Cardinality(Settled(r))
                + Cardinality(Paid(r, agreed[r]))

OverlapBounded ==
  slashable = Slashable => \A r \in Rounds : GainBounded(r) /\ VotesBounded(r)

\* Sets of other rounds are finite, and smaller than the set of all.
LEMMA RoundsCount ==
  ASSUME NEW r \in Rounds, NEW S \in SUBSET (Rounds \ {r})
  PROVE  /\ IsFiniteSet(S) /\ Cardinality(S) \in Nat /\ Cardinality(Rounds) \in Nat
         /\ Cardinality(S) <= Cardinality(Rounds) - 1
         /\ \A T \in SUBSET S : Cardinality(T) \in Nat /\ Cardinality(T) <= Cardinality(S)
         /\ \A q \in S, T \in SUBSET S : q \notin T => Cardinality(T) + 1 <= Cardinality(S)
<1>1. IsFiniteSet(Rounds) /\ IsFiniteSet(Rounds \ {r})
      /\ Cardinality(Rounds \ {r}) = Cardinality(Rounds) - 1
  BY VMAssumption, FS_RemoveElement
<1>2. IsFiniteSet(S) /\ Cardinality(S) <= Cardinality(Rounds \ {r})
  BY <1>1, FS_Subset
<1>3. Cardinality(S) \in Nat /\ Cardinality(Rounds) \in Nat
  BY <1>1, <1>2, FS_CardinalityType
<1>4. ASSUME NEW T \in SUBSET S
      PROVE  Cardinality(T) \in Nat /\ Cardinality(T) <= Cardinality(S)
  <2>1. IsFiniteSet(T) /\ Cardinality(T) <= Cardinality(S)
    BY <1>2, FS_Subset
  <2> QED BY <2>1, FS_CardinalityType
<1>5. ASSUME NEW q \in S, NEW T \in SUBSET S, q \notin T
      PROVE  Cardinality(T) + 1 <= Cardinality(S)
  <2>1. IsFiniteSet(S \ {q}) /\ Cardinality(S \ {q}) = Cardinality(S) - 1
    BY <1>2, FS_RemoveElement
  <2>2. T \in SUBSET (S \ {q})
    BY <1>5
  <2>3. Cardinality(T) <= Cardinality(S \ {q})
    BY <2>1, <2>2, FS_Subset
  <2>4. Cardinality(T) \in Nat
    BY <1>4
  <2> QED BY <1>3, <2>1, <2>3, <2>4
<1> QED BY <1>1, <1>2, <1>3, <1>4, <1>5

\* A product grows with its factor.
LEMMA MoreTimes ==
  ASSUME NEW n \in Nat, NEW a \in Nat, NEW b \in Nat, a <= b
  PROVE  n * a <= n * b /\ n * a \in Nat /\ (n + 1) * a = n * a + a
<1>1. n * a \in Nat /\ n * b \in Nat /\ n * (b - a) \in Nat
  OBVIOUS
<1>2. n * b = n * a + n * (b - a)
  OBVIOUS
<1> QED BY <1>1, <1>2

\* No round takes its outcome or its payments back.
LEMMA PaymentsStay ==
  ASSUME VMTypeOK, QuorumInv, [VMNext]_vmVars, NEW r \in Rounds
  PROVE  Settled(r) \subseteq Settled(r)' /\ \A vs : Paid(r, vs) \subseteq Paid(r, vs)'
<1>1. ASSUME NEW q \in Rounds
      PROVE  /\ rpc[q] \in DecidedSteps /\ ~update[q] => rpc'[q] \in DecidedSteps /\ ~update'[q]
             /\ rpc[q] = "accepted" => rpc'[q] = "accepted" /\ proposer'[q] = proposer[q]
  <2>1. CASE UNCHANGED vmVars
    BY <2>1 DEF vmVars, roundVars
  <2>2. CASE \/ \E p \in Rounds \ {q} : RoundStep(p)
             \/ \E p \in Rounds : UpdateReputations(p)
             \/ \E v \in Validators : SlashValidator(v)
    <3>1. rpc'[q] = rpc[q] /\ proposer'[q] = proposer[q] /\ (update'[q] => update[q])
      BY <2>2, OthersMove
    <3> QED BY <3>1
  <2>3. CASE RoundStep(q)
    <3>1. CASE \/ SelectDelegateWithVRF(q) \/ NoDelegate(q) \/ NothingToMine(q) \/ StartVoting(q)
               \/ (\E v \in Validators : VoteYes(q, v) \/ VoteNo(q, v)) \/ CloseVote(q)
      BY <3>1 DEF SelectDelegateWithVRF, NoDelegate, NothingToMine, StartVoting, VoteYes, VoteNo,
                  CloseVote, DecidedSteps
    <3>2. CASE RewardProposer(q) \/ DiscardBlock(q) \/ PenalizeProposer(q)
      <4>1. /\ rpc[q] \in {"reached", "failed"} /\ rpc'[q] \in {"accepted", "rejected"}
            /\ update' = update
        BY <3>2 DEF RewardProposer, DiscardBlock, PenalizeProposer, VMTypeOK
      <4> QED BY <4>1 DEF DecidedSteps
    <3> QED BY <2>3, <3>1, <3>2 DEF RoundStep
  <2> QED BY <2>1, <2>2, <2>3 DEF VMNext
<1> QED BY <1>1 DEF Settled, Paid

\* A reputation that grows grows by one reward, and the round that pays it is then among
\* the settled ones, or among those that have paid their proposer.
LEMMA GainIsPaid ==
  ASSUME VMTypeOK, RepInv, slashable = Slashable, slashable' = Slashable, [VMNext]_vmVars,
         NEW v \in Validators
  PROVE  \/ rep'[v] <= rep[v]
         \/ /\ rep'[v] <= rep[v] + 1
            /\ \E q \in Rounds : UpdateReputations(q) \/ (RewardProposer(q) /\ proposer[q] = v)
<1>1. /\ score = rep /\ rep[v] \in Int /\ rep[v] >= 1
  BY DEF RepInv, RepType, ScoresMirrorReputation, ScoresKeepFloor
<1>2. CASE UNCHANGED rep
  BY <1>1, <1>2
<1>3. ASSUME NEW q \in Rounds, UpdateReputations(q) PROVE rep'[v] <= rep[v] + 1
  <2>1. OutcomeChange(q, v) \in {1, -2, -1, 0}
    BY DEF OutcomeChange, DbftConsensusReward, DbftConsensusPenalty
  <2>2. rep'[v] = rep[v] \/ rep'[v] = AtLeastOne(rep[v] + OutcomeChange(q, v))
    BY <1>1, <1>3 DEF UpdateReputations
  <2> QED BY <1>1, <2>1, <2>2 DEF AtLeastOne
<1>4. ASSUME NEW q \in Rounds, RewardProposer(q)
      PROVE  rep'[v] <= rep[v] \/ (rep'[v] <= rep[v] + 1 /\ proposer[q] = v)
  <2>1. UpdateReputation(proposer[q], 1)
    BY <1>4 DEF RewardProposer, DbftConsensusReward
  <2>2. rep' = [rep EXCEPT ![proposer[q]] = AtLeastOne(rep[proposer[q]] + 1)]
    BY <2>1 DEF UpdateReputation
  <2> QED BY <1>1, <2>2 DEF AtLeastOne, VMTypeOK
<1>5. ASSUME NEW q \in Rounds, PenalizeProposer(q) PROVE rep'[v] <= rep[v]
  <2>1. UpdateReputation(proposer[q], -2)
    BY <1>5 DEF PenalizeProposer, DbftConsensusPenalty
  <2>2. rep' = [rep EXCEPT ![proposer[q]] = AtLeastOne(rep[proposer[q]] + -2)]
    BY <2>1 DEF UpdateReputation
  <2> QED BY <1>1, <2>2 DEF AtLeastOne, VMTypeOK
<1>6. ~\E w \in Validators : SlashValidator(w)
  BY DEF SlashValidator
<1>7. \/ UNCHANGED rep
      \/ \E q \in Rounds : RewardProposer(q) \/ PenalizeProposer(q) \/ UpdateReputations(q)
  BY <1>6 DEF VMNext, RoundStep, SelectDelegateWithVRF, NoDelegate, NothingToMine, StartVoting,
     VoteYes, VoteNo, CloseVote, DiscardBlock, vmVars, repVars
<1> QED BY <1>2, <1>3, <1>4, <1>5, <1>7

\* Reputations stay within the bound of a voting round.
LEMMA GainStep ==
  ASSUME VMTypeOK, QuorumInv, RepInv, slashable = Slashable, slashable' = Slashable,
         [VMNext]_vmVars, NEW r \in Rounds, GainBounded(r)
  PROVE  GainBounded(r)'
<1> SUFFICES ASSUME rpc'[r] = "voting", NEW v \in Validators
             PROVE  rep'[v] <= base'[r][v] + Cardinality(Settled(r)') + Cardinality(Paid(r, {v})')
  BY DEF GainBounded
<1>1. Settled(r)' \in SUBSET (Rounds \ {r}) /\ Paid(r, {v})' \in SUBSET (Rounds \ {r})
  BY DEF Settled, Paid
<1>2. Settled(r) \in SUBSET Settled(r)' /\ Paid(r, {v}) \in SUBSET Paid(r, {v})'
  BY PaymentsStay
<1>3. /\ Cardinality(Settled(r)) \in Nat /\ Cardinality(Settled(r)') \in Nat
      /\ Cardinality(Settled(r)) <= Cardinality(Settled(r)')
      /\ \A q \in Settled(r)' : q \notin Settled(r) =>
           Cardinality(Settled(r)) + 1 <= Cardinality(Settled(r)')
  BY <1>1, <1>2, RoundsCount
<1>4. /\ Cardinality(Paid(r, {v})) \in Nat /\ Cardinality(Paid(r, {v})') \in Nat
      /\ Cardinality(Paid(r, {v})) <= Cardinality(Paid(r, {v})')
      /\ \A q \in Paid(r, {v})' : q \notin Paid(r, {v}) =>
           Cardinality(Paid(r, {v})) + 1 <= Cardinality(Paid(r, {v})')
  BY <1>1, <1>2, RoundsCount
<1>5. rep[v] \in Int /\ rep'[v] \in Int
  BY VMTypeStep DEF VMTypeOK
<1>6. CASE StartVoting(r)
  <2>1. base'[r] = rep /\ rep' = rep
    BY <1>6 DEF StartVoting, repVars, VMTypeOK
  <2> QED BY <1>3, <1>4, <1>5, <2>1
<1>7. CASE ~StartVoting(r)
  <2>1. rpc[r] = "voting" /\ base'[r] = base[r]
    <3>1. CASE UNCHANGED vmVars
      BY <3>1 DEF vmVars, roundVars
    <3>2. CASE \/ \E p \in Rounds \ {r} : RoundStep(p)
               \/ \E p \in Rounds : UpdateReputations(p)
               \/ \E w \in Validators : SlashValidator(w)
      <4>1. rpc'[r] = rpc[r] /\ base'[r] = base[r]
        BY <3>2, OthersMove
      <4> QED BY <4>1
    <3>3. CASE RoundStep(r)
      BY <1>7, <3>3 DEF RoundStep, SelectDelegateWithVRF, NoDelegate, NothingToMine, VoteYes,
         VoteNo, CloseVote, RewardProposer, DiscardBlock, PenalizeProposer, VMTypeOK
    <3> QED BY <3>1, <3>2, <3>3 DEF VMNext
  <2>2. /\ rep[v] <= base[r][v] + Cardinality(Settled(r)) + Cardinality(Paid(r, {v}))
        /\ base[r][v] \in Int
    BY <2>1 DEF GainBounded, VMTypeOK
  <2>3. CASE rep'[v] <= rep[v]
    BY <1>3, <1>4, <1>5, <2>1, <2>2, <2>3
  <2>4. ASSUME NEW q \in Rounds, UpdateReputations(q), rep'[v] <= rep[v] + 1
        PROVE  rep'[v] <= base'[r][v] + Cardinality(Settled(r)') + Cardinality(Paid(r, {v})')
    <3>1. update[q] /\ ~update'[q] /\ rpc' = rpc
      BY <2>4 DEF UpdateReputations, VMTypeOK
    <3>2. rpc[q] \in DecidedSteps
      BY <3>1 DEF QuorumInv, RoundOK
    <3>3. q \in Settled(r)' /\ q \notin Settled(r)
      BY <2>1, <3>1, <3>2 DEF Settled, DecidedSteps
    <3>4. Cardinality(Settled(r)) + 1 <= Cardinality(Settled(r)')
      BY <1>3, <3>3
    <3> QED BY <1>3, <1>4, <1>5, <2>1, <2>2, <2>4, <3>4
  <2>5. ASSUME NEW q \in Rounds, RewardProposer(q), proposer[q] = v, rep'[v] <= rep[v] + 1
        PROVE  rep'[v] <= base'[r][v] + Cardinality(Settled(r)') + Cardinality(Paid(r, {v})')
    <3>1. rpc[q] = "reached" /\ rpc'[q] = "accepted" /\ proposer' = proposer
      BY <2>5 DEF RewardProposer, VMTypeOK
    <3>2. q \in Paid(r, {v})' /\ q \notin Paid(r, {v})
      BY <2>1, <2>5, <3>1 DEF Paid
    <3>3. Cardinality(Paid(r, {v})) + 1 <= Cardinality(Paid(r, {v})')
      BY <1>4, <3>2
    <3> QED BY <1>3, <1>4, <1>5, <2>1, <2>2, <2>5, <3>3
  <2> QED BY <2>3, <2>4, <2>5, GainIsPaid
<1> QED BY <1>6, <1>7

\* What a round knows of itself bounds its sums and its voters.
LEMMA VotersCount ==
  ASSUME VMTypeOK, NEW r \in Rounds
  PROVE  /\ IsFiniteSet(agreed[r]) /\ Cardinality(agreed[r]) \in Nat
         /\ BaseSum(r, agreed[r]) \in Int /\ BaseSum(r, eligible[r]) \in Int
<1>1. agreed[r] \in SUBSET Validators /\ eligible[r] \in SUBSET Validators
  BY DEF VMTypeOK
<1>2. IsFiniteSet(agreed[r]) /\ IsFiniteSet(eligible[r])
  BY <1>1, VMAssumption, FS_Subset
<1>3. \A x \in Validators : base[r][x] \in Int
  BY DEF VMTypeOK
<1>4. BaseSum(r, agreed[r]) \in Int /\ BaseSum(r, eligible[r]) \in Int
  BY <1>1, <1>2, <1>3, SumIsInt DEF BaseSum
<1> QED BY <1>2, <1>4, FS_CardinalityType

\* A vote adds a bounded reputation; nothing else changes votes.
LEMMA VotesStep ==
  ASSUME VMTypeOK, QuorumInv, [VMNext]_vmVars, NEW r \in Rounds, GainBounded(r), VotesBounded(r)
  PROVE  VotesBounded(r)'
<1> SUFFICES ASSUME Weighed(r)'
             PROVE  votes'[r] <= BaseSum(r, agreed[r])'
                      + Cardinality(agreed'[r]) * Cardinality(Settled(r)')
                      + Cardinality(Paid(r, agreed[r])')
  BY DEF VotesBounded
<1> DEFINE n == Cardinality(agreed[r])
           a == Cardinality(Settled(r))
           b == Cardinality(Settled(r)')
           sum == BaseSum(r, agreed[r])
<1>1. Settled(r)' \in SUBSET (Rounds \ {r}) /\ Settled(r) \in SUBSET Settled(r)'
  BY PaymentsStay DEF Settled
<1>2. a \in Nat /\ b \in Nat /\ a <= b
  BY <1>1, RoundsCount
<1>3. n \in Nat /\ sum \in Int /\ votes[r] \in Int
  BY VotersCount DEF VMTypeOK
<1>4. n * a <= n * b /\ n * a \in Nat /\ n * b \in Nat /\ (n + 1) * a = n * a + a
  <2> HIDE DEF n, a, b
  <2>1. n * a <= n * b /\ n * a \in Nat /\ (n + 1) * a = n * a + a
    BY <1>2, <1>3, MoreTimes
  <2>2. n * b \in Nat
    BY <1>2, <1>3
  <2> QED BY <2>1, <2>2
<1>5. ASSUME agreed'[r] = agreed[r], votes'[r] = votes[r], base'[r] = base[r], Weighed(r)
      PROVE  votes'[r] <= BaseSum(r, agreed[r])'
                            + Cardinality(agreed'[r]) * Cardinality(Settled(r)')
                            + Cardinality(Paid(r, agreed[r])')
  <2> DEFINE vs == agreed[r]
             p == Cardinality(Paid(r, agreed[r]))
             q == Cardinality(Paid(r, agreed[r])')
  <2>1. Paid(r, agreed[r])' \in SUBSET (Rounds \ {r})
    BY DEF Paid
  <2>2. Paid(r, agreed[r]) \in SUBSET Paid(r, agreed[r])'
    <3>1. \A ws : Paid(r, ws) \subseteq Paid(r, ws)'
      BY PaymentsStay
    <3> QED BY <1>5, <3>1 DEF Paid
  <2>3. p \in Nat /\ q \in Nat /\ p <= q
    BY <2>1, <2>2, RoundsCount
  <2>4. votes[r] <= sum + n * a + p
    BY <1>5 DEF VotesBounded
  <2>5. BaseSum(r, agreed[r])' = sum /\ Cardinality(agreed'[r]) = n
    BY <1>5 DEF BaseSum
  <2> HIDE DEF n, a, b, sum, p, q
  <2>6. votes[r] <= sum + n * b + q
    BY <1>3, <1>4, <2>3, <2>4
  <2> QED BY <1>5, <2>5, <2>6 DEF b, q
<1>6. CASE UNCHANGED vmVars
  <2>1. Weighed(r)
    BY <1>6 DEF Weighed, vmVars, roundVars
  <2> QED BY <1>5, <1>6, <2>1 DEF vmVars, roundVars
<1>7. CASE \/ \E q \in Rounds \ {r} : RoundStep(q)
           \/ \E q \in Rounds : UpdateReputations(q)
           \/ \E v \in Validators : SlashValidator(v)
  <2>1. /\ agreed'[r] = agreed[r] /\ eligible'[r] = eligible[r] /\ votes'[r] = votes[r]
        /\ base'[r] = base[r] /\ rpc'[r] = rpc[r]
    BY <1>7, OthersMove
  <2>2. Weighed(r)
    BY <2>1 DEF Weighed
  <2> QED BY <1>5, <2>1, <2>2
<1>8. CASE SelectDelegateWithVRF(r) \/ NoDelegate(r) \/ NothingToMine(r)
  <2>1. rpc'[r] \in {"selected", "over"}
    BY <1>8 DEF SelectDelegateWithVRF, NoDelegate, NothingToMine, VMTypeOK
  <2> QED BY <2>1 DEF Weighed, DecidedSteps
<1>9. CASE StartVoting(r)
  <2>1. agreed[r] = {} /\ votes[r] = 0 /\ UNCHANGED <<agreed, votes>>
    BY <1>9 DEF StartVoting, QuorumInv, RoundOK
  <2>2. BaseSum(r, agreed[r])' = 0
    BY <2>1, SumOfNothing DEF BaseSum
  <2>3. Cardinality(agreed'[r]) = 0
    BY <2>1, FS_EmptySet
  <2>4. Paid(r, agreed[r])' \in SUBSET (Rounds \ {r})
    BY DEF Paid
  <2>5. Cardinality(Paid(r, agreed[r])') \in Nat
    BY <2>4, RoundsCount
  <2> QED BY <1>2, <2>1, <2>2, <2>3, <2>5
<1>10. ASSUME NEW v \in Validators, VoteYes(r, v)
       PROVE  votes'[r] <= BaseSum(r, agreed[r])'
                             + Cardinality(agreed'[r]) * Cardinality(Settled(r)')
                             + Cardinality(Paid(r, agreed[r])')
  <2> DEFINE p == Cardinality(Paid(r, agreed[r]))
             q == Cardinality(Paid(r, {v}))
             w == base[r][v]
  <2>1. /\ rpc[r] = "voting" /\ v \in waiting[r] /\ agreed'[r] = agreed[r] \cup {v}
        /\ votes'[r] = votes[r] + rep[v]
        /\ UNCHANGED <<rpc, proposer, update, base>>
    BY <1>10 DEF VoteYes, VMTypeOK
  <2>2. v \notin agreed[r] /\ w \in Int /\ rep[v] \in Int
    BY <2>1 DEF QuorumInv, RoundOK, VMTypeOK
  <2>3. BaseSum(r, agreed[r])' = sum + w
    <3>1. agreed[r] \in SUBSET Validators
      BY DEF VMTypeOK
    <3>2. \A x \in agreed[r] \cup {v} : base[r][x] \in Int
      BY <3>1 DEF VMTypeOK
    <3>3. IsFiniteSet(agreed[r])
      BY VotersCount
    <3>4. SumFunctionOnSet(base[r], agreed[r] \cup {v}) =
            SumFunctionOnSet(base[r], agreed[r]) + base[r][v]
      BY <2>2, <3>2, <3>3, SumWith
    <3> QED BY <2>1, <3>4 DEF BaseSum
  <2>4. Cardinality(agreed'[r]) = n + 1
    <3>1. IsFiniteSet(agreed[r])
      BY VotersCount
    <3> QED BY <2>1, <2>2, <3>1, FS_AddElement
  <2>5. Settled(r)' = Settled(r)
    BY <2>1 DEF Settled
  <2>6. p \in Nat /\ q \in Nat /\ Cardinality(Paid(r, agreed[r])') = p + q
    <3>1. /\ Paid(r, agreed[r]) \in SUBSET (Rounds \ {r})
          /\ Paid(r, {v}) \in SUBSET (Rounds \ {r})
      BY DEF Paid
    <3>2. /\ IsFiniteSet(Paid(r, agreed[r])) /\ p \in Nat
          /\ IsFiniteSet(Paid(r, {v})) /\ q \in Nat
      BY <3>1, RoundsCount
    <3>3. Paid(r, agreed[r]) \cap Paid(r, {v}) = {}
      BY <2>2 DEF Paid
    <3>4. Paid(r, agreed[r])' = Paid(r, agreed[r]) \cup Paid(r, {v})
      BY <2>1 DEF Paid
    <3>5. Cardinality(Paid(r, agreed[r]) \cup Paid(r, {v})) =
            p + q - Cardinality(Paid(r, agreed[r]) \cap Paid(r, {v}))
      BY <3>2, FS_Union
    <3>6. Cardinality(Paid(r, agreed[r]) \cap Paid(r, {v})) = 0
      BY <3>3, FS_EmptySet
    <3> QED BY <3>2, <3>4, <3>5, <3>6
  <2>7. rep[v] <= w + a + q /\ votes[r] <= sum + n * a + p
    BY <2>1 DEF GainBounded, VotesBounded, Weighed
  <2>8. Cardinality(Settled(r)') = a
    BY <2>5
  <2> HIDE DEF n, a, b, sum, p, q, w
  <2>9. votes[r] + rep[v] <= (sum + w) + (n * a + a) + (p + q)
    BY <1>2, <1>3, <1>4, <2>2, <2>6, <2>7
  <2> QED BY <1>4, <2>1, <2>3, <2>4, <2>6, <2>8, <2>9
<1>11. CASE \/ \E v \in Validators : VoteNo(r, v)
            \/ CloseVote(r) \/ RewardProposer(r) \/ DiscardBlock(r) \/ PenalizeProposer(r)
  <2>1. UNCHANGED <<agreed, votes, base, eligible>>
    BY <1>11 DEF VoteNo, CloseVote, RewardProposer, DiscardBlock, PenalizeProposer
  <2>2. rpc[r] \in {"voting", "reached", "failed"}
    BY <1>11 DEF VoteNo, CloseVote, RewardProposer, DiscardBlock, PenalizeProposer
  <2>3. rpc[r] # "voting" => rpc'[r] \in DecidedSteps
    BY <1>11 DEF VoteNo, CloseVote, RewardProposer, DiscardBlock, PenalizeProposer, DecidedSteps,
                 VMTypeOK
  <2>4. rpc[r] # "voting" => rpc'[r] # "voting"
    BY <2>3 DEF DecidedSteps
  <2>5. Weighed(r)
    BY <2>1, <2>2, <2>3, <2>4 DEF Weighed, DecidedSteps
  <2> QED BY <1>5, <2>1, <2>5
<1> QED BY <1>6, <1>7, <1>8, <1>9, <1>10, <1>11 DEF VMNext, RoundStep

\* Both bounds are kept until somebody is slashed.
LEMMA OverlapStep ==
  VMTypeOK /\ QuorumInv /\ RepInv /\ OverlapBounded /\ [VMNext]_vmVars => OverlapBounded'
<1> SUFFICES ASSUME VMTypeOK, QuorumInv, RepInv, OverlapBounded, [VMNext]_vmVars,
                    slashable' = Slashable, NEW r \in Rounds
             PROVE  GainBounded(r)' /\ VotesBounded(r)'
  BY DEF OverlapBounded
<1>1. slashable = Slashable
  <2>1. slashable' \subseteq slashable
    BY DEF VMNext, RoundStep, SelectDelegateWithVRF, NoDelegate, NothingToMine, StartVoting,
       VoteYes, VoteNo, CloseVote, RewardProposer, DiscardBlock, PenalizeProposer,
       UpdateReputations, SlashValidator, vmVars, repVars
  <2> QED BY <2>1 DEF VMTypeOK
<1>2. GainBounded(r) /\ VotesBounded(r)
  BY <1>1 DEF OverlapBounded
<1> QED BY <1>1, <1>2, GainStep, VotesStep

\* The bounds hold of every reachable state.
LEMMA OverlapInvariant == VMSpec => []OverlapBounded
<1>1. VMInit => OverlapBounded
  BY DEF VMInit, OverlapBounded, GainBounded, VotesBounded, Weighed, DecidedSteps
<1> QED BY <1>1, OverlapStep, QuorumInvariant, RepInvariant, PTL DEF VMSpec

\* When rounds overlap, the validators that carried a block fell short of two thirds by at
\* most one reward for each of them and one for a proposer, per other round.
THEOREM ShortfallIsBounded == VMSpec => []QuorumShortfallBounded
<1>1. ASSUME VMTypeOK, QuorumInv, OverlapBounded, slashable = Slashable, NEW r \in Rounds,
             Reached(r)
      PROVE  3 * (BaseSum(r, agreed[r]) + (Cardinality(agreed[r]) + 1) * (Cardinality(Rounds) - 1))
               > 2 * BaseSum(r, eligible[r])
  <2> DEFINE all == BaseSum(r, eligible[r])
             yes == BaseSum(r, agreed[r])
             n == Cardinality(agreed[r])
             a == Cardinality(Settled(r))
             p == Cardinality(Paid(r, agreed[r]))
             m == Cardinality(Rounds) - 1
  <2>1. all \in Int /\ yes \in Int /\ n \in Nat /\ votes[r] \in Int
    BY <1>1, VotersCount DEF VMTypeOK
  <2>2. /\ Decided(r) /\ Weighed(r)
    BY <1>1 DEF QuorumInv, RoundOK, Reached, Decided, Weighed, DecidedSteps
  <2>3. votes[r] > threshold[r] /\ threshold[r] = TwoThirds(all)
    BY <1>1, <2>2 DEF QuorumInv, RoundOK
  <2>4. Settled(r) \in SUBSET (Rounds \ {r}) /\ Paid(r, agreed[r]) \in SUBSET (Rounds \ {r})
    BY DEF Settled, Paid
  <2>5. a \in Nat /\ p \in Nat /\ a <= m /\ p <= m /\ m \in Int
    BY <2>4, RoundsCount
  <2>6. votes[r] <= yes + n * a + p
    BY <1>1, <2>2 DEF OverlapBounded, VotesBounded
  <2> HIDE DEF all, yes, n, a, p, m
  <2>7. 3 * votes[r] > 2 * all
    BY <2>1, <2>3, TwoThirdsBounds
  <2>8. m \in Nat
    BY <2>5
  <2>9. n * a <= n * m /\ n * a \in Nat /\ (n + 1) * m = n * m + m /\ n * m \in Nat
    <3>1. n * a <= n * m /\ n * a \in Nat
      BY <2>1, <2>5, <2>8, MoreTimes
    <3>2. (n + 1) * m = n * m + m /\ n * m \in Nat
      BY <2>1, <2>8, MoreTimes
    <3> QED BY <3>1, <3>2
  <2>10. votes[r] <= yes + (n + 1) * m
    BY <2>1, <2>5, <2>6, <2>8, <2>9
  <2>11. (n + 1) * m \in Nat
    BY <2>8, <2>9
  <2>12. 3 * (yes + (n + 1) * m) > 2 * all
    BY <2>1, <2>7, <2>10, <2>11
  <2> QED BY <2>12 DEF all, yes, n, m
<1>2. VMTypeOK /\ QuorumInv /\ OverlapBounded => QuorumShortfallBounded
  BY <1>1 DEF QuorumShortfallBounded
<1> QED BY <1>2, QuorumInvariant, OverlapInvariant, PTL

-----------------------------------------------------------------------------
(***************************************************************************)
(* Challenge-response authentication.                                      *)
(***************************************************************************)

\* A challenger is busy from the choice of a validator until VerifyResponse returns.
Busy(c) == apc[c] # "idle"

\* The steps of VerifyResponse between copying a challenge and paying for it.
HoldingSteps == {"judge", "expired", "timely", "late", "verify"}

Holders(n) == {c \in Challengers : apc[c] \in HoldingSteps /\ held[c] = n}

IsPending(n) == \E v \in Validators : pending[v] = n

AttestType ==
  /\ issued \in 0 .. MaxChallenges /\ lapsed \in Nat
  /\ pending \in [Validators -> 0 .. issued]
  /\ expected \in [ChallengeIds -> Nat] /\ nonce \in [Validators -> Nat]
  /\ apc \in [Challengers -> ChallengerSteps]
  /\ subject \in [Challengers -> Validators]
  /\ got \in [Challengers -> 0 .. issued] /\ held \in [Challengers -> 0 .. issued]
  /\ \A c \in Challengers : apc[c] \in HoldingSteps => held[c] # NoChallenge
  /\ overlapped \in [Challengers -> BOOLEAN]
  /\ answer \in [Challengers -> Seq(Nat)]
  /\ settled \in [ChallengeIds -> Nat]

\* A challenge is pending for one validator, and whoever holds it works on that one.
PendingInv ==
  /\ \A v, w \in Validators : pending[v] = pending[w] /\ pending[v] # NoChallenge => v = w
  /\ \A c \in Challengers, w \in Validators :
       apc[c] \in HoldingSteps /\ held[c] = pending[w] =>
         subject[c] = w /\ apc[c] \in {"judge", "expired", "timely"}

\* Nobody has paid for a pending challenge; once it is gone, only its holders still can.
SettleInv ==
  \A n \in ChallengeIds :
    /\ n > issued => settled[n] = 0
    /\ IsPending(n) => settled[n] = 0
    /\ ~IsPending(n) => settled[n] + Cardinality(Holders(n)) <= Cardinality(Challengers) + 1

\* What a challenger knows as long as it is alone with its validator.
OverlapInv ==
  /\ \A c, d \in Challengers :
       c # d /\ Busy(c) /\ Busy(d) /\ subject[c] = subject[d] => overlapped[c]
  /\ \A c \in Challengers :
       apc[c] \in {"idle", "challenge", "sign"} => answer[c] = NoAnswer

KnowsNonce(c) ==
  /\ got[c] \in ChallengeIds
  /\ pending[subject[c]] \in {got[c], NoChallenge}

AnswerOK(c) == ~overlapped[c] =>
  /\ apc[c] = "sign" => KnowsNonce(c) /\ expected[got[c]] = nonce[subject[c]]
  /\ apc[c] = "fetch" /\ Len(answer[c]) = 2 =>
       KnowsNonce(c) /\ answer[c] = Digest(got[c], expected[got[c]])
  /\ apc[c] \in HoldingSteps /\ Len(answer[c]) = 2 => Verified(c)

AnswerInv == \A c \in Challengers : AnswerOK(c)

AttestInv == AttestType /\ PendingInv /\ SettleInv /\ OverlapInv /\ AnswerInv

-----------------------------------------------------------------------------
(***************************************************************************)
(* The steps, reduced to what they do to challenges and challengers.       *)
(***************************************************************************)

\* A call that gives up.
Quits(c) ==
  /\ Busy(c) /\ Done(c)
  /\ UNCHANGED <<pending, issued, expected, lapsed, nonce, settled>>

\* A call that only gets on.
Proceeds(c, from, to) ==
  /\ Step(c, from, to)
  /\ UNCHANGED <<pending, issued, expected, lapsed, nonce, subject, got, answer, held,
                 overlapped, settled>>

\* VerifyResponse pays for the challenge it holds and returns.
Pays(c) ==
  /\ apc[c] \in {"late", "verify"} /\ Settle(held[c]) /\ Done(c)
  /\ UNCHANGED <<pending, issued, expected, lapsed, nonce>>

\* VerifyResponse pays for it and goes on to move the nonce.
Rewards(c) ==
  /\ Step(c, "verify", "reactivate") /\ Settle(held[c])
  /\ UNCHANGED <<pending, issued, expected, lapsed, nonce, subject, got, answer, held, overlapped>>

\* Reputations, rounds and time: nothing a challenger looks at but the expiry.
Elsewhere ==
  /\ lapsed' \in {lapsed, lapsed + 1}
  /\ UNCHANGED <<pending, issued, expected, nonce, apc, subject, got, answer, held, overlapped,
                 settled>>

ChallengerMove(c) ==
  \/ \E v \in Validators : ChooseValidator(c, v)
  \/ ChallengeValidator(c)
  \/ SignData(c)
  \/ FetchChallenge(c)
  \/ DropChallenge(c)
  \/ IncrementAuthNonce(c)
  \/ Rewards(c)
  \/ Pays(c)
  \/ Quits(c)
  \/ Proceeds(c, "challenge", "fetch")
  \/ Proceeds(c, "sign", "fetch")
  \/ Proceeds(c, "judge", "expired")
  \/ Proceeds(c, "judge", "timely")
  \/ Proceeds(c, "reactivate", "nonce")

\* Every step of the composition is one of these.
LEMMA AttestMoves ==
  [AttestNext]_attestVars =>
    \/ Elsewhere \/ CleanupExpiredChallenges \/ \E c \in Challengers : ChallengerMove(c)
<1> SUFFICES ASSUME [AttestNext]_attestVars
             PROVE  \/ Elsewhere \/ CleanupExpiredChallenges
                    \/ \E c \in Challengers : ChallengerMove(c)
  OBVIOUS
<1>1. CASE UNCHANGED attestVars
  BY <1>1 DEF attestVars, challengeVars, challengerVars, Elsewhere
<1>2. CASE Consensus
  BY <1>2 DEF Consensus, challengeVars, challengerVars, Elsewhere
<1>3. CASE Expire \/ \E v \in Validators : PenalizeSilent(v)
  BY <1>3 DEF Expire, PenalizeSilent, challengerVars, Elsewhere
<1>4. ASSUME NEW c \in Challengers, ChallengerStep(c) PROVE ChallengerMove(c)
  <2>1. CASE VerifyNil(c)
    BY <2>1 DEF VerifyNil, challengeVars, Proceeds, ChallengerMove
  <2>2. CASE SkipValidator(c) \/ NoPendingChallenge(c)
    BY <2>2 DEF SkipValidator, NoPendingChallenge, challengeVars, Quits, Busy, ChallengerMove
  <2>3. CASE SigningFails(c)
    <3>1. Proceeds(c, "sign", "fetch") \/ Quits(c)
      BY <2>3 DEF SigningFails, challengeVars, Quits, Busy, Proceeds, Step
    <3> QED BY <3>1 DEF ChallengerMove
  <2>4. CASE CheckExpiry(c)
    <3>1. Proceeds(c, "judge", "expired") \/ Proceeds(c, "judge", "timely")
      BY <2>4 DEF CheckExpiry, challengeVars, Proceeds
    <3> QED BY <3>1 DEF ChallengerMove
  <2>5. CASE PenalizeLate(c) \/ PenalizeInvalid(c)
    BY <2>5 DEF PenalizeLate, PenalizeInvalid, challengeVars, Pays, ChallengerMove
  <2>6. CASE RewardValid(c)
    BY <2>6 DEF RewardValid, challengeVars, Rewards, ChallengerMove
  <2>7. CASE Reactivate(c)
    BY <2>7 DEF Reactivate, challengeVars, Proceeds, ChallengerMove
  <2>8. CASE \/ ChallengeValidator(c) \/ SignData(c) \/ FetchChallenge(c) \/ DropChallenge(c)
             \/ IncrementAuthNonce(c)
    BY <2>8 DEF ChallengerMove
  <2> QED BY <1>4, <2>1, <2>2, <2>3, <2>4, <2>5, <2>6, <2>7, <2>8 DEF ChallengerStep
<1>5. CASE Attest
  BY <1>3, <1>4, <1>5 DEF Attest, ChallengerMove
<1> QED BY <1>1, <1>2, <1>5 DEF AttestNext

\* After Done a challenger stands where it started; the others are where they were.
LEMMA DoneMoves ==
  ASSUME AttestType, NEW c \in Challengers, Done(c)
  PROVE  /\ apc' \in [Challengers -> ChallengerSteps] /\ subject' \in [Challengers -> Validators]
         /\ got' \in [Challengers -> 0 .. issued] /\ held' \in [Challengers -> 0 .. issued]
         /\ overlapped' \in [Challengers -> BOOLEAN] /\ answer' \in [Challengers -> Seq(Nat)]
         /\ apc'[c] = "idle" /\ answer'[c] = NoAnswer
         /\ \A d \in Challengers : d # c =>
              /\ apc'[d] = apc[d] /\ subject'[d] = subject[d] /\ got'[d] = got[d]
              /\ held'[d] = held[d] /\ overlapped'[d] = overlapped[d] /\ answer'[d] = answer[d]
<1>1. (CHOOSE v \in Validators : TRUE) \in Validators
  BY VMAssumption
<1>2. NoAnswer \in Seq(Nat)
  BY DEF NoAnswer
<1> QED BY <1>1, <1>2 DEF AttestType, Done, ChallengerSteps, NoChallenge

\* A payment is counted for the challenge held.
LEMMA SettleMoves ==
  ASSUME AttestType, NEW c \in Challengers, apc[c] \in {"late", "verify"}, Settle(held[c])
  PROVE  /\ held[c] \in ChallengeIds /\ held[c] <= issued
         /\ settled' \in [ChallengeIds -> Nat]
         /\ \A n \in ChallengeIds : settled'[n] = IF n = held[c] THEN settled[n] + 1 ELSE settled[n]
<1>1. held[c] \in ChallengeIds /\ held[c] <= issued
  BY AttestAssumption DEF AttestType, HoldingSteps, NoChallenge, ChallengeIds
<1>2. settled' = [settled EXCEPT ![held[c]] = settled[held[c]] + 1]
  BY DEF Settle
<1> QED BY <1>1, <1>2 DEF AttestType

\* Every challenge, digest and step stays in its set.
LEMMA AttestTypeStep == AttestType /\ [AttestNext]_attestVars => AttestType'
<1> SUFFICES ASSUME AttestType, [AttestNext]_attestVars PROVE AttestType'
  OBVIOUS
<1> USE AttestAssumption DEF NoChallenge, ChallengeIds
<1>1. CASE Elsewhere
  BY <1>1 DEF Elsewhere, AttestType
<1>2. CASE CleanupExpiredChallenges
  <2>1. \A n \in ChallengeIds : settled'[n] \in Nat
    BY <1>2 DEF CleanupExpiredChallenges, AttestType
  <2>2. settled' \in [ChallengeIds -> Nat]
    BY <1>2, <2>1 DEF CleanupExpiredChallenges
  <2>3. pending' \in [Validators -> 0 .. issued]
    BY <1>2 DEF CleanupExpiredChallenges, AttestType
  <2> QED BY <1>2, <2>2, <2>3 DEF CleanupExpiredChallenges, challengerVars, AttestType
<1>3. ASSUME NEW c \in Challengers, ChallengerMove(c) PROVE AttestType'
  <2>1. ASSUME NEW v \in Validators, ChooseValidator(c, v) PROVE AttestType'
    <3>1. overlapped' \in [Challengers -> BOOLEAN]
      BY <2>1, Zenon DEF ChooseValidator, AttestType
    <3>2. subject' \in [Challengers -> Validators] /\ apc' \in [Challengers -> ChallengerSteps]
      BY <2>1 DEF ChooseValidator, Step, ChallengerSteps, AttestType
    <3>3. UNCHANGED <<issued, lapsed, pending, expected, nonce, got, answer, held, settled>>
      BY <2>1 DEF ChooseValidator, challengeVars
    <3>4. \A d \in Challengers : apc'[d] \in HoldingSteps => apc[d] \in HoldingSteps
      BY <2>1 DEF ChooseValidator, Step, HoldingSteps, AttestType
    <3> QED BY <3>1, <3>2, <3>3, <3>4 DEF AttestType
  <2>2. CASE ChallengeValidator(c)
    <3>1. /\ issued' = issued + 1 /\ issued' \in ChallengeIds /\ subject[c] \in Validators
          /\ nonce[subject[c]] \in Nat
      BY <2>2 DEF ChallengeValidator, AttestType
    <3>2. pending' \in [Validators -> 0 .. issued'] /\ got' \in [Challengers -> 0 .. issued']
      BY <2>2, <3>1 DEF ChallengeValidator, AttestType
    <3>3. expected' \in [ChallengeIds -> Nat] /\ held \in [Challengers -> 0 .. issued']
      BY SMTT(30), <2>2, <3>1 DEF ChallengeValidator, AttestType
    <3>4. apc' \in [Challengers -> ChallengerSteps]
      BY <2>2 DEF ChallengeValidator, Step, ChallengerSteps, AttestType
    <3>5. \A d \in Challengers : apc'[d] \in HoldingSteps => apc[d] \in HoldingSteps
      BY <2>2 DEF ChallengeValidator, Step, HoldingSteps, AttestType
    <3>6. UNCHANGED <<lapsed, nonce, subject, answer, held, overlapped, settled>>
      BY <2>2 DEF ChallengeValidator
    <3>7. \A d \in Challengers : apc'[d] \in HoldingSteps => held'[d] # NoChallenge
      BY <3>5, <3>6 DEF AttestType
    <3>8. issued' \in 0 .. MaxChallenges /\ held' \in [Challengers -> 0 .. issued']
      BY <3>1, <3>3, <3>6
    <3> QED BY <3>2, <3>3, <3>4, <3>6, <3>7, <3>8 DEF AttestType
  <2>3. CASE SignData(c)
    <3>1. \A n, k \in Nat : Digest(n, k) \in Seq(Nat) /\ RawDigest(n) \in Seq(Nat)
      BY DEF Digest, RawDigest
    <3>2. answer' \in [Challengers -> Seq(Nat)]
      <4>1. got[c] \in Nat /\ nonce[subject[c]] \in Nat
        BY DEF AttestType
      <4>2. PICK s \in Seq(Nat) : answer' = [answer EXCEPT ![c] = s]
        BY <2>3, <3>1, <4>1, Zenon DEF SignData
      <4> QED BY <4>2 DEF AttestType
    <3> QED BY <2>3, <3>2 DEF SignData, Step, challengeVars, ChallengerSteps, HoldingSteps, AttestType
  <2>4. CASE FetchChallenge(c)
    BY <2>4 DEF FetchChallenge, Step, challengeVars, ChallengerSteps, HoldingSteps, AttestType
  <2>5. CASE DropChallenge(c)
    <3>1. pending' \in [Validators -> 0 .. issued]
      BY <2>5 DEF DropChallenge, AttestType
    <3>2. apc' \in [Challengers -> ChallengerSteps]
      BY <2>5 DEF DropChallenge, ChallengerSteps, AttestType
    <3>3. \A d \in Challengers : apc'[d] \in HoldingSteps => apc[d] \in HoldingSteps
      BY <2>5 DEF DropChallenge, HoldingSteps, AttestType
    <3> QED BY <2>5, <3>1, <3>2, <3>3 DEF DropChallenge, AttestType
  <2>6. CASE IncrementAuthNonce(c)
    <3>1. nonce' \in [Validators -> Nat]
      BY <2>6 DEF IncrementAuthNonce, AttestType
    <3>2. UNCHANGED <<issued, lapsed, pending, expected, settled>> /\ Done(c)
      BY <2>6 DEF IncrementAuthNonce
    <3> QED BY ZenonT(30), <3>1, <3>2, DoneMoves DEF HoldingSteps, AttestType
  <2>7. CASE Rewards(c)
    <3>1. settled' \in [ChallengeIds -> Nat]
      BY <2>7, SettleMoves DEF Rewards, Step
    <3>2. apc' \in [Challengers -> ChallengerSteps]
      BY <2>7 DEF Rewards, Step, ChallengerSteps, AttestType
    <3>3. \A d \in Challengers : apc'[d] \in HoldingSteps => apc[d] \in HoldingSteps
      BY <2>7 DEF Rewards, Step, HoldingSteps, AttestType
    <3> QED BY <2>7, <3>1, <3>2, <3>3 DEF Rewards, AttestType
  <2>8. CASE Pays(c)
    <3>1. settled' \in [ChallengeIds -> Nat]
      BY <2>8, SettleMoves DEF Pays
    <3>2. UNCHANGED <<issued, lapsed, pending, expected, nonce>> /\ Done(c)
      BY <2>8 DEF Pays
    <3> QED BY ZenonT(30), <3>1, <3>2, DoneMoves DEF HoldingSteps, AttestType
  <2>9. CASE Quits(c)
    <3>1. UNCHANGED <<issued, lapsed, pending, expected, nonce, settled>> /\ Done(c)
      BY <2>9 DEF Quits
    <3> QED BY ZenonT(30), <3>1, DoneMoves DEF HoldingSteps, AttestType
  <2>10. CASE \/ Proceeds(c, "challenge", "fetch") \/ Proceeds(c, "sign", "fetch")
              \/ Proceeds(c, "judge", "expired") \/ Proceeds(c, "judge", "timely")
              \/ Proceeds(c, "reactivate", "nonce")
    BY <2>10 DEF Proceeds, Step, ChallengerSteps, HoldingSteps, AttestType
  <2> QED BY <1>3, <2>1, <2>2, <2>3, <2>4, <2>5, <2>6, <2>7, <2>8, <2>9, <2>10
          DEF ChallengerMove
<1> QED BY <1>1, <1>2, <1>3, AttestMoves

-----------------------------------------------------------------------------
(***************************************************************************)
(* What is paid for a challenge.                                           *)
(***************************************************************************)

\* Every move but the issue, the copy and the deletion of a challenge leaves
\* what is pending, and its holders are the same, less one that has returned.
LEMMA HoldersShrink ==
  ASSUME AttestType, NEW c \in Challengers, ChallengerMove(c),
         ~ChallengeValidator(c), ~FetchChallenge(c), ~DropChallenge(c)
  PROVE  /\ UNCHANGED <<issued, pending>>
         /\ \A d \in Challengers : apc'[d] \in HoldingSteps =>
              /\ apc[d] \in HoldingSteps /\ held'[d] = held[d] /\ subject'[d] = subject[d]
              /\ apc[d] \in {"judge", "expired", "timely"} =>
                   apc'[d] \in {"judge", "expired", "timely"}
<1>1. CASE \E v \in Validators : ChooseValidator(c, v)
  BY <1>1 DEF ChooseValidator, Step, challengeVars, HoldingSteps, AttestType
<1>2. CASE SignData(c)
  BY <1>2 DEF SignData, Step, challengeVars, HoldingSteps, AttestType
<1>3. CASE IncrementAuthNonce(c)
  <2>1. Done(c) /\ UNCHANGED <<issued, pending>>
    BY <1>3 DEF IncrementAuthNonce
  <2> QED BY <2>1, DoneMoves DEF HoldingSteps
<1>4. CASE Pays(c) \/ Quits(c)
  <2>1. Done(c) /\ UNCHANGED <<issued, pending>>
    BY <1>4 DEF Pays, Quits
  <2> QED BY <2>1, DoneMoves DEF HoldingSteps
<1>5. CASE Rewards(c)
  BY <1>5 DEF Rewards, Step, HoldingSteps, AttestType
<1>6. CASE \/ Proceeds(c, "challenge", "fetch") \/ Proceeds(c, "sign", "fetch")
           \/ Proceeds(c, "judge", "expired") \/ Proceeds(c, "judge", "timely")
           \/ Proceeds(c, "reactivate", "nonce")
  BY <1>6 DEF Proceeds, Step, HoldingSteps, AttestType
<1> QED BY <1>1, <1>2, <1>3, <1>4, <1>5, <1>6 DEF ChallengerMove

\* A challenge that is issued is new: nobody holds it and it is pending once.
LEMMA PendingStep ==
  AttestType /\ PendingInv /\ [AttestNext]_attestVars => PendingInv'
<1> SUFFICES ASSUME AttestType, PendingInv, [AttestNext]_attestVars PROVE PendingInv'
  OBVIOUS
<1> USE AttestAssumption DEF NoChallenge, ChallengeIds
<1>1. CASE Elsewhere
  BY <1>1 DEF Elsewhere, PendingInv
<1>2. CASE CleanupExpiredChallenges
  <2>1. \A v \in Validators : pending'[v] \in {pending[v], NoChallenge}
    BY <1>2 DEF CleanupExpiredChallenges
  <2>2. UNCHANGED <<apc, held, subject>>
    BY <1>2 DEF CleanupExpiredChallenges, challengerVars
  <2> QED BY <2>1, <2>2 DEF PendingInv, AttestType
<1>3. ASSUME NEW c \in Challengers, ChallengeValidator(c) PROVE PendingInv'
  <2>1. \A v \in Validators :
          pending'[v] = IF v = subject[c] THEN issued + 1 ELSE pending[v]
    BY <1>3 DEF ChallengeValidator, AttestType
  <2>2. \A d \in Challengers : apc'[d] \in HoldingSteps => d # c /\ apc'[d] = apc[d]
    BY <1>3 DEF ChallengeValidator, Step, HoldingSteps, AttestType
  <2>3. UNCHANGED <<held, subject>>
    BY <1>3 DEF ChallengeValidator
  <2>4. /\ \A v \in Validators : pending[v] \in Nat /\ pending[v] < issued + 1
        /\ \A d \in Challengers : held[d] \in Nat /\ held[d] < issued + 1
    BY DEF AttestType
  <2> QED BY <2>1, <2>2, <2>3, <2>4 DEF PendingInv
<1>4. ASSUME NEW c \in Challengers, FetchChallenge(c) PROVE PendingInv'
  <2>1. /\ UNCHANGED <<pending, subject>> /\ held'[c] = pending[subject[c]] /\ apc'[c] = "judge"
        /\ pending[subject[c]] # NoChallenge /\ subject[c] \in Validators
        /\ \A d \in Challengers : d # c => held'[d] = held[d] /\ apc'[d] = apc[d]
    BY <1>4 DEF FetchChallenge, Step, challengeVars, AttestType
  <2> QED BY <2>1 DEF PendingInv
<1>5. ASSUME NEW c \in Challengers, DropChallenge(c) PROVE PendingInv'
  <2>1. \A v \in Validators :
          pending'[v] = IF v = subject[c] THEN NoChallenge ELSE pending[v]
    BY <1>5 DEF DropChallenge, AttestType
  <2>2. /\ UNCHANGED <<held, subject>> /\ apc[c] \in HoldingSteps
        /\ \A d \in Challengers : d # c => apc'[d] = apc[d]
    BY <1>5 DEF DropChallenge, HoldingSteps, AttestType
  <2>3. \A d \in Challengers : apc'[d] \in HoldingSteps => held[d] # NoChallenge
    BY <2>2 DEF AttestType
  <2>4. \A w \in Validators : held[c] # pending'[w]
    BY <2>1, <2>2 DEF PendingInv, AttestType
  <2>5. \A d \in Challengers, w \in Validators :
          apc'[d] \in HoldingSteps /\ held'[d] = pending'[w] =>
            d # c /\ pending'[w] = pending[w]
    BY <2>1, <2>2, <2>3, <2>4
  <2>6. \A v, w \in Validators : pending'[v] = pending'[w] /\ pending'[v] # NoChallenge => v = w
    BY <2>1 DEF PendingInv
  <2> QED BY <2>2, <2>5, <2>6 DEF PendingInv
<1>6. ASSUME NEW c \in Challengers, ChallengerMove(c), ~ChallengeValidator(c), ~FetchChallenge(c),
             ~DropChallenge(c)
      PROVE  PendingInv'
  <2>1. /\ UNCHANGED pending
        /\ \A d \in Challengers : apc'[d] \in HoldingSteps =>
              /\ apc[d] \in HoldingSteps /\ held'[d] = held[d] /\ subject'[d] = subject[d]
              /\ apc[d] \in {"judge", "expired", "timely"} =>
                   apc'[d] \in {"judge", "expired", "timely"}
    BY <1>6, HoldersShrink
  <2> QED BY <2>1 DEF PendingInv
<1> QED BY <1>1, <1>2, <1>3, <1>4, <1>5, <1>6, AttestMoves

\* Challengers are finitely many, so their subsets have a size, one less without a member.
LEMMA HoldersCount ==
  ASSUME NEW S \in SUBSET Challengers
  PROVE  /\ IsFiniteSet(S) /\ Cardinality(S) \in Nat /\ Cardinality(Challengers) \in Nat
         /\ Cardinality(S) <= Cardinality(Challengers)
         /\ \A T \in SUBSET S : Cardinality(T) \in Nat /\ Cardinality(T) <= Cardinality(S)
         /\ \A c \in S, T \in SUBSET S : c \notin T => Cardinality(T) + 1 <= Cardinality(S)
<1>1. IsFiniteSet(Challengers)
  BY AttestAssumption
<1>2. IsFiniteSet(S) /\ Cardinality(S) <= Cardinality(Challengers)
  BY <1>1, FS_Subset
<1>3. Cardinality(S) \in Nat /\ Cardinality(Challengers) \in Nat
  BY <1>1, <1>2, FS_CardinalityType
<1>4. ASSUME NEW T \in SUBSET S
      PROVE  Cardinality(T) \in Nat /\ Cardinality(T) <= Cardinality(S)
  <2>1. IsFiniteSet(T) /\ Cardinality(T) <= Cardinality(S)
    BY <1>2, FS_Subset
  <2> QED BY <2>1, FS_CardinalityType
<1>5. ASSUME NEW c \in S, NEW T \in SUBSET S, c \notin T
      PROVE  Cardinality(T) + 1 <= Cardinality(S)
  <2>1. IsFiniteSet(S \ {c}) /\ Cardinality(S \ {c}) = Cardinality(S) - 1
    BY <1>2, FS_RemoveElement
  <2>2. T \in SUBSET (S \ {c})
    BY <1>5
  <2>3. Cardinality(T) <= Cardinality(S \ {c})
    BY <2>1, <2>2, FS_Subset
  <2>4. Cardinality(T) \in Nat
    BY <1>4
  <2> QED BY <1>3, <2>1, <2>3, <2>4
<1> QED BY <1>2, <1>3, <1>4, <1>5

\* A step that does not pay for a challenge and lets nobody hold it that could not before
\* keeps the count for that challenge ...
LEMMA StillSettled ==
  ASSUME AttestType, SettleInv, NEW n \in ChallengeIds, issued' = issued, settled'[n] = settled[n],
         IsPending(n)' = IsPending(n), IsPending(n) \/ Holders(n)' \subseteq Holders(n)
  PROVE  /\ n > issued' => settled'[n] = 0
         /\ IsPending(n)' => settled'[n] = 0
         /\ ~IsPending(n)' =>
              settled'[n] + Cardinality(Holders(n)') <= Cardinality(Challengers) + 1
<1>1. CASE IsPending(n)
  BY <1>1 DEF SettleInv
<1>2. CASE ~IsPending(n)
  <2>1. Holders(n) \in SUBSET Challengers /\ Holders(n)' \in SUBSET Holders(n)
    BY <1>2 DEF Holders
  <2>2. /\ Cardinality(Holders(n)) \in Nat /\ Cardinality(Holders(n)') \in Nat
        /\ Cardinality(Holders(n)') <= Cardinality(Holders(n)) /\ Cardinality(Challengers) \in Nat
    BY <2>1, HoldersCount
  <2>3. settled[n] + Cardinality(Holders(n)) <= Cardinality(Challengers) + 1 /\ settled[n] \in Nat
    BY <1>2 DEF SettleInv, AttestType
  <2> QED BY <1>2, <2>2, <2>3 DEF SettleInv
<1> QED BY <1>1, <1>2

\* ... and so does one that takes it from the pending ones: nobody has paid for it before.
LEMMA NewlySettled ==
  ASSUME AttestType, SettleInv, NEW n \in ChallengeIds, IsPending(n), issued' = issued,
         ~IsPending(n)', settled'[n] \in {0, 1}
  PROVE  settled'[n] + Cardinality(Holders(n)') <= Cardinality(Challengers) + 1
<1>1. Holders(n)' \in SUBSET Challengers
  BY DEF Holders
<1>2. Cardinality(Holders(n)') \in Nat /\ Cardinality(Challengers) \in Nat
      /\ Cardinality(Holders(n)') <= Cardinality(Challengers)
  BY <1>1, HoldersCount
<1> QED BY <1>2

\* A payment comes from a holder, which then holds no more.
LEMMA PaymentSettles ==
  ASSUME AttestType, PendingInv, SettleInv, NEW c \in Challengers, Pays(c) \/ Rewards(c)
  PROVE  SettleInv'
<1>1. apc[c] \in {"late", "verify"} /\ Settle(held[c]) /\ UNCHANGED <<pending, issued>>
  BY DEF Pays, Rewards, Step
<1>2. /\ held[c] \in ChallengeIds /\ held[c] <= issued
      /\ \A n \in ChallengeIds : settled'[n] = IF n = held[c] THEN settled[n] + 1 ELSE settled[n]
  BY <1>1, SettleMoves
<1>3. apc'[c] \notin HoldingSteps
      /\ \A d \in Challengers : d # c => apc'[d] = apc[d] /\ held'[d] = held[d]
  <2>1. CASE Pays(c)
    BY <2>1, DoneMoves DEF Pays, HoldingSteps
  <2>2. CASE Rewards(c)
    BY <2>2 DEF Rewards, Step, HoldingSteps, AttestType
  <2> QED BY <2>1, <2>2
<1>4. \A n \in ChallengeIds : Holders(n)' \subseteq Holders(n) \ {c}
  BY <1>3 DEF Holders
<1>5. \A n \in ChallengeIds : IsPending(n)' = IsPending(n)
  BY <1>1 DEF IsPending
<1>6. SUFFICES ASSUME NEW n \in ChallengeIds
               PROVE  /\ n > issued' => settled'[n] = 0
                      /\ IsPending(n)' => settled'[n] = 0
                      /\ ~IsPending(n)' =>
                           settled'[n] + Cardinality(Holders(n)') <= Cardinality(Challengers) + 1
  BY DEF SettleInv
<1>7. CASE n # held[c]
  <2>1. settled'[n] = settled[n] /\ issued' = issued /\ IsPending(n)' = IsPending(n)
        /\ Holders(n)' \subseteq Holders(n)
    BY <1>1, <1>2, <1>4, <1>5, <1>7
  <2> QED BY <2>1, StillSettled
<1>8. CASE n = held[c]
  <2>1. ~IsPending(n)
    BY <1>1, <1>8 DEF IsPending, PendingInv, HoldingSteps
  <2>2. Holders(n) \in SUBSET Challengers /\ c \in Holders(n)
    BY <1>1, <1>8 DEF Holders, HoldingSteps
  <2>3. Holders(n)' \in SUBSET Holders(n) /\ c \notin Holders(n)'
    BY <1>4
  <2>4. /\ Cardinality(Holders(n)') + 1 <= Cardinality(Holders(n))
        /\ Cardinality(Holders(n)') \in Nat /\ Cardinality(Holders(n)) \in Nat
        /\ Cardinality(Challengers) \in Nat
    BY <2>2, <2>3, HoldersCount
  <2>5. settled[n] + Cardinality(Holders(n)) <= Cardinality(Challengers) + 1 /\ settled[n] \in Nat
    BY <2>1 DEF SettleInv, AttestType
  <2>6. settled'[n] = settled[n] + 1 /\ n <= issued' /\ ~IsPending(n)'
    BY <1>1, <1>2, <1>5, <1>8, <2>1
  <2>7. n \in Nat /\ issued' \in Nat
    BY <1>1, AttestAssumption DEF ChallengeIds, AttestType
  <2> QED BY <2>4, <2>5, <2>6, <2>7
<1> QED BY <1>7, <1>8

\* Every step keeps count of what has been and can still be paid.
LEMMA SettleStep ==
  AttestType /\ PendingInv /\ SettleInv /\ [AttestNext]_attestVars => SettleInv'
<1> SUFFICES ASSUME AttestType, PendingInv, SettleInv, [AttestNext]_attestVars,
                    NEW n \in ChallengeIds
             PROVE  /\ n > issued' => settled'[n] = 0
                    /\ IsPending(n)' => settled'[n] = 0
                    /\ ~IsPending(n)' =>
                         settled'[n] + Cardinality(Holders(n)') <= Cardinality(Challengers) + 1
  BY DEF SettleInv
<1> DEFINE Counted == /\ n > issued' => settled'[n] = 0
                      /\ IsPending(n)' => settled'[n] = 0
                      /\ ~IsPending(n)' =>
                           settled'[n] + Cardinality(Holders(n)') <= Cardinality(Challengers) + 1
<1>a. n \in Nat /\ n # NoChallenge /\ issued \in Nat
  BY AttestAssumption DEF ChallengeIds, NoChallenge, AttestType
<1>1. CASE Elsewhere
  <2>1. settled'[n] = settled[n] /\ issued' = issued /\ IsPending(n)' = IsPending(n)
        /\ Holders(n)' \subseteq Holders(n)
    BY <1>1 DEF Elsewhere, IsPending, Holders
  <2> QED BY <2>1, StillSettled
<1>2. CASE CleanupExpiredChallenges
  <2>1. /\ issued' = issued /\ Holders(n)' = Holders(n)
        /\ pending' = [v \in Validators |-> IF v \in Overdue THEN NoChallenge ELSE pending[v]]
        /\ settled'[n] = IF \E v \in Overdue : pending[v] = n THEN settled[n] + 1 ELSE settled[n]
    BY <1>2 DEF CleanupExpiredChallenges, challengerVars, Holders
  <2>2. Overdue \subseteq Validators
    BY DEF Overdue
  <2>3. CASE \E v \in Overdue : pending[v] = n
    <3>1. IsPending(n)
      BY <2>2, <2>3 DEF IsPending
    <3>2. PICK v \in Overdue : pending[v] = n
      BY <2>3
    <3>3. \A w \in Validators : pending'[w] # n
      BY <1>a, <2>1, <2>2, <3>2 DEF PendingInv
    <3>4. ~IsPending(n)' /\ settled'[n] = 1 /\ settled[n] = 0
      BY <2>1, <2>3, <3>1, <3>3 DEF IsPending, SettleInv
    <3>5. settled'[n] + Cardinality(Holders(n)') <= Cardinality(Challengers) + 1
      BY <2>1, <3>1, <3>4, NewlySettled
    <3>6. n <= issued
      BY <3>1 DEF IsPending, AttestType
    <3> QED BY <1>a, <2>1, <3>4, <3>5, <3>6
  <2>4. CASE ~\E v \in Overdue : pending[v] = n
    <3>1. IsPending(n)' = IsPending(n)
      BY <1>a, <2>1, <2>4 DEF IsPending
    <3> QED BY <2>1, <2>4, <3>1, StillSettled
  <2> QED BY <2>3, <2>4
<1>3. ASSUME NEW c \in Challengers, ChallengeValidator(c) PROVE Counted
  <2>1. /\ \A v \in Validators : pending'[v] = IF v = subject[c] THEN issued + 1 ELSE pending[v]
        /\ issued' = issued + 1 /\ settled' = settled /\ subject[c] \in Validators
        /\ pending[subject[c]] = NoChallenge
    BY <1>3 DEF ChallengeValidator, AttestType
  <2>2. Holders(n)' \subseteq Holders(n)
    BY <1>3 DEF ChallengeValidator, Step, HoldingSteps, Holders, AttestType
  <2>3. CASE n = issued + 1
    <3>1. IsPending(n)' /\ settled'[n] = 0
      BY <1>a, <2>1, <2>3 DEF IsPending, SettleInv
    <3> QED BY <3>1
  <2>4. CASE n # issued + 1
    <3>1. IsPending(n)' = IsPending(n)
      BY <1>a, <2>1, <2>4 DEF IsPending
    <3>2. n > issued' => n > issued
      BY <1>a, <2>1
    <3>3. CASE IsPending(n)
      BY <1>a, <2>1, <3>1, <3>2, <3>3 DEF SettleInv
    <3>4. CASE ~IsPending(n)
      <4>1. Holders(n) \in SUBSET Challengers /\ Holders(n)' \in SUBSET Holders(n)
        BY <2>2 DEF Holders
      <4>2. /\ Cardinality(Holders(n)) \in Nat /\ Cardinality(Holders(n)') \in Nat
            /\ Cardinality(Holders(n)') <= Cardinality(Holders(n))
            /\ Cardinality(Challengers) \in Nat
        BY <4>1, HoldersCount
      <4>3. settled[n] + Cardinality(Holders(n)) <= Cardinality(Challengers) + 1
            /\ settled[n] \in Nat
        BY <3>4 DEF SettleInv, AttestType
      <4> QED BY <2>1, <3>1, <3>2, <3>4, <4>2, <4>3 DEF SettleInv
    <3> QED BY <3>3, <3>4
  <2> QED BY <2>3, <2>4
<1>4. ASSUME NEW c \in Challengers, FetchChallenge(c) PROVE Counted
  <2>1. /\ UNCHANGED <<pending, issued, settled>> /\ held'[c] = pending[subject[c]]
        /\ subject[c] \in Validators
        /\ \A d \in Challengers : d # c => held'[d] = held[d] /\ apc'[d] = apc[d]
    BY <1>4 DEF FetchChallenge, Step, challengeVars, AttestType
  <2>2. IsPending(n)' = IsPending(n)
    BY <2>1 DEF IsPending
  <2>3. ~IsPending(n) => held'[c] # n
    BY <2>1 DEF IsPending
  <2>4. IsPending(n) \/ Holders(n)' \subseteq Holders(n)
    BY <2>1, <2>3 DEF Holders
  <2> QED BY <2>1, <2>2, <2>4, StillSettled
<1>5. ASSUME NEW c \in Challengers, DropChallenge(c) PROVE Counted
  <2>1. /\ \A v \in Validators : pending'[v] = IF v = subject[c] THEN NoChallenge ELSE pending[v]
        /\ UNCHANGED <<issued, settled>> /\ subject[c] \in Validators
    BY <1>5 DEF DropChallenge, AttestType
  <2>2. Holders(n)' \subseteq Holders(n)
    BY <1>5 DEF DropChallenge, HoldingSteps, Holders, AttestType
  <2>3. CASE pending[subject[c]] = n
    <3>1. IsPending(n)
      BY <2>1, <2>3 DEF IsPending
    <3>2. ~IsPending(n)'
      BY <1>a, <2>1, <2>3 DEF IsPending, PendingInv
    <3>3. settled[n] = 0
      BY <3>1 DEF SettleInv
    <3>4. settled'[n] + Cardinality(Holders(n)') <= Cardinality(Challengers) + 1
      BY <2>1, <3>1, <3>2, <3>3, NewlySettled
    <3> QED BY <2>1, <3>2, <3>3, <3>4
  <2>4. CASE pending[subject[c]] # n
    <3>1. IsPending(n)' = IsPending(n)
      BY <1>a, <2>1, <2>4 DEF IsPending
    <3> QED BY <2>1, <2>2, <3>1, StillSettled
  <2> QED BY <2>3, <2>4
<1>6. ASSUME NEW c \in Challengers, Pays(c) \/ Rewards(c) PROVE Counted
  BY <1>6, PaymentSettles DEF SettleInv
<1>7. ASSUME NEW c \in Challengers, ChallengerMove(c), ~ChallengeValidator(c), ~FetchChallenge(c),
             ~DropChallenge(c), ~Pays(c), ~Rewards(c)
      PROVE  Counted
  <2>1. /\ UNCHANGED <<issued, pending>>
        /\ \A d \in Challengers : apc'[d] \in HoldingSteps =>
              apc[d] \in HoldingSteps /\ held'[d] = held[d]
    BY <1>7, HoldersShrink
  <2>2. settled' = settled
    BY <1>7 DEF ChallengerMove, ChooseValidator, SignData, IncrementAuthNonce, Quits, Proceeds
  <2>3. Holders(n)' \subseteq Holders(n) /\ IsPending(n)' = IsPending(n)
    BY <2>1 DEF Holders, IsPending
  <2> QED BY <2>1, <2>2, <2>3, StillSettled
<1> QED BY <1>1, <1>2, <1>3, <1>4, <1>5, <1>6, <1>7, AttestMoves

-----------------------------------------------------------------------------
(***************************************************************************)
(* Why an honest answer is turned down.                                    *)
(***************************************************************************)

\* Nobody but ChooseValidator joins another challenger, which it marks, and only
\* SignData hands in an answer.
LEMMA OverlapInvStep ==
  AttestType /\ OverlapInv /\ [AttestNext]_attestVars => OverlapInv'
<1> SUFFICES ASSUME AttestType, OverlapInv, [AttestNext]_attestVars PROVE OverlapInv'
  OBVIOUS
<1>1. CASE Elsewhere
  BY <1>1 DEF Elsewhere, OverlapInv, Busy
<1>2. CASE CleanupExpiredChallenges
  BY <1>2 DEF CleanupExpiredChallenges, challengerVars, OverlapInv, Busy
<1>3. ASSUME NEW c \in Challengers, NEW v \in Validators, ChooseValidator(c, v) PROVE OverlapInv'
  <2>1. /\ apc[c] = "idle" /\ apc'[c] = "challenge" /\ subject'[c] = v /\ answer' = answer
        /\ \A d \in Challengers : d # c => apc'[d] = apc[d] /\ subject'[d] = subject[d]
    BY <1>3 DEF ChooseValidator, Step, AttestType
  <2>2. \A d \in Challengers : d # c /\ Busy(d) /\ subject[d] = v =>
          overlapped'[c] /\ overlapped'[d]
    BY <1>3, Zenon DEF ChooseValidator, Busy
  <2>3. \A d \in Challengers : d # c /\ overlapped[d] => overlapped'[d]
    BY <1>3, Zenon DEF ChooseValidator
  <2>4. ASSUME NEW d \in Challengers, NEW e \in Challengers, d # e, Busy(d)', Busy(e)',
               subject'[d] = subject'[e]
        PROVE  overlapped'[d]
    <3>1. CASE d # c /\ e # c
      BY <2>1, <2>3, <2>4, <3>1 DEF OverlapInv, Busy
    <3>2. CASE d = c
      BY <2>1, <2>2, <2>4, <3>2 DEF Busy
    <3>3. CASE e = c
      BY <2>1, <2>2, <2>4, <3>3 DEF Busy
    <3> QED BY <3>1, <3>2, <3>3
  <2>5. \A d \in Challengers : apc'[d] \in {"idle", "challenge", "sign"} => answer'[d] = NoAnswer
    BY <2>1 DEF OverlapInv
  <2> QED BY <2>4, <2>5 DEF OverlapInv
<1>4. ASSUME NEW c \in Challengers, ChallengerMove(c), ~\E v \in Validators : ChooseValidator(c, v)
      PROVE  OverlapInv'
  <2>1. \A d \in Challengers :
          /\ Busy(d)' => /\ Busy(d) /\ subject'[d] = subject[d] /\ overlapped'[d] = overlapped[d]
          /\ apc'[d] \in {"idle", "challenge", "sign"} =>
               answer'[d] = NoAnswer
               \/ (answer'[d] = answer[d] /\ apc[d] \in {"idle", "challenge", "sign"})
    <3>1. CASE ChallengeValidator(c)
      BY <3>1 DEF ChallengeValidator, Step, Busy, AttestType
    <3>2. CASE SignData(c)
      <4>1. /\ apc[c] = "sign" /\ apc'[c] = "fetch" /\ UNCHANGED <<subject, overlapped>>
            /\ \A d \in Challengers : d # c => apc'[d] = apc[d] /\ answer'[d] = answer[d]
        BY <3>2 DEF SignData, Step, AttestType
      <4> QED BY <4>1 DEF Busy
    <3>3. CASE FetchChallenge(c)
      BY <3>3 DEF FetchChallenge, Step, Busy, AttestType
    <3>4. CASE DropChallenge(c)
      BY <3>4 DEF DropChallenge, Busy, AttestType
    <3>5. CASE IncrementAuthNonce(c) \/ Pays(c) \/ Quits(c)
      <4>1. Done(c)
        BY <3>5 DEF IncrementAuthNonce, Pays, Quits
      <4> QED BY <4>1, DoneMoves DEF Busy
    <3>6. CASE Rewards(c)
      BY <3>6 DEF Rewards, Step, Busy, AttestType
    <3>7. CASE \/ Proceeds(c, "challenge", "fetch") \/ Proceeds(c, "sign", "fetch")
               \/ Proceeds(c, "judge", "expired") \/ Proceeds(c, "judge", "timely")
               \/ Proceeds(c, "reactivate", "nonce")
      BY <3>7 DEF Proceeds, Step, Busy, AttestType
    <3> QED BY <1>4, <3>1, <3>2, <3>3, <3>4, <3>5, <3>6, <3>7 DEF ChallengerMove
  <2> QED BY <2>1 DEF OverlapInv
<1> QED BY <1>1, <1>2, <1>3, <1>4, AttestMoves

\* What a lone challenger knows stays true while its challenge is at most
\* deleted and the nonce of its validator stays.
LEMMA AnswerKept ==
  ASSUME AttestType, NEW d \in Challengers, AnswerOK(d),
         apc'[d] = apc[d], subject'[d] = subject[d], got'[d] = got[d], answer'[d] = answer[d],
         held'[d] = held[d], ~overlapped'[d] => ~overlapped[d],
         \A n \in ChallengeIds : n <= issued => expected'[n] = expected[n],
         Busy(d) /\ ~overlapped[d] =>
           /\ pending'[subject[d]] \in {pending[subject[d]], NoChallenge}
           /\ nonce'[subject[d]] = nonce[subject[d]]
  PROVE  AnswerOK(d)'
<1> SUFFICES ASSUME ~overlapped'[d]
             PROVE  /\ apc'[d] = "sign" => KnowsNonce(d)' /\ expected'[got'[d]] = nonce'[subject'[d]]
                    /\ apc'[d] = "fetch" /\ Len(answer'[d]) = 2 =>
                         KnowsNonce(d)' /\ answer'[d] = Digest(got'[d], expected'[got'[d]])
                    /\ apc'[d] \in HoldingSteps /\ Len(answer'[d]) = 2 => Verified(d)'
  BY DEF AnswerOK
<1>1. \A n \in ChallengeIds : n \in {got[d], held[d]} => expected'[n] = expected[n]
  BY DEF AttestType
<1>2. apc[d] \in HoldingSteps => held[d] \in ChallengeIds
  BY AttestAssumption DEF AttestType, NoChallenge, ChallengeIds
<1>3. KnowsNonce(d) /\ Busy(d) => KnowsNonce(d)' /\ expected'[got[d]] = expected[got[d]]
  BY <1>1 DEF KnowsNonce
<1>4. apc'[d] = "sign" => KnowsNonce(d)' /\ expected'[got'[d]] = nonce'[subject'[d]]
  BY <1>3 DEF AnswerOK, Busy
<1>5. apc'[d] = "fetch" /\ Len(answer'[d]) = 2 =>
        KnowsNonce(d)' /\ answer'[d] = Digest(got'[d], expected'[got'[d]])
  BY <1>3 DEF AnswerOK, Busy
<1>6. apc'[d] \in HoldingSteps /\ Len(answer'[d]) = 2 => Verified(d)'
  BY <1>1, <1>2 DEF AnswerOK, Verified
<1> QED BY <1>4, <1>5, <1>6

\* A challenger does not disturb one that works on another validator.
LEMMA MoveKeepsOthers ==
  ASSUME AttestType, OverlapInv, AnswerInv, NEW c \in Challengers, ChallengerMove(c),
         NEW d \in Challengers, d # c
  PROVE  AnswerOK(d)'
<1> USE AttestAssumption DEF NoChallenge, ChallengeIds
<1>1. AnswerOK(d)
  BY DEF AnswerInv
<1>2. CASE \E v \in Validators : ChooseValidator(c, v)
  <2>1. /\ apc'[d] = apc[d] /\ subject'[d] = subject[d]
        /\ UNCHANGED <<got, answer, held, expected, pending, nonce>>
    BY <1>2 DEF ChooseValidator, Step, challengeVars, AttestType
  <2>2. ~overlapped'[d] => ~overlapped[d]
    BY <1>2, Zenon DEF ChooseValidator
  <2> QED BY <1>1, <2>1, <2>2, AnswerKept
<1>3. CASE ~\E v \in Validators : ChooseValidator(c, v)
  <2>1. /\ apc'[d] = apc[d] /\ subject'[d] = subject[d] /\ got'[d] = got[d]
        /\ answer'[d] = answer[d] /\ held'[d] = held[d] /\ overlapped'[d] = overlapped[d]
    <3>1. CASE IncrementAuthNonce(c) \/ Pays(c) \/ Quits(c)
      BY <3>1, DoneMoves DEF IncrementAuthNonce, Pays, Quits
    <3>2. CASE ChallengeValidator(c) \/ FetchChallenge(c) \/ DropChallenge(c)
      BY <3>2 DEF ChallengeValidator, FetchChallenge, DropChallenge, Step, AttestType
    <3>3. CASE SignData(c)
      BY <3>3 DEF SignData, Step, AttestType
    <3>4. CASE \/ Rewards(c)
               \/ Proceeds(c, "challenge", "fetch") \/ Proceeds(c, "sign", "fetch")
               \/ Proceeds(c, "judge", "expired") \/ Proceeds(c, "judge", "timely")
               \/ Proceeds(c, "reactivate", "nonce")
      BY <3>4 DEF Rewards, Proceeds, Step, AttestType
    <3> QED BY <1>3, <3>1, <3>2, <3>3, <3>4 DEF ChallengerMove
  <2>2. /\ subject[c] \in Validators /\ subject[d] \in Validators
        /\ Busy(c)
        /\ \A v \in Validators : v # subject[c] => pending'[v] = pending[v] /\ nonce'[v] = nonce[v]
        /\ \A n \in ChallengeIds : n <= issued => expected'[n] = expected[n]
    <3>1. CASE ChallengeValidator(c)
      BY <3>1 DEF ChallengeValidator, Step, Busy, AttestType
    <3>2. CASE DropChallenge(c)
      BY <3>2 DEF DropChallenge, Busy, AttestType
    <3>3. CASE IncrementAuthNonce(c)
      BY <3>3 DEF IncrementAuthNonce, Busy, AttestType
    <3>4. CASE SignData(c) \/ FetchChallenge(c)
      BY <3>4 DEF SignData, FetchChallenge, Step, challengeVars, Busy, AttestType
    <3>5. CASE \/ Pays(c) \/ Quits(c) \/ Rewards(c)
               \/ Proceeds(c, "challenge", "fetch") \/ Proceeds(c, "sign", "fetch")
               \/ Proceeds(c, "judge", "expired") \/ Proceeds(c, "judge", "timely")
               \/ Proceeds(c, "reactivate", "nonce")
      BY <3>5 DEF Pays, Quits, Rewards, Proceeds, Step, Busy, AttestType
    <3> QED BY <1>3, <3>1, <3>2, <3>3, <3>4, <3>5 DEF ChallengerMove
  <2>3. Busy(d) /\ ~overlapped[d] => subject[d] # subject[c]
    BY <2>2 DEF OverlapInv
  <2>4. Busy(d) /\ ~overlapped[d] =>
          /\ pending'[subject[d]] \in {pending[subject[d]], NoChallenge}
          /\ nonce'[subject[d]] = nonce[subject[d]]
    BY <2>2, <2>3
  <2>5. \A n \in ChallengeIds : n <= issued => expected'[n] = expected[n]
    BY <2>2
  <2> HIDE DEF NoChallenge, ChallengeIds
  <2> QED BY <1>1, <2>1, <2>4, <2>5, AnswerKept
<1> QED BY <1>2, <1>3

\* The moves of a lone challenger: it is issued a challenge with the current nonce, signs that
\* nonce, and copies the challenge it was issued.
LEMMA MoveKeepsOwn ==
  ASSUME AttestType, OverlapInv, AnswerInv, NEW c \in Challengers, ChallengerMove(c)
  PROVE  AnswerOK(c)'
<1> USE AttestAssumption DEF NoChallenge, ChallengeIds
<1>1. CASE (\E v \in Validators : ChooseValidator(c, v)) \/ Rewards(c)
           \/ Proceeds(c, "reactivate", "nonce")
  <2>1. apc'[c] \in {"challenge", "reactivate", "nonce"}
    BY <1>1 DEF ChooseValidator, Rewards, Proceeds, Step, AttestType
  <2> QED BY <2>1 DEF AnswerOK, HoldingSteps
<1>2. CASE IncrementAuthNonce(c) \/ Pays(c) \/ Quits(c)
  <2>1. apc'[c] = "idle"
    BY <1>2, DoneMoves DEF IncrementAuthNonce, Pays, Quits
  <2> QED BY <2>1 DEF AnswerOK, HoldingSteps
<1>3. CASE ChallengeValidator(c)
  <2>1. /\ apc'[c] = "sign" /\ got'[c] = issued + 1 /\ subject'[c] = subject[c]
        /\ pending'[subject[c]] = issued + 1 /\ nonce' = nonce
        /\ issued + 1 \in ChallengeIds /\ expected'[issued + 1] = nonce[subject[c]]
    BY <1>3 DEF ChallengeValidator, Step, AttestType
  <2> QED BY <2>1 DEF AnswerOK, KnowsNonce, HoldingSteps
<1>4. CASE SignData(c)
  <2>1. /\ apc[c] = "sign" /\ apc'[c] = "fetch"
        /\ UNCHANGED <<pending, expected, subject, got, overlapped>>
    BY <1>4 DEF SignData, Step, challengeVars, AttestType
  <2>2. answer'[c] = Digest(got[c], nonce[subject[c]]) \/ answer'[c] = RawDigest(got[c])
    BY <1>4 DEF SignData, AttestType
  <2>3. Len(RawDigest(got[c])) # 2
    BY DEF RawDigest
  <2>4. ~overlapped[c] => KnowsNonce(c) /\ expected[got[c]] = nonce[subject[c]]
    BY <2>1 DEF AnswerInv, AnswerOK
  <2>5. KnowsNonce(c) => KnowsNonce(c)'
    BY <2>1 DEF KnowsNonce
  <2> QED BY <2>1, <2>2, <2>3, <2>4, <2>5 DEF AnswerOK, HoldingSteps
<1>5. CASE FetchChallenge(c)
  <2>1. /\ apc[c] = "fetch" /\ apc'[c] = "judge" /\ held'[c] = pending[subject[c]]
        /\ pending[subject[c]] # NoChallenge
        /\ UNCHANGED <<expected, answer, overlapped>>
    BY <1>5 DEF FetchChallenge, Step, challengeVars, AttestType
  <2>2. ~overlapped[c] /\ Len(answer[c]) = 2 =>
          held'[c] = got[c] /\ answer[c] = Digest(got[c], expected[got[c]])
    BY <2>1 DEF AnswerInv, AnswerOK, KnowsNonce
  <2> QED BY <2>1, <2>2 DEF AnswerOK, Verified
<1>6. CASE \/ DropChallenge(c)
           \/ Proceeds(c, "judge", "expired") \/ Proceeds(c, "judge", "timely")
  <2>1. /\ apc[c] \in HoldingSteps /\ apc'[c] \notin {"sign", "fetch"}
        /\ UNCHANGED <<expected, answer, overlapped, held>>
    BY <1>6 DEF DropChallenge, Proceeds, Step, HoldingSteps, AttestType
  <2> QED BY <2>1 DEF AnswerInv, AnswerOK, Verified
<1>7. CASE Proceeds(c, "challenge", "fetch") \/ Proceeds(c, "sign", "fetch")
  <2>1. apc'[c] = "fetch" /\ answer'[c] = NoAnswer
    BY <1>7 DEF Proceeds, Step, OverlapInv, AttestType
  <2>2. Len(NoAnswer) # 2
    BY DEF NoAnswer
  <2> QED BY <2>1, <2>2 DEF AnswerOK, HoldingSteps
<1> QED BY <1>1, <1>2, <1>3, <1>4, <1>5, <1>6, <1>7 DEF ChallengerMove

\* Every step keeps what lone challengers know.
LEMMA AnswerStep ==
  AttestType /\ OverlapInv /\ AnswerInv /\ [AttestNext]_attestVars => AnswerInv'
<1> SUFFICES ASSUME AttestType, OverlapInv, AnswerInv, [AttestNext]_attestVars,
                    NEW d \in Challengers
             PROVE  AnswerOK(d)'
  BY DEF AnswerInv
<1>1. CASE Elsewhere
  <2>1. UNCHANGED <<pending, expected, nonce, apc, subject, got, answer, held, overlapped>>
    BY <1>1 DEF Elsewhere
  <2>2. AnswerOK(d)
    BY DEF AnswerInv
  <2> QED BY <2>1, <2>2 DEF AnswerOK, KnowsNonce, Verified
<1>2. CASE CleanupExpiredChallenges
  <2>1. UNCHANGED <<expected, nonce, apc, subject, got, answer, held, overlapped>>
    BY <1>2 DEF CleanupExpiredChallenges, challengerVars
  <2>2. subject[d] \in Validators
    BY DEF AttestType
  <2>3. pending'[subject[d]] \in {pending[subject[d]], NoChallenge}
    BY <1>2, <2>2 DEF CleanupExpiredChallenges
  <2>4. AnswerOK(d)
    BY DEF AnswerInv
  <2> QED BY <2>1, <2>3, <2>4, AnswerKept
<1>3. ASSUME NEW c \in Challengers, ChallengerMove(c) PROVE AnswerOK(d)'
  <2>1. CASE d = c
    BY <1>3, <2>1, MoveKeepsOwn
  <2>2. CASE d # c
    BY <1>3, <2>2, MoveKeepsOthers
  <2> QED BY <2>1, <2>2
<1> QED BY <1>1, <1>2, <1>3, AttestMoves

-----------------------------------------------------------------------------
\* The system starts without challenges and without busy challengers.
LEMMA AttestInitInv == AttestInit => AttestInv
<1> SUFFICES ASSUME AttestInit PROVE AttestInv
  OBVIOUS
<1> USE AttestAssumption DEF NoChallenge, ChallengeIds
<1>1. AttestType
  <2>1. (CHOOSE v \in Validators : TRUE) \in Validators
    BY VMAssumption
  <2>2. NoAnswer \in Seq(Nat)
    BY DEF NoAnswer
  <2> QED BY <2>1, <2>2 DEF AttestInit, AttestType, ChallengerSteps, HoldingSteps
<1>2. PendingInv
  BY DEF AttestInit, PendingInv, HoldingSteps
<1>3. SettleInv
  <2> SUFFICES ASSUME NEW n \in ChallengeIds
               PROVE  settled[n] = 0 /\ Cardinality(Holders(n)) <= Cardinality(Challengers) + 1
                      /\ Cardinality(Holders(n)) \in Nat
    BY DEF SettleInv
  <2>1. Holders(n) \in SUBSET Challengers
    BY DEF Holders
  <2>2. /\ Cardinality(Holders(n)) \in Nat /\ Cardinality(Challengers) \in Nat
        /\ Cardinality(Holders(n)) <= Cardinality(Challengers)
    BY <2>1, HoldersCount
  <2>3. settled[n] = 0
    BY DEF AttestInit
  <2> QED BY <2>2, <2>3
<1>4. OverlapInv
  BY DEF AttestInit, OverlapInv, Busy
<1>5. AnswerInv
  BY DEF AttestInit, AnswerInv, AnswerOK, HoldingSteps
<1> QED BY <1>1, <1>2, <1>3, <1>4, <1>5 DEF AttestInv

\* The strengthened invariant of authentication, for every interleaving of challengers,
\* cleanups, expiries and consensus rounds.
THEOREM AttestInvariant == AttestSpec => []AttestInv
<1>1. AttestInv /\ [AttestNext]_attestVars => AttestInv'
  BY AttestTypeStep, PendingStep, SettleStep, OverlapInvStep, AnswerStep DEF AttestInv
<1> QED BY <1>1, AttestInitInv, PTL DEF AttestSpec

\* No challenge is paid for more often than once by each challenger and once by the cleanup,
\* although VerifyResponse deletes in another critical section than it reads in.
THEOREM PaymentsAreBounded == AttestSpec => []SettlementsBounded
<1>1. ASSUME AttestInv, NEW n \in ChallengeIds
      PROVE  settled[n] <= Cardinality(Challengers) + 1
  <2>1. Holders(n) \in SUBSET Challengers
    BY DEF Holders
  <2>2. Cardinality(Holders(n)) \in Nat /\ Cardinality(Challengers) \in Nat
    BY <2>1, HoldersCount
  <2>3. settled[n] \in Nat
    BY <1>1 DEF AttestInv, AttestType
  <2>4. settled[n] = 0 \/ settled[n] + Cardinality(Holders(n)) <= Cardinality(Challengers) + 1
    BY <1>1 DEF AttestInv, SettleInv
  <2> QED BY <2>2, <2>3, <2>4
<1>2. AttestInv => SettlementsBounded
  BY <1>1 DEF SettlementsBounded
<1> QED BY <1>2, AttestInvariant, PTL

\* VerifyResponse turns down a signature over challenge and nonce only if another challenger
\* worked on the same validator meanwhile.
THEOREM HonestAnswersAreAccepted == AttestSpec => []RejectedOnlyIfOverlapped
<1>1. AttestInv => RejectedOnlyIfOverlapped
  BY DEF AttestInv, AnswerInv, AnswerOK, HoldingSteps, RejectedOnlyIfOverlapped
<1> QED BY <1>1, AttestInvariant, PTL

-----------------------------------------------------------------------------
(***************************************************************************)
(* The penalties and rewards of authentication among those of consensus.   *)
(***************************************************************************)

\* Authentication changes reputations by UpdateReputation alone.
LEMMA AttestRepStep == AttestType /\ RepInv /\ [AttestNext]_attestVars => RepInv'
<1> SUFFICES ASSUME AttestType, RepInv, [AttestNext]_attestVars PROVE RepInv'
  OBVIOUS
<1>1. CASE UNCHANGED <<rep, score, slashable, proposer>>
  BY <1>1 DEF RepInv, RepType, ScoresMirrorReputation, ScoresKeepFloor
<1>2. CASE Consensus
  BY <1>2, RepStep DEF Consensus
<1>3. ASSUME NEW v \in Validators, NEW change \in {-10, -5, 2}, UpdateReputation(v, change),
             UNCHANGED <<slashable, proposer>>
      PROVE  RepInv'
  BY <1>3, DirectUpdate
<1>4. ASSUME NEW c \in Challengers, PenalizeLate(c) \/ PenalizeInvalid(c) \/ RewardValid(c)
      PROVE  RepInv'
  <2>1. subject[c] \in Validators
    BY DEF AttestType
  <2>2. \E change \in {-10, -5, 2} : UpdateReputation(subject[c], change)
    BY <1>4 DEF PenalizeLate, PenalizeInvalid, RewardValid
  <2>3. UNCHANGED <<slashable, proposer>>
    BY <1>4 DEF PenalizeLate, PenalizeInvalid, RewardValid, roundVars
  <2> QED BY <1>3, <2>1, <2>2, <2>3
<1>5. ASSUME NEW v \in Validators, PenalizeSilent(v) PROVE RepInv'
  BY <1>3, <1>5 DEF PenalizeSilent, roundVars
<1>6. ASSUME NEW c \in Challengers, ChallengerStep(c) \/ \E v \in Validators : ChooseValidator(c, v)
      PROVE  \/ UNCHANGED <<rep, score, slashable, proposer>>
             \/ PenalizeLate(c) \/ PenalizeInvalid(c) \/ RewardValid(c)
  BY <1>6 DEF ChallengerStep, ChooseValidator, ChallengeValidator, VerifyNil, SkipValidator, SignData,
     SigningFails, FetchChallenge, NoPendingChallenge, CheckExpiry, DropChallenge, Reactivate,
     IncrementAuthNonce, vmVars, repVars, roundVars
<1>7. CASE Expire \/ CleanupExpiredChallenges \/ UNCHANGED attestVars
  BY <1>1, <1>7 DEF Expire, CleanupExpiredChallenges, attestVars, vmVars, repVars, roundVars
<1> QED BY <1>1, <1>2, <1>4, <1>5, <1>6, <1>7 DEF AttestNext, Attest

\* With challengers and the goroutines of the cleanup beside the rounds, the two records of a
\* reputation still agree until the first slashing, and both keep the floor of 1.
THEOREM AuthenticationKeepsScores ==
  AttestSpec => [](ScoresMirrorReputation /\ ScoresKeepFloor)
<1>1. AttestInit => RepInv
  BY RepInit DEF AttestInit
<1>2. AttestInv => AttestType
  BY DEF AttestInv
<1>3. RepInv => ScoresMirrorReputation /\ ScoresKeepFloor
  BY DEF RepInv
<1> QED BY <1>1, <1>2, <1>3, AttestRepStep, AttestInvariant, PTL DEF AttestSpec

\* To the rounds authentication is a change of reputations like any other: a round that is
\* voting remembers it.
LEMMA AttestQuorumStep ==
  AttestType /\ VMTypeOK /\ QuorumInv /\ [AttestNext]_attestVars => (VMTypeOK /\ QuorumInv)'
<1> SUFFICES ASSUME AttestType, VMTypeOK, QuorumInv, [AttestNext]_attestVars
             PROVE  VMTypeOK' /\ QuorumInv'
  OBVIOUS
<1>1. ASSUME UNCHANGED <<slashable, roundVars>>,
             rep' \in [Validators -> Int], score' \in [Validators -> Int],
             active' \in [Validators -> BOOLEAN], moved' \in [Rounds -> BOOLEAN],
             \A r \in Rounds : ~moved'[r] => ~moved[r] /\ (rpc[r] = "voting" => rep' = rep)
      PROVE  VMTypeOK' /\ QuorumInv'
  <2>1. VMTypeOK'
    BY <1>1 DEF roundVars, VMTypeOK
  <2>2. ASSUME NEW r \in Rounds PROVE RoundOK(r)'
    <3>1. RoundOK(r)
      BY DEF QuorumInv
    <3>2. /\ agreed'[r] = agreed[r] /\ waiting'[r] = waiting[r] /\ eligible'[r] = eligible[r]
          /\ votes'[r] = votes[r] /\ threshold'[r] = threshold[r] /\ base'[r] = base[r]
          /\ update'[r] = update[r] /\ rpc'[r] = rpc[r]
      BY <1>1 DEF roundVars
    <3>3. ~moved'[r] => ~moved[r] /\ (rpc[r] = "voting" => rep' = rep)
      BY <1>1
    <3> QED BY <3>1, <3>2, <3>3, RoundKept
  <2> QED BY <2>1, <2>2 DEF QuorumInv
<1>2. CASE UNCHANGED vmVars
  <2>1. UNCHANGED <<rep, score, active, moved, slashable, roundVars>>
    BY <1>2 DEF vmVars, repVars, roundVars
  <2> QED BY <1>1, <2>1 DEF VMTypeOK
<1>3. CASE Consensus
  <2>1. VMNext
    BY <1>3 DEF Consensus
  <2> QED BY <2>1, VMTypeStep, QuorumStep
<1>4. ASSUME NEW v \in Validators, NEW change \in {-10, -5, 2}, UpdateReputation(v, change),
             UNCHANGED <<slashable, roundVars>>
      PROVE  VMTypeOK' /\ QuorumInv'
  <2> DEFINE new == AtLeastOne(rep[v] + change)
  <2>1. new \in Int
    BY DEF AtLeastOne, VMTypeOK
  <2>2. rep' = [rep EXCEPT ![v] = new] /\ score' = [score EXCEPT ![v] = new]
    BY <1>4 DEF UpdateReputation
  <2> HIDE DEF new
  <2>3. rep' \in [Validators -> Int] /\ score' \in [Validators -> Int]
    BY <2>1, <2>2 DEF VMTypeOK
  <2>4. active' \in [Validators -> BOOLEAN]
    BY <1>4, Zenon DEF UpdateReputation, VMTypeOK
  <2>5. moved' \in [Rounds -> BOOLEAN]
    BY <1>4, Zenon DEF UpdateReputation, RecordMove, VMTypeOK
  <2>6. \A r \in Rounds : ~moved'[r] => ~moved[r] /\ (rpc[r] = "voting" => rep' = rep)
    BY <1>4, Zenon DEF UpdateReputation, RecordMove
  <2> QED BY <1>1, <1>4, <2>3, <2>4, <2>5, <2>6
<1>5. ASSUME NEW c \in Challengers, PenalizeLate(c) \/ PenalizeInvalid(c) \/ RewardValid(c)
      PROVE  VMTypeOK' /\ QuorumInv'
  <2>1. subject[c] \in Validators
    BY DEF AttestType
  <2>2. PICK change \in {-10, -5, 2} : UpdateReputation(subject[c], change)
    BY <1>5 DEF PenalizeLate, PenalizeInvalid, RewardValid
  <2>3. UNCHANGED <<slashable, roundVars>>
    BY <1>5 DEF PenalizeLate, PenalizeInvalid, RewardValid
  <2> QED BY <1>4, <2>1, <2>2, <2>3
<1>6. ASSUME NEW v \in Validators, PenalizeSilent(v) PROVE VMTypeOK' /\ QuorumInv'
  BY <1>4, <1>6 DEF PenalizeSilent
<1>7. ASSUME NEW c \in Challengers, Reactivate(c) PROVE VMTypeOK' /\ QuorumInv'
  <2>1. UNCHANGED <<slashable, roundVars, rep, score, moved>>
    BY <1>7 DEF Reactivate
  <2>2. active' \in [Validators -> BOOLEAN]
    BY <1>7 DEF Reactivate, VMTypeOK
  <2> QED BY <1>1, <2>1, <2>2 DEF VMTypeOK
<1>8. ASSUME NEW c \in Challengers, ChallengerStep(c) \/ \E v \in Validators : ChooseValidator(c, v)
      PROVE  \/ UNCHANGED vmVars
             \/ PenalizeLate(c) \/ PenalizeInvalid(c) \/ RewardValid(c) \/ Reactivate(c)
  BY <1>8 DEF ChallengerStep, ChooseValidator, ChallengeValidator, VerifyNil, SkipValidator, SignData,
     SigningFails, FetchChallenge, NoPendingChallenge, CheckExpiry, DropChallenge,
     IncrementAuthNonce
<1>9. CASE Expire \/ CleanupExpiredChallenges \/ UNCHANGED attestVars
  <2>1. UNCHANGED vmVars
    BY <1>9 DEF Expire, CleanupExpiredChallenges, attestVars
  <2> QED BY <1>2, <2>1
<1> QED BY <1>2, <1>3, <1>5, <1>6, <1>7, <1>8, <1>9 DEF AttestNext, Attest

\* Rounds stay exact beside authentication: without a reputation moving while it votes, a
\* round is decided exactly by more than two thirds of the eligible reputation.
THEOREM AuthenticationKeepsQuorum == AttestSpec => []QuorumExactWhenStill
<1>1. AttestInit => VMTypeOK /\ QuorumInv
  BY VMTypeInit, QuorumInit DEF AttestInit
<1>2. AttestInv => AttestType
  BY DEF AttestInv
<1> QED BY <1>1, <1>2, ExactQuorum, AttestQuorumStep, AttestInvariant, PTL DEF AttestSpec
==============================================================================
