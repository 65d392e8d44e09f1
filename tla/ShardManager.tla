---------------------------- MODULE ShardManager ----------------------------
(***************************************************************************)
(* The ShardManager and its Shards (core/sharding.go), and the part of     *)
(* Blockchain.AddTransaction (core/blockchain.go) that routes through it.  *)
(*                                                                         *)
(* A shard is an object that outlives its membership: a caller that looked *)
(* the shard up keeps its pointer while a management cycle merges it away. *)
(* pool, state and the metrics are therefore indexed by every shard ever   *)
(* created, and `shards' says which of them the manager still holds.       *)
(*                                                                         *)
(* Three locks decide the atomic steps.  sm.mu is write-locked during a    *)
(* whole CheckAndManageShards (manage.op # "none" below) and read-locked   *)
(* by DetermineShard and GetShard; shard.mu covers AddTransaction,         *)
(* GetTransactionsForBlock, ApplyStateChanges and the migration of a       *)
(* merge; nothing covers two of these calls together.                      *)
(***************************************************************************)
EXTENDS Integers, FiniteSets, Sequences, Functions

CONSTANTS
  Tx,                       \* transactions (tx.ID)
  Keys,                     \* keys of the state databases
  KeyOf,                    \* KeyOf[t]: the key t's data addresses
  InitialShards,            \* NewShardManager's initialShards
  MinShards, MaxShards,     \* ShardManagerConfig, 0 = no maximum
  SplitThresholdStateSize,  \* 0 = disabled, as in the code
  SplitThresholdTxPool,
  MergeThresholdStateSize,
  MergeTargetThresholdSize,
  MaxTx,                    \* transactions per block (10 in MineShardBlock)
  ShardIdLimit              \* bound: ids 0 .. ShardIdLimit - 1 can be created

ASSUME TxAssumption == KeyOf \in [Tx -> Keys] /\ MaxTx \in Nat \ {0}

\* NewShardManager returns an error for any other configuration.
ASSUME ConfigAssumption ==
  /\ InitialShards \in Nat \ {0} /\ MinShards \in Nat /\ MaxShards \in Nat
  /\ InitialShards >= MinShards
  /\ MaxShards > 0 => InitialShards <= MaxShards
  /\ ShardIdLimit \in Nat /\ InitialShards <= ShardIdLimit
  /\ SplitThresholdStateSize \in Nat /\ SplitThresholdTxPool \in Nat
  /\ MergeThresholdStateSize \in Nat /\ MergeTargetThresholdSize \in Nat

VARIABLES
  shards,         \* ids in sm.shards
  shardIDs,       \* sm.shardIDs, kept sorted "for easier merge logic"
  ring,           \* members of the consistent-hash ring
  nextShardID,
  pool,           \* pool[s]: TxPool of shard object s
  state,          \* state[s]: StateDB of s, a map from keys to the transaction whose data is stored
  pendingTxPool,  \* metric of the same name, read by the management cycle
  stateSize,      \* metric of the same name, read by the management cycle
  manage,         \* progress of a management cycle that holds sm.mu: the number of
                  \* shards its split loop has passed, then its decision
  call,           \* call[t]: progress of AddTransaction(t)
  dest            \* dest[t]: the shard AddTransaction(t) was routed to

setVars == <<shards, shardIDs, ring, nextShardID>>
shardVars == <<pool, state, pendingTxPool, stateSize>>
callVars == <<call, dest>>
smVars == <<setVars, shardVars, manage, callVars>>

Ids == 0 .. (ShardIdLimit - 1)
StateDB == UNION {[D -> Tx] : D \in {K \in SUBSET Keys : IsFiniteSet(K)}}
EmptyDB == [k \in {} |-> k]
NoDecision == [op |-> "none", a |-> 0, b |-> 0]
Created == 0 .. (nextShardID - 1)
CallStates == {"new", "routed", "found", "accepted", "rejected"}

SMTypeOK ==
  /\ shards \subseteq Ids /\ ring \subseteq Ids
  /\ shardIDs \in Seq(Ids)
  /\ nextShardID \in 0 .. ShardIdLimit
  /\ pool \in [Ids -> Seq(Tx)]
  /\ state \in [Ids -> StateDB]
  /\ pendingTxPool \in [Ids -> Nat] /\ stateSize \in [Ids -> Nat]
  /\ manage \in [op : {"none", "scan", "split", "merge"}, a : Nat, b : Nat]
  /\ call \in [Tx -> CallStates]
  /\ dest \in [Tx -> Ids]

-----------------------------------------------------------------------------
\* The slice of shard ids.

StrictlySorted(ids) == \A i, j \in DOMAIN ids : i < j => ids[i] < ids[j]

\* sort.Slice: the ids in ascending order.
SortIDs(ids) ==
  CHOOSE t \in {[i \in DOMAIN ids |-> ids[p[i]]] : p \in Bijection(DOMAIN ids, DOMAIN ids)} :
    \A i, j \in DOMAIN ids : i < j => t[i] <= t[j]

\* The copy of sm.shardIDs without the merged id, which it holds once.
RemoveID(ids, b) ==
  LET k == CHOOSE i \in DOMAIN ids : ids[i] = b
  IN [i \in 1 .. (Len(ids) - 1) |-> IF i < k THEN ids[i] ELSE ids[i + 1]]

-----------------------------------------------------------------------------
\* NewShardManager: shards 0 .. InitialShards - 1, each created by NewShard.

SMInit ==
  /\ shards = 0 .. (InitialShards - 1)
  /\ shardIDs = [i \in 1 .. InitialShards |-> i - 1]
  /\ ring = shards
  /\ nextShardID = InitialShards
  /\ pool = [s \in Ids |-> <<>>]
  /\ state = [s \in Ids |-> EmptyDB]
  /\ pendingTxPool = [s \in Ids |-> 0]
  /\ stateSize = [s \in Ids |-> 0]
  /\ manage = NoDecision
  /\ call = [t \in Tx |-> "new"]
  /\ dest = [t \in Tx |-> 0]

-----------------------------------------------------------------------------
(***************************************************************************)
(* AddTransaction: DetermineShard, then GetShard, then the shard's own     *)
(* AddTransaction, each under its own lock.                                *)
(***************************************************************************)

SmReadable == manage.op = "none"

\* Where DetermineShard may send a key: any ring member the map holds; a
\* member the map does not hold falls back to a modulo over shardIDs.
Routes ==
  (ring \cap shards) \cup (IF ring \subseteq shards THEN {} ELSE Range(shardIDs))

DetermineShard(t) ==
  LET routable == shardIDs # <<>> /\ ring # {} IN
  /\ call[t] = "new" /\ SmReadable
  /\ \E s \in IF routable THEN Routes ELSE {dest[t]} : dest' = [dest EXCEPT ![t] = s]
  /\ call' = [call EXCEPT ![t] = IF routable THEN "routed" ELSE "rejected"]
  /\ UNCHANGED <<setVars, shardVars, manage>>

\* Mutant of GetShard: waits for a shard that was merged away.
GetShardWaits(t) ==
  /\ call[t] = "routed" /\ SmReadable
  /\ call' = [call EXCEPT ![t] = IF dest[t] \in shards THEN "found" ELSE "routed"]
  /\ UNCHANGED <<setVars, shardVars, manage, dest>>

\* The shard a caller holds after GetShard stays usable to it whatever the
\* manager does to the set of shards.
GetShard(t) ==
  /\ call[t] = "routed" /\ SmReadable
  /\ call' = [call EXCEPT ![t] = IF dest[t] \in shards THEN "found" ELSE "rejected"]
  /\ UNCHANGED <<setVars, shardVars, manage, dest>>

AddTransaction(t) ==
  LET s == dest[t] IN
  /\ call[t] = "found"
  /\ pool' = [pool EXCEPT ![s] = Append(@, t)]
  /\ pendingTxPool' = [pendingTxPool EXCEPT ![s] = Len(pool[s]) + 1]
  /\ call' = [call EXCEPT ![t] = "accepted"]
  /\ UNCHANGED <<setVars, state, stateSize, manage, dest>>

-----------------------------------------------------------------------------
(***************************************************************************)
(* What a miner that holds shard s does to it.                             *)
(***************************************************************************)

\* Mutant of Smaller: a batch that is not full leaves its last transaction.
SmallerLeavesLast(m, n) == IF m < n THEN m ELSE IF n = 0 THEN 0 ELSE n - 1

Smaller(m, n) == IF m < n THEN m ELSE n

TakenFrom(s) == SubSeq(pool[s], 1, Smaller(MaxTx, Len(pool[s])))

GetTransactionsForBlock(s) ==
  LET rest == SubSeq(pool[s], Smaller(MaxTx, Len(pool[s])) + 1, Len(pool[s])) IN
  /\ pool' = [pool EXCEPT ![s] = rest]
  /\ pendingTxPool' = [pendingTxPool EXCEPT ![s] = Len(rest)]
  /\ UNCHANGED <<setVars, state, stateSize, manage, callVars>>

\* The values key k can hold once txs are applied to db.  A transaction
\* that finds a value goes through HandlePotentialConflict with two empty,
\* hence equal, clocks: the hash of the pair decides which of the two stays.
Contenders(db, txs, k) ==
  (IF k \in DOMAIN db THEN {db[k]} ELSE {})
    \cup {t \in Range(txs) : KeyOf[t] = k}

Applied(db, txs) ==
  {f \in [DOMAIN db \cup {KeyOf[t] : t \in Range(txs)} -> Tx] :
     \A k \in DOMAIN f : f[k] \in Contenders(db, txs, k)}

ApplyStateChanges(s, txs) ==
  /\ \E f \in Applied(state[s], txs) :
       /\ state' = [state EXCEPT ![s] = f]
       /\ stateSize' = [stateSize EXCEPT ![s] = Cardinality(DOMAIN f)]
  /\ UNCHANGED <<setVars, pool, pendingTxPool, manage, callVars>>

-----------------------------------------------------------------------------
(***************************************************************************)
(* CheckAndManageShards takes sm.mu, loads the metrics of one shard after  *)
(* the other without any shard.mu while miners go on, decides on at most   *)
(* one split or merge, and carries it out under the locks of the shards    *)
(* involved.  The split loop is one step per shard: pools grow and shrink  *)
(* between its loads.  The merge loop is one step: it loads state sizes    *)
(* alone, which only grow while sm.mu is held, so the pair it finds was    *)
(* mergeable, and no pair before it, when it loaded the first of the two.  *)
(***************************************************************************)

NeedsSplit(s) ==
  \/ SplitThresholdStateSize > 0 /\ stateSize[s] > SplitThresholdStateSize
  \/ SplitThresholdTxPool > 0 /\ pendingTxPool[s] > SplitThresholdTxPool

\* Mutant of AtMaxShards: off by one.
AboveMaxShards == MaxShards > 0 /\ Cardinality(shards) > MaxShards

AtMaxShards == MaxShards > 0 /\ Cardinality(shards) >= MaxShards

\* One iteration of the split loop; the first one takes sm.mu.
CheckSplit ==
  LET i == IF manage.op = "none" THEN 1 ELSE manage.a + 1 IN
  /\ manage.op \in {"none", "scan"} /\ i <= Len(shardIDs)
  /\ ~AtMaxShards
  /\ manage' = IF NeedsSplit(shardIDs[i])
               THEN [op |-> "split", a |-> shardIDs[i], b |-> shardIDs[i]]
               ELSE [op |-> "scan", a |-> i, b |-> 0]
  /\ UNCHANGED <<setVars, shardVars, callVars>>

\* The split loop is over; with MaxShards reached it cannot do anything.
SplitLoopOver ==
  IF AtMaxShards THEN manage.op = "none" ELSE manage.op = "scan" /\ manage.a = Len(shardIDs)

\* Shard i takes in its right neighbour when both are small.
Mergeable(i) ==
  /\ i + 1 <= Len(shardIDs)
  /\ {shardIDs[i], shardIDs[i + 1]} \subseteq shards
  /\ MergeThresholdStateSize > 0 /\ stateSize[shardIDs[i]] < MergeThresholdStateSize
  /\ MergeTargetThresholdSize > 0 /\ stateSize[shardIDs[i + 1]] < MergeTargetThresholdSize

\* Mutant of DecideMerge: the right neighbour's index is off by one.
DecideMergeWithSelf ==
  /\ SplitLoopOver /\ Cardinality(shards) > MinShards
  /\ \E i \in DOMAIN shardIDs :
       /\ Mergeable(i)
       /\ manage' = [op |-> "merge", a |-> shardIDs[i], b |-> shardIDs[i]]
  /\ UNCHANGED <<setVars, shardVars, callVars>>

DecideMerge ==
  /\ SplitLoopOver /\ Cardinality(shards) > MinShards
  /\ \E i \in DOMAIN shardIDs :
       /\ Mergeable(i)
       /\ \A j \in 1 .. (i - 1) : ~Mergeable(j)
       /\ manage' = [op |-> "merge", a |-> shardIDs[i], b |-> shardIDs[i + 1]]
  /\ UNCHANGED <<setVars, shardVars, callVars>>

\* Nothing to split, nothing to merge.
EndCycle ==
  /\ manage.op = "scan" /\ manage.a = Len(shardIDs)
  /\ Cardinality(shards) <= MinShards \/ \A i \in DOMAIN shardIDs : ~Mergeable(i)
  /\ manage' = NoDecision
  /\ UNCHANGED <<setVars, shardVars, callVars>>

\* triggerSplitUnsafe: the migration between the two locks is a comment.
TriggerSplit ==
  LET new == nextShardID IN
  /\ manage.op = "split"
  /\ new < ShardIdLimit
  /\ nextShardID' = new + 1
  /\ ring' = ring \cup {new}
  /\ shards' = shards \cup {new}
  /\ shardIDs' = SortIDs(Append(shardIDs, new))
  /\ pool' = [pool EXCEPT ![new] = <<>>]
  /\ state' = [state EXCEPT ![new] = EmptyDB]
  /\ pendingTxPool' = [pendingTxPool EXCEPT ![new] = 0]
  /\ stateSize' = [stateSize EXCEPT ![new] = 0]
  /\ manage' = NoDecision
  /\ UNCHANGED callVars

\* Mutant of Migrated: b is cleared before it is copied.
MigratedTooLate(a, b) == state[a]

\* The state of a after every key of b was put into it.
Migrated(a, b) ==
  [k \in DOMAIN state[a] \cup DOMAIN state[b] |->
     IF k \in DOMAIN state[b] THEN state[b][k] ELSE state[a][k]]

\* Mutants of TriggerMerge: b stays on the ring; a's metric is not
\* refreshed; b keeps the transactions copied to a.
MergeWith(newRing, poolB, pendingA) ==
  LET a == manage.a
      b == manage.b
  IN
  /\ manage.op = "merge"
  /\ state' = [state EXCEPT ![a] = Migrated(a, b), ![b] = EmptyDB]
  /\ stateSize' = [stateSize EXCEPT ![a] = Cardinality(DOMAIN Migrated(a, b))]
  /\ pool' = [pool EXCEPT ![a] = pool[a] \o pool[b], ![b] = poolB]
  /\ pendingTxPool' = [pendingTxPool EXCEPT ![a] = pendingA, ![b] = 0]
  /\ ring' = newRing
  /\ shardIDs' = RemoveID(shardIDs, b)
  /\ shards' = shards \ {b}
  /\ manage' = NoDecision
  /\ UNCHANGED <<nextShardID, callVars>>

MergeKeepsRing == MergeWith(ring, <<>>, Len(pool[manage.a] \o pool[manage.b]))
MergeForgetsMetric == MergeWith(ring \ {manage.b}, <<>>, pendingTxPool[manage.a])
MergeCopiesPool ==
  MergeWith(ring \ {manage.b}, pool[manage.b], Len(pool[manage.a] \o pool[manage.b]))

\* triggerMergeUnsafe: b's state and pool move into a, b leaves the manager.
TriggerMerge ==
  LET a == manage.a
      b == manage.b
  IN
  /\ manage.op = "merge"
  /\ state' = [state EXCEPT ![a] = Migrated(a, b), ![b] = EmptyDB]
  /\ stateSize' = [stateSize EXCEPT ![a] = Cardinality(DOMAIN Migrated(a, b))]
  /\ pool' = [pool EXCEPT ![a] = pool[a] \o pool[b], ![b] = <<>>]
  /\ pendingTxPool' = [pendingTxPool EXCEPT ![a] = Len(pool[a] \o pool[b]), ![b] = 0]
  /\ ring' = ring \ {b}
  /\ shardIDs' = RemoveID(shardIDs, b)
  /\ shards' = shards \ {b}
  /\ manage' = NoDecision
  /\ UNCHANGED <<nextShardID, callVars>>

\* The bound on ids: a cycle that decided to split with none left ends.
SplitBeyondBound ==
  /\ manage.op = "split" /\ nextShardID = ShardIdLimit
  /\ manage' = NoDecision
  /\ UNCHANGED <<setVars, shardVars, callVars>>

-----------------------------------------------------------------------------
TxSeqs == UNION {[1 .. n -> Tx] : n \in 0 .. MaxTx}

ManageStep ==
  CheckSplit \/ TriggerSplit \/ SplitBeyondBound \/ DecideMerge \/ TriggerMerge \/ EndCycle

SMNext ==
  \/ \E t \in Tx : DetermineShard(t) \/ GetShard(t) \/ AddTransaction(t)
  \/ \E s \in Created : GetTransactionsForBlock(s)
  \/ \E s \in Created : \E txs \in TxSeqs : ApplyStateChanges(s, txs)
  \/ ManageStep

SMSpec == SMInit /\ [][SMNext]_smVars
-----------------------------------------------------------------------------
(***************************************************************************)
(* Properties.                                                             *)
(***************************************************************************)

\* The map, the slice and the ring are updated one after the other by a
\* split and by a merge; between cycles they name the same shards, and the
\* slice is sorted without duplicates, which the merge's choice of a right
\* neighbour and the modulo fallback of DetermineShard rely on.
RoutingConsistent ==
  /\ StrictlySorted(shardIDs)
  /\ Range(shardIDs) = shards
  /\ ring = shards

\* MinShards and MaxShards hold after every split and merge, although the
\* count is compared when a cycle decides and changed when it acts, and
\* routing always has a shard to go to.
ShardCountBounds ==
  /\ Cardinality(shards) >= MinShards /\ shards # {}
  /\ MaxShards > 0 => Cardinality(shards) <= MaxShards

\* A decision is carried out as it was taken: the split still fits under
\* MaxShards, and the two shards of a merge are still distinct members of
\* the map of which one may go.
DecisionStillValid ==
  /\ manage.op = "split" => ~AtMaxShards
  /\ manage.op = "merge" => /\ Cardinality(shards) > MinShards
                            /\ manage.a \in shards /\ manage.b \in shards
                            /\ manage.a # manage.b

\* The metrics the management cycle decides by are the true sizes of every
\* shard in the map, through splits, merges, mining and routing.
MetricsExact ==
  \A s \in shards :
    /\ pendingTxPool[s] = Len(pool[s])
    /\ stateSize[s] = Cardinality(DOMAIN state[s])

PoolPlaces(t) == UNION {{s} \X {i \in DOMAIN pool[s] : pool[s][i] = t} : s \in Ids}

\* A transaction is never in two pools, or twice in one: a merge moves the
\* pool of the removed shard, whose pointer a miner or a caller of
\* AddTransaction may still hold, instead of copying it.
PooledOnce == \A t \in Tx : Cardinality(PoolPlaces(t)) <= 1

LiveKeys == UNION {DOMAIN state[s] : s \in shards}

\* No split, merge or block makes a stored key disappear from the shards the
\* manager holds.
KeysNeverLost == [][LiveKeys \subseteq LiveKeys']_smVars

\* A shard removed by a merge never returns under its old id, so the chain
\* and the pointers kept under that id never become those of another shard.
RemovedForever ==
  [][\A s \in Created : s \notin shards => s \notin shards']_smVars

\* The inductive invariant behind the theorems of ShardManagerProofs.
SMInv ==
  /\ SMTypeOK
  /\ shards \subseteq Created
  /\ RoutingConsistent
  /\ ShardCountBounds
  /\ DecisionStillValid
  /\ MetricsExact

\* Every AddTransaction returns, however often shards are split and merged
\* under it.
CallsReturn ==
  \A t \in Tx : <>(call[t] \in {"accepted", "rejected"})
=============================================================================
