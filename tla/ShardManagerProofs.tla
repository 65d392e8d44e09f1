------------------------- MODULE ShardManagerProofs -------------------------
(***************************************************************************)
(* Theorems about ShardManager for every configuration NewShardManager     *)
(* accepts and any number of transactions, keys and shard ids.             *)
(*                                                                         *)
(* SMInv is inductive.  That every id of the map is below nextShardID is   *)
(* what makes a split's id new and the sorted slice free of duplicates;    *)
(* DecisionStillValid carries the comparison of the shard count from the   *)
(* step that makes it to the step that changes the count.  One lemma per   *)
(* operation shows that it preserves SMInv.                                *)
(***************************************************************************)
EXTENDS ShardManager, FiniteSetTheorems, TLAPS

\* triggerMergeUnsafe's copy of shardIDs without the merged id is still sorted
\* and names exactly the other shards.
LEMMA RemoveIDSorted ==
  ASSUME NEW ids \in Seq(Int), StrictlySorted(ids), NEW b \in Range(ids)
  PROVE  /\ RemoveID(ids, b) \in Seq(Int)
         /\ StrictlySorted(RemoveID(ids, b))
         /\ Range(RemoveID(ids, b)) = Range(ids) \ {b}
<1> DEFINE k == CHOOSE i \in DOMAIN ids : ids[i] = b
           n == Len(ids)
           r == RemoveID(ids, b)
<1>1. k \in DOMAIN ids /\ ids[k] = b
  BY DEF Range
<1>2. n \in Nat /\ DOMAIN ids = 1 .. n /\ \A i \in 1 .. n : ids[i] \in Int
  OBVIOUS
<1>3. k \in 1 .. n
  BY <1>1, <1>2
<1>4. r = [i \in 1 .. (n - 1) |-> IF i < k THEN ids[i] ELSE ids[i + 1]]
  BY DEF RemoveID
<1> HIDE DEF k, r, n
<1>5. r \in Seq(Int) /\ DOMAIN r = 1 .. (n - 1)
  <2>1. n - 1 \in Nat BY <1>2, <1>3
  <2>2. \A i \in 1 .. (n - 1) : r[i] \in Int BY <1>2, <1>3, <1>4
  <2> QED BY <2>1, <2>2, <1>4
<1>6. StrictlySorted(r)
  <2> SUFFICES ASSUME NEW i \in 1 .. (n - 1), NEW j \in 1 .. (n - 1), i < j
               PROVE  r[i] < r[j]
    BY <1>5 DEF StrictlySorted
  <2>1. \A x, y \in 1 .. n : x < y => ids[x] < ids[y]
    BY <1>2 DEF StrictlySorted
  <2>2. {i, j, i + 1, j + 1} \subseteq 1 .. n
    BY <1>2
  <2> QED BY <1>2, <1>3, <1>4, <2>1, <2>2
<1>7. \A i \in 1 .. n : i # k => ids[i] # b
  BY <1>1, <1>2, <1>3 DEF StrictlySorted
<1>8. \A i \in 1 .. n : i # k => \E j \in 1 .. (n - 1) : r[j] = ids[i]
  <2> SUFFICES ASSUME NEW i \in 1 .. n, i # k PROVE \E j \in 1 .. (n - 1) : r[j] = ids[i]
    OBVIOUS
  <2>1. CASE i < k
    <3>1. i \in 1 .. (n - 1) /\ r[i] = ids[i] BY <2>1, <1>2, <1>3, <1>4
    <3> QED BY <3>1
  <2>2. CASE i > k
    <3>1. i - 1 \in 1 .. (n - 1) /\ r[i - 1] = ids[i] BY <2>2, <1>2, <1>3, <1>4
    <3> QED BY <3>1
  <2> QED BY <2>1, <2>2, <1>2, <1>3
<1>9. \A j \in 1 .. (n - 1) : \E i \in 1 .. n : i # k /\ r[j] = ids[i]
  <2> SUFFICES ASSUME NEW j \in 1 .. (n - 1) PROVE \E i \in 1 .. n : i # k /\ r[j] = ids[i]
    OBVIOUS
  <2>1. CASE j < k
    <3>1. j \in 1 .. n /\ j # k /\ r[j] = ids[j] BY <2>1, <1>2, <1>3, <1>4
    <3> QED BY <3>1
  <2>2. CASE ~(j < k)
    <3>1. j + 1 \in 1 .. n /\ j + 1 # k /\ r[j] = ids[j + 1] BY <2>2, <1>2, <1>3, <1>4
    <3> QED BY <3>1
  <2> QED BY <2>1, <2>2
<1>10. Range(r) = Range(ids) \ {b}
  <2>1. Range(r) = {r[j] : j \in 1 .. (n - 1)} /\ Range(ids) = {ids[i] : i \in 1 .. n}
    BY <1>2, <1>5 DEF Range
  <2>2. Range(r) \subseteq Range(ids) \ {b}
    BY <2>1, <1>7, <1>9
  <2>3. Range(ids) \ {b} \subseteq Range(r)
    BY <2>1, <1>1, <1>8
  <2> QED BY <2>2, <2>3
<1> QED BY <1>5, <1>6, <1>10 DEF r

\* triggerSplitUnsafe appends an id above all others and sorts: the slice is
\* sorted and names exactly the old shards and the new one.
LEMMA SortIDsSorted ==
  ASSUME NEW ids \in Seq(Int), StrictlySorted(ids),
         NEW n \in Int, \A i \in DOMAIN ids : ids[i] < n
  PROVE  /\ SortIDs(Append(ids, n)) \in Seq(Int)
         /\ StrictlySorted(SortIDs(Append(ids, n)))
         /\ Range(SortIDs(Append(ids, n))) = Range(ids) \cup {n}
<1> DEFINE a == Append(ids, n)
           D == 1 .. (Len(ids) + 1)
           Perms == {[i \in DOMAIN a |-> a[p[i]]] : p \in Bijection(DOMAIN a, DOMAIN a)}
           Ascending(t) == \A i, j \in DOMAIN a : i < j => t[i] <= t[j]
           t == CHOOSE u \in Perms : Ascending(u)
<1>1. /\ Len(ids) \in Nat /\ DOMAIN ids = 1 .. Len(ids) /\ D = DOMAIN a
      /\ \A i \in D : a[i] \in Int
      /\ \A i \in 1 .. Len(ids) : a[i] = ids[i] /\ ids[i] \in Int
      /\ a[Len(ids) + 1] = n
  OBVIOUS
<1>2. \A i, j \in D : i < j => a[i] < a[j]
  <2> SUFFICES ASSUME NEW i \in D, NEW j \in D, i < j PROVE a[i] < a[j]
    OBVIOUS
  <2>1. i \in 1 .. Len(ids) BY <1>1
  <2>2. CASE j = Len(ids) + 1 BY <2>1, <2>2, <1>1
  <2>3. CASE j # Len(ids) + 1
    <3>1. j \in 1 .. Len(ids) BY <2>3, <1>1
    <3>2. ids[i] < ids[j] BY <3>1, <2>1, <1>1 DEF StrictlySorted
    <3> QED BY <3>1, <3>2, <2>1, <1>1
  <2> QED BY <2>2, <2>3
<1>3. SortIDs(a) = t
  BY DEF SortIDs
<1> HIDE DEF t
<1>4. t \in Perms /\ Ascending(t)
  <2>1. [i \in D |-> i] \in Bijection(D, D)
    BY DEF Bijection, Injection, Surjection, IsInjective
  <2> DEFINE id == [i \in D |-> i]
             u == [i \in D |-> a[id[i]]]
  <2>2. u \in Perms
    BY <2>1, <1>1
  <2>3. Ascending(u)
    BY <1>1, <1>2
  <2> QED BY <2>2, <2>3 DEF t
<1>5. PICK p \in Bijection(D, D) : t = [i \in D |-> a[p[i]]]
  BY <1>4, <1>1
<1>6. /\ p \in [D -> D]
      /\ \A i, j \in D : p[i] = p[j] => i = j
      /\ \A j \in D : \E i \in D : p[i] = j
  BY <1>5 DEF Bijection, Injection, Surjection, IsInjective
<1> HIDE DEF a, D
<1>7. t \in Seq(Int) /\ DOMAIN t = D
  <2>1. Len(ids) + 1 \in Nat /\ \A i \in D : t[i] \in Int
    BY <1>1, <1>5, <1>6
  <2> QED BY <2>1, <1>5 DEF D
<1>8. \A i, j \in D : i # j => t[i] # t[j]
  <2>1. \A i, j \in D : i # j => a[i] # a[j]
    BY <1>1, <1>2 DEF D
  <2> QED BY <2>1, <1>5, <1>6
<1>9. StrictlySorted(t)
  <2> SUFFICES ASSUME NEW i \in D, NEW j \in D, i < j PROVE t[i] < t[j]
    BY <1>7 DEF StrictlySorted
  <2>1. t[i] <= t[j] BY <1>1, <1>4
  <2>2. t[i] # t[j] BY <1>8, <1>1 DEF D
  <2>3. t[i] \in Int /\ t[j] \in Int BY <1>1, <1>5, <1>6
  <2> QED BY <2>1, <2>2, <2>3
<1>10. Range(t) = Range(ids) \cup {n}
  <2>1. Range(t) = {a[p[i]] : i \in D}
    BY <1>5 DEF Range
  <2>2. {a[p[i]] : i \in D} = {a[i] : i \in D}
    BY <1>6
  <2>3. {a[i] : i \in D} = {ids[i] : i \in 1 .. Len(ids)} \cup {n}
    BY <1>1 DEF D
  <2>4. Range(ids) = {ids[i] : i \in 1 .. Len(ids)}
    BY <1>1 DEF Range
  <2> QED BY <2>1, <2>2, <2>3, <2>4
<1> QED BY <1>3, <1>7, <1>9, <1>10 DEF a

\* A sequence whose elements all lie in S is a sequence over S, used to bring
\* the two facts above about integers back to shard ids.
LEMMA SeqOver ==
  ASSUME NEW S, NEW T, NEW q \in Seq(T), Range(q) \subseteq S
  PROVE  q \in Seq(S)
<1>1. Len(q) \in Nat /\ DOMAIN q = 1 .. Len(q) /\ q = [i \in 1 .. Len(q) |-> q[i]]
  OBVIOUS
<1>2. \A i \in 1 .. Len(q) : q[i] \in S
  BY <1>1 DEF Range
<1> QED BY <1>1, <1>2

\* A StateDB map holds finitely many keys, so the StateSize metric is a number;
\* every finite map from keys to transactions is one, the empty one included.
LEMMA StateDBDomain ==
  /\ \A db \in StateDB : /\ DOMAIN db \subseteq Keys /\ IsFiniteSet(DOMAIN db)
                         /\ Cardinality(DOMAIN db) \in Nat
                         /\ \A k \in DOMAIN db : db[k] \in Tx
  /\ \A D \in SUBSET Keys : IsFiniteSet(D) => [D -> Tx] \subseteq StateDB
  /\ EmptyDB \in StateDB /\ DOMAIN EmptyDB = {} /\ Cardinality({}) = 0
<1>1. ASSUME NEW db \in StateDB
      PROVE  /\ DOMAIN db \subseteq Keys /\ IsFiniteSet(DOMAIN db)
             /\ Cardinality(DOMAIN db) \in Nat
             /\ \A k \in DOMAIN db : db[k] \in Tx
  <2>1. PICK D \in SUBSET Keys : IsFiniteSet(D) /\ db \in [D -> Tx]
    BY DEF StateDB
  <2> QED BY <2>1, FS_CardinalityType
<1>2. \A D \in SUBSET Keys : IsFiniteSet(D) => [D -> Tx] \subseteq StateDB
  BY DEF StateDB
<1>3. EmptyDB \in [{} -> Tx] /\ DOMAIN EmptyDB = {}
  BY DEF EmptyDB
<1> QED BY <1>1, <1>2, <1>3, FS_EmptySet

\* ApplyStateChanges returns a StateDB and never drops a key it found.
LEMMA AppliedStateDB ==
  ASSUME NEW db \in StateDB, NEW txs \in TxSeqs, NEW f \in Applied(db, txs)
  PROVE  f \in StateDB /\ DOMAIN db \subseteq DOMAIN f
<1> DEFINE written == {KeyOf[t] : t \in Range(txs)}
<1>1. PICK n \in 0 .. MaxTx : txs \in [1 .. n -> Tx]
  BY DEF TxSeqs
<1>2. written = {KeyOf[txs[i]] : i \in 1 .. n}
  BY <1>1 DEF Range
<1>3. written \subseteq Keys
  BY <1>1, <1>2, TxAssumption
<1>4. IsFiniteSet(written)
  <2>1. [i \in 1 .. n |-> KeyOf[txs[i]]] \in Surjection(1 .. n, written)
    BY <1>2 DEF Surjection
  <2>2. IsFiniteSet(1 .. n)
    BY FS_Interval, TxAssumption
  <2> QED BY <2>1, <2>2, FS_Surjection
<1>5. f \in [DOMAIN db \cup written -> Tx]
  BY DEF Applied
<1> HIDE DEF written
<1>6. IsFiniteSet(DOMAIN db \cup written) /\ DOMAIN db \cup written \subseteq Keys
  BY <1>3, <1>4, StateDBDomain, FS_Union
<1> QED BY <1>5, <1>6, StateDBDomain

\* What NewShardManager builds satisfies the inductive invariant.
LEMMA SMInitInv == SMInit => SMInv
<1> SUFFICES ASSUME SMInit PROVE SMInv
  OBVIOUS
<1> USE ConfigAssumption, TxAssumption DEF SMInit
<1>1. SMTypeOK
  <2>1. shardIDs \in Seq(Ids)
    BY DEF Ids
  <2>2. NoDecision \in [op : {"none", "scan", "split", "merge"}, a : Nat, b : Nat] /\ 0 \in Ids
    BY DEF NoDecision, Ids
  <2>3. shards \subseteq Ids /\ ring \subseteq Ids /\ nextShardID \in 0 .. ShardIdLimit
    BY DEF Ids
  <2> QED BY <2>1, <2>2, <2>3, StateDBDomain DEF SMTypeOK, CallStates
<1>2. shards \subseteq Created
  BY DEF Created
<1>3. RoutingConsistent
  <2>1. StrictlySorted(shardIDs)
    BY DEF StrictlySorted
  <2>2. Range(shardIDs) = {i - 1 : i \in 1 .. InitialShards}
    BY DEF Range
  <2>3. {i - 1 : i \in 1 .. InitialShards} = 0 .. (InitialShards - 1)
    <3>1. \A x \in 0 .. (InitialShards - 1) : x + 1 \in 1 .. InitialShards /\ x = (x + 1) - 1
      OBVIOUS
    <3>2. 0 .. (InitialShards - 1) \subseteq {i - 1 : i \in 1 .. InitialShards}
      BY <3>1
    <3>3. {i - 1 : i \in 1 .. InitialShards} \subseteq 0 .. (InitialShards - 1)
      OBVIOUS
    <3> QED BY <3>2, <3>3
  <2> QED BY <2>1, <2>2, <2>3 DEF RoutingConsistent
<1>4. ShardCountBounds
  <2>1. Cardinality(shards) = InitialShards
    BY FS_Interval
  <2>2. 0 \in shards
    OBVIOUS
  <2> QED BY <2>1, <2>2 DEF ShardCountBounds
<1>5. DecisionStillValid
  BY DEF DecisionStillValid, NoDecision
<1>6. MetricsExact
  <2>1. shards \subseteq Ids
    BY <1>1 DEF SMTypeOK
  <2> QED BY <2>1, StateDBDomain DEF MetricsExact
<1> QED BY <1>1, <1>2, <1>3, <1>4, <1>5, <1>6 DEF SMInv

\* A step that leaves the set of shards and the management cycle alone keeps
\* every part of the invariant that is about them.
LEMMA SetFrame ==
  ASSUME SMInv, UNCHANGED <<setVars, manage>>
  PROVE  /\ (shards \subseteq Created)' /\ RoutingConsistent' /\ ShardCountBounds'
         /\ DecisionStillValid'
BY DEF SMInv, setVars, Created, RoutingConsistent, ShardCountBounds, DecisionStillValid, AtMaxShards

\* DetermineShard and GetShard, which only read the manager, preserve the
\* invariant; a routed call is sent to an existing id.
LEMMA CallStep ==
  ASSUME SMInv, NEW t \in Tx, DetermineShard(t) \/ GetShard(t)
  PROVE  SMInv'
<1>1. UNCHANGED <<setVars, shardVars, manage>>
  BY DEF DetermineShard, GetShard
<1>2. call' \in [Tx -> CallStates]
  BY DEF SMInv, SMTypeOK, DetermineShard, GetShard, CallStates
<1>3. dest' \in [Tx -> Ids]
  <2>1. Routes \subseteq Ids
    BY DEF SMInv, SMTypeOK, RoutingConsistent, Routes
  <2>2. CASE DetermineShard(t)
    <3>1. PICK s \in Ids : dest' = [dest EXCEPT ![t] = s]
      BY <2>1, <2>2 DEF SMInv, SMTypeOK, DetermineShard
    <3> QED BY <3>1 DEF SMInv, SMTypeOK
  <2>3. CASE GetShard(t)
    BY <2>3 DEF SMInv, SMTypeOK, GetShard
  <2> QED BY <2>2, <2>3
<1>4. SMTypeOK'
  BY <1>1, <1>2, <1>3 DEF SMInv, SMTypeOK, setVars, shardVars, Ids
<1>5. MetricsExact'
  BY <1>1 DEF SMInv, MetricsExact, setVars, shardVars
<1> QED BY <1>1, <1>4, <1>5, SetFrame DEF SMInv

\* Any operation that replaces one TxPool and sets PendingTxPool to its new
\* length keeps the invariant, whether or not the manager still holds the shard.
LEMMA PoolStep ==
  ASSUME SMInv, NEW s \in Ids, NEW p \in Seq(Tx),
         pool' = [pool EXCEPT ![s] = p],
         pendingTxPool' = [pendingTxPool EXCEPT ![s] = Len(p)],
         call' \in [Tx -> CallStates],
         UNCHANGED <<setVars, state, stateSize, manage, dest>>
  PROVE  SMInv'
<1>1. SMTypeOK'
  <2>1. Len(p) \in Nat
    OBVIOUS
  <2> QED BY <2>1 DEF SMInv, SMTypeOK, setVars, Ids
<1>2. MetricsExact'
  BY DEF SMInv, SMTypeOK, MetricsExact, setVars
<1> QED BY <1>1, <1>2, SetFrame DEF SMInv

\* Shard.AddTransaction preserves the invariant.
LEMMA AddStep ==
  ASSUME SMInv, NEW t \in Tx, AddTransaction(t)
  PROVE  SMInv'
<1> DEFINE p == Append(pool[dest[t]], t)
<1>1. dest[t] \in Ids /\ pool[dest[t]] \in Seq(Tx)
  BY DEF SMInv, SMTypeOK
<1>2. p \in Seq(Tx) /\ Len(p) = Len(pool[dest[t]]) + 1
  BY <1>1
<1>3. call' \in [Tx -> CallStates]
  BY DEF SMInv, SMTypeOK, AddTransaction, CallStates
<1> QED BY <1>1, <1>2, <1>3, PoolStep DEF AddTransaction

\* Shard.GetTransactionsForBlock preserves the invariant.
LEMMA TakeStep ==
  ASSUME SMInv, NEW s \in Ids, GetTransactionsForBlock(s)
  PROVE  SMInv'
<1> DEFINE p == SubSeq(pool[s], Smaller(MaxTx, Len(pool[s])) + 1, Len(pool[s]))
<1>1. pool[s] \in Seq(Tx) /\ call \in [Tx -> CallStates]
  BY DEF SMInv, SMTypeOK
<1>2. p \in Seq(Tx)
  BY <1>1, TxAssumption DEF Smaller
<1> QED BY <1>1, <1>2, PoolStep DEF GetTransactionsForBlock, callVars

\* Shard.ApplyStateChanges preserves the invariant: the StateSize it stores is
\* the number of keys it leaves.
LEMMA ApplyStep ==
  ASSUME SMInv, NEW s \in Ids, NEW txs \in TxSeqs, ApplyStateChanges(s, txs)
  PROVE  SMInv'
<1>1. PICK f \in Applied(state[s], txs) :
        /\ state' = [state EXCEPT ![s] = f]
        /\ stateSize' = [stateSize EXCEPT ![s] = Cardinality(DOMAIN f)]
  BY DEF ApplyStateChanges
<1>2. f \in StateDB /\ Cardinality(DOMAIN f) \in Nat
  <2>1. state[s] \in StateDB
    BY DEF SMInv, SMTypeOK
  <2> QED BY <2>1, AppliedStateDB, StateDBDomain
<1>3. UNCHANGED <<setVars, pool, pendingTxPool, manage, callVars>>
  BY DEF ApplyStateChanges
<1>4. SMTypeOK'
  BY <1>1, <1>2, <1>3 DEF SMInv, SMTypeOK, setVars, callVars, Ids
<1>5. MetricsExact'
  BY <1>1, <1>2, <1>3 DEF SMInv, SMTypeOK, MetricsExact, setVars
<1> QED BY <1>3, <1>4, <1>5, SetFrame DEF SMInv

\* The decisions of CheckAndManageShards preserve the invariant: a chosen split
\* fits under MaxShards, and a chosen merge has two distinct members, because
\* neighbours in a strictly sorted slice differ.
LEMMA DecideStep ==
  ASSUME SMInv, CheckSplit \/ DecideMerge \/ EndCycle \/ SplitBeyondBound
  PROVE  SMInv'
<1>1. UNCHANGED <<setVars, shardVars, callVars>>
  BY DEF CheckSplit, DecideMerge, EndCycle, SplitBeyondBound
<1>2. /\ shardIDs \in Seq(Ids) /\ shardIDs \in Seq(Int) /\ Len(shardIDs) \in Nat
      /\ DOMAIN shardIDs = 1 .. Len(shardIDs)
      /\ \A i \in DOMAIN shardIDs : shardIDs[i] \in Ids /\ shardIDs[i] \in shards
  <2>1. shardIDs \in Seq(Ids) /\ Range(shardIDs) = shards
    BY DEF SMInv, SMTypeOK, RoutingConsistent
  <2>2. shardIDs \in Seq(Int)
    <3>1. Range(shardIDs) \subseteq Int
      BY <2>1 DEF SMInv, SMTypeOK, Ids
    <3> QED BY <2>1, <3>1, SeqOver
  <2> QED BY <2>1, <2>2 DEF Range
<1> DEFINE Decisions == [op : {"none", "scan", "split", "merge"}, a : Nat, b : Nat]
<1>3. manage' \in Decisions /\ DecisionStillValid'
  <2>1. CASE CheckSplit
    <3> DEFINE i == IF manage.op = "none" THEN 1 ELSE manage.a + 1
    <3>1. i \in Nat /\ i \in DOMAIN shardIDs
      BY <1>2, <2>1 DEF CheckSplit, SMInv, SMTypeOK
    <3>2. \/ manage' = [op |-> "split", a |-> shardIDs[i], b |-> shardIDs[i]]
          \/ manage' = [op |-> "scan", a |-> i, b |-> 0]
      BY <2>1 DEF CheckSplit
    <3> HIDE DEF i
    <3>3. ~AtMaxShards'
      BY <2>1, <1>1 DEF CheckSplit, AtMaxShards, setVars
    <3>4. shardIDs[i] \in Nat
      BY <3>1, <1>2, ConfigAssumption DEF Ids
    <3> QED BY <3>1, <3>2, <3>3, <3>4 DEF DecisionStillValid
  <2>2. CASE DecideMerge
    <3>1. PICK i \in DOMAIN shardIDs :
            Mergeable(i) /\ manage' = [op |-> "merge", a |-> shardIDs[i], b |-> shardIDs[i + 1]]
      BY <2>2 DEF DecideMerge
    <3>2. i + 1 \in DOMAIN shardIDs /\ i < i + 1
      BY <3>1, <1>2 DEF Mergeable
    <3>3. shardIDs[i] < shardIDs[i + 1]
      BY <3>1, <3>2 DEF SMInv, RoutingConsistent, StrictlySorted
    <3>4. shardIDs[i] # shardIDs[i + 1]
      BY <3>1, <3>2, <3>3, <1>2 DEF Ids
    <3>5. Cardinality(shards') > MinShards /\ shards' = shards
      BY <2>2, <1>1 DEF DecideMerge, setVars
    <3>6. shardIDs[i] \in Nat /\ shardIDs[i + 1] \in Nat
      BY <3>1, <3>2, <1>2, ConfigAssumption DEF Ids
    <3> QED BY <3>1, <3>2, <3>4, <3>5, <3>6, <1>2 DEF DecisionStillValid
  <2>3. CASE EndCycle \/ SplitBeyondBound
    BY <2>3 DEF EndCycle, SplitBeyondBound, NoDecision, DecisionStillValid
  <2> QED BY <2>1, <2>2, <2>3
<1>4. SMTypeOK'
  BY <1>1, <1>3 DEF SMInv, SMTypeOK, setVars, shardVars, callVars, Ids
<1>5. (shards \subseteq Created)' /\ RoutingConsistent' /\ ShardCountBounds' /\ MetricsExact'
  BY <1>1 DEF SMInv, setVars, shardVars, Created, RoutingConsistent, ShardCountBounds, MetricsExact
<1> QED BY <1>3, <1>4, <1>5 DEF SMInv

\* The map of shards is finite, so its size can be compared with MinShards and
\* MaxShards.
LEMMA ShardsFinite ==
  ASSUME SMInv
  PROVE  IsFiniteSet(shards) /\ Cardinality(shards) \in Nat
<1>1. nextShardID \in Int /\ shards \subseteq 0 .. (nextShardID - 1)
  BY ConfigAssumption DEF SMInv, SMTypeOK, Created
<1>2. IsFiniteSet(0 .. (nextShardID - 1))
  BY <1>1, FS_Interval
<1> QED BY <1>1, <1>2, FS_Subset, FS_CardinalityType

\* The slice shardIDs is a sequence of integers that names the shards of the map.
LEMMA IDsAreInts ==
  ASSUME SMInv
  PROVE  /\ shardIDs \in Seq(Int) /\ Range(shardIDs) = shards
         /\ \A i \in DOMAIN shardIDs : shardIDs[i] \in shards
<1>1. shardIDs \in Seq(Ids) /\ Range(shardIDs) = shards /\ shards \subseteq Int
  BY DEF SMInv, SMTypeOK, RoutingConsistent, Ids
<1>2. shardIDs \in Seq(Int)
  BY <1>1, SeqOver
<1> QED BY <1>1, <1>2 DEF Range

\* triggerSplitUnsafe preserves the invariant: nextShardID is above every id in
\* use, so the new shard is new to the map, the ring and the slice, and the count
\* grows by exactly one, to at most MaxShards.
LEMMA SplitStep ==
  ASSUME SMInv, TriggerSplit
  PROVE  SMInv'
<1> DEFINE new == nextShardID
<1>1. /\ new \in Ids /\ new \notin shards /\ new \in Int /\ 0 \in Ids
      /\ new + 1 \in 0 .. ShardIdLimit
      /\ \A s \in shards : s \in Ids /\ s < new
  BY ConfigAssumption DEF SMInv, SMTypeOK, TriggerSplit, Created, Ids
<1> HIDE DEF new
<1>2. /\ shards' = shards \cup {new} /\ ring' = ring \cup {new} /\ nextShardID' = new + 1
      /\ shardIDs' = SortIDs(Append(shardIDs, new)) /\ manage' = NoDecision
      /\ pool' = [pool EXCEPT ![new] = <<>>] /\ state' = [state EXCEPT ![new] = EmptyDB]
      /\ pendingTxPool' = [pendingTxPool EXCEPT ![new] = 0]
      /\ stateSize' = [stateSize EXCEPT ![new] = 0]
      /\ UNCHANGED callVars
  BY DEF TriggerSplit, new
<1>3. /\ shardIDs' \in Seq(Int) /\ StrictlySorted(shardIDs')
      /\ Range(shardIDs') = shards \cup {new}
  <2>1. StrictlySorted(shardIDs)
    BY DEF SMInv, RoutingConsistent
  <2>2. \A i \in DOMAIN shardIDs : shardIDs[i] < new
    BY <1>1, IDsAreInts
  <2> QED BY <1>1, <1>2, <2>1, <2>2, IDsAreInts, SortIDsSorted
<1>4. RoutingConsistent'
  BY <1>2, <1>3 DEF SMInv, RoutingConsistent
<1>5. SMTypeOK'
  <2>1. shardIDs' \in Seq(Ids)
    BY <1>1, <1>3, SeqOver DEF SMInv, SMTypeOK
  <2>2. shards' \subseteq Ids /\ ring' \subseteq Ids /\ nextShardID' \in 0 .. ShardIdLimit
    BY <1>1, <1>2 DEF SMInv, SMTypeOK
  <2>3. pool' \in [Ids -> Seq(Tx)] /\ state' \in [Ids -> StateDB]
    BY <1>1, <1>2, StateDBDomain DEF SMInv, SMTypeOK
  <2>4. pendingTxPool' \in [Ids -> Nat] /\ stateSize' \in [Ids -> Nat]
    BY <1>1, <1>2 DEF SMInv, SMTypeOK
  <2>5. manage' \in [op : {"none", "scan", "split", "merge"}, a : Nat, b : Nat]
    BY <1>1, <1>2 DEF NoDecision
  <2> QED BY <1>2, <2>1, <2>2, <2>3, <2>4, <2>5 DEF SMInv, SMTypeOK, callVars, Ids
<1>6. (shards \subseteq Created)'
  BY <1>1, <1>2 DEF Created, SMInv, Ids
<1>7. ShardCountBounds'
  <2>1. Cardinality(shards') = Cardinality(shards) + 1
    BY <1>1, <1>2, ShardsFinite, FS_AddElement
  <2>2. ~AtMaxShards
    BY DEF SMInv, DecisionStillValid, TriggerSplit
  <2> QED BY <1>2, <2>1, <2>2, ShardsFinite, ConfigAssumption DEF SMInv, ShardCountBounds, AtMaxShards
<1>8. DecisionStillValid'
  BY <1>2 DEF DecisionStillValid, NoDecision
<1>9. MetricsExact'
  <2> SUFFICES ASSUME NEW s \in shards \cup {new}
               PROVE  pendingTxPool'[s] = Len(pool'[s]) /\ stateSize'[s] = Cardinality(DOMAIN state'[s])
    BY <1>2 DEF MetricsExact
  <2>1. CASE s = new
    BY <2>1, <1>1, <1>2, StateDBDomain DEF SMInv, SMTypeOK
  <2>2. CASE s # new
    BY <2>2, <1>1, <1>2 DEF SMInv, SMTypeOK, MetricsExact
  <2> QED BY <2>1, <2>2
<1> QED BY <1>4, <1>5, <1>6, <1>7, <1>8, <1>9 DEF SMInv

\* The migration loop of triggerMergeUnsafe leaves the survivor with a StateDB
\* that holds exactly the keys of both shards.
LEMMA MigratedStateDB ==
  ASSUME SMInv, NEW a \in Ids, NEW b \in Ids
  PROVE  Migrated(a, b) \in StateDB /\ DOMAIN Migrated(a, b) = DOMAIN state[a] \cup DOMAIN state[b]
<1>1. state[a] \in StateDB /\ state[b] \in StateDB
  BY DEF SMInv, SMTypeOK
<1>2. Migrated(a, b) \in [DOMAIN state[a] \cup DOMAIN state[b] -> Tx]
  BY <1>1, StateDBDomain DEF Migrated
<1>3. IsFiniteSet(DOMAIN state[a] \cup DOMAIN state[b])
  BY <1>1, StateDBDomain, FS_Union
<1>4. DOMAIN state[a] \cup DOMAIN state[b] \subseteq Keys
  BY <1>1, StateDBDomain
<1> QED BY <1>2, <1>3, <1>4, StateDBDomain

\* triggerMergeUnsafe preserves the invariant: it removes one member from the
\* map, the ring and the slice alike, the count stays at or above MinShards, and
\* the survivor's metrics are refreshed from what it now holds.
LEMMA MergeStep ==
  ASSUME SMInv, TriggerMerge
  PROVE  SMInv'
<1> DEFINE a == manage.a
           b == manage.b
           db == Migrated(a, b)
           q == pool[a] \o pool[b]
<1>1. /\ a \in shards /\ b \in shards /\ a # b /\ a \in Ids /\ b \in Ids /\ 0 \in Ids
      /\ Cardinality(shards) > MinShards
  BY ConfigAssumption DEF SMInv, SMTypeOK, DecisionStillValid, TriggerMerge, Ids
<1>2. /\ state' = [state EXCEPT ![a] = db, ![b] = EmptyDB]
      /\ stateSize' = [stateSize EXCEPT ![a] = Cardinality(DOMAIN db)]
      /\ pool' = [pool EXCEPT ![a] = q, ![b] = <<>>]
      /\ pendingTxPool' = [pendingTxPool EXCEPT ![a] = Len(q), ![b] = 0]
      /\ ring' = ring \ {b} /\ shardIDs' = RemoveID(shardIDs, b) /\ shards' = shards \ {b}
      /\ manage' = NoDecision /\ UNCHANGED <<nextShardID, callVars>>
  BY DEF TriggerMerge
<1>3. db \in StateDB /\ Cardinality(DOMAIN db) \in Nat
  BY <1>1, MigratedStateDB, StateDBDomain
<1>4. q \in Seq(Tx) /\ Len(q) \in Nat
  BY <1>1 DEF SMInv, SMTypeOK
<1> HIDE DEF a, b, db, q
<1>5. /\ shardIDs' \in Seq(Int) /\ StrictlySorted(shardIDs')
      /\ Range(shardIDs') = shards \ {b}
  BY <1>1, <1>2, IDsAreInts, RemoveIDSorted DEF SMInv, RoutingConsistent
<1>6. RoutingConsistent'
  BY <1>2, <1>5 DEF SMInv, RoutingConsistent
<1>7. SMTypeOK'
  <2>1. shardIDs' \in Seq(Ids)
    <3>1. Range(shardIDs') \subseteq Ids
      BY <1>5 DEF SMInv, SMTypeOK
    <3> QED BY <1>5, <3>1, SeqOver
  <2>2. shards' \subseteq Ids /\ ring' \subseteq Ids
    BY <1>2 DEF SMInv, SMTypeOK
  <2>3. pool' \in [Ids -> Seq(Tx)]
    <3>1. <<>> \in Seq(Tx) /\ pool \in [Ids -> Seq(Tx)]
      BY DEF SMInv, SMTypeOK
    <3> QED BY <1>1, <1>2, <1>4, <3>1
  <2>4. state' \in [Ids -> StateDB]
    BY <1>1, <1>2, <1>3, StateDBDomain DEF SMInv, SMTypeOK
  <2>5. pendingTxPool' \in [Ids -> Nat] /\ stateSize' \in [Ids -> Nat]
    BY <1>1, <1>2, <1>3, <1>4 DEF SMInv, SMTypeOK
  <2>6. manage' \in [op : {"none", "scan", "split", "merge"}, a : Nat, b : Nat]
    BY <1>1, <1>2 DEF NoDecision
  <2> QED BY <1>2, <2>1, <2>2, <2>3, <2>4, <2>5, <2>6 DEF SMInv, SMTypeOK, callVars, Ids
<1>8. (shards \subseteq Created)'
  BY <1>2 DEF SMInv, Created
<1>9. ShardCountBounds'
  <2>1. Cardinality(shards') = Cardinality(shards) - 1
    BY <1>1, <1>2, ShardsFinite, FS_RemoveElement
  <2>2. a \in shards'
    BY <1>1, <1>2
  <2> QED BY <1>1, <2>1, <2>2, ShardsFinite, ConfigAssumption DEF SMInv, ShardCountBounds
<1>10. DecisionStillValid'
  BY <1>2 DEF DecisionStillValid, NoDecision
<1>11. MetricsExact'
  <2> SUFFICES ASSUME NEW s \in shards \ {b}
               PROVE  pendingTxPool'[s] = Len(pool'[s]) /\ stateSize'[s] = Cardinality(DOMAIN state'[s])
    BY <1>2 DEF MetricsExact
  <2>1. CASE s = a
    BY <2>1, <1>1, <1>2 DEF SMInv, SMTypeOK
  <2>2. CASE s # a
    BY <2>2, <1>1, <1>2 DEF SMInv, SMTypeOK, MetricsExact
  <2> QED BY <2>1, <2>2
<1> QED BY <1>6, <1>7, <1>8, <1>9, <1>10, <1>11 DEF SMInv

\* Every step of callers, miners and the management cycle preserves the
\* inductive invariant.
LEMMA SMStepInv == SMInv /\ [SMNext]_smVars => SMInv'
<1> SUFFICES ASSUME SMInv, [SMNext]_smVars PROVE SMInv'
  OBVIOUS
<1>1. CASE UNCHANGED smVars
  BY <1>1 DEF smVars, setVars, shardVars, callVars, SMInv, SMTypeOK, Ids, Created,
              RoutingConsistent, ShardCountBounds, DecisionStillValid, AtMaxShards, MetricsExact
<1>2. ASSUME NEW t \in Tx, DetermineShard(t) \/ GetShard(t) \/ AddTransaction(t)
      PROVE  SMInv'
  BY <1>2, CallStep, AddStep
<1>3. Created \subseteq Ids
  BY ConfigAssumption DEF SMInv, SMTypeOK, Created, Ids
<1>4. ASSUME NEW s \in Created, GetTransactionsForBlock(s)
      PROVE  SMInv'
  BY <1>3, <1>4, TakeStep
<1>5. ASSUME NEW s \in Created, NEW txs \in TxSeqs, ApplyStateChanges(s, txs)
      PROVE  SMInv'
  BY <1>3, <1>5, ApplyStep
<1>6. CASE CheckSplit \/ DecideMerge \/ EndCycle \/ SplitBeyondBound
  BY <1>6, DecideStep
<1>7. CASE TriggerSplit
  BY <1>7, SplitStep
<1>8. CASE TriggerMerge
  BY <1>8, MergeStep
<1> QED BY <1>1, <1>2, <1>4, <1>5, <1>6, <1>7, <1>8 DEF SMNext, ManageStep

\* The inductive invariant holds in every reachable state of the ShardManager.
THEOREM SMInvariant == SMSpec => []SMInv
<1> QED BY SMInitInv, SMStepInv, PTL DEF SMSpec

\* Type correctness of the ShardManager; in particular no metric ever becomes
\* negative and no call is routed to an id that was never created.
THEOREM SMTypeCorrect == SMSpec => []SMTypeOK
<1>1. SMInv => SMTypeOK
  BY DEF SMInv
<1> QED BY <1>1, SMInvariant, PTL

\* The map, the sorted slice and the hash ring name the same shards through any
\* number of splits and merges, for every configuration NewShardManager accepts.
THEOREM RoutingStaysConsistent == SMSpec => []RoutingConsistent
<1>1. SMInv => RoutingConsistent
  BY DEF SMInv
<1> QED BY <1>1, SMInvariant, PTL

\* MinShards and MaxShards are never crossed and routing never runs out of
\* shards, although CheckAndManageShards compares the count and changes it in
\* two different places.
THEOREM ShardCountStaysBounded == SMSpec => []ShardCountBounds
<1>1. SMInv => ShardCountBounds
  BY DEF SMInv
<1> QED BY <1>1, SMInvariant, PTL

\* What CheckAndManageShards decided is still permitted and still makes sense
\* when triggerSplitUnsafe or triggerMergeUnsafe carries it out.
THEOREM DecisionsStayValid == SMSpec => []DecisionStillValid
<1>1. SMInv => DecisionStillValid
  BY DEF SMInv
<1> QED BY <1>1, SMInvariant, PTL

\* PendingTxPool and StateSize, which CheckAndManageShards reads without the
\* shard's lock, equal the true sizes for every shard of the map.
THEOREM MetricsStayExact == SMSpec => []MetricsExact
<1>1. SMInv => MetricsExact
  BY DEF SMInv
<1> QED BY <1>1, SMInvariant, PTL

\* Only triggerSplitUnsafe adds a shard to the map.
LEMMA OnlySplitsAdd ==
  ASSUME SMInv, [SMNext]_smVars
  PROVE  \/ shards' \subseteq shards
         \/ TriggerSplit
<1> QED BY DEF SMNext, DetermineShard, GetShard, AddTransaction, GetTransactionsForBlock,
         ApplyStateChanges, ManageStep, CheckSplit, DecideMerge, EndCycle, SplitBeyondBound, TriggerMerge,
         smVars, setVars

\* A shard merged away never comes back under its id: nextShardID only grows.
THEOREM RemovedStayRemoved == SMSpec => RemovedForever
<1>1. ASSUME SMInv, [SMNext]_smVars
      PROVE  \A s \in Created : s \notin shards => s \notin shards'
  <2>1. CASE shards' \subseteq shards
    BY <2>1
  <2>2. CASE TriggerSplit
    <3>1. shards' = shards \cup {nextShardID}
      BY <2>2 DEF TriggerSplit
    <3>2. nextShardID \notin Created
      BY DEF SMInv, SMTypeOK, Created
    <3> QED BY <3>1, <3>2
  <2> QED BY <1>1, <2>1, <2>2, OnlySplitsAdd
<1>2. SMInv /\ [SMNext]_smVars => [\A s \in Created : s \notin shards => s \notin shards']_smVars
  BY <1>1
<1> QED BY <1>2, SMInvariant, PTL DEF SMSpec, RemovedForever

\* No single step removes a key from all shards of the map: ApplyStateChanges
\* keeps the keys it finds, a split copies none and drops none, and a merge moves
\* the keys of the removed shard into the survivor first.
LEMMA KeysStep ==
  ASSUME SMInv, [SMNext]_smVars
  PROVE  LiveKeys \subseteq LiveKeys'
<1> SUFFICES ASSUME NEW s \in shards, NEW k \in DOMAIN state[s]
             PROVE  \E r \in shards' : k \in DOMAIN state'[r]
  BY DEF LiveKeys
<1>1. s \in Ids /\ state \in [Ids -> StateDB]
  BY DEF SMInv, SMTypeOK
<1>2. CASE UNCHANGED <<shards, state>>
  BY <1>2
<1>3. ASSUME NEW x \in Created, NEW txs \in TxSeqs, ApplyStateChanges(x, txs)
      PROVE  \E r \in shards' : k \in DOMAIN state'[r]
  <2>1. x \in Ids /\ state[x] \in StateDB
    BY <1>1, ConfigAssumption DEF SMInv, SMTypeOK, Created, Ids
  <2>2. PICK f \in Applied(state[x], txs) : state' = [state EXCEPT ![x] = f]
    BY <1>3 DEF ApplyStateChanges
  <2>3. DOMAIN state[x] \subseteq DOMAIN f
    BY <2>1, <2>2, AppliedStateDB
  <2>4. k \in DOMAIN state'[s]
    BY <1>1, <2>1, <2>2, <2>3
  <2> QED BY <1>3, <2>4 DEF ApplyStateChanges, setVars
<1>4. CASE TriggerSplit
  <2>1. s # nextShardID /\ nextShardID \in Ids
    BY <1>1, <1>4, ConfigAssumption DEF SMInv, SMTypeOK, Created, TriggerSplit, Ids
  <2> QED BY <1>1, <1>4, <2>1 DEF TriggerSplit
<1>5. CASE TriggerMerge
  <2>1. /\ manage.a \in shards /\ manage.b \in shards /\ manage.a # manage.b
        /\ manage.a \in Ids /\ manage.b \in Ids
    BY <1>5 DEF SMInv, SMTypeOK, DecisionStillValid, TriggerMerge
  <2>2. DOMAIN Migrated(manage.a, manage.b) = DOMAIN state[manage.a] \cup DOMAIN state[manage.b]
    BY <2>1, MigratedStateDB
  <2>3. /\ shards' = shards \ {manage.b}
        /\ state' = [state EXCEPT ![manage.a] = Migrated(manage.a, manage.b), ![manage.b] = EmptyDB]
    BY <1>5 DEF TriggerMerge
  <2>4. DOMAIN state'[manage.a] = DOMAIN state[manage.a] \cup DOMAIN state[manage.b]
    BY <1>1, <2>1, <2>2, <2>3
  <2>5. CASE s \in {manage.a, manage.b}
    BY <2>1, <2>3, <2>4, <2>5
  <2>6. CASE s \notin {manage.a, manage.b}
    BY <1>1, <2>1, <2>3, <2>6
  <2> QED BY <2>5, <2>6
<1>6. \/ UNCHANGED <<shards, state>>
      \/ \E x \in Created : \E txs \in TxSeqs : ApplyStateChanges(x, txs)
      \/ TriggerSplit
      \/ TriggerMerge
  BY DEF SMNext, DetermineShard, GetShard, AddTransaction, GetTransactionsForBlock,
         ManageStep, CheckSplit, DecideMerge, EndCycle, SplitBeyondBound, smVars, setVars, shardVars
<1> QED BY <1>2, <1>3, <1>4, <1>5, <1>6

\* A key stored in a shard of the map stays in some shard of the map through any
\* number of splits, merges and blocks.
THEOREM KeysStayLive == SMSpec => KeysNeverLost
<1>1. SMInv /\ [SMNext]_smVars => [LiveKeys \subseteq LiveKeys']_smVars
  BY KeysStep
<1> QED BY <1>1, SMInvariant, PTL DEF SMSpec, KeysNeverLost

\* No transaction is in two pools or twice in one.
PooledApart ==
  \A s, c \in Ids : \A i \in DOMAIN pool[s] : \A j \in DOMAIN pool[c] :
    pool[s][i] = pool[c][j] => s = c /\ i = j

\* Only transactions whose AddTransaction got as far as the pool are in a pool.
PooledAccepted == \A s \in Ids : \A i \in DOMAIN pool[s] : call[pool[s][i]] = "accepted"

\* What PooledOnce rests on: PooledAccepted is why Shard.AddTransaction, which
\* does not look for duplicates, appends a transaction that is in no pool yet.
PoolInv == PooledApart /\ PooledAccepted

\* A set with at most one member has at most one in number.
LEMMA AtMostOneMember ==
  ASSUME NEW S, \A x, y \in S : x = y
  PROVE  Cardinality(S) <= 1
<1>1. CASE S = {}
  BY <1>1, FS_EmptySet
<1>2. ASSUME NEW x \in S
      PROVE  Cardinality(S) <= 1
  <2>1. S = {x}
    BY <1>2
  <2>2. Cardinality({x}) = 1
    BY FS_Singleton
  <2> QED BY <2>1, <2>2
<1> QED BY <1>1, <1>2

\* Shard.AddTransaction is called once per transaction, so what it appends was
\* in no pool.
LEMMA AddPlaces ==
  ASSUME SMInv, PoolInv, NEW t \in Tx, AddTransaction(t)
  PROVE  PoolInv'
<1> DEFINE s0 == dest[t]
           n == Len(pool[s0])
<1>1. /\ s0 \in Ids /\ pool \in [Ids -> Seq(Tx)] /\ pool[s0] \in Seq(Tx) /\ n \in Nat
      /\ call \in [Tx -> CallStates] /\ \A s \in Ids : \A i \in DOMAIN pool[s] : pool[s][i] \in Tx
  BY DEF SMInv, SMTypeOK
<1>2. /\ pool' = [pool EXCEPT ![s0] = Append(pool[s0], t)]
      /\ call[t] = "found" /\ call' = [call EXCEPT ![t] = "accepted"]
  BY DEF AddTransaction
<1>3. \A s \in Ids : \A i \in DOMAIN pool[s] : pool[s][i] # t
  BY <1>1, <1>2 DEF PoolInv, PooledAccepted
<1>4. /\ \A s \in Ids \ {s0} : pool'[s] = pool[s]
      /\ DOMAIN pool'[s0] = DOMAIN pool[s0] \cup {n + 1} /\ n + 1 \notin DOMAIN pool[s0]
      /\ pool'[s0][n + 1] = t /\ \A i \in DOMAIN pool[s0] : pool'[s0][i] = pool[s0][i]
  BY <1>1, <1>2
<1> HIDE DEF n, s0
<1>5. \A s \in Ids : \A i \in DOMAIN pool'[s] :
        \/ s = s0 /\ i = n + 1 /\ pool'[s][i] = t
        \/ i \in DOMAIN pool[s] /\ pool'[s][i] = pool[s][i]
  BY <1>1, <1>4
<1>6. PooledApart'
  BY <1>3, <1>5 DEF PoolInv, PooledApart, Ids
<1>7. PooledAccepted'
  BY <1>1, <1>2, <1>5 DEF PoolInv, PooledAccepted, Ids
<1> QED BY <1>6, <1>7 DEF PoolInv

\* GetTransactionsForBlock shifts what it leaves in the pool.
LEMMA TakePlaces ==
  ASSUME SMInv, PoolInv, NEW s0 \in Ids, GetTransactionsForBlock(s0)
  PROVE  PoolInv'
<1> DEFINE n == Smaller(MaxTx, Len(pool[s0]))
           rest == SubSeq(pool[s0], n + 1, Len(pool[s0]))
<1>1. pool \in [Ids -> Seq(Tx)] /\ pool[s0] \in Seq(Tx) /\ Len(pool[s0]) \in Nat
  BY DEF SMInv, SMTypeOK
<1>2. n \in 0 .. Len(pool[s0])
  BY <1>1, TxAssumption DEF Smaller
<1>3. pool' = [pool EXCEPT ![s0] = rest] /\ UNCHANGED call
  BY DEF GetTransactionsForBlock, callVars
<1> HIDE DEF n
<1>4. \A i \in DOMAIN rest : i \in Int /\ i + n \in DOMAIN pool[s0] /\ rest[i] = pool[s0][i + n]
  BY <1>1, <1>2
<1> HIDE DEF rest
<1>5. \A s \in Ids \ {s0} : pool'[s] = pool[s]
  BY <1>1, <1>3
<1>6. pool'[s0] = rest
  BY <1>1, <1>3
<1>7. PooledApart'
  <2> SUFFICES ASSUME NEW s \in Ids, NEW c \in Ids, NEW i \in DOMAIN pool'[s], NEW j \in DOMAIN pool'[c],
                      pool'[s][i] = pool'[c][j]
               PROVE  s = c /\ i = j
    BY DEF PooledApart, Ids
  <2>1. CASE s = s0 /\ c = s0
    <3>1. pool[s0][i + n] = pool[s0][j + n] /\ i + n \in DOMAIN pool[s0] /\ j + n \in DOMAIN pool[s0]
      BY <1>4, <1>6, <2>1
    <3>2. i + n = j + n /\ i \in Int /\ j \in Int
      BY <1>4, <1>6, <2>1, <3>1 DEF PoolInv, PooledApart
    <3> QED BY <1>2, <2>1, <3>2
  <2>2. CASE s = s0 /\ c # s0
    BY <1>4, <1>5, <1>6, <2>2 DEF PoolInv, PooledApart
  <2>3. CASE s # s0 /\ c = s0
    BY <1>4, <1>5, <1>6, <2>3 DEF PoolInv, PooledApart
  <2>4. CASE s # s0 /\ c # s0
    BY <1>5, <2>4 DEF PoolInv, PooledApart
  <2> QED BY <2>1, <2>2, <2>3, <2>4
<1>8. PooledAccepted'
  BY <1>3, <1>4, <1>5, <1>6 DEF PoolInv, PooledAccepted, Ids
<1> QED BY <1>7, <1>8 DEF PoolInv

\* An element of u \o v is one of u, or one of v that many places further.
LEMMA ConcatPlaces ==
  ASSUME NEW T, NEW u \in Seq(T), NEW v \in Seq(T), NEW i \in DOMAIN (u \o v)
  PROVE  \/ i \in DOMAIN u /\ (u \o v)[i] = u[i]
         \/ i \in Int /\ i - Len(u) \in DOMAIN v /\ (u \o v)[i] = v[i - Len(u)]
<1>1. /\ Len(u) \in Nat /\ Len(v) \in Nat /\ DOMAIN u = 1 .. Len(u) /\ DOMAIN v = 1 .. Len(v)
      /\ DOMAIN (u \o v) = 1 .. (Len(u) + Len(v))
  OBVIOUS
<1>2. i \in 1 .. (Len(u) + Len(v))
  BY <1>1
<1>3. CASE i <= Len(u)
  BY <1>1, <1>2, <1>3
<1>4. CASE i > Len(u)
  <2>1. i - Len(u) \in 1 .. Len(v)
    BY <1>1, <1>2, <1>4
  <2> QED BY <1>1, <1>2, <1>4, <2>1
<1> QED BY <1>1, <1>2, <1>3, <1>4

\* triggerMergeUnsafe moves the removed shard's pool behind the survivor's.
LEMMA MergePlaces ==
  ASSUME SMInv, PoolInv, TriggerMerge
  PROVE  PoolInv'
<1> DEFINE a == manage.a
           b == manage.b
           n == Len(pool[a])
           q == pool[a] \o pool[b]
<1>1. a \in Ids /\ b \in Ids /\ a # b
  BY DEF SMInv, SMTypeOK, DecisionStillValid, TriggerMerge
<1>2. /\ pool \in [Ids -> Seq(Tx)] /\ pool[a] \in Seq(Tx) /\ pool[b] \in Seq(Tx) /\ n \in Nat
      /\ Len(pool[b]) \in Nat /\ DOMAIN pool[a] = 1 .. n /\ DOMAIN pool[b] = 1 .. Len(pool[b])
  BY <1>1 DEF SMInv, SMTypeOK
<1>3. pool' = [pool EXCEPT ![a] = q, ![b] = <<>>] /\ UNCHANGED call
  BY DEF TriggerMerge, callVars
<1> HIDE DEF a, b
<1>4. \A i \in DOMAIN q : \/ i \in DOMAIN pool[a] /\ q[i] = pool[a][i]
                          \/ i \in Int /\ i - n \in DOMAIN pool[b] /\ q[i] = pool[b][i - n]
  BY <1>2, ConcatPlaces
<1> HIDE DEF n, q
<1>10. /\ \A i, j \in DOMAIN pool[a] : pool[a][i] = pool[a][j] => i = j
       /\ \A i, j \in DOMAIN pool[b] : pool[b][i] = pool[b][j] => i = j
       /\ \A i \in DOMAIN pool[a], j \in DOMAIN pool[b] : pool[a][i] # pool[b][j]
  BY <1>1 DEF PoolInv, PooledApart
<1>5. /\ \A s \in Ids \ {a, b} : pool'[s] = pool[s]
      /\ pool'[a] = q /\ DOMAIN pool'[b] = {}
  BY <1>1, <1>2, <1>3
<1>6. \A i, j \in DOMAIN q : q[i] = q[j] => i = j
  <2> SUFFICES ASSUME NEW i \in DOMAIN q, NEW j \in DOMAIN q, q[i] = q[j] PROVE i = j
    OBVIOUS
  <2>1. CASE i \in DOMAIN pool[a] /\ q[i] = pool[a][i] /\ j \in DOMAIN pool[a] /\ q[j] = pool[a][j]
    BY <1>10, <2>1
  <2>2. CASE /\ i \in Int /\ i - n \in DOMAIN pool[b] /\ q[i] = pool[b][i - n]
             /\ j \in Int /\ j - n \in DOMAIN pool[b] /\ q[j] = pool[b][j - n]
    <3>1. i - n = j - n
      BY <1>10, <2>2
    <3> QED BY <1>2, <2>2, <3>1
  <2>3. CASE /\ i \in DOMAIN pool[a] /\ q[i] = pool[a][i]
             /\ j - n \in DOMAIN pool[b] /\ q[j] = pool[b][j - n]
    BY <1>10, <2>3
  <2>4. CASE /\ j \in DOMAIN pool[a] /\ q[j] = pool[a][j]
             /\ i - n \in DOMAIN pool[b] /\ q[i] = pool[b][i - n]
    BY <1>10, <2>4
  <2> QED BY <1>4, <2>1, <2>2, <2>3, <2>4
<1>7. ASSUME NEW s \in Ids \ {a, b}, NEW k \in DOMAIN pool[s], NEW i \in DOMAIN q
      PROVE  pool[s][k] # q[i]
  BY <1>1, <1>4 DEF PoolInv, PooledApart
<1>8. PooledApart'
  <2> SUFFICES ASSUME NEW s \in Ids, NEW c \in Ids, NEW i \in DOMAIN pool'[s], NEW j \in DOMAIN pool'[c],
                      pool'[s][i] = pool'[c][j]
               PROVE  s = c /\ i = j
    BY DEF PooledApart, Ids
  <2>1. s # b /\ c # b
    BY <1>5
  <2>2. CASE s = a /\ c = a
    BY <1>5, <1>6, <2>2
  <2>3. CASE s = a /\ c # a
    <3>1. pool'[c] = pool[c]
      BY <1>5, <2>1, <2>3
    <3> QED BY <1>5, <1>7, <2>1, <2>3, <3>1
  <2>4. CASE s # a /\ c = a
    <3>1. pool'[s] = pool[s]
      BY <1>5, <2>1, <2>4
    <3> QED BY <1>5, <1>7, <2>1, <2>4, <3>1
  <2>5. CASE s # a /\ c # a
    <3>1. pool'[s] = pool[s] /\ pool'[c] = pool[c]
      BY <1>5, <2>1, <2>5
    <3> QED BY <3>1 DEF PoolInv, PooledApart
  <2> QED BY <2>2, <2>3, <2>4, <2>5
<1>9. PooledAccepted'
  <2> SUFFICES ASSUME NEW s \in Ids, NEW i \in DOMAIN pool'[s]
               PROVE  call[pool'[s][i]] = "accepted"
    BY <1>3 DEF PooledAccepted, Ids
  <2>1. CASE s = a
    BY <1>1, <1>4, <1>5, <2>1 DEF PoolInv, PooledAccepted
  <2>2. CASE s # a
    BY <1>5, <2>2 DEF PoolInv, PooledAccepted
  <2> QED BY <2>1, <2>2
<1> QED BY <1>8, <1>9 DEF PoolInv

\* Every step of callers, miners and the management cycle keeps a transaction
\* in one pool.
LEMMA PoolStepInv == SMInv /\ PoolInv /\ [SMNext]_smVars => PoolInv'
<1> SUFFICES ASSUME SMInv, PoolInv, [SMNext]_smVars PROVE PoolInv'
  OBVIOUS
<1>1. /\ pool \in [Ids -> Seq(Tx)] /\ call \in [Tx -> CallStates] /\ Created \subseteq Ids
      /\ \A s \in Ids : \A i \in DOMAIN pool[s] : pool[s][i] \in Tx
  BY ConfigAssumption DEF SMInv, SMTypeOK, Created, Ids
<1>2. CASE UNCHANGED <<pool, call>>
  BY <1>2 DEF PoolInv, PooledApart, PooledAccepted, Ids
<1>3. ASSUME NEW t \in Tx, DetermineShard(t) \/ GetShard(t)
      PROVE  PoolInv'
  <2>1. UNCHANGED pool /\ call[t] # "accepted" /\ \A u \in Tx \ {t} : call'[u] = call[u]
    BY <1>1, <1>3 DEF DetermineShard, GetShard, shardVars
  <2> QED BY <1>1, <2>1 DEF PoolInv, PooledApart, PooledAccepted, Ids
<1>4. CASE TriggerSplit
  <2>1. pool' = [pool EXCEPT ![nextShardID] = <<>>] /\ UNCHANGED call
    BY <1>4 DEF TriggerSplit, callVars
  <2>2. \A s \in Ids : DOMAIN pool'[s] = {} \/ pool'[s] = pool[s]
    BY <1>1, <2>1
  <2> QED BY <2>1, <2>2 DEF PoolInv, PooledApart, PooledAccepted, Ids
<1>5. \/ UNCHANGED <<pool, call>>
      \/ \E t \in Tx : DetermineShard(t) \/ GetShard(t) \/ AddTransaction(t)
      \/ \E s \in Created : GetTransactionsForBlock(s)
      \/ TriggerSplit \/ TriggerMerge
  BY DEF SMNext, ApplyStateChanges, ManageStep, CheckSplit, DecideMerge, EndCycle, SplitBeyondBound,
         smVars, shardVars, callVars
<1> QED BY <1>1, <1>2, <1>3, <1>4, <1>5, AddPlaces, TakePlaces, MergePlaces

\* No pool, and no two pools, hold a transaction twice, through splits, merges
\* and calls that still add to a shard that was merged away.
LEMMA PoolInvariant == SMSpec => []PoolInv
<1>1. SMInit => PoolInv
  BY DEF SMInit, PoolInv, PooledApart, PooledAccepted
<1> QED BY <1>1, PoolStepInv, SMInvariant, PTL DEF SMSpec

\* A transaction is in at most one place of one pool.
THEOREM TransactionsPooledOnce == SMSpec => []PooledOnce
<1>1. PoolInv => PooledOnce
  <2> SUFFICES ASSUME PoolInv, NEW t \in Tx PROVE Cardinality(PoolPlaces(t)) <= 1
    BY DEF PooledOnce
  <2>1. \A x \in PoolPlaces(t) : \E s \in Ids : \E i \in DOMAIN pool[s] : pool[s][i] = t /\ x = <<s, i>>
    BY DEF PoolPlaces
  <2>2. \A x, y \in PoolPlaces(t) : x = y
    BY <2>1 DEF PoolInv, PooledApart
  <2> QED BY <2>2, AtMostOneMember
<1> QED BY <1>1, PoolInvariant, PTL
\* A created shard that leaves the map is never in it again, and the state of a
\* shard only grows as long as a step does not take it out of the map.
LEMMA StateGrows ==
  ASSUME SMInv, [SMNext]_smVars, NEW s \in Created
  PROVE  /\ s \in shards' => s \in shards
         /\ (s \in shards => s \in shards') => DOMAIN state[s] \subseteq DOMAIN state'[s]
<1>1. /\ s \in Ids /\ state \in [Ids -> StateDB] /\ s # nextShardID /\ nextShardID \notin Created
      /\ Created \subseteq Ids
  BY ConfigAssumption DEF SMInv, SMTypeOK, Created, Ids
<1>2. s \in shards' => s \in shards
  BY <1>1, OnlySplitsAdd DEF TriggerSplit
<1>3. CASE UNCHANGED state
  BY <1>2, <1>3
<1>4. ASSUME NEW x \in Created, NEW txs \in TxSeqs, ApplyStateChanges(x, txs)
      PROVE  DOMAIN state[s] \subseteq DOMAIN state'[s]
  <2>1. PICK f \in Applied(state[x], txs) : state' = [state EXCEPT ![x] = f]
    BY <1>4 DEF ApplyStateChanges
  <2>2. x \in Ids /\ state[x] \in StateDB
    BY <1>1
  <2>3. DOMAIN state[x] \subseteq DOMAIN f
    BY <2>1, <2>2, AppliedStateDB
  <2> QED BY <1>1, <2>1, <2>3
<1>5. CASE TriggerSplit
  <2>1. state'[s] = state[s]
    BY <1>1, <1>5 DEF TriggerSplit
  <2> QED BY <1>2, <2>1
<1>6. CASE TriggerMerge
  <2> DEFINE a == manage.a
             b == manage.b
  <2>1. a \in shards /\ b \in shards /\ a # b /\ a \in Ids /\ b \in Ids
    BY <1>6 DEF SMInv, SMTypeOK, DecisionStillValid, TriggerMerge
  <2>2. DOMAIN Migrated(a, b) = DOMAIN state[a] \cup DOMAIN state[b]
    BY <2>1, MigratedStateDB
  <2>3. shards' = shards \ {b} /\ state' = [state EXCEPT ![a] = Migrated(a, b), ![b] = EmptyDB]
    BY <1>6 DEF TriggerMerge
  <2> HIDE DEF a, b
  <2>4. CASE s = b
    BY <2>1, <2>3, <2>4
  <2>5. CASE s = a
    BY <1>1, <1>2, <2>1, <2>2, <2>3, <2>5
  <2>6. CASE s # a /\ s # b
    BY <1>1, <1>2, <2>3, <2>6
  <2> QED BY <2>4, <2>5, <2>6
<1>7. \/ UNCHANGED state
      \/ \E x \in Created : \E txs \in TxSeqs : ApplyStateChanges(x, txs)
      \/ TriggerSplit \/ TriggerMerge
  BY DEF SMNext, DetermineShard, GetShard, AddTransaction, GetTransactionsForBlock,
         ManageStep, CheckSplit, DecideMerge, EndCycle, SplitBeyondBound, smVars, shardVars
<1> QED BY <1>2, <1>3, <1>4, <1>5, <1>6, <1>7
=============================================================================
