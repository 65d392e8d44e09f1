-------------------------- MODULE LifecycleProofs --------------------------
(***************************************************************************)
(* Proofs about Lifecycle: nobody closes the stop channel of a shard twice *)
(* and main's shutdown closes all of them; the consistency level moves for *)
(* the reasons LeavesStrongOnlyInPartition gives; and when main prints its *)
(* final report nothing else runs.                                         *)
(***************************************************************************)
EXTENDS Lifecycle, FiniteSetTheorems, SequenceTheorems, TLAPS

\* The shards whose stop channel is still to be closed.
Unstopped ==
  IF driver = "embedded" \/ step <= 5 THEN shards ELSE IF step = 6 THEN toStop ELSE {}

ShardTypes ==
  /\ driver \in {"main", "embedded"}
  /\ step \in Nat /\ step <= Len(ShutdownOrder)
  /\ loop \in [Loops -> {"off", "sleep", "select", "body", "done"}]
  /\ nextId \in Nat /\ nextId <= MaxShardId + 1
  /\ shards \subseteq 0 .. nextId - 1
  /\ stops \in [ShardIds -> Nat]

\* Every shard was stopped once or waits for it; from the moment its wait group is
\* free, the management loop takes no further step.
StopInv ==
  /\ ShardTypes
  /\ step > 0 => Started
  /\ driver = "main" /\ step >= 5 => ~Running("manager")
  /\ driver = "main" /\ step = 6 => toStop \subseteq shards
  /\ \A s \in ShardIds : stops[s] = IF s < nextId /\ s \notin Unstopped THEN 1 ELSE 0

-----------------------------------------------------------------------------
\* Where the steps of main's shutdown that matter for shards stand.
LEMMA MainOrder ==
  ASSUME driver = "main"
  PROVE  /\ Len(ShutdownOrder) = 11
         /\ ShutdownOrder[5] = Wait("sm.stopChan")
         /\ ShutdownOrder[6] = Collect /\ ShutdownOrder[7] = StopShards
         /\ \A i \in 1 .. 11 : /\ ShutdownOrder[i].op = "collect" => i = 6
                               /\ ShutdownOrder[i].op = "shards" => i = 7
                               /\ ShutdownOrder[i].op \in {"close", "wait", "report"} => i \notin {6, 7}
  BY DEF ShutdownOrder, Close, Wait, Collect, StopShards, Report

\* Blockchain.Stop stops no shards.
LEMMA EmbeddedOrder ==
  ASSUME driver = "embedded"
  PROVE  /\ Len(ShutdownOrder) = 2
         /\ \A i \in 1 .. 2 : ShutdownOrder[i].op \in {"close", "wait"}
  BY DEF ShutdownOrder, Close, Wait

\* The shutdown order depends on the driver and the loops only, which no step changes.
LEMMA OrdersFixed ==
  ASSUME UNCHANGED driver
  PROVE  ShutdownOrder' = ShutdownOrder /\ StartOrder' = StartOrder
<1>1. ShutdownOrder' = ShutdownOrder
  BY DEF ShutdownOrder
<1>2. StartOrder' = StartOrder
  BY DEF StartOrder
<1> QED  BY <1>1, <1>2

\* A wait group at zero has no loop left.
LEMMA NobodyLeft ==
  ASSUME NEW c, WaitCount(c) = 0
  PROVE  c # "bc.stopChan" /\ \A l \in Loops : StopChan(l) = c => ~Running(l)
<1> DEFINE S == {l \in Loops : StopChan(l) = c /\ Running(l)}
<1>1. IsFiniteSet(Loops)
  <2> DEFINE A == {"txgen"} \cup {"miner"} \cup {"printer"} \cup {"auth"}
             B == {"orchestrator"} \cup {"manager"} \cup {"telemetry"}
             C == {"monitor"} \cup {"attestation"}
  <2>1. IsFiniteSet(A) /\ IsFiniteSet(B) /\ IsFiniteSet(C)
    <3>1. \A x : IsFiniteSet({x})
      BY FS_Singleton
    <3>2. \A S1, S2 : IsFiniteSet(S1) /\ IsFiniteSet(S2) => IsFiniteSet(S1 \cup S2)
      BY FS_Union
    <3> QED  BY <3>1, <3>2
  <2>2. IsFiniteSet(SimLoops)
    <3>1. SimLoops \subseteq A
      BY LifecycleAssumption
    <3> QED  BY <2>1, <3>1, FS_Subset
  <2>3. Loops = (B \cup SimLoops) \cup C
    BY DEF Loops, Services
  <2>4. IsFiniteSet(B \cup SimLoops)
    BY <2>1, <2>2, FS_Union
  <2> QED  BY <2>1, <2>3, <2>4, FS_Union
<1>2. IsFiniteSet(S)
  BY <1>1, FS_Subset
<1>3. Cardinality(S) = 0 /\ c # "bc.stopChan"
  BY <1>2, FS_CardinalityType DEF WaitCount
<1>4. S = {}
  BY <1>2, <1>3, FS_EmptySet
<1> QED  BY <1>3, <1>4

\* The management loop is in the wait group of StopManagementLoop.
LEMMA ManagerIsAwaited ==
  "manager" \in Loops /\ StopChan("manager") = "sm.stopChan"
  BY LifecycleAssumption DEF Loops, Services, StopChan

\* Nothing is closed before the driver starts.
LEMMA StopInit == LifecycleInit => StopInv
<1> SUFFICES ASSUME LifecycleInit PROVE StopInv
  OBVIOUS
<1>1. driver \in {"main", "embedded"}
  BY LifecycleAssumption DEF LifecycleInit
<1>2. ShardTypes
  BY <1>1, MainOrder, EmbeddedOrder, LifecycleAssumption
     DEF LifecycleInit, ShardTypes, InitialShards, ShardIds
<1>3. Unstopped = InitialShards
  BY DEF LifecycleInit, Unstopped
<1> QED  BY <1>2, <1>3 DEF LifecycleInit, StopInv, InitialShards, ShardIds

-----------------------------------------------------------------------------
\* What a step leaves to be stopped depends on these variables alone.
LEMMA StopFrame ==
  ASSUME StopInv, loop' \in [Loops -> {"off", "sleep", "select", "body", "done"}],
         UNCHANGED <<driver, started, step, toStop, shardVars>>,
         driver = "main" /\ step >= 5 => ~Running("manager")'
  PROVE  StopInv'
<1>1. ShutdownOrder' = ShutdownOrder /\ StartOrder' = StartOrder
  BY OrdersFixed
<1>2. ShardTypes'
  BY <1>1 DEF StopInv, ShardTypes, shardVars
<1>3. Unstopped' = Unstopped
  BY DEF Unstopped, shardVars
<1>4. Started' = Started
  BY <1>1 DEF Started
<1> QED  BY <1>2, <1>3, <1>4 DEF StopInv, shardVars

\* The steps of the loops other than the management loop.
LEMMA LoopsLeaveShards ==
  ASSUME StopInv,
         (\E l \in Loops : LoopBody(l) \/ Tick(l) \/ SeeStop(l))
           \/ SimulateUpdate \/ ReadConditions \/ StoreLevel
  PROVE  StopInv'
<1>1. UNCHANGED <<driver, started, step, toStop, shardVars>>
  BY DEF LoopBody, Wake, EndTick, WorkerDone, Tick, SeeStop, SimulateUpdate, ReadConditions,
         StoreLevel, mainVars
<1> DEFINE Calm == /\ loop' \in [Loops -> {"off", "sleep", "select", "body", "done"}]
                   /\ ~Running("manager") => ~Running("manager")'
<1>2. loop \in [Loops -> {"off", "sleep", "select", "body", "done"}]
  BY DEF StopInv, ShardTypes
<1>0. {"manager", "orchestrator"} \subseteq Loops
  BY DEF Loops, Services
<1>3. ASSUME NEW l \in Loops, LoopBody(l) \/ Tick(l) \/ SeeStop(l) PROVE Calm
  <2>1. /\ loop' = loop \/ \E n \in {"select", "body", "done"} : loop' = [loop EXCEPT ![l] = n]
        /\ l = "manager" /\ loop' # loop => Running("manager")
    BY <1>3, <1>2 DEF LoopBody, Wake, EndTick, WorkerDone, Tick, SeeStop, Running
  <2> QED  BY <1>0, <1>2, <2>1 DEF Running
<1>4. SimulateUpdate => Calm
  BY <1>2 DEF SimulateUpdate, Running, loopVars
<1>5. ReadConditions => Calm
  BY <1>0, <1>2 DEF ReadConditions, Running
<1>6. StoreLevel => Calm
  BY <1>0, <1>2 DEF StoreLevel, Running
<1>7. Calm
  BY <1>3, <1>4, <1>5, <1>6
<1> QED  BY <1>1, <1>7, StopFrame DEF StopInv

\* Starting comes before the shutdown.
LEMMA StartLeavesShards ==
  ASSUME StopInv, StartLoop
  PROVE  StopInv'
<1>1. ShutdownOrder' = ShutdownOrder
  BY OrdersFixed DEF StartLoop
<1>2. step = 0 /\ UNCHANGED <<driver, step, toStop, shards, nextId, stops>>
  BY DEF StopInv, ShardTypes, StartLoop, shardVars
<1>3. ShardTypes'
  BY <1>1, <1>2 DEF StopInv, ShardTypes, StartLoop
<1>4. Unstopped' = Unstopped
  BY <1>2 DEF Unstopped
<1> QED  BY <1>2, <1>3, <1>4 DEF StopInv

\* A split adds a shard that was not stopped, a merge stops the one it removes.
LEMMA ManageKeepsCount ==
  ASSUME StopInv, CheckAndManageShards
  PROVE  StopInv'
<1>1. UNCHANGED <<driver, started, step, toStop, loop>>
  BY DEF CheckAndManageShards, mainVars, loopVars
<1>2. ShutdownOrder' = ShutdownOrder /\ Started' = Started
  BY <1>1, OrdersFixed DEF Started
<1>3. driver = "embedded" \/ step <= 5
  <2> SUFFICES ASSUME driver = "main", step >= 5 PROVE FALSE
    BY DEF StopInv, ShardTypes
  <2> QED  BY DEF StopInv, CheckAndManageShards, Running
<1>4. Unstopped = shards /\ Unstopped' = shards'
  BY <1>1, <1>3 DEF Unstopped
<1>5. CASE UNCHANGED shardVars
  BY <1>1, <1>5, StopFrame DEF StopInv, ShardTypes, Running
<1>6. CASE /\ nextId \in ShardIds
           /\ shards' = shards \cup {nextId} /\ nextId' = nextId + 1
           /\ UNCHANGED stops
  <2>1. nextId \notin shards
    BY DEF StopInv, ShardTypes
  <2>2. ShardTypes'
    BY <1>1, <1>2, <1>6, LifecycleAssumption DEF StopInv, ShardTypes, ShardIds
  <2>3. (\A s \in ShardIds : stops[s] = IF s < nextId /\ s \notin Unstopped THEN 1 ELSE 0)'
    BY <1>4, <1>6, <2>1, LifecycleAssumption DEF StopInv, ShardTypes, ShardIds
  <2> QED  BY <1>1, <1>2, <1>3, <2>2, <2>3 DEF StopInv, Running
<1>7. ASSUME NEW b \in shards, shards' = shards \ {b},
             stops' = [stops EXCEPT ![b] = @ + 1], UNCHANGED nextId
      PROVE  StopInv'
  <2>1. b \in ShardIds /\ b < nextId /\ stops[b] = 0
    BY <1>4, LifecycleAssumption DEF StopInv, ShardTypes, ShardIds
  <2>2. ShardTypes'
    BY <1>1, <1>2, <1>7, <2>1 DEF StopInv, ShardTypes
  <2>3. (\A s \in ShardIds : stops[s] = IF s < nextId /\ s \notin Unstopped THEN 1 ELSE 0)'
    BY <1>4, <1>7, <2>1 DEF StopInv, ShardTypes
  <2> QED  BY <1>1, <1>2, <1>3, <2>2, <2>3 DEF StopInv, Running
<1> QED  BY <1>5, <1>6, <1>7 DEF CheckAndManageShards

\* What Doing says about the place in the order.
LEMMA Place ==
  ASSUME StopInv, NEW op, Doing(op)
  PROVE  /\ Started /\ step + 1 \in 1 .. Len(ShutdownOrder)
         /\ ShutdownOrder[step + 1].op = op
  <1> QED  BY SMTT(30), MainOrder, EmbeddedOrder DEF StopInv, ShardTypes, Doing

\* Closing channels, waiting and reporting stop no shards.
LEMMA ShutdownFrame ==
  ASSUME StopInv, CloseChan \/ WaitDone \/ FinalReport
  PROVE  StopInv'
<1>1. /\ UNCHANGED <<driver, started, toStop, shards, nextId, stops, loop>>
      /\ step' = step + 1
  BY DEF CloseChan, WaitDone, FinalReport, Advance, shardVars, loopVars
<1>2. ShutdownOrder' = ShutdownOrder /\ Started' = Started
  BY <1>1, OrdersFixed DEF Started
<1>3. /\ Started /\ step + 1 \in 1 .. Len(ShutdownOrder)
      /\ ShutdownOrder[step + 1].op \in {"close", "wait", "report"}
  BY Place DEF CloseChan, WaitDone, FinalReport
<1>4. driver = "main" => step + 1 \notin {6, 7}
  BY <1>3, MainOrder
<1>5. ShardTypes'
  <2>1. ShardTypes /\ Len(ShutdownOrder) \in Nat
    BY SMTT(30), MainOrder, EmbeddedOrder DEF StopInv, ShardTypes
  <2>2. step' \in Nat /\ step' <= Len(ShutdownOrder')
    <3>1. step' = step + 1 /\ Len(ShutdownOrder') = Len(ShutdownOrder)
      BY <1>1, <1>2
    <3>2. step \in Nat
      BY <2>1 DEF ShardTypes
    <3> QED BY <1>3, <2>1, <3>1, <3>2
  <2> QED BY <1>1, <2>1, <2>2 DEF ShardTypes
<1>6. Unstopped' = Unstopped
  <2>1. step \in Nat /\ driver \in {"main", "embedded"}
    BY DEF StopInv, ShardTypes
  <2>2. driver' = driver /\ shards' = shards /\ toStop' = toStop /\ step' = step + 1
    BY <1>1
  <2>3. driver = "main" => (step <= 5 <=> step + 1 <= 5) /\ (step = 6 <=> step + 1 = 6)
    BY <1>4, <2>1
  <2>4. CASE driver = "embedded"
    BY <2>2, <2>4 DEF Unstopped
  <2>5. CASE driver = "main"
    <3>1. (step <= 5 <=> step' <= 5) /\ (step = 6 <=> step' = 6)
      BY <2>2, <2>3, <2>5
    <3>2. Unstopped = (IF step <= 5 THEN shards ELSE IF step = 6 THEN toStop ELSE {})
      BY <2>5 DEF Unstopped
    <3>3. Unstopped' = (IF step' <= 5 THEN shards' ELSE IF step' = 6 THEN toStop' ELSE {})
      BY <2>2, <2>5 DEF Unstopped
    <3> QED BY <2>2, <3>1, <3>2, <3>3
  <2> QED BY <2>1, <2>4, <2>5
<1>7. (driver = "main" /\ step >= 5 => ~Running("manager"))'
  <2>1. CASE driver = "main" /\ step = 4
    <3>1. ShutdownOrder[step + 1] = Wait("sm.stopChan")
      BY <2>1, MainOrder
    <3>2. WaitDone
      BY <3>1 DEF CloseChan, WaitDone, FinalReport, Doing, Wait
    <3>3. WaitCount("sm.stopChan") = 0
      BY <3>1, <3>2 DEF WaitDone, Wait
    <3> QED  BY <1>1, <3>3, NobodyLeft, ManagerIsAwaited DEF Running
  <2>2. CASE ~(driver = "main" /\ step = 4)
    BY <1>1, <2>2 DEF StopInv, ShardTypes, Running
  <2> QED  BY <2>1, <2>2
<1>8. (driver = "main" /\ step = 6 => toStop \subseteq shards)'
  BY <1>1, <1>4 DEF StopInv, ShardTypes
<1> QED  BY <1>1, <1>2, <1>3, <1>5, <1>6, <1>7, <1>8 DEF StopInv

\* StopManagementLoop's own part: collect, stop one by one, return.
LEMMA StopLoopKeepsCount ==
  ASSUME StopInv, CollectIds \/ ShardsStopped \/ \E s \in toStop : StopShard(s)
  PROVE  StopInv'
<1>1. UNCHANGED <<driver, started, shards, nextId, loop>>
  BY DEF CollectIds, ShardsStopped, StopShard, shardVars, loopVars
<1>2. ShutdownOrder' = ShutdownOrder /\ Started' = Started
  BY <1>1, OrdersFixed DEF Started
<1>3. CASE CollectIds
  <2>1. Started /\ driver = "main" /\ step = 5
    <3>1. Started /\ step + 1 \in 1 .. Len(ShutdownOrder) /\ ShutdownOrder[step + 1].op = "collect"
      BY <1>3, Place DEF CollectIds
    <3>2. driver = "main"
      BY <3>1, EmbeddedOrder DEF StopInv, ShardTypes
    <3>3. step + 1 \in 1 .. 11
      BY <3>1, <3>2, MainOrder
    <3> QED  BY <3>1, <3>2, <3>3, MainOrder DEF StopInv, ShardTypes
  <2>2. step' = 6 /\ toStop' = shards /\ UNCHANGED stops
    BY <1>3, <2>1 DEF CollectIds, Advance, shardVars
  <2>3. Unstopped = shards /\ Unstopped' = shards
    BY <1>1, <2>1, <2>2 DEF Unstopped
  <2>4. ShardTypes'
    <3>1. Len(ShutdownOrder) = 11
      BY <2>1, MainOrder
    <3> QED  BY <1>1, <1>2, <2>1, <2>2, <3>1 DEF StopInv, ShardTypes
  <2> QED  BY <1>1, <1>2, <2>1, <2>2, <2>3, <2>4 DEF StopInv, Running
<1>4. CASE ShardsStopped
  <2>1. Started /\ driver = "main" /\ step = 6
    <3>1. Started /\ step + 1 \in 1 .. Len(ShutdownOrder) /\ ShutdownOrder[step + 1].op = "shards"
      BY <1>4, Place DEF ShardsStopped
    <3>2. driver = "main"
      BY <3>1, EmbeddedOrder DEF StopInv, ShardTypes
    <3>3. step + 1 \in 1 .. 11
      BY <3>1, <3>2, MainOrder
    <3> QED  BY <3>1, <3>2, <3>3, MainOrder DEF StopInv, ShardTypes
  <2>2. step' = 7 /\ toStop = {} /\ UNCHANGED stops
    BY <1>4, <2>1 DEF ShardsStopped, Advance, shardVars
  <2>3. Unstopped = {} /\ Unstopped' = {}
    BY <1>1, <2>1, <2>2 DEF Unstopped
  <2>4. ShardTypes'
    <3>1. Len(ShutdownOrder) = 11
      BY <2>1, MainOrder
    <3> QED  BY <1>1, <1>2, <2>1, <2>2, <3>1 DEF StopInv, ShardTypes
  <2> QED  BY <1>1, <1>2, <2>1, <2>2, <2>3, <2>4 DEF StopInv, Running
<1>5. ASSUME NEW s \in toStop, StopShard(s) PROVE StopInv'
  <2>1. Started /\ driver = "main" /\ step = 6
    <3>1. Started /\ step + 1 \in 1 .. Len(ShutdownOrder) /\ ShutdownOrder[step + 1].op = "shards"
      BY <1>5, Place DEF StopShard
    <3>2. driver = "main"
      BY <3>1, EmbeddedOrder DEF StopInv, ShardTypes
    <3>3. step + 1 \in 1 .. 11
      BY <3>1, <3>2, MainOrder
    <3> QED  BY <3>1, <3>2, <3>3, MainOrder DEF StopInv, ShardTypes
  <2>2. Unstopped = toStop /\ Unstopped' = toStop'
    BY <1>1, <1>5, <2>1 DEF Unstopped, StopShard
  <2>3. s \in shards /\ s \in ShardIds /\ s < nextId /\ stops[s] = 0
    <3>1. s \in shards
      BY <2>1 DEF StopInv
    <3>2. s \in ShardIds /\ s < nextId
      BY <3>1, LifecycleAssumption DEF StopInv, ShardTypes, ShardIds
    <3> QED  BY <2>2, <3>1, <3>2 DEF StopInv
  <2>4. /\ step' = 6 /\ toStop' = toStop \ {s}
        /\ stops' = [stops EXCEPT ![s] = @ + 1]
    BY <1>5, <2>1, <2>3 DEF StopShard
  <2>5. ShardTypes'
    <3>1. Len(ShutdownOrder) = 11
      BY <2>1, MainOrder
    <3> QED  BY <1>1, <1>2, <2>1, <2>3, <2>4, <3>1 DEF StopInv, ShardTypes
  <2>6. (\A i \in ShardIds : stops[i] = IF i < nextId /\ i \notin Unstopped THEN 1 ELSE 0)'
    BY <1>1, <2>2, <2>3, <2>4 DEF StopInv, ShardTypes
  <2>7. toStop' \subseteq shards'
    BY <1>1, <2>1, <2>4 DEF StopInv
  <2> QED  BY <1>1, <1>2, <2>1, <2>4, <2>5, <2>6, <2>7 DEF StopInv, Running
<1> QED  BY <1>3, <1>4, <1>5

\* Every step keeps the accounting of the stop channels.
LEMMA StopStep == StopInv /\ [LifecycleNext]_vars => StopInv'
<1> SUFFICES ASSUME StopInv, [LifecycleNext]_vars PROVE StopInv'
  OBVIOUS
<1>1. CASE (\E l \in Loops : LoopBody(l) \/ Tick(l) \/ SeeStop(l))
             \/ SimulateUpdate \/ ReadConditions \/ StoreLevel
  BY <1>1, LoopsLeaveShards
<1>2. CASE CheckAndManageShards
  BY <1>2, ManageKeepsCount
<1>3. CASE StartLoop
  BY <1>3, StartLeavesShards
<1>4. CASE CloseChan \/ WaitDone \/ FinalReport
  BY <1>4, ShutdownFrame
<1>5. CASE CollectIds \/ ShardsStopped \/ \E s \in toStop : StopShard(s)
  BY <1>5, StopLoopKeepsCount
<1>6. CASE UNCHANGED vars
  <2>1. UNCHANGED <<driver, started, step, toStop, shardVars, loop>>
    BY <1>6 DEF vars, shardVars
  <2> QED  BY <2>1, StopFrame DEF StopInv, ShardTypes, Running
<1> QED  BY <1>1, <1>2, <1>3, <1>4, <1>5, <1>6 DEF LifecycleNext, MainStep

\* The accounting of stop channels holds whatever the loops do.
THEOREM StopsAreAccounted == LifecycleSpec => []StopInv
  BY StopInit, StopStep, PTL DEF LifecycleSpec

\* No stop channel of a shard is closed twice, by merges and StopManagementLoop
\* together, and main's shutdown has closed every one at its end.
THEOREM ShardsAreStoppedOnce == LifecycleSpec => []ShardsStoppedOnce
<1>1. StopInv => ShardsStoppedOnce
  <2> SUFFICES ASSUME StopInv PROVE ShardsStoppedOnce
    OBVIOUS
  <2>1. \A s \in ShardIds : stops[s] <= 1
    BY DEF StopInv, ShardTypes
  <2>2. ASSUME driver = "main", Exited PROVE \A s \in 0 .. nextId - 1 : stops[s] = 1
    <3>1. step = 11
      BY <2>2, MainOrder DEF Exited
    <3>2. Unstopped = {}
      BY <2>2, <3>1 DEF Unstopped
    <3> QED  BY <3>2, LifecycleAssumption DEF StopInv, ShardTypes, ShardIds
  <2> QED  BY <2>1, <2>2 DEF ShardsStoppedOnce
<1> QED  BY <1>1, StopsAreAccounted, PTL

-----------------------------------------------------------------------------
(***************************************************************************)
(* The consistency level.                                                  *)
(***************************************************************************)
LevelInv ==
  /\ level \in {"Strong", "Eventual"}
  /\ conditions \in SimulatedConditions \cup {StableConditions}
  /\ seen \in SimulatedConditions \cup {StableConditions}

\* Without a partition the simulated latency and loss stay below what Strong
\* tolerates.
LEMMA OnlyPartitionsAreBad ==
  ASSUME NEW c \in SimulatedConditions \cup {StableConditions}, ~c.partition
  PROVE  /\ c.latency \in Nat /\ c.latency <= LatencyThresholdStrong
         /\ c.loss \in Nat /\ c.loss <= PacketLossThresholdStrong
<1>1. CASE c = StableConditions
  BY <1>1 DEF StableConditions, LatencyThresholdStrong, PacketLossThresholdStrong
<1>2. CASE c \in [latency : {50 + b : b \in BaseLatencies}, partition : {FALSE}, loss : CleanLosses]
  <2>1. PICK b \in BaseLatencies : c.latency = 50 + b
    BY <1>2
  <2>2. c.loss \in CleanLosses
    BY <1>2
  <2>3. c.loss \in 0 .. 49
    <3>1. CleanLosses \subseteq 0 .. 49
      BY LifecycleAssumption
    <3> QED  BY <2>2, <3>1
  <2>4. b \in 0 .. 249
    BY LifecycleAssumption
  <2> QED  BY <2>1, <2>3, <2>4 DEF LatencyThresholdStrong, PacketLossThresholdStrong
<1>3. CASE c \in [latency : PartitionLatencies, partition : {TRUE}, loss : PartitionLosses]
  <2>1. c.partition \in {TRUE}
    BY <1>3
  <2>2. c.partition = TRUE
    BY <2>1, Zenon
  <2> QED  BY <2>2, Zenon
<1> QED  BY <1>1, <1>2, <1>3 DEF SimulatedConditions

\* The level is Strong at the start and no loop has computed another.
LEMMA LevelInit == LifecycleInit => LevelInv
  BY DEF LifecycleInit, LevelInv

\* Every step keeps what a computed level may be.
LEMMA LevelStep == LevelInv /\ [LifecycleNext]_vars => LevelInv'
<1> SUFFICES ASSUME LevelInv, [LifecycleNext]_vars PROVE LevelInv'
  OBVIOUS
<1>1. CASE SimulateUpdate
  BY <1>1 DEF SimulateUpdate, LevelInv
<1>2. CASE ReadConditions
  BY <1>2 DEF ReadConditions, LevelInv
<1>3. CASE StoreLevel
  <2>1. level' \in {"Strong", "Eventual"}
    BY <1>3 DEF StoreLevel, LevelInv, NewLevel
  <2> QED  BY <1>3, <2>1 DEF StoreLevel, LevelInv
<1>4. CASE UNCHANGED levelVars
  BY <1>4 DEF levelVars, LevelInv
<1>5. (\E l \in Loops : LoopBody(l) \/ Tick(l) \/ SeeStop(l)) \/ CheckAndManageShards \/ MainStep
        \/ UNCHANGED vars => UNCHANGED levelVars
  BY DEF LoopBody, Wake, EndTick, WorkerDone, Tick, SeeStop, CheckAndManageShards, MainStep,
         StartLoop, CloseChan, WaitDone, CollectIds, StopShard, ShardsStopped, FinalReport,
         vars, levelVars
<1> QED  BY <1>1, <1>2, <1>3, <1>4, <1>5 DEF LifecycleNext

\* The level leaves Strong only when the conditions it was computed from have a
\* partition, and comes back only from conditions below both lower thresholds.
THEOREM LevelsMoveForAReason == LifecycleSpec => LeavesStrongOnlyInPartition
<1> DEFINE Moves == /\ level = "Strong" /\ level' = "Eventual" => seen.partition
                    /\ level = "Eventual" /\ level' = "Strong" =>
                         ~seen.partition /\ seen.latency < 100 /\ seen.loss < 10
<1>1. LevelInv /\ [LifecycleNext]_vars => [Moves]_vars
  <2> SUFFICES ASSUME LevelInv, LifecycleNext PROVE Moves
    BY DEF vars
  <2>1. CASE StoreLevel
    <3>1. level' = NewLevel(level, seen)
      BY <2>1 DEF StoreLevel
    <3>2. ASSUME level = "Strong", level' = "Eventual" PROVE seen.partition
      <4> SUFFICES ASSUME ~seen.partition PROVE FALSE
        OBVIOUS
      <4>1. ~(seen.latency > LatencyThresholdStrong) /\ ~(seen.loss > PacketLossThresholdStrong)
        BY OnlyPartitionsAreBad DEF LevelInv, LatencyThresholdStrong, PacketLossThresholdStrong
      <4> QED  BY <3>1, <3>2, <4>1 DEF NewLevel
    <3>3. ASSUME level = "Eventual", level' = "Strong"
          PROVE  ~seen.partition /\ seen.latency < 100 /\ seen.loss < 10
      BY <3>1, <3>3 DEF NewLevel, LatencyThresholdEventual, PacketLossThresholdEventual
    <3> QED  BY <3>2, <3>3
  <2>2. CASE UNCHANGED level
    BY <2>2
  <2>3. (\E l \in Loops : LoopBody(l) \/ Tick(l) \/ SeeStop(l)) \/ CheckAndManageShards
          \/ MainStep \/ SimulateUpdate \/ ReadConditions => UNCHANGED level
    BY DEF LoopBody, Wake, EndTick, WorkerDone, Tick, SeeStop, CheckAndManageShards, MainStep,
           StartLoop, CloseChan, WaitDone, CollectIds, StopShard, ShardsStopped, FinalReport,
           SimulateUpdate, ReadConditions, levelVars
  <2> QED  BY <2>1, <2>2, <2>3 DEF LifecycleNext
<1>2. LifecycleSpec => []LevelInv
  BY LevelInit, LevelStep, PTL DEF LifecycleSpec
<1> QED  BY <1>1, <1>2, PTL DEF LifecycleSpec, LeavesStrongOnlyInPartition

-----------------------------------------------------------------------------
(***************************************************************************)
(* The report.  A loop is started once, and none after the shutdown has    *)
(* begun; a wait group that was free stays free.                           *)
(***************************************************************************)

\* s lists members of S, each at most once.
Once(s, S) ==
  /\ s \in Seq(S)
  /\ \A i \in 1 .. Len(s), j \in 1 .. Len(s) : s[i] = s[j] => i = j

\* Lists of different loops, one after the other.
LEMMA ConcatOnce ==
  ASSUME NEW s, NEW S, NEW t, NEW T, Once(s, S), Once(t, T), S \cap T = {}
  PROVE  Once(s \o t, S \cup T)
<1>1. s \in Seq(S \cup T) /\ t \in Seq(S \cup T)
  BY DEF Once
<1> DEFINE st == s \o t
<1>2. /\ st \in Seq(S \cup T) /\ Len(st) = Len(s) + Len(t)
      /\ \A i \in 1 .. Len(s) + Len(t) : st[i] = IF i <= Len(s) THEN s[i] ELSE t[i - Len(s)]
  BY <1>1, ConcatProperties
<1> HIDE DEF st
<1>3. Len(s) \in Nat /\ Len(t) \in Nat
  BY <1>1
<1>4. ASSUME NEW i \in 1 .. Len(st), NEW j \in 1 .. Len(st), st[i] = st[j]
      PROVE  i = j
  <2>1. CASE i <= Len(s) /\ j <= Len(s)
    BY <1>2, <1>3, <1>4, <2>1 DEF Once
  <2>2. CASE ~(i <= Len(s)) /\ ~(j <= Len(s))
    <3>1. i - Len(s) \in 1 .. Len(t) /\ j - Len(s) \in 1 .. Len(t)
      BY <1>2, <1>3, <2>2
    <3>2. t[i - Len(s)] = t[j - Len(s)]
      BY <1>2, <1>4, <2>2
    <3>3. i - Len(s) = j - Len(s)
      BY <3>1, <3>2 DEF Once
    <3> QED  BY <1>3, <3>3
  <2>3. CASE i <= Len(s) /\ ~(j <= Len(s))
    <3>1. i \in 1 .. Len(s) /\ j - Len(s) \in 1 .. Len(t)
      BY <1>2, <1>3, <2>3
    <3>2. s[i] \in S /\ t[j - Len(s)] \in T
      BY <3>1 DEF Once
    <3> QED  BY <1>2, <1>4, <2>3, <3>2
  <2>4. CASE ~(i <= Len(s)) /\ j <= Len(s)
    <3>1. j \in 1 .. Len(s) /\ i - Len(s) \in 1 .. Len(t)
      BY <1>2, <1>3, <2>4
    <3>2. s[j] \in S /\ t[i - Len(s)] \in T
      BY <3>1 DEF Once
    <3> QED  BY <1>2, <1>4, <2>4, <3>2
  <2> QED  BY <2>1, <2>2, <2>3, <2>4
<1>5. Once(st, S \cup T)
  BY <1>2, <1>4 DEF Once
<1> QED  BY <1>5 DEF st

\* Every loop is started at most once; main starts neither of Blockchain.Start's
\* own loops.
LEMMA StartOrderOnce ==
  ASSUME driver \in {"main", "embedded"}
  PROVE  /\ Once(StartOrder, Loops)
         /\ driver = "main" => Once(StartOrder, Services \cup SimLoops)
<1> DEFINE All == {"txgen", "miner", "printer", "auth"}
<1>1. SimLoops \subseteq All /\ Services \cap All = {}
  BY LifecycleAssumption DEF Services
<1>2. ASSUME NEW l PROVE Once(Own(l), SimLoops \cap {l})
  BY DEF Own, Once
<1>3. Once(SimOrder, SimLoops)
  <2> DEFINE s1 == Own("txgen") \o Own("miner")
             s2 == s1 \o Own("printer")
  <2>1. Once(s1, (SimLoops \cap {"txgen"}) \cup (SimLoops \cap {"miner"}))
    BY <1>2, ConcatOnce
  <2>2. Once(s1, SimLoops \cap {"txgen", "miner"})
    <3>1. (SimLoops \cap {"txgen"}) \cup (SimLoops \cap {"miner"}) = SimLoops \cap {"txgen", "miner"}
      OBVIOUS
    <3> QED  BY <2>1, <3>1
  <2> HIDE DEF s1
  <2>3. Once(s2, (SimLoops \cap {"txgen", "miner"}) \cup (SimLoops \cap {"printer"}))
    BY <1>2, <2>2, ConcatOnce
  <2>4. Once(s2, SimLoops \cap {"txgen", "miner", "printer"})
    <3>1. (SimLoops \cap {"txgen", "miner"}) \cup (SimLoops \cap {"printer"})
            = SimLoops \cap {"txgen", "miner", "printer"}
      OBVIOUS
    <3> QED  BY <2>3, <3>1
  <2> HIDE DEF s2
  <2>5. Once(s2 \o Own("auth"), (SimLoops \cap {"txgen", "miner", "printer"}) \cup (SimLoops \cap {"auth"}))
    BY <1>2, <2>4, ConcatOnce
  <2>6. (SimLoops \cap {"txgen", "miner", "printer"}) \cup (SimLoops \cap {"auth"}) = SimLoops
    BY <1>1
  <2>7. SimOrder = s2 \o Own("auth")
    BY DEF SimOrder, s1, s2
  <2> QED  BY <2>5, <2>6, <2>7
<1>4. Once(<<"orchestrator", "manager", "telemetry">>, Services)
  BY DEF Once, Services
<1>5. Once(<<"orchestrator", "manager", "telemetry">> \o SimOrder, Services \cup SimLoops)
  <2>1. Services \cap SimLoops = {}
    BY <1>1
  <2> QED  BY <1>3, <1>4, <2>1, ConcatOnce
<1>6. Once(<<"orchestrator", "manager", "monitor", "attestation">>, Loops)
  BY DEF Once, Loops, Services
<1>7. ASSUME NEW s, Once(s, Services \cup SimLoops) PROVE Once(s, Loops)
  BY <1>7 DEF Once, Loops
<1>8. CASE driver = "main"
  <2>1. StartOrder = <<"orchestrator", "manager", "telemetry">> \o SimOrder
    BY <1>8 DEF StartOrder
  <2> QED  BY <1>5, <1>7, <2>1
<1>9. CASE driver = "embedded"
  BY <1>6, <1>9 DEF StartOrder
<1> QED  BY <1>8, <1>9

\* The loops of a wait group that main or Blockchain.Stop has waited for are over;
\* only a loop in its body has goroutines out; a loop not yet started is off.
AloneInv ==
  /\ round \in [Loops -> SUBSET (Validators \cup ShardIds)]
  /\ \A l \in Loops : loop[l] # "body" \/ l \in Services => round[l] = {}
  /\ started \in 0 .. Len(StartOrder)
  /\ \A k \in started + 1 .. Len(StartOrder) : loop[StartOrder[k]] = "off"
  /\ driver = "main" => \A l \in Loops : loop[l] # "off" => l \in Services \cup SimLoops
  /\ \A i \in 1 .. step : ShutdownOrder[i].op = "wait" =>
       \A l \in Loops : StopChan(l) = ShutdownOrder[i].chan => ~Running(l)

\* In the beginning nothing runs.
LEMMA AloneInit == LifecycleInit => AloneInv
<1> SUFFICES ASSUME LifecycleInit PROVE AloneInv
  OBVIOUS
<1>1. driver \in {"main", "embedded"}
  BY LifecycleAssumption DEF LifecycleInit
<1>2. StartOrder \in Seq(Loops) /\ Len(StartOrder) \in Nat
  BY <1>1, StartOrderOnce DEF Once
<1>3. \A k \in 1 .. Len(StartOrder) : StartOrder[k] \in Loops
  BY <1>2
<1> QED  BY <1>2, <1>3 DEF LifecycleInit, AloneInv

\* A step of a loop starts none: a loop that was off or over stays so, and whoever
\* leaves its body has nobody out.
LoopsGoOn ==
  /\ round' \in [Loops -> SUBSET (Validators \cup ShardIds)]
  /\ \A l \in Loops : loop'[l] # "body" \/ l \in Services => round'[l] = {}
  /\ \A l \in Loops : loop[l] = "off" => loop'[l] = "off"
  /\ \A l \in Loops : ~Running(l) => ~Running(l)'

\* Steps that leave the order of starting and stopping alone keep the invariant.
LEMMA AloneFrame ==
  ASSUME AloneInv, LoopsGoOn, driver \in {"main", "embedded"}, UNCHANGED <<driver, started, step>>
  PROVE  AloneInv'
<1>1. ShutdownOrder' = ShutdownOrder /\ StartOrder' = StartOrder
  BY OrdersFixed
<1>2. StartOrder \in Seq(Loops)
  BY StartOrderOnce DEF Once
<1>3. \A k \in started + 1 .. Len(StartOrder) : StartOrder[k] \in Loops
  BY <1>2 DEF AloneInv
<1>4. (\A k \in started + 1 .. Len(StartOrder) : loop[StartOrder[k]] = "off")'
  BY <1>1, <1>3 DEF AloneInv, LoopsGoOn
<1>5. (\A i \in 1 .. step : ShutdownOrder[i].op = "wait" =>
         \A l \in Loops : StopChan(l) = ShutdownOrder[i].chan => ~Running(l))'
  <2> SUFFICES ASSUME NEW i \in 1 .. step, ShutdownOrder[i].op = "wait",
                      NEW l \in Loops, StopChan(l) = ShutdownOrder[i].chan
               PROVE  ~Running(l)'
    BY <1>1
  <2> QED  BY DEF AloneInv, LoopsGoOn
<1> QED  BY <1>1, <1>4, <1>5 DEF AloneInv, LoopsGoOn

\* Steps of the loops, of the services and of nobody.
LEMMA LoopsStayAlone ==
  ASSUME StopInv, AloneInv,
         \/ \E l \in Loops : LoopBody(l) \/ Tick(l) \/ SeeStop(l)
         \/ SimulateUpdate \/ ReadConditions \/ StoreLevel \/ CheckAndManageShards
         \/ UNCHANGED vars
  PROVE  AloneInv'
<1>1. driver \in {"main", "embedded"} /\ UNCHANGED <<driver, started, step>>
  BY DEF StopInv, ShardTypes, LoopBody, Wake, EndTick, WorkerDone, Tick, SeeStop, SimulateUpdate,
         ReadConditions, StoreLevel, CheckAndManageShards, mainVars, vars
<1>2. /\ loop \in [Loops -> {"off", "sleep", "select", "body", "done"}]
      /\ shards \in SUBSET ShardIds
      /\ round \in [Loops -> SUBSET (Validators \cup ShardIds)]
      /\ \A l \in Loops : loop[l] # "body" \/ l \in Services => round[l] = {}
  BY LifecycleAssumption DEF StopInv, ShardTypes, ShardIds, AloneInv
<1>3. UNCHANGED <<loop, round>> => LoopsGoOn
  BY <1>2 DEF LoopsGoOn, Running
<1>4. ASSUME NEW l \in Loops, loop[l] \in {"sleep", "select"} \/ round[l] = {}, Running(l),
             NEW n \in {"select", "done"}, loop' = [loop EXCEPT ![l] = n], round' = round
      PROVE  LoopsGoOn
  BY <1>2, <1>4 DEF LoopsGoOn, Running
<1>5. ASSUME NEW l \in Loops, LoopBody(l) \/ SeeStop(l) PROVE LoopsGoOn
  <2>1. CASE Wake(l) \/ EndTick(l) \/ SeeStop(l)
    BY <1>4, <2>1 DEF Wake, EndTick, SeeStop, Running
  <2>2. ASSUME NEW w \in round[l], WorkerDone(l, w) PROVE LoopsGoOn
    <3>1. loop' = loop /\ round' = [round EXCEPT ![l] = @ \ {w}]
      BY <2>2 DEF WorkerDone
    <3> QED  BY <1>2, <3>1 DEF LoopsGoOn, Running
  <2> QED  BY <1>5, <2>1, <2>2 DEF LoopBody
<1>6. ASSUME NEW l \in Loops, Tick(l) PROVE LoopsGoOn
  <2>1. /\ l \notin Services /\ loop[l] = "select"
        /\ loop' = [loop EXCEPT ![l] = "body"]
    BY <1>6 DEF Tick
  <2>2. PICK activeOnes \in SUBSET Validators :
          round' = [round EXCEPT ![l] = CASE l = "miner" -> shards
                                          [] l = "auth" -> activeOnes
                                          [] OTHER -> {}]
    BY <1>6 DEF Tick
  <2>3. PICK out \in SUBSET (Validators \cup ShardIds) : round' = [round EXCEPT ![l] = out]
    <3>1. CASE l = "miner"
      BY <1>2, <2>2, <3>1
    <3>2. CASE l = "auth"
      BY <2>2, <3>2
    <3>3. CASE l \notin {"miner", "auth"}
      <4>1. round' = [round EXCEPT ![l] = {}]
        BY <2>2, <3>3
      <4> QED  BY <4>1
    <3> QED  BY <3>1, <3>2, <3>3
  <2> QED  BY <1>2, <2>1, <2>3 DEF LoopsGoOn, Running
<1>7. {"orchestrator"} \subseteq Loops /\ {"orchestrator"} \subseteq Services
  BY DEF Loops, Services
<1>8. ReadConditions => LoopsGoOn
  BY <1>2, <1>7 DEF ReadConditions, LoopsGoOn, Running
<1>9. StoreLevel => LoopsGoOn
  BY <1>2, <1>7 DEF StoreLevel, LoopsGoOn, Running
<1>10. SimulateUpdate \/ CheckAndManageShards \/ UNCHANGED vars => LoopsGoOn
  BY <1>3 DEF SimulateUpdate, CheckAndManageShards, loopVars, vars
<1> QED  BY <1>1, <1>5, <1>6, <1>8, <1>9, <1>10, AloneFrame

\* A loop is started that was off, and no other one is.
LEMMA StartStaysAlone ==
  ASSUME StopInv, AloneInv, StartLoop
  PROVE  AloneInv'
<1> DEFINE l == StartOrder[started + 1]
<1>1. /\ Once(StartOrder, Loops) /\ driver \in {"main", "embedded"}
      /\ driver = "main" => Once(StartOrder, Services \cup SimLoops)
  BY StartOrderOnce DEF StopInv, ShardTypes
<1>2. /\ started' = started + 1 /\ UNCHANGED <<driver, round, step>>
      /\ \E n \in {"off", "sleep", "select"} : loop' = [loop EXCEPT ![l] = n]
  BY DEF StartLoop, Started
<1>3. step = 0 /\ started \in Nat /\ started < Len(StartOrder)
  <2>1. StartOrder \in Seq(Loops)
    BY <1>1 DEF Once
  <2> QED  BY <2>1 DEF StopInv, ShardTypes, StartLoop, Started, AloneInv
<1>4. ShutdownOrder' = ShutdownOrder /\ StartOrder' = StartOrder
  BY <1>2, OrdersFixed
<1>5. started + 1 \in 1 .. Len(StartOrder) /\ Len(StartOrder) \in Nat
  BY <1>1, <1>3 DEF Once
<1>6. l \in Loops /\ driver = "main" => l \in Services \cup SimLoops
  BY <1>1, <1>5 DEF Once
<1>7. l \in Loops
  BY <1>1, <1>5 DEF Once
<1>8. loop[l] = "off" /\ round[l] = {}
  <2>1. loop[l] = "off"
    BY <1>5 DEF AloneInv
  <2> QED  BY <1>7, <2>1 DEF AloneInv
<1>9. \A k \in started + 2 .. Len(StartOrder) : StartOrder[k] # l /\ loop[StartOrder[k]] = "off"
  BY <1>1, <1>3, <1>5 DEF AloneInv, Once
<1>10. loop \in [Loops -> {"off", "sleep", "select", "body", "done"}]
  BY DEF StopInv, ShardTypes
<1> HIDE DEF l
<1>11. PICK n \in {"off", "sleep", "select"} : loop' = [loop EXCEPT ![l] = n]
  BY <1>2
<1>12. (\A k \in started + 1 .. Len(StartOrder) : loop[StartOrder[k]] = "off")'
  <2> SUFFICES ASSUME NEW k \in started + 2 .. Len(StartOrder) PROVE loop'[StartOrder[k]] = "off"
    BY <1>2, <1>3, <1>4
  <2>1. StartOrder[k] \in Loops
    BY <1>1, <1>3, <1>5 DEF Once
  <2> QED  BY <1>9, <1>10, <1>11, <2>1
<1>13. (\A m \in Loops : loop[m] # "body" \/ m \in Services => round[m] = {})'
  BY <1>2, <1>8, <1>10, <1>11 DEF AloneInv
<1>14. (driver = "main" => \A m \in Loops : loop[m] # "off" => m \in Services \cup SimLoops)'
  BY <1>2, <1>6, <1>7, <1>10, <1>11 DEF AloneInv
<1>15. started' \in 0 .. Len(StartOrder)'
  BY <1>2, <1>3, <1>4, <1>5
<1> QED  BY <1>2, <1>3, <1>4, <1>12, <1>13, <1>14, <1>15 DEF AloneInv

\* A wait is over only when its wait group is free.
LEMMA ShutdownStaysAlone ==
  ASSUME StopInv, AloneInv,
         CloseChan \/ WaitDone \/ FinalReport \/ CollectIds \/ ShardsStopped \/ \E s \in toStop : StopShard(s)
  PROVE  AloneInv'
<1>1. UNCHANGED <<driver, started, loop, round>>
  BY DEF CloseChan, WaitDone, FinalReport, CollectIds, ShardsStopped, StopShard, loopVars
<1>2. ShutdownOrder' = ShutdownOrder /\ StartOrder' = StartOrder
  BY <1>1, OrdersFixed
<1>3. step \in Nat
  BY DEF StopInv, ShardTypes
<1>4. CASE step' = step
  BY <1>1, <1>2, <1>4 DEF AloneInv, Running
<1>5. CASE step' = step + 1
  <2>1. ASSUME ShutdownOrder[step + 1].op = "wait"
        PROVE  \A l \in Loops : StopChan(l) = ShutdownOrder[step + 1].chan => ~Running(l)
    <3>1. WaitDone \/ \E s \in toStop : StopShard(s)
      BY <2>1, Place DEF CloseChan, FinalReport, CollectIds, ShardsStopped
    <3>2. WaitDone
      BY <1>3, <1>5, <3>1 DEF StopShard
    <3>3. WaitCount(ShutdownOrder[step + 1].chan) = 0
      BY <3>2 DEF WaitDone
    <3> QED  BY <3>3, NobodyLeft
  <2>2. \A i \in 1 .. step + 1 : i \in 1 .. step \/ i = step + 1
    BY <1>3
  <2>3. (\A i \in 1 .. step : ShutdownOrder[i].op = "wait" =>
           \A l \in Loops : StopChan(l) = ShutdownOrder[i].chan => ~Running(l))'
    BY <1>1, <1>2, <1>5, <2>1, <2>2 DEF AloneInv, Running
  <2> QED  BY <1>1, <1>2, <2>3 DEF AloneInv
<1>6. step' \in {step, step + 1}
  BY DEF CloseChan, WaitDone, FinalReport, CollectIds, ShardsStopped, StopShard, Advance
<1> QED  BY <1>4, <1>5, <1>6

\* Every step keeps it.
LEMMA AloneStep == StopInv /\ AloneInv /\ [LifecycleNext]_vars => AloneInv'
<1> SUFFICES ASSUME StopInv, AloneInv, [LifecycleNext]_vars PROVE AloneInv'
  OBVIOUS
<1>1. CASE \/ \E l \in Loops : LoopBody(l) \/ Tick(l) \/ SeeStop(l)
           \/ SimulateUpdate \/ ReadConditions \/ StoreLevel \/ CheckAndManageShards
           \/ UNCHANGED vars
  BY <1>1, LoopsStayAlone
<1>2. CASE StartLoop
  BY <1>2, StartStaysAlone
<1>3. CASE CloseChan \/ WaitDone \/ FinalReport \/ CollectIds \/ ShardsStopped \/ \E s \in toStop : StopShard(s)
  BY <1>3, ShutdownStaysAlone
<1> QED  BY <1>1, <1>2, <1>3 DEF LifecycleNext, MainStep

\* main's waits cover all of its loops before it reports: nothing it started and
\* nothing these started is still running when it reads chains and reputations.
THEOREM MainReportsAlone == LifecycleSpec => []ReportAlone
<1>1. StopInv /\ AloneInv => ReportAlone
  <2> SUFFICES ASSUME StopInv, AloneInv, driver = "main", Doing("report") \/ Exited, NEW l \in Loops
               PROVE  ~Running(l) /\ round[l] = {}
    BY DEF ReportAlone
  <2>1. step \in 10 .. 11
    <3>1. CASE Exited
      <4>1. Len(ShutdownOrder) = 11
        BY MainOrder
      <4> QED  BY <3>1, <4>1 DEF Exited
    <3>2. CASE Doing("report")
      <4>1. step + 1 \in 1 .. 11 /\ ShutdownOrder[step + 1].op = "report"
        BY <3>2, Place, MainOrder
      <4>2. step + 1 = 11
        BY <4>1 DEF ShutdownOrder, Close, Wait, Collect, StopShards, Report
      <4> QED  BY <4>2 DEF StopInv, ShardTypes
    <3> QED  BY <3>1, <3>2
  <2>2. \A i \in {3, 5, 9, 10} : /\ i \in 1 .. step /\ ShutdownOrder[i].op = "wait"
    BY <2>1 DEF ShutdownOrder, Wait
  <2>3. /\ ShutdownOrder[3].chan = "co.stopChan" /\ ShutdownOrder[5].chan = "sm.stopChan"
        /\ ShutdownOrder[9].chan = "m.stopChan" /\ ShutdownOrder[10].chan = "stopSim"
    BY DEF ShutdownOrder, Wait
  <2>4. CASE l \in Services \cup SimLoops
    <3>1. StopChan(l) \in {"co.stopChan", "sm.stopChan", "m.stopChan", "stopSim"}
      <4>1. CASE l = "orchestrator"
        BY <4>1, LifecycleAssumption DEF StopChan
      <4>2. CASE l = "manager"
        BY <4>2, LifecycleAssumption DEF StopChan
      <4>3. CASE l = "telemetry"
        BY <4>3, LifecycleAssumption DEF StopChan
      <4>4. CASE l \in SimLoops
        BY <4>4, LifecycleAssumption DEF StopChan
      <4> QED  BY <2>4, <4>1, <4>2, <4>3, <4>4 DEF Services
    <3>2. \E i \in {3, 5, 9, 10} : StopChan(l) = ShutdownOrder[i].chan
      BY <2>3, <3>1
    <3>3. ~Running(l)
      BY <2>2, <3>2 DEF AloneInv
    <3> QED  BY <3>3 DEF AloneInv, Running
  <2>5. CASE l \notin Services \cup SimLoops
    <3>1. loop[l] = "off"
      BY <2>5 DEF AloneInv
    <3> QED  BY <3>1 DEF AloneInv, Running
  <2> QED  BY <2>4, <2>5
<1>2. LifecycleSpec => []AloneInv
  BY AloneInit, AloneStep, StopsAreAccounted, PTL DEF LifecycleSpec
<1> QED  BY <1>1, <1>2, StopsAreAccounted, PTL
=============================================================================
