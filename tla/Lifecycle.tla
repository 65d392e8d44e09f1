----------------------------- MODULE Lifecycle -----------------------------
(***************************************************************************)
(* The background loops of the program, what the network conditions do to  *)
(* the consistency level, and the way everything is stopped.               *)
(*                                                                         *)
(* A loop waits in a select on its stop channel and its ticker.  When both *)
(* are ready Go picks one at random, so a loop may take more ticks after   *)
(* the channel was closed.  The wait group a loop belongs to is released   *)
(* when the loop returns.                                                  *)
(*                                                                         *)
(* driver tells the two ways to run the parts: "main" is main.go;          *)
(* "embedded" is a program that calls Blockchain.Start and Blockchain.Stop *)
(* (no program of the repository does).  Metrics, blocks and reputations   *)
(* are in the other modules.                                               *)
(***************************************************************************)
EXTENDS Integers, Sequences, FiniteSets

CONSTANTS
  Drivers,          \* subset of {"main", "embedded"}
  SimLoops,         \* main.go's loops, of {"txgen", "miner", "printer", "auth"}
  Validators,
  MaxShardId,       \* bound: shard identifiers made by splits
  BaseLatencies,    \* ms, what rand.Intn yields: subset of 0 .. 249
  ExtraLatencies,   \* ms, on top in a partition: subset of 0 .. 499
  CleanLosses,      \* permille: subset of 0 .. 49
  PartitionLosses   \* permille: subset of 50 .. 149

ASSUME LifecycleAssumption ==
  /\ Drivers \subseteq {"main", "embedded"}
  /\ SimLoops \subseteq {"txgen", "miner", "printer", "auth"}
  /\ MaxShardId \in Nat \ {0}
  /\ BaseLatencies \subseteq 0 .. 249 /\ ExtraLatencies \subseteq 0 .. 499
  /\ CleanLosses \subseteq 0 .. 49 /\ PartitionLosses \subseteq 50 .. 149

ShardIds == 0 .. MaxShardId
InitialShards == {0, 1}

VARIABLES
  driver,
  disabled,   \* loops whose interval is not positive
  started,    \* how many of StartOrder were started
  loop,       \* loop[l]: "off", "sleep", "select", "body" or "done"
  round,      \* round[l]: goroutines the body of l waits for
  closed,     \* closed stop channels
  conditions, \* NetworkTelemetryMonitor.currentConditions
  level,      \* ConsistencyOrchestrator.currentLevel
  seen,       \* the conditions evaluateAndUpdateLevel has read, in its body
  shards,     \* ShardManager.shards
  nextId,     \* ShardManager.nextShardID
  stops,      \* stops[s]: times stopChan of shard s was closed
  step,       \* shutdown steps done
  toStop      \* StopManagementLoop: identifiers still to stop

loopVars == <<loop, round>>
levelVars == <<conditions, level, seen>>
shardVars == <<shards, nextId, stops>>
mainVars == <<started, closed, step, toStop>>
vars == <<driver, disabled, started, loop, round, closed, conditions, level, seen,
          shards, nextId, stops, step, toStop>>

-----------------------------------------------------------------------------
Services == {"orchestrator", "manager", "telemetry"}
Loops == Services \cup SimLoops \cup {"monitor", "attestation"}

\* The channel a loop watches, and whose wait group it releases.
StopChan(l) ==
  CASE l = "orchestrator" -> "co.stopChan"
    [] l = "manager" -> "sm.stopChan"
    [] l = "telemetry" -> "m.stopChan"
    [] l \in SimLoops -> "stopSim"
    [] OTHER -> "bc.stopChan"

\* main starts its own loops last.
Own(l) == IF l \in SimLoops THEN <<l>> ELSE <<>>
SimOrder == Own("txgen") \o Own("miner") \o Own("printer") \o Own("auth")
StartOrder ==
  IF driver = "main"
  THEN <<"orchestrator", "manager", "telemetry">> \o SimOrder
  ELSE <<"orchestrator", "manager", "monitor", "attestation">>

Close(c) == [op |-> "close", chan |-> c]
Wait(c) == [op |-> "wait", chan |-> c]
Collect == [op |-> "collect", chan |-> "sm.stopChan"]
StopShards == [op |-> "shards", chan |-> "sm.stopChan"]
Report == [op |-> "report", chan |-> "stopSim"]

\* Mutants of ShutdownOrder: StopManagementLoop does not wait for its loop; Stop
\* waits before it closes the channel.
ShutdownSkipsWait ==
  IF driver = "main"
  THEN <<Close("stopSim"), Close("co.stopChan"), Wait("co.stopChan"), Close("sm.stopChan"),
         Collect, StopShards, Close("m.stopChan"), Wait("m.stopChan"), Wait("stopSim"), Report>>
  ELSE <<Close("bc.stopChan"), Wait("bc.stopChan")>>
ShutdownWaitsFirst ==
  IF driver = "main"
  THEN <<Close("stopSim"), Wait("co.stopChan"), Close("co.stopChan"), Close("sm.stopChan"),
         Wait("sm.stopChan"), Collect, StopShards, Close("m.stopChan"), Wait("m.stopChan"),
         Wait("stopSim"), Report>>
  ELSE <<Close("bc.stopChan"), Wait("bc.stopChan")>>

\* close(stopSim), ConsistencyOrchestrator.Stop, StopManagementLoop,
\* NetworkTelemetryMonitor.Stop, wg.Wait, the final report; or Blockchain.Stop.
\* Each Stop is called once, so the branch for a closed channel is not taken.
ShutdownOrder ==
  IF driver = "main"
  THEN <<Close("stopSim"), Close("co.stopChan"), Wait("co.stopChan"), Close("sm.stopChan"),
         Wait("sm.stopChan"), Collect, StopShards, Close("m.stopChan"), Wait("m.stopChan"),
         Wait("stopSim"), Report>>
  ELSE <<Close("bc.stopChan"), Wait("bc.stopChan")>>

Started == started = Len(StartOrder)
Stopping == step > 0
Exited == step = Len(ShutdownOrder)
Doing(op) == Started /\ step < Len(ShutdownOrder) /\ ShutdownOrder[step + 1].op = op

Running(l) == loop[l] \in {"sleep", "select", "body"}

\* The counter of the wait group behind channel c.  Blockchain.Start adds one for
\* each of the two Start calls it makes in goroutines; nothing takes these off.
WaitCount(c) ==
  Cardinality({l \in Loops : StopChan(l) = c /\ Running(l)})
    + IF c = "bc.stopChan" THEN 2 ELSE 0

-----------------------------------------------------------------------------
StableConditions == [latency |-> 50, partition |-> FALSE, loss |-> 5]

LifecycleInit ==
  /\ driver \in Drivers
  /\ disabled \in SUBSET Services
  /\ started = 0
  /\ loop = [l \in Loops |-> "off"] /\ round = [l \in Loops |-> {}]
  /\ closed = {}
  /\ conditions = StableConditions /\ level = "Strong" /\ seen = StableConditions
  /\ shards = InitialShards /\ nextId = 2
  /\ stops = [s \in ShardIds |-> 0]
  /\ step = 0 /\ toStop = {}

\* Start of a service returns at once when its interval is not positive; the
\* authentication loop first sleeps.
StartLoop ==
  LET l == StartOrder[started + 1] IN
  /\ ~Started
  /\ started' = started + 1
  /\ loop' = [loop EXCEPT ![l] =
       IF l \in disabled THEN "off" ELSE IF l = "auth" THEN "sleep" ELSE "select"]
  /\ UNCHANGED <<driver, disabled, round, closed, step, toStop, levelVars, shardVars>>

Wake(l) ==
  /\ loop[l] = "sleep"
  /\ loop' = [loop EXCEPT ![l] = "select"]
  /\ UNCHANGED <<driver, disabled, round, mainVars, levelVars, shardVars>>

\* case <-stopChan
SeeStop(l) ==
  /\ loop[l] = "select" /\ StopChan(l) \in closed
  /\ loop' = [loop EXCEPT ![l] = "done"]
  /\ UNCHANGED <<driver, disabled, round, mainVars, levelVars, shardVars>>

\* case <-ticker.C of a loop of main or of Blockchain.Start: the miner starts a
\* goroutine for every shard, the authentication loop one for every validator that
\* is active.
Tick(l) ==
  /\ l \notin Services /\ loop[l] = "select"
  /\ loop' = [loop EXCEPT ![l] = "body"]
  /\ \E activeOnes \in SUBSET Validators :
       round' = [round EXCEPT ![l] = CASE l = "miner" -> shards
                                       [] l = "auth" -> activeOnes
                                       [] OTHER -> {}]
  /\ UNCHANGED <<driver, disabled, mainVars, levelVars, shardVars>>

WorkerDone(l, w) ==
  /\ loop[l] = "body" /\ w \in round[l]
  /\ round' = [round EXCEPT ![l] = @ \ {w}]
  /\ UNCHANGED <<driver, disabled, loop, mainVars, levelVars, shardVars>>

\* Mutant of EndTick: roundWg.Wait is dropped.
EndTickEarly(l) ==
  /\ l \notin Services /\ loop[l] = "body"
  /\ loop' = [loop EXCEPT ![l] = "select"]
  /\ UNCHANGED <<driver, disabled, round, mainVars, levelVars, shardVars>>

\* roundWg.Wait, authWg.Wait and the end of the body.
EndTick(l) ==
  /\ l \notin Services /\ loop[l] = "body" /\ round[l] = {}
  /\ loop' = [loop EXCEPT ![l] = "select"]
  /\ UNCHANGED <<driver, disabled, round, mainVars, levelVars, shardVars>>

-----------------------------------------------------------------------------
(***************************************************************************)
(* Telemetry and consistency level.                                        *)
(***************************************************************************)
PartitionLatencies == {50 + b + x : b \in BaseLatencies, x \in ExtraLatencies}
SimulatedConditions ==
  [latency : {50 + b : b \in BaseLatencies}, partition : {FALSE}, loss : CleanLosses]
    \cup [latency : PartitionLatencies, partition : {TRUE}, loss : PartitionLosses]

\* The telemetry loop's tick; the store is atomic.
SimulateUpdate ==
  /\ loop["telemetry"] = "select"
  /\ conditions' \in SimulatedConditions
  /\ UNCHANGED <<driver, disabled, loopVars, mainVars, level, seen, shardVars>>

\* DefaultConsistencyConfig, with losses in permille.
LatencyThresholdStrong == 300
PacketLossThresholdStrong == 50
LatencyThresholdEventual == 100
PacketLossThresholdEventual == 10

\* Mutant of NewLevel: one threshold for both directions.
NewLevelOneThreshold(lvl, c) ==
  IF c.partition \/ c.latency >= LatencyThresholdEventual \/ c.loss >= PacketLossThresholdEventual
  THEN "Eventual" ELSE "Strong"

NewLevel(lvl, c) ==
  CASE lvl = "Strong" /\ (\/ c.partition
                          \/ c.latency > LatencyThresholdStrong
                          \/ c.loss > PacketLossThresholdStrong) -> "Eventual"
    [] lvl = "Eventual" /\ ~c.partition
                        /\ c.latency < LatencyThresholdEventual
                        /\ c.loss < PacketLossThresholdEventual -> "Strong"
    [] OTHER -> lvl

\* evaluateAndUpdateLevel reads the conditions ...
ReadConditions ==
  /\ loop["orchestrator"] = "select"
  /\ loop' = [loop EXCEPT !["orchestrator"] = "body"]
  /\ seen' = conditions
  /\ UNCHANGED <<driver, disabled, round, mainVars, conditions, level, shardVars>>

\* ... and stores the level they call for.
StoreLevel ==
  /\ loop["orchestrator"] = "body"
  /\ loop' = [loop EXCEPT !["orchestrator"] = "select"]
  /\ level' = NewLevel(level, seen)
  /\ seen' = StableConditions
  /\ UNCHANGED <<driver, disabled, round, mainVars, conditions, shardVars>>

-----------------------------------------------------------------------------
(***************************************************************************)
(* The management loop.  ShardManager has the conditions under which       *)
(* shards are split or merged; both happen under sm.mu.                    *)
(***************************************************************************)
CheckAndManageShards ==
  /\ loop["manager"] = "select"
  /\ \/ UNCHANGED shardVars
     \/ /\ nextId \in ShardIds
        /\ shards' = shards \cup {nextId} /\ nextId' = nextId + 1
        /\ UNCHANGED stops
     \/ \E b \in shards :
          /\ shards # {b}
          /\ shards' = shards \ {b}
          /\ stops' = [stops EXCEPT ![b] = @ + 1]
          /\ UNCHANGED nextId
  /\ UNCHANGED <<driver, disabled, loopVars, mainVars, levelVars>>

-----------------------------------------------------------------------------
(***************************************************************************)
(* Shutdown.                                                               *)
(***************************************************************************)
Advance == step' = step + 1

\* The first one is due to a signal or the end of the simulation.
CloseChan ==
  /\ Doing("close")
  /\ closed' = closed \cup {ShutdownOrder[step + 1].chan}
  /\ Advance
  /\ UNCHANGED <<driver, disabled, started, toStop, loopVars, levelVars, shardVars>>

WaitDone ==
  /\ Doing("wait")
  /\ WaitCount(ShutdownOrder[step + 1].chan) = 0
  /\ Advance
  /\ UNCHANGED <<driver, disabled, started, closed, toStop, loopVars, levelVars, shardVars>>

\* StopManagementLoop collects the identifiers under sm.mu, ...
CollectIds ==
  /\ Doing("collect")
  /\ toStop' = shards
  /\ Advance
  /\ UNCHANGED <<driver, disabled, started, closed, loopVars, levelVars, shardVars>>

\* ... then calls GetShard and Stop, shard by shard in the order of the map.
StopShard(s) ==
  /\ Doing("shards") /\ s \in toStop
  /\ toStop' = toStop \ {s}
  /\ stops' = IF s \in shards THEN [stops EXCEPT ![s] = @ + 1] ELSE stops
  /\ UNCHANGED <<driver, disabled, started, closed, step, loopVars, levelVars, shards, nextId>>

ShardsStopped ==
  /\ Doing("shards") /\ toStop = {}
  /\ Advance
  /\ UNCHANGED <<driver, disabled, started, closed, toStop, loopVars, levelVars, shardVars>>

\* The final report reads chains, state and reputations, mostly without locks.
FinalReport ==
  /\ Doing("report")
  /\ Advance
  /\ UNCHANGED <<driver, disabled, started, closed, toStop, loopVars, levelVars, shardVars>>

LoopBody(l) == Wake(l) \/ EndTick(l) \/ \E w \in round[l] : WorkerDone(l, w)

MainStep == \/ StartLoop \/ CloseChan \/ WaitDone \/ CollectIds \/ ShardsStopped \/ FinalReport
            \/ \E s \in toStop : StopShard(s)

LifecycleNext ==
  \/ \E l \in Loops : LoopBody(l) \/ Tick(l) \/ SeeStop(l)
  \/ SimulateUpdate \/ ReadConditions \/ StoreLevel
  \/ CheckAndManageShards
  \/ MainStep

LifecycleSpec == LifecycleInit /\ [][LifecycleNext]_vars

\* Go runs every goroutine that is ready, and a select with two ready cases picks
\* each of them again and again: the stop case cannot lose for ever.  That it wins
\* in some loop is enough, as it wins once in each.
SomeBody == \E l \in Loops : LoopBody(l)
SomeStop == \E l \in Loops : SeeStop(l)
LifecycleFairness ==
  WF_vars(MainStep) /\ WF_vars(StoreLevel) /\ WF_vars(SomeBody) /\ SF_vars(SomeStop)

LifecycleFairSpec == LifecycleSpec /\ LifecycleFairness

-----------------------------------------------------------------------------
(***************************************************************************)
(* Properties.                                                             *)
(***************************************************************************)

\* The stop channel of a shard is closed by the merge that removes it or by
\* StopManagementLoop, never by both: closing it twice panics.  After main's
\* shutdown every shard there ever was has been stopped.
ShardsStoppedOnce ==
  /\ \A s \in ShardIds : stops[s] <= 1
  /\ (driver = "main" /\ Exited) => \A s \in 0 .. nextId - 1 : stops[s] = 1

\* When main reports, and from then on, no loop and no goroutine of a round is
\* left that could change what it reads.
ReportAlone ==
  (driver = "main" /\ (Doing("report") \/ Exited))
    => \A l \in Loops : ~Running(l) /\ round[l] = {}

\* The level leaves Strong only for a partition: high latency and loss alone do
\* not reach the thresholds, and a level once left comes back only through
\* conditions that are better than those it left for.
LeavesStrongOnlyInPartition ==
  [][/\ level = "Strong" /\ level' = "Eventual" => seen.partition
     /\ level = "Eventual" /\ level' = "Strong" =>
          ~seen.partition /\ seen.latency < 100 /\ seen.loss < 10]_vars

\* main.go: the shutdown gets to its end, however the loops are interrupted.
ShutdownCompletes == driver = "main" ~> Exited

=============================================================================
