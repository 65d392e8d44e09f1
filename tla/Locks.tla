------------------------------- MODULE Locks -------------------------------
(***************************************************************************)
(* The locks of the program and the calls that take them.                  *)
(*                                                                         *)
(* A call is the sequence of its lock operations; what it does between     *)
(* them is in the other modules.  Each goroutine makes one call.  Branches *)
(* are resolved to the path that takes the most locks, and consecutive     *)
(* read sections of one lock are one section.                              *)
(*                                                                         *)
(* sync.RWMutex, as the package documents it: Lock first keeps other       *)
(* writers out and announces itself; from then on RLock parks its caller,  *)
(* also one that holds the lock for reading; Lock returns when the readers *)
(* from before are gone, and Unlock lets every parked reader in.           *)
(***************************************************************************)
EXTENDS Integers, Sequences, FiniteSets

CONSTANTS
  Goroutines,
  Calls        \* names of the calls they may make

ASSUME LocksAssumption ==
  Calls \subseteq {"mine0", "mine1", "submit0", "submit1", "manage", "api", "report",
                  "authenticate", "monitor", "commit01", "commit10"}

Mutexes ==
  {"ChainMu", "sm.mu", "shard0.mu", "shard1.mu", "db0.mu", "db1.mu", "ChallengeMu", "vm.mu"}

RLock(l) == [op |-> "RLock", mu |-> l]
RUnlock(l) == [op |-> "RUnlock", mu |-> l]
Lock(l) == [op |-> "Lock", mu |-> l]
Unlock(l) == [op |-> "Unlock", mu |-> l]

Reading(l, body) == <<RLock(l)>> \o body \o <<RUnlock(l)>>
Writing(l, body) == <<Lock(l)>> \o body \o <<Unlock(l)>>
Read(l) == Reading(l, <<>>)
Write(l) == Writing(l, <<>>)

-----------------------------------------------------------------------------
(***************************************************************************)
(* The calls, for two shards.                                              *)
(***************************************************************************)
ShardMu(i) == IF i = 0 THEN "shard0.mu" ELSE "shard1.mu"
DbMu(i) == IF i = 0 THEN "db0.mu" ELSE "db1.mu"

\* InMemoryStateDB.GetStateRoot calls GetKeys while it holds db.mu.
GetStateRoot(i) == Reading(DbMu(i), Read(DbMu(i)))

ApplyStateChanges(i) ==
  Writing(ShardMu(i), Read(DbMu(i)) \o Write(DbMu(i)) \o GetStateRoot(i))

\* Both read-lock vm.mu and call GetActiveValidatorsForShard, which does too.
SelectDelegateWithVRF == Reading("vm.mu", Read("vm.mu"))
FinalizeBlockDBFT == Reading("vm.mu", Read("vm.mu"))

UpdateReputation == Write("vm.mu")

PruneChain(i) == Writing("ChainMu", Read("sm.mu") \o Read(DbMu(i)))

MineShardBlock(i) ==
  Read("sm.mu") \o Read("ChainMu") \o SelectDelegateWithVRF
    \o Write(ShardMu(i))                         \* GetTransactionsForBlock
    \o ApplyStateChanges(i) \o FinalizeBlockDBFT
    \o Write("ChainMu") \o UpdateReputation \o PruneChain(i)

\* Mutant of AddTransaction: routes while it holds the shard.
AddTransactionNested(i) == Writing(ShardMu(i), Read("sm.mu"))

\* DetermineShard and GetShard, then the shard's pool.
AddTransaction(i) == Read("sm.mu") \o Write(ShardMu(i))

\* CheckAndManageShards with a merge of shard 1 into shard 0.
CheckAndManageShards ==
  Writing("sm.mu", Writing("shard0.mu", Writing("shard1.mu",
    Read("db1.mu") \o Write("db0.mu") \o Write("db1.mu") \o Read("db0.mu"))))

\* The handler of /api/blockchain keeps ChainMu to its end.
APIBlockchain ==
  Reading("ChainMu", Read("sm.mu") \o Read("db0.mu") \o Read("db1.mu") \o Read("vm.mu"))

\* main.go's printer asks shard 0 for its state root without the shard's lock.
PrintReport == Read("vm.mu") \o Read("sm.mu") \o GetStateRoot(0)

\* A challenge of main.go, its verification and the penalty.
Authenticate ==
  Read("vm.mu") \o Write("ChallengeMu") \o Write("ChallengeMu") \o Read("vm.mu")
    \o Write("ChallengeMu") \o UpdateReputation

\* SlashValidator, called with vm.mu read-locked.  Blockchain.Start runs it.
MonitorAdversarialBehavior == Reading("vm.mu", Write("vm.mu"))

\* One phase of TwoPhaseCommit from shard i to shard 1 - i; nothing in the
\* repository calls it.
TwoPhaseCommit(i) ==
  Read("sm.mu")
    \o Writing(ShardMu(i), Write(DbMu(i)) \o Read("sm.mu")
                             \o Writing(ShardMu(1 - i), Write(DbMu(1 - i))))

Program(c) ==
  CASE c = "mine0" -> MineShardBlock(0)
    [] c = "mine1" -> MineShardBlock(1)
    [] c = "submit0" -> AddTransaction(0)
    [] c = "submit1" -> AddTransaction(1)
    [] c = "manage" -> CheckAndManageShards
    [] c = "api" -> APIBlockchain
    [] c = "report" -> PrintReport
    [] c = "authenticate" -> Authenticate
    [] c = "monitor" -> MonitorAdversarialBehavior
    [] c = "commit01" -> TwoPhaseCommit(0)
    [] c = "commit10" -> TwoPhaseCommit(1)

-----------------------------------------------------------------------------
VARIABLES
  call,       \* call[g]: the call g makes
  pos,        \* pos[g]: lock operations done
  announced,  \* goroutines inside Lock, waiting for readers to leave
  parked      \* goroutines inside RLock, waiting for a writer

lockVars == <<call, pos, announced, parked>>

Programs == [c \in Calls |-> Program(c)]
Prog(g) == Programs[call[g]]
Finished(g) == pos[g] = Len(Prog(g))
NextOp(g) == Prog(g)[pos[g] + 1]
Wants(g, op, l) == ~Finished(g) /\ NextOp(g) = [op |-> op, mu |-> l]

\* The locks a call holds for reading and for writing after n operations.
Times(c, n, op, l) == Cardinality({i \in 1 .. n : Programs[c][i] = [op |-> op, mu |-> l]})
ReadLocked ==
  [c \in Calls |-> [n \in 0 .. Len(Programs[c]) |->
     {l \in Mutexes : Times(c, n, "RLock", l) > Times(c, n, "RUnlock", l)}]]
WriteLocked ==
  [c \in Calls |-> [n \in 0 .. Len(Programs[c]) |->
     {l \in Mutexes : Times(c, n, "Lock", l) > Times(c, n, "Unlock", l)}]]

ReaderOf(g, l) == l \in ReadLocked[call[g]][pos[g]]
WriterOf(g, l) == l \in WriteLocked[call[g]][pos[g]]
Holds(g, l) == ReaderOf(g, l) \/ WriterOf(g, l)

\* A writer holds l or has announced itself.
WriterAt(g, l) == WriterOf(g, l) \/ (g \in announced /\ Wants(g, "Lock", l))
WriterIn(l) == \E g \in Goroutines : WriterAt(g, l)

LocksTypeOK ==
  /\ call \in [Goroutines -> Calls]
  /\ pos \in [Goroutines -> Nat] /\ \A g \in Goroutines : pos[g] <= Len(Prog(g))
  /\ announced \subseteq Goroutines /\ parked \subseteq Goroutines

LocksInit ==
  /\ call \in [Goroutines -> Calls]
  /\ pos = [g \in Goroutines |-> 0]
  /\ announced = {} /\ parked = {}

Advance(g) == pos' = [pos EXCEPT ![g] = @ + 1] /\ UNCHANGED call

TryRLock(g, l) ==
  /\ Wants(g, "RLock", l) /\ g \notin parked
  /\ \/ ~WriterIn(l) /\ Advance(g) /\ UNCHANGED <<announced, parked>>
     \/ WriterIn(l) /\ parked' = parked \cup {g} /\ UNCHANGED <<call, pos, announced>>

Announce(g, l) ==
  /\ Wants(g, "Lock", l) /\ g \notin announced
  /\ ~WriterIn(l)
  /\ announced' = announced \cup {g}
  /\ UNCHANGED <<call, pos, parked>>

TakeLock(g, l) ==
  /\ Wants(g, "Lock", l) /\ g \in announced
  /\ \A h \in Goroutines : ~ReaderOf(h, l)
  /\ announced' = announced \ {g}
  /\ Advance(g)
  /\ UNCHANGED parked

DoRUnlock(g, l) ==
  /\ Wants(g, "RUnlock", l)
  /\ Advance(g)
  /\ UNCHANGED <<announced, parked>>

\* Mutant of DoUnlock: readers that came during the write are not woken.
UnlockForgetsReaders(g, l) ==
  /\ Wants(g, "Unlock", l)
  /\ Advance(g)
  /\ UNCHANGED <<announced, parked>>

DoUnlock(g, l) ==
  LET in == {h \in parked : Wants(h, "RLock", l)} IN
  /\ Wants(g, "Unlock", l)
  /\ pos' = [h \in Goroutines |-> IF h = g \/ h \in in THEN pos[h] + 1 ELSE pos[h]]
  /\ parked' = parked \ in
  /\ UNCHANGED <<call, announced>>

LockStep(g) ==
  \E l \in Mutexes : TryRLock(g, l) \/ Announce(g, l) \/ TakeLock(g, l) \/ DoRUnlock(g, l) \/ DoUnlock(g, l)

LocksNext == \E g \in Goroutines : LockStep(g)

LocksSpec == LocksInit /\ [][LocksNext]_lockVars

-----------------------------------------------------------------------------
(***************************************************************************)
(* Properties.                                                             *)
(***************************************************************************)

\* A goroutine whose next operation cannot complete as things are.
Blocked(g) ==
  \E l \in Mutexes :
    \/ Wants(g, "RLock", l) /\ (g \in parked \/ WriterIn(l))
    \/ /\ Wants(g, "Lock", l)
       /\ \E h \in Goroutines : ReaderOf(h, l) \/ (h # g /\ WriterAt(h, l))

Stuck ==
  /\ \E g \in Goroutines : ~Finished(g)
  /\ \A g \in Goroutines : Finished(g) \/ Blocked(g)

\* The order in which the calls of the running program nest their locks.
Rank(l) ==
  CASE l = "ChainMu" -> 1
    [] l = "sm.mu" -> 2
    [] l = "shard0.mu" -> 3
    [] l = "shard1.mu" -> 4
    [] l = "db0.mu" -> 5
    [] l = "db1.mu" -> 6
    [] l = "ChallengeMu" -> 7
    [] l = "vm.mu" -> 8

\* A goroutine that asks for a lock while it holds the same or a later one.
OutOfOrder(g) ==
  \E l \in Mutexes : /\ Wants(g, "RLock", l) \/ Wants(g, "Lock", l)
                     /\ \E k \in Mutexes : Holds(g, k) /\ Rank(k) >= Rank(l)

\* Calls stand still together only if one of them is out of order.
StuckOnlyOutOfOrder == Stuck => \E g \in Goroutines : Blocked(g) /\ OutOfOrder(g)

\* The calls in which that happens: those that read-lock vm.mu or db.mu twice, the
\* monitor that asks for vm.mu while it reads under it, and two-phase commit.  No
\* other call of the program, in whatever combination, is ever what a deadlock
\* hinges on.
KnownNesting == {"mine0", "mine1", "report", "monitor", "commit01", "commit10"}
DeadlockOnlyByKnownNesting ==
  Stuck => \E g \in Goroutines : Blocked(g) /\ OutOfOrder(g) /\ call[g] \in KnownNesting
=============================================================================
