--------------------------- MODULE TwoPhaseCommit ---------------------------
(***************************************************************************)
(* Blockchain.TwoPhaseCommit (core/blockchain.go): prepare, then commit or *)
(* abort, of cross-shard transactions that run at the same time, while the *)
(* ShardManager splits and merges the shards under them.                   *)
(*                                                                         *)
(* Each of the three phases looks the source shard up, locks it, looks the *)
(* destination up while holding the first lock, locks it, writes, and      *)
(* unlocks in reverse order; between two phases all locks are free.  A     *)
(* lookup takes sm.mu, which a split or merge holds from its start; a      *)
(* shard that was looked up stays reachable after it has left the map.     *)
(* An entry is the value of the transaction's key in a shard's StateDB;    *)
(* the error paths of Put and Delete are never taken (InMemoryStateDB      *)
(* returns no error for a key that is not empty).                          *)
(***************************************************************************)
EXTENDS Naturals

CONSTANTS
  Tx,             \* transactions, each with one call of TwoPhaseCommit
  Shards,         \* shard ids
  From, To,       \* tx.FromShard, tx.ToShard
  InitialShards,  \* the shards of the map at first
  Free            \* a lock nobody holds

ASSUME TPCAssumption ==
  /\ From \in [Tx -> Shards] /\ To \in [Tx -> Shards]
  /\ \A t \in Tx : From[t] # To[t]     \* tx.IsCrossShard()
  /\ InitialShards \subseteq Shards
  /\ Free \notin Tx

VARIABLES
  live,     \* sm.shards
  made,     \* ids that are or have been in the map
  reshard,  \* the split or merge that holds sm.mu
  entry,    \* entry[s][t]
  lock,     \* holder of shard s's mu
  phase,    \* phase of the call for t,
  step,     \*   its next step
  excused   \* history: transactions that had a shard merged away

tpcVars == <<live, made, reshard, entry, lock, phase, step, excused>>

Idle == [op |-> "none"]
Entries == {"none", "data", "prepared", "committed"}
Phases == {"prepare", "commit", "abort"}
Steps == {"find_src", "lock_src", "find_dst", "lock_dst", "put_src", "put_dst",
          "unlock_dst", "unlock_src", "failed", "done"}

Reshardings ==
  {Idle} \cup [op : {"split"}, new : Shards] \cup [op : {"merge"}, a : Shards, b : Shards]

TPCTypeOK ==
  /\ live \subseteq made /\ made \subseteq Shards
  /\ reshard \in Reshardings
  /\ entry \in [Shards -> [Tx -> Entries]]
  /\ lock \in [Shards -> Tx \cup {Free}]
  /\ phase \in [Tx -> Phases] /\ step \in [Tx -> Steps]
  /\ excused \subseteq Tx

TPCInit ==
  /\ live = InitialShards /\ made = InitialShards
  /\ reshard = Idle
  /\ entry = [s \in Shards |-> [t \in Tx |-> "none"]]
  /\ lock = [s \in Shards |-> Free]
  /\ phase = [t \in Tx |-> "prepare"]
  /\ step = [t \in Tx |-> "find_src"]
  /\ excused = {}

-----------------------------------------------------------------------------
Goto(t, p, n) == phase' = [phase EXCEPT ![t] = p] /\ step' = [step EXCEPT ![t] = n]

Acquire(t, s) == lock[s] = Free /\ lock' = [lock EXCEPT ![s] = t]
Release(t, s) == lock' = IF lock[s] = t THEN [lock EXCEPT ![s] = Free] ELSE lock
Put(t, s, e) == entry' = [entry EXCEPT ![s][t] = e]

GetShard == reshard = Idle
MapStays == UNCHANGED <<live, made, reshard, excused>>

\* The source is gone: preparing turns into aborting, committing returns an
\* error, aborting goes on with the destination.
FindSource(t) ==
  /\ step[t] = "find_src" /\ GetShard
  /\ IF From[t] \in live
     THEN Goto(t, phase[t], "lock_src")
     ELSE \/ phase[t] = "prepare" /\ Goto(t, "abort", "find_src")
          \/ phase[t] = "commit" /\ Goto(t, "commit", "failed")
          \/ phase[t] = "abort" /\ Goto(t, "abort", "find_dst")
  /\ UNCHANGED <<entry, lock>> /\ MapStays

LockSource(t) ==
  /\ step[t] = "lock_src"
  /\ Acquire(t, From[t])
  /\ \/ phase[t] = "prepare" /\ Put(t, From[t], "data")
     \/ phase[t] = "commit" /\ UNCHANGED entry
     \/ phase[t] = "abort" /\ Put(t, From[t], "none")
  /\ Goto(t, phase[t], "find_dst")
  /\ MapStays

\* Mutants of FindDest: the error path keeps the source locked; a failed
\* prepare returns without aborting.
FindDestKeepsLock(t) ==
  /\ step[t] = "find_dst" /\ GetShard
  /\ IF To[t] \in live
     THEN Goto(t, phase[t], "lock_dst")
     ELSE \/ phase[t] = "prepare" /\ Goto(t, "abort", "find_src")
          \/ phase[t] = "commit" /\ Goto(t, "commit", "failed")
          \/ phase[t] = "abort" /\ Goto(t, "abort", "unlock_src")
  /\ UNCHANGED <<entry, lock>> /\ MapStays
FindDestNoAbort(t) ==
  /\ step[t] = "find_dst" /\ GetShard
  /\ IF To[t] \in live
     THEN Goto(t, phase[t], "lock_dst") /\ UNCHANGED lock
     ELSE Goto(t, phase[t], "failed") /\ Release(t, From[t])
  /\ UNCHANGED entry /\ MapStays

\* The destination is gone: the deferred unlock of the source comes with the
\* error, except that aborting has no error to return.
FindDest(t) ==
  /\ step[t] = "find_dst" /\ GetShard
  /\ IF To[t] \in live
     THEN Goto(t, phase[t], "lock_dst") /\ UNCHANGED lock
     ELSE \/ phase[t] = "prepare" /\ Goto(t, "abort", "find_src") /\ Release(t, From[t])
          \/ phase[t] = "commit" /\ Goto(t, "commit", "failed") /\ Release(t, From[t])
          \/ phase[t] = "abort" /\ Goto(t, "abort", "unlock_src") /\ UNCHANGED lock
  /\ UNCHANGED entry /\ MapStays

LockDest(t) ==
  /\ step[t] = "lock_dst"
  /\ Acquire(t, To[t])
  /\ \/ phase[t] = "prepare" /\ Put(t, To[t], "prepared") /\ Goto(t, "prepare", "unlock_dst")
     \/ phase[t] = "commit" /\ UNCHANGED entry /\ Goto(t, "commit", "put_src")
     \/ phase[t] = "abort" /\ Put(t, To[t], "none") /\ Goto(t, "abort", "unlock_dst")
  /\ MapStays

PutSource(t) ==
  /\ step[t] = "put_src"
  /\ Put(t, From[t], "committed")
  /\ Goto(t, "commit", "put_dst")
  /\ UNCHANGED lock /\ MapStays

PutDest(t) ==
  /\ step[t] = "put_dst"
  /\ Put(t, To[t], "committed")
  /\ Goto(t, "commit", "unlock_dst")
  /\ UNCHANGED lock /\ MapStays

UnlockDest(t) ==
  /\ step[t] = "unlock_dst"
  /\ Release(t, To[t])
  /\ Goto(t, phase[t], "unlock_src")
  /\ UNCHANGED entry /\ MapStays

UnlockSource(t) ==
  /\ step[t] = "unlock_src"
  /\ Release(t, From[t])
  /\ IF phase[t] = "prepare" THEN Goto(t, "commit", "find_src") ELSE Goto(t, phase[t], "done")
  /\ UNCHANGED entry /\ MapStays

-----------------------------------------------------------------------------
\* CheckAndManageShards takes sm.mu and decides, ...
BeginSplit(n) ==
  /\ reshard = Idle /\ n \in Shards \ made
  /\ reshard' = [op |-> "split", new |-> n]
  /\ UNCHANGED <<live, made, entry, lock, phase, step, excused>>

BeginMerge(a, b) ==
  /\ reshard = Idle /\ a \in live /\ b \in live /\ a # b
  /\ reshard' = [op |-> "merge", a |-> a, b |-> b]
  /\ UNCHANGED <<live, made, entry, lock, phase, step, excused>>

\* ... adds an empty shard, ...
TriggerSplit ==
  /\ reshard.op = "split"
  /\ live' = live \cup {reshard.new} /\ made' = made \cup {reshard.new}
  /\ reshard' = Idle
  /\ UNCHANGED <<entry, lock, phase, step, excused>>

\* ... or, when it has the locks of both shards, moves what b holds to a and
\* takes b out of the map.
TriggerMerge ==
  LET a == reshard.a
      b == reshard.b
  IN
  /\ reshard.op = "merge"
  /\ lock[a] = Free /\ lock[b] = Free
  /\ entry' = [entry EXCEPT
       ![a] = [t \in Tx |-> IF entry[b][t] = "none" THEN entry[a][t] ELSE entry[b][t]],
       ![b] = [t \in Tx |-> "none"]]
  /\ live' = live \ {b}
  /\ reshard' = Idle
  /\ excused' = excused \cup {t \in Tx : b \in {From[t], To[t]}}
  /\ UNCHANGED <<made, lock, phase, step>>

-----------------------------------------------------------------------------
CallStep(t) ==
  \/ FindSource(t) \/ LockSource(t) \/ FindDest(t) \/ LockDest(t)
  \/ PutSource(t) \/ PutDest(t) \/ UnlockDest(t) \/ UnlockSource(t)

Reshard ==
  \/ \E n \in Shards : BeginSplit(n)
  \/ \E a, b \in Shards : BeginMerge(a, b)
  \/ TriggerSplit \/ TriggerMerge

TPCNext == (\E t \in Tx : CallStep(t)) \/ Reshard

TPCSpec == TPCInit /\ [][TPCNext]_tpcVars

-----------------------------------------------------------------------------
(***************************************************************************)
(* Properties.                                                             *)
(***************************************************************************)
Decision(t) ==
  CASE step[t] = "failed" -> "aborted"
    [] phase[t] = "abort" /\ step[t] = "done" -> "aborted"
    [] phase[t] = "abort" /\ step[t] \notin {"failed", "done"} -> "aborting"
    [] phase[t] = "commit" /\ step[t] = "done" -> "committed"
    [] phase[t] = "commit" /\ step[t] \in {"put_src", "put_dst", "unlock_dst", "unlock_src"} -> "committing"
    [] OTHER -> "working"

\* What someone who takes the lock of s finds; while the call itself holds the
\* lock nobody can look.
Shown(t, s) ==
  CASE s \notin live \/ (lock[s] # t /\ entry[s][t] = "none") -> "absent"
    [] s \in live /\ lock[s] # t /\ entry[s][t] = "committed" -> "committed"
    [] OTHER -> "tentative"

AC == INSTANCE AtomicCommit
  WITH decision <- [t \in Tx |-> Decision(t)],
       view <- [t \in Tx |-> [s \in Shards |-> Shown(t, s)]]

\* As long as no merge takes one of its shards away, a transaction is atomic: it
\* shows as committed nowhere or, once its call has returned, in both shards, and
\* a call that gave up has left nothing behind, whatever other transactions,
\* splits and merges of other shards do meanwhile.
Atomicity == AC!ACSpec

\* A call that has returned holds no lock, on whichever path it left.
ReturnedHoldsNothing ==
  \A t \in Tx : step[t] \in {"failed", "done"} => \A s \in Shards : lock[s] # t
=============================================================================
