------------------------ MODULE TwoPhaseCommitProofs ------------------------
(***************************************************************************)
(* TwoPhaseCommit keeps its locks in order and implements AtomicCommit, for *)
(* any number of transactions, any shards and any resharding.              *)
(***************************************************************************)
EXTENDS TwoPhaseCommit, TLAPS

\* A transaction moves between two different shards, and none is the free mark.
LEMMA Distinct == \A t \in Tx : From[t] \in Shards /\ To[t] \in Shards /\ From[t] # To[t] /\ t # Free
BY TPCAssumption

-----------------------------------------------------------------------------
(***************************************************************************)
(* The inductive invariant.                                                *)
(***************************************************************************)

\* The call for t holds at most the locks its steps have taken.
Held(t) ==
  \A s \in Shards : lock[s] = t =>
    \/ s = From[t] /\ step[t] \in {"find_dst", "lock_dst", "put_src", "put_dst", "unlock_dst", "unlock_src"}
    \/ s = To[t] /\ step[t] \in {"put_src", "put_dst", "unlock_dst"}

\* A decided split has a new id, a decided merge two shards of the map.
ReshardValid ==
  /\ reshard.op = "split" => reshard.new \in Shards \ made
  /\ reshard.op = "merge" => reshard.a \in live /\ reshard.b \in live /\ reshard.a # reshard.b

\* Where the shards of t are known to be in the map.
Reachable(t) ==
  /\ From[t] \in made => From[t] \in live
  /\ To[t] \in made => To[t] \in live
  /\ step[t] = "lock_src" => From[t] \in live
  /\ step[t] \in {"lock_dst", "put_src", "put_dst", "unlock_dst"} => To[t] \in live
  /\ phase[t] = "prepare" /\ step[t] # "find_src" => From[t] \in live
  /\ phase[t] = "prepare" /\ step[t] = "unlock_src" => To[t] \in live
  /\ phase[t] = "commit" => From[t] \in live /\ To[t] \in live

\* Which steps belong to which phase.
PathOrder(t) ==
  /\ step[t] \in {"put_src", "put_dst"} => phase[t] = "commit"
  /\ step[t] # "failed"
  /\ step[t] = "done" => phase[t] # "prepare"

\* What the shards hold of t.
EntriesOf(t) ==
  /\ \A s \in Shards : (s \notin {From[t], To[t]} \/ s \notin made) => entry[s][t] = "none"
  /\ \A s \in Shards : s \notin made => lock[s] # t
  /\ \A s \in Shards : entry[s][t] = "committed" =>
       phase[t] = "commit" /\ step[t] \in {"put_dst", "unlock_dst", "unlock_src", "done"}
  /\ phase[t] = "commit" /\ step[t] \in {"put_dst", "unlock_dst", "unlock_src", "done"}
       => entry[From[t]][t] = "committed"
  /\ phase[t] = "commit" /\ step[t] \in {"unlock_dst", "unlock_src", "done"}
       => entry[To[t]][t] = "committed"
  /\ phase[t] = "abort" /\ step[t] \notin {"find_src", "lock_src"} => entry[From[t]][t] = "none"
  /\ phase[t] = "abort" /\ step[t] \in {"unlock_dst", "unlock_src", "done"} => entry[To[t]][t] = "none"

Undisturbed(t) == Reachable(t) /\ PathOrder(t) /\ EntriesOf(t)

TPCInv ==
  /\ TPCTypeOK
  /\ ReshardValid
  /\ \A t \in Tx : Held(t)
  /\ \A t \in Tx \ excused : Undisturbed(t)

-----------------------------------------------------------------------------
\* The invariant holds before the first call.
LEMMA InitInv == TPCInit => TPCInv
BY TPCAssumption
   DEF TPCInit, TPCInv, TPCTypeOK, ReshardValid, Held, Undisturbed, Reachable, PathOrder,
       EntriesOf, Entries, Phases, Steps, Reshardings, Idle

\* Put changes one entry.
LEMMA PutEffect ==
  ASSUME entry \in [Shards -> [Tx -> Entries]],
         NEW t \in Tx, NEW s \in Shards, NEW e \in Entries, Put(t, s, e)
  PROVE  /\ entry' \in [Shards -> [Tx -> Entries]]
         /\ \A r \in Shards : entry'[r][t] = IF r = s THEN e ELSE entry[r][t]
         /\ \A r \in Shards, u \in Tx : u # t => entry'[r][u] = entry[r][u]
<1> DEFINE row == [entry[s] EXCEPT ![t] = e]
<1>1. row \in [Tx -> Entries] /\ row[t] = e /\ \A u \in Tx : u # t => row[u] = entry[s][u]
  OBVIOUS
<1>2. entry' = [entry EXCEPT ![s] = row]
  BY DEF Put
<1> HIDE DEF row
<1>3. entry' \in [Shards -> [Tx -> Entries]] /\ entry'[s] = row
  BY <1>1, <1>2
<1>4. \A r \in Shards : r # s => entry'[r] = entry[r]
  BY <1>2
<1> QED
  BY <1>1, <1>3, <1>4

\* A step of one call leaves the map alone and keeps the types.
LEMMA CallType ==
  ASSUME TPCTypeOK, NEW t \in Tx, CallStep(t)
  PROVE  TPCTypeOK' /\ UNCHANGED <<live, made, reshard, excused>>
<1>1. MapStays
  BY DEF CallStep, FindSource, LockSource, FindDest, LockDest, PutSource, PutDest,
         UnlockDest, UnlockSource
<1>2. \E p \in Phases, n \in Steps : Goto(t, p, n)
  BY DEF CallStep, FindSource, LockSource, FindDest, LockDest, PutSource, PutDest,
         UnlockDest, UnlockSource, TPCTypeOK, Phases, Steps
<1>3. \/ UNCHANGED lock
      \/ \E s \in Shards : Acquire(t, s) \/ Release(t, s)
  BY Distinct
     DEF CallStep, FindSource, LockSource, FindDest, LockDest, PutSource, PutDest,
         UnlockDest, UnlockSource
<1>4. \/ UNCHANGED entry
      \/ \E s \in Shards, e \in Entries : Put(t, s, e)
  BY Distinct
     DEF CallStep, FindSource, LockSource, FindDest, LockDest, PutSource, PutDest,
         UnlockDest, UnlockSource, Entries
<1>5. phase' \in [Tx -> Phases] /\ step' \in [Tx -> Steps]
  BY <1>2 DEF Goto, TPCTypeOK
<1>6. lock' \in [Shards -> Tx \cup {Free}]
  BY <1>3 DEF Acquire, Release, TPCTypeOK
<1>7. entry' \in [Shards -> [Tx -> Entries]]
  BY <1>4, PutEffect DEF TPCTypeOK
<1> QED
  BY <1>1, <1>5, <1>6, <1>7 DEF MapStays, TPCTypeOK

\* It says nothing about the other transactions.
LEMMA CallFrame ==
  ASSUME TPCTypeOK, NEW t \in Tx, CallStep(t), NEW u \in Tx, u # t
  PROVE  /\ phase'[u] = phase[u] /\ step'[u] = step[u]
         /\ \A s \in Shards : entry'[s][u] = entry[s][u]
         /\ \A s \in Shards : lock'[s] = u <=> lock[s] = u
BY SMTT(30), Distinct
   DEF TPCTypeOK, CallStep, FindSource, LockSource, FindDest, LockDest, PutSource, PutDest,
       UnlockDest, UnlockSource, MapStays, Goto, Acquire, Release, Put

\* A step of a call keeps what the calls hold.
LEMMA CallHeld ==
  ASSUME TPCTypeOK, NEW t \in Tx, CallStep(t), Held(t)
  PROVE  Held(t)'
BY Distinct
   DEF TPCTypeOK, CallStep, FindSource, LockSource, FindDest, LockDest, PutSource, PutDest,
       UnlockDest, UnlockSource, MapStays, Goto, Acquire, Release, Put, Held

\* Undisturbed(u) is about what CallFrame and MapStays keep.
LEMMA UndisturbedFrame ==
  ASSUME NEW u \in Tx, Undisturbed(u),
         UNCHANGED <<live, made>>,
         phase'[u] = phase[u], step'[u] = step[u],
         \A s \in Shards : entry'[s][u] = entry[s][u],
         \A s \in Shards : lock'[s] = u <=> lock[s] = u
  PROVE  Undisturbed(u)'
BY Distinct DEF Undisturbed, Reachable, PathOrder, EntriesOf

\* A transaction's own steps keep it on its path.
LEMMA CallUndisturbed ==
  ASSUME TPCTypeOK, NEW t \in Tx, CallStep(t), Held(t), Undisturbed(t)
  PROVE  Undisturbed(t)'
<1>0. /\ UNCHANGED <<live, made>>
      /\ entry \in [Shards -> [Tx -> Entries]] /\ lock \in [Shards -> Tx \cup {Free}]
      /\ phase \in [Tx -> Phases] /\ step \in [Tx -> Steps]
      /\ live \subseteq made
      /\ From[t] \in Shards /\ To[t] \in Shards /\ From[t] # To[t] /\ t # Free
      /\ {"none", "data", "prepared", "committed"} \subseteq Entries
  BY CallType, Distinct DEF TPCTypeOK, Entries
<1> USE <1>0 DEF Undisturbed, Goto
<1>1. CASE FindSource(t)
  BY <1>1 DEF FindSource, Reachable, PathOrder, EntriesOf, Phases
<1>2. CASE LockSource(t)
  <2>1. \A s \in Shards : lock'[s] = t => lock[s] = t \/ s = From[t]
    BY <1>2 DEF LockSource, Acquire
  <2>2. Reachable(t)' /\ PathOrder(t)'
    BY <1>2 DEF LockSource, Reachable, PathOrder
  <2>3. CASE phase[t] = "prepare"
    <3>1. \A r \in Shards : entry'[r][t] = IF r = From[t] THEN "data" ELSE entry[r][t]
      BY <1>2, <2>3, PutEffect DEF LockSource
    <3> QED
      BY <1>2, <2>1, <2>2, <2>3, <3>1 DEF LockSource, EntriesOf, Reachable
  <2>4. CASE phase[t] = "commit"
    <3>1. UNCHANGED entry
      BY <1>2, <2>4 DEF LockSource
    <3> QED
      BY <1>2, <2>1, <2>2, <2>4, <3>1 DEF LockSource, EntriesOf, Reachable
  <2>5. CASE phase[t] = "abort"
    <3>1. \A r \in Shards : entry'[r][t] = IF r = From[t] THEN "none" ELSE entry[r][t]
      BY <1>2, <2>5, PutEffect DEF LockSource
    <3> QED
      BY <1>2, <2>1, <2>2, <2>5, <3>1 DEF LockSource, EntriesOf, Reachable
  <2> QED
    BY <2>3, <2>4, <2>5 DEF Phases
<1>3. CASE FindDest(t)
  BY <1>3 DEF FindDest, Release, Reachable, PathOrder, EntriesOf, Phases
<1>4. CASE LockDest(t)
  <2>1. \A s \in Shards : lock'[s] = t => lock[s] = t \/ s = To[t]
    BY <1>4 DEF LockDest, Acquire
  <2>2. Reachable(t)' /\ PathOrder(t)'
    BY <1>4 DEF LockDest, Reachable, PathOrder
  <2>3. CASE phase[t] = "prepare"
    <3>1. \A r \in Shards : entry'[r][t] = IF r = To[t] THEN "prepared" ELSE entry[r][t]
      BY <1>4, <2>3, PutEffect DEF LockDest
    <3> QED
      BY <1>4, <2>1, <2>2, <2>3, <3>1 DEF LockDest, EntriesOf, Reachable
  <2>4. CASE phase[t] = "commit"
    <3>1. UNCHANGED entry
      BY <1>4, <2>4 DEF LockDest
    <3> QED
      BY <1>4, <2>1, <2>2, <2>4, <3>1 DEF LockDest, EntriesOf, Reachable
  <2>5. CASE phase[t] = "abort"
    <3>1. \A r \in Shards : entry'[r][t] = IF r = To[t] THEN "none" ELSE entry[r][t]
      BY <1>4, <2>5, PutEffect DEF LockDest
    <3> QED
      BY <1>4, <2>1, <2>2, <2>5, <3>1 DEF LockDest, EntriesOf, Reachable
  <2> QED
    BY <2>3, <2>4, <2>5 DEF Phases
<1>5. CASE PutSource(t)
  <2>1. \A r \in Shards : entry'[r][t] = IF r = From[t] THEN "committed" ELSE entry[r][t]
    BY <1>5, PutEffect DEF PutSource
  <2> QED
    BY <1>5, <2>1 DEF PutSource, Reachable, PathOrder, EntriesOf
<1>6. CASE PutDest(t)
  <2>1. \A r \in Shards : entry'[r][t] = IF r = To[t] THEN "committed" ELSE entry[r][t]
    BY <1>6, PutEffect DEF PutDest
  <2> QED
    BY <1>6, <2>1 DEF PutDest, Reachable, PathOrder, EntriesOf
<1>7. CASE UnlockDest(t)
  BY <1>7 DEF UnlockDest, Release, Reachable, PathOrder, EntriesOf
<1>8. CASE UnlockSource(t)
  BY <1>8 DEF UnlockSource, Release, Reachable, PathOrder, EntriesOf
<1> QED
  BY <1>1, <1>2, <1>3, <1>4, <1>5, <1>6, <1>7, <1>8 DEF CallStep

\* A step of a call keeps the invariant.
LEMMA CallInv ==
  ASSUME TPCInv, NEW t \in Tx, CallStep(t)
  PROVE  TPCInv'
<1>1. TPCTypeOK' /\ UNCHANGED <<live, made, reshard, excused>>
  BY CallType DEF TPCInv
<1>2. ReshardValid'
  BY <1>1 DEF TPCInv, ReshardValid
<1>3. ASSUME NEW u \in Tx PROVE Held(u)'
  <2>1. CASE u = t
    BY <2>1, CallHeld DEF TPCInv
  <2>2. CASE u # t
    BY <2>2, CallFrame DEF TPCInv, Held
  <2> QED
    BY <2>1, <2>2
<1>4. ASSUME NEW u \in Tx \ excused PROVE Undisturbed(u)'
  <2>1. CASE u = t
    BY <2>1, CallUndisturbed DEF TPCInv
  <2>2. CASE u # t
    BY <2>2, <1>1, CallFrame, UndisturbedFrame DEF TPCInv
  <2> QED
    BY <2>1, <2>2
<1> QED
  BY <1>1, <1>2, <1>3, <1>4 DEF TPCInv

-----------------------------------------------------------------------------
(***************************************************************************)
(* Resharding.                                                             *)
(***************************************************************************)
LEMMA SplitInv ==
  ASSUME TPCInv, TriggerSplit
  PROVE  TPCInv'
<1>1. reshard.new \in Shards \ made /\ TPCTypeOK'
  BY DEF TPCInv, TPCTypeOK, ReshardValid, TriggerSplit, Reshardings, Idle
<1>2. ReshardValid'
  BY DEF TriggerSplit, ReshardValid, Idle
<1>3. ASSUME NEW u \in Tx PROVE Held(u)'
  BY DEF TPCInv, Held, TriggerSplit
<1>4. ASSUME NEW u \in Tx \ excused PROVE Undisturbed(u)'
  BY <1>1, Distinct DEF TPCInv, TPCTypeOK, TriggerSplit, Undisturbed, Reachable, PathOrder, EntriesOf
<1> QED
  BY <1>1, <1>2, <1>3, <1>4 DEF TPCInv, TriggerSplit

\* What a merge does to the entries of one transaction.
LEMMA MergeEffect ==
  ASSUME TPCInv, TriggerMerge
  PROVE  /\ reshard.a \in live /\ reshard.b \in live /\ reshard.a # reshard.b
         /\ reshard.a \in Shards /\ reshard.b \in Shards
         /\ entry' \in [Shards -> [Tx -> Entries]]
         /\ \A s \in Shards, u \in Tx :
              entry'[s][u] = IF s = reshard.b THEN "none"
                             ELSE IF s = reshard.a /\ entry[reshard.b][u] # "none"
                                  THEN entry[reshard.b][u] ELSE entry[s][u]
<1> DEFINE a == reshard.a
           b == reshard.b
           into == [u \in Tx |-> IF entry[b][u] = "none" THEN entry[a][u] ELSE entry[b][u]]
           empty == [u \in Tx |-> "none"]
<1>1. /\ a \in live /\ b \in live /\ a # b /\ a \in Shards /\ b \in Shards
      /\ entry \in [Shards -> [Tx -> Entries]]
  BY DEF TPCInv, TPCTypeOK, ReshardValid, TriggerMerge
<1>2. entry' = [entry EXCEPT ![a] = into, ![b] = empty]
  BY DEF TriggerMerge
<1>3. into \in [Tx -> Entries] /\ empty \in [Tx -> Entries]
  BY <1>1 DEF Entries
<1>4. entry' \in [Shards -> [Tx -> Entries]]
  <2> HIDE DEF a, b, into, empty
  <2> QED BY <1>1, <1>2, <1>3
<1>5. entry'[b] = empty /\ entry'[a] = into /\ \A s \in Shards \ {a, b} : entry'[s] = entry[s]
  <2> HIDE DEF a, b, into, empty
  <2> QED BY <1>1, <1>2
<1> QED
  BY <1>1, <1>4, <1>5

\* A merge keeps the invariant.
LEMMA MergeInv ==
  ASSUME TPCInv, TriggerMerge
  PROVE  TPCInv'
<1>1. TPCTypeOK'
  BY MergeEffect DEF TPCInv, TPCTypeOK, TriggerMerge, Reshardings, Idle
<1>2. ReshardValid'
  BY DEF TriggerMerge, ReshardValid, Idle
<1>3. ASSUME NEW u \in Tx PROVE Held(u)'
  BY DEF TPCInv, Held, TriggerMerge
<1>4. ASSUME NEW u \in Tx \ excused' PROVE Undisturbed(u)'
  <2>1. u \notin excused /\ reshard.b \notin {From[u], To[u]}
    BY DEF TriggerMerge
  <2>2. Undisturbed(u) /\ live \subseteq made
    BY <2>1 DEF TPCInv, TPCTypeOK
  <2>3. entry[reshard.b][u] = "none"
    BY <2>1, <2>2, MergeEffect DEF Undisturbed, EntriesOf
  <2>4. \A s \in Shards : entry'[s][u] = entry[s][u]
    BY <2>3, MergeEffect
  <2>5. live' = live \ {reshard.b} /\ UNCHANGED <<made, lock, phase, step>>
    BY DEF TriggerMerge
  <2> QED
    BY <2>1, <2>2, <2>4, <2>5, Distinct DEF Undisturbed, Reachable, PathOrder, EntriesOf
<1> QED
  BY <1>1, <1>2, <1>3, <1>4 DEF TPCInv

\* Every step keeps the invariant.
LEMMA NextInv == TPCInv /\ [TPCNext]_tpcVars => TPCInv'
<1> SUFFICES ASSUME TPCInv, [TPCNext]_tpcVars PROVE TPCInv'
  OBVIOUS
<1>1. CASE \E t \in Tx : CallStep(t)
  BY <1>1, CallInv
<1>2. ASSUME NEW n \in Shards, BeginSplit(n) PROVE TPCInv'
  BY <1>2 DEF BeginSplit, TPCInv, TPCTypeOK, ReshardValid, Held, Undisturbed, Reachable,
              PathOrder, EntriesOf, Reshardings
<1>3. ASSUME NEW a \in Shards, NEW b \in Shards, BeginMerge(a, b) PROVE TPCInv'
  BY <1>3 DEF BeginMerge, TPCInv, TPCTypeOK, ReshardValid, Held, Undisturbed, Reachable,
              PathOrder, EntriesOf, Reshardings
<1>4. CASE TriggerSplit \/ TriggerMerge
  BY <1>4, SplitInv, MergeInv
<1>5. CASE UNCHANGED tpcVars
  BY <1>5 DEF tpcVars, TPCInv, TPCTypeOK, ReshardValid, Held, Undisturbed, Reachable,
              PathOrder, EntriesOf
<1> QED
  BY <1>1, <1>2, <1>3, <1>4, <1>5 DEF TPCNext, Reshard

\* The invariant of two-phase commit under resharding.
THEOREM TwoPhaseInvariant == TPCSpec => []TPCInv
BY InitInv, NextInv, PTL DEF TPCSpec

\* Types are kept by every step.
THEOREM TwoPhaseTypes == TPCSpec => []TPCTypeOK
<1>1. TPCInv => TPCTypeOK
  BY DEF TPCInv
<1> QED
  BY <1>1, TwoPhaseInvariant, PTL

\* A call that has returned, on whichever path through the three phases and their
\* error returns, holds the lock of no shard.
THEOREM NoLockIsLeaked == TPCSpec => []ReturnedHoldsNothing
<1>1. TPCInv => ReturnedHoldsNothing
  BY DEF TPCInv, Held, ReturnedHoldsNothing
<1> QED
  BY <1>1, TwoPhaseInvariant, PTL

-----------------------------------------------------------------------------
(***************************************************************************)
(* Refinement: a step of the code maps to a step of AtomicCommit for every *)
(* transaction whose shards are still in the map.                          *)
(***************************************************************************)

\* The cases of Decision, for a transaction on its path.
LEMMA DecisionCases ==
  ASSUME NEW t \in Tx, TPCTypeOK, PathOrder(t)
  PROVE  /\ Decision(t) = "aborting" <=> phase[t] = "abort" /\ step[t] # "done"
         /\ Decision(t) = "aborted" <=> phase[t] = "abort" /\ step[t] = "done"
         /\ Decision(t) = "committed" <=> phase[t] = "commit" /\ step[t] = "done"
         /\ Decision(t) = "committing" <=>
              phase[t] = "commit" /\ step[t] \in {"put_src", "put_dst", "unlock_dst", "unlock_src"}
         /\ Decision(t) \in {"working", "aborting", "aborted", "committed", "committing"}
BY DEF Decision, PathOrder, TPCTypeOK

\* The cases of Shown.
LEMMA ShownCases ==
  ASSUME NEW t, NEW s
  PROVE  /\ Shown(t, s) = "committed" <=> s \in live /\ lock[s] # t /\ entry[s][t] = "committed"
         /\ Shown(t, s) = "absent" <=> s \notin live \/ (lock[s] # t /\ entry[s][t] = "none")
         /\ Shown(t, s) \in {"committed", "absent", "tentative"}
BY DEF Shown

\* A transaction whose entries and locks stay shows what it showed.
LEMMA StaysFrame ==
  ASSUME NEW t \in Tx, phase'[t] = phase[t], step'[t] = step[t],
         \A s \in Shards : Shown(t, s)' = Shown(t, s)
  PROVE  AC!Stays(t)
<1>1. Decision(t)' = Decision(t)
  BY DEF Decision
<1>2. [s \in Shards |-> Shown(t, s)]' = [s \in Shards |-> Shown(t, s)]
  OBVIOUS
<1> QED
  BY <1>1, <1>2 DEF AC!Stays

\* A step of one call changes nothing that another one shows.
LEMMA OtherStays ==
  ASSUME TPCInv, NEW t \in Tx, CallStep(t), NEW u \in Tx, u # t
  PROVE  AC!Stays(u)
<1>1. /\ phase'[u] = phase[u] /\ step'[u] = step[u]
      /\ \A s \in Shards : entry'[s][u] = entry[s][u]
      /\ \A s \in Shards : lock'[s] = u <=> lock[s] = u
      /\ live' = live
  BY CallFrame, CallType DEF TPCInv
<1>2. \A s \in Shards : Shown(u, s)' = Shown(u, s)
  BY <1>1 DEF Shown
<1> QED
  BY <1>1, <1>2, StaysFrame

\* What a step of t means for what t shows.
LEMMA OwnStep ==
  ASSUME TPCInv, NEW t \in Tx \ excused, CallStep(t)
  PROVE  AC!Decide(t) \/ AC!Commit(t) \/ AC!Abort(t)
<1>1. /\ TPCInv' /\ TPCTypeOK /\ TPCTypeOK' /\ UNCHANGED <<live, made, excused>>
      /\ Undisturbed(t) /\ Undisturbed(t)' /\ Held(t) /\ Held(t)'
  BY CallInv, CallType DEF TPCInv
<1>2. \A s \in Shards : Shown(t, s)' = "committed" => phase'[t] = "commit"
                        /\ step'[t] \in {"put_dst", "unlock_dst", "unlock_src", "done"}
  BY <1>1, ShownCases DEF Shown, Undisturbed, EntriesOf
<1>3. \A s \in Shards : Shown(t, s)' = "committed" <=>
        s \in live /\ lock'[s] # t /\ entry'[s][t] = "committed"
  BY <1>1 DEF Shown
<1>4. \A s \in Shards : Shown(t, s)' = "absent" <=>
        s \notin live \/ (lock'[s] # t /\ entry'[s][t] = "none")
  BY <1>1 DEF Shown
<1>5. /\ Decision(t)' = "aborting" <=> phase'[t] = "abort" /\ step'[t] # "done"
      /\ Decision(t)' = "aborted" <=> phase'[t] = "abort" /\ step'[t] = "done"
      /\ Decision(t)' = "committed" <=> phase'[t] = "commit" /\ step'[t] = "done"
      /\ Decision(t)' = "committing" <=>
           phase'[t] = "commit" /\ step'[t] \in {"put_src", "put_dst", "unlock_dst", "unlock_src"}
      /\ Decision(t)' \in {"working", "aborting", "aborted", "committed", "committing"}
  BY <1>1 DEF Decision, Undisturbed, PathOrder, TPCTypeOK
<1>6. /\ phase[t] \in Phases /\ step[t] \in Steps /\ phase'[t] \in Phases /\ step'[t] \in Steps
      /\ step[t] # "done"
      /\ phase[t] = "abort" => phase'[t] = "abort"
      /\ phase[t] = "prepare" => phase'[t] = "prepare" \/ step'[t] = "find_src"
      /\ phase[t] = "commit" /\ step[t] \in {"put_src", "put_dst", "unlock_dst", "unlock_src"} =>
           /\ phase'[t] = "commit" /\ step'[t] \in {"put_dst", "unlock_dst", "unlock_src", "done"}
      /\ phase[t] = "commit" /\ step[t] \notin {"put_src", "put_dst", "unlock_dst", "unlock_src"} =>
           /\ phase'[t] = "commit" /\ step'[t] \in {"lock_src", "find_dst", "lock_dst", "put_src"}
  BY <1>1 DEF CallStep, FindSource, LockSource, FindDest, LockDest, PutSource, PutDest,
       UnlockDest, UnlockSource, Goto, TPCTypeOK, Phases, Steps, Undisturbed, PathOrder, Reachable
<1>7. CASE Decision(t) = "working"
  <2>1. phase[t] # "abort" /\ ~(phase[t] = "commit" /\ step[t] \in {"put_src", "put_dst", "unlock_dst", "unlock_src", "done"})
    BY <1>1, <1>7, <1>6, DecisionCases DEF Undisturbed, Phases
  <2>2. /\ Decision(t)' \in {"working", "committing", "aborting"}
        /\ ~(phase'[t] = "commit" /\ step'[t] \in {"put_dst", "unlock_dst", "unlock_src", "done"})
    BY <2>1, <1>1, <1>5, <1>6 DEF Phases, Undisturbed, PathOrder
  <2>3. \A s \in Shards : Shown(t, s)' # "committed"
    BY <2>2, <1>2
  <2>4. AC!Decide(t)
    BY <1>7, <2>2, <2>3 DEF AC!Decide, AC!ShowsNothing
  <2> QED
    BY <2>4
<1>8. CASE Decision(t) = "committing"
  <2>1. phase[t] = "commit" /\ step[t] \in {"put_src", "put_dst", "unlock_dst", "unlock_src"}
    BY <1>8, <1>1, DecisionCases DEF Undisturbed
  <2>2. Decision(t)' \in {"committing", "committed"}
    BY <2>1, <1>5, <1>6
  <2>3. ASSUME NEW s \in Shards, Shown(t, s) = "committed" PROVE Shown(t, s)' = "committed"
    <3>1. s \in live /\ lock[s] # t /\ entry[s][t] = "committed"
      BY <2>3, ShownCases
    <3>2. lock'[s] # t
      BY <2>1, <3>1, <1>1, Distinct
         DEF CallStep, FindSource, LockSource, FindDest, LockDest, PutSource, PutDest,
             UnlockDest, UnlockSource, Release, TPCTypeOK
    <3>3. s \in {From[t], To[t]}
      BY <3>1, <1>1 DEF Undisturbed, EntriesOf
    <3>4. entry'[s][t] = "committed"
      <4>1. CASE step[t] = "put_src"
        BY <4>1, <3>1, <1>1 DEF Undisturbed, EntriesOf
      <4>2. CASE step[t] = "put_dst"
        BY <4>2, <3>1, <2>1, <1>1, PutEffect, Distinct
           DEF CallStep, FindSource, LockSource, FindDest, LockDest, PutSource, PutDest,
               UnlockDest, UnlockSource, TPCTypeOK, Entries
      <4>3. CASE step[t] \in {"unlock_dst", "unlock_src"}
        BY <4>3, <3>1, <2>1
           DEF CallStep, FindSource, LockSource, FindDest, LockDest, PutSource, PutDest,
               UnlockDest, UnlockSource
      <4> QED
        BY <4>1, <4>2, <4>3, <2>1
    <3> QED
      BY <3>1, <3>2, <3>4, <1>3
  <2>4. ASSUME Decision(t)' = "committed"
        PROVE  [s \in Shards |-> Shown(t, s)]' = AC!BothCommitted(t)
    <3>1. phase'[t] = "commit" /\ step'[t] = "done"
      BY <2>4, <1>5
    <3>2. \A s \in Shards : lock'[s] # t
      BY <3>1, <1>1 DEF Held
    <3>3. \A s \in Shards : entry'[s][t] = IF s \in {From[t], To[t]} THEN "committed" ELSE "none"
      BY <3>1, <1>1 DEF Undisturbed, EntriesOf
    <3>4. From[t] \in live /\ To[t] \in live
      BY <3>1, <1>1 DEF Undisturbed, Reachable
    <3>5. \A s \in Shards : Shown(t, s)' = IF s \in {From[t], To[t]} THEN "committed" ELSE "absent"
      BY <3>2, <3>3, <3>4, <1>3, <1>4
    <3> QED
      BY <3>5 DEF AC!BothCommitted
  <2>5. AC!Commit(t)
    BY <1>8, <2>2, <2>3, <2>4 DEF AC!Commit
  <2> QED
    BY <2>5
<1>9. CASE Decision(t) = "aborting"
  <2>1. phase[t] = "abort"
    BY <1>9, <1>1, DecisionCases DEF Undisturbed
  <2>2. Decision(t)' \in {"aborting", "aborted"} /\ phase'[t] = "abort"
    BY <2>1, <1>5, <1>6
  <2>3. \A s \in Shards : Shown(t, s)' # "committed"
    BY <2>2, <1>2
  <2>4. ASSUME Decision(t)' = "aborted" PROVE [s \in Shards |-> Shown(t, s)]' = AC!Absent
    <3>1. phase'[t] = "abort" /\ step'[t] = "done"
      BY <2>4, <1>5
    <3>2. \A s \in Shards : lock'[s] # t /\ entry'[s][t] = "none"
      BY <3>1, <1>1 DEF Held, Undisturbed, EntriesOf
    <3>3. \A s \in Shards : Shown(t, s)' = "absent"
      BY <3>2, <1>4
    <3> QED
      BY <3>3 DEF AC!Absent
  <2>5. AC!Abort(t)
    BY <1>9, <2>2, <2>3, <2>4 DEF AC!Abort, AC!ShowsNothing
  <2> QED
    BY <2>5
<1> QED
  BY <1>1, <1>6, <1>7, <1>8, <1>9, DecisionCases DEF Undisturbed

\* Resharding changes nothing for the transactions it does not excuse.
LEMMA ReshardStays ==
  ASSUME TPCInv, Reshard, NEW u \in Tx \ excused'
  PROVE  AC!Stays(u) /\ excused \subseteq excused'
<1>1. CASE (\E n \in Shards : BeginSplit(n)) \/ (\E a, b \in Shards : BeginMerge(a, b))
  <2>1. UNCHANGED <<live, entry, lock, phase, step, excused>>
    BY <1>1 DEF BeginSplit, BeginMerge
  <2>2. \A s \in Shards : Shown(u, s)' = Shown(u, s)
    BY <2>1 DEF Shown
  <2> QED
    BY <2>1, <2>2, StaysFrame
<1>2. CASE TriggerSplit
  <2>1. /\ live' = live \cup {reshard.new} /\ reshard.new \in Shards \ made
        /\ UNCHANGED <<entry, lock, phase, step, excused>>
    BY <1>2 DEF TriggerSplit, TPCInv, ReshardValid
  <2>2. Undisturbed(u) /\ live \subseteq made
    BY <2>1 DEF TPCInv, TPCTypeOK
  <2>3. \A s \in Shards : Shown(u, s)' = Shown(u, s)
    BY <2>1, <2>2 DEF Shown, Undisturbed, EntriesOf
  <2> QED
    BY <2>1, <2>3, StaysFrame
<1>3. CASE TriggerMerge
  <2>1. /\ u \notin excused /\ reshard.b \notin {From[u], To[u]}
        /\ live' = live \ {reshard.b} /\ UNCHANGED <<lock, phase, step>>
        /\ excused \subseteq excused' /\ lock[reshard.b] = Free
    BY <1>3 DEF TriggerMerge
  <2>2. entry[reshard.b][u] = "none" /\ reshard.b \in live
    BY <1>3, <2>1, MergeEffect DEF TPCInv, Undisturbed, EntriesOf
  <2>3. \A s \in Shards : entry'[s][u] = entry[s][u]
    BY <1>3, <2>2, MergeEffect
  <2>4. \A s \in Shards : Shown(u, s)' = Shown(u, s)
    BY <2>1, <2>2, <2>3, Distinct DEF Shown
  <2> QED
    BY <2>1, <2>4, StaysFrame
<1> QED
  BY <1>1, <1>2, <1>3 DEF Reshard

\* The code's two-phase commit implements atomic commitment: whatever interleaving
\* of transactions, splits and merges, a transaction none of whose shards was merged
\* away shows as committed nowhere or, in the end, in both shards, and a call that
\* gave up leaves nothing.
THEOREM ImplementsAtomicCommit == TPCSpec => Atomicity
<1>1. TPCInit => AC!ACInit
  <2> SUFFICES ASSUME TPCInit PROVE AC!ACInit
    OBVIOUS
  <2>1. \A t \in Tx : Decision(t) = "working"
    BY DEF TPCInit, Decision
  <2>2. \A t \in Tx, s \in Shards : Shown(t, s) = "absent"
    BY Distinct DEF TPCInit, Shown
  <2> QED
    BY <2>1, <2>2 DEF TPCInit, AC!ACInit, AC!Absent
<1>2. TPCInv /\ [TPCNext]_tpcVars => [AC!ACNext]_AC!acVars
  <2> SUFFICES ASSUME TPCInv, [TPCNext]_tpcVars PROVE [AC!ACNext]_AC!acVars
    OBVIOUS
  <2>1. ASSUME NEW t \in Tx, CallStep(t) PROVE AC!ACNext
    <3>1. excused' = excused
      BY <2>1, CallType DEF TPCInv
    <3>2. ASSUME NEW u \in Tx \ excused'
          PROVE  AC!Decide(u) \/ AC!Commit(u) \/ AC!Abort(u) \/ AC!Stays(u)
      BY <2>1, <3>1, OwnStep, OtherStays
    <3> QED
      BY <3>1, <3>2 DEF AC!ACNext
  <2>2. CASE Reshard
    <3>1. excused \subseteq excused'
      BY <2>2 DEF Reshard, BeginSplit, BeginMerge, TriggerSplit, TriggerMerge
    <3> QED
      BY <2>2, <3>1, ReshardStays DEF AC!ACNext
  <2>3. CASE UNCHANGED tpcVars
    BY <2>3 DEF tpcVars, AC!acVars, Decision, Shown
  <2> QED
    BY <2>1, <2>2, <2>3 DEF TPCNext
<1> QED
  BY <1>1, <1>2, TwoPhaseInvariant, PTL DEF TPCSpec, Atomicity, AC!ACSpec
=============================================================================
