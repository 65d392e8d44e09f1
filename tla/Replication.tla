---------------------------- MODULE Replication ----------------------------
(***************************************************************************)
(* Replicas of one key that exchange versions of its value and resolve     *)
(* conflicts with ConflictResolver.HandlePotentialConflict.                *)
(*                                                                         *)
(* The resolver is the code's; who calls it is not fixed there ("a         *)
(* placeholder showing where detection and resolution might be called").   *)
(* Here replicas call it with the version they hold and one they hear of:  *)
(* every version a replica ever held may arrive anywhere, late, again, or  *)
(* never.                                                                  *)
(*                                                                         *)
(* SHA-256 is a function nothing is known of: hash collects the inputs it  *)
(* was asked for and the answers, modulo two.  The context of a resolution *)
(* is the same for everyone.                                               *)
(***************************************************************************)
EXTENDS VectorClock

CONSTANTS
  Replicas,   \* their numbers are clock keys and order them as source nodes
  MaxWrites,    \* bound: writes of a replica
  MaxDeliveries \* bound: versions received, by all replicas

ASSUME ReplicationAssumption == Replicas \subseteq Nat /\ MaxWrites \in Nat /\ MaxDeliveries \in Nat

VARIABLES
  store,     \* store[r]: the version replica r holds, or None
  written,   \* written[r]: writes of r so far
  versions,  \* versions ever held
  hash,      \* answers of the hash function: a set of [input, index]
  delivered  \* versions received so far

repVars == <<store, written, versions, hash, delivered>>

Writes == Replicas \X (Nat \ {0})

\* A StateVersion.  write stands for Value and SourceNode; seen, the writes that
\* went into the version, is not in the code.
Versions == [write : Writes, clock : Clocks(Replicas), seen : SUBSET Writes]
\* No value yet.
None == [write |-> <<0, 0>>, clock |-> NewVectorClock, seen |-> {}]
Source(v) == v.write[1]

ReplicationInit ==
  /\ store = [r \in Replicas |-> None]
  /\ written = [r \in Replicas |-> 0]
  /\ versions = {} /\ hash = {} /\ delivered = 0

-----------------------------------------------------------------------------
\* Mutant of Conflicting: the versions are not sorted.
ConflictingUnsorted(local, remote) == <<local, remote>>

\* sort.Slice by source node; two versions from one node stay as they are.
Conflicting(local, remote) ==
  IF Source(remote) < Source(local) THEN <<remote, local>> ELSE <<local, remote>>

\* The answers of SHA-256, modulo two: the one given before, or any.  With a clock
\* that serializes in several ways the input is another one every time.
VrfInput(pair) == [i \in 1 .. 2 |-> [write |-> pair[i].write, clock |-> pair[i].clock]]
Repeatable(pair) == \A i \in 1 .. 2 : SerializesOneWay(pair[i].clock)
Answers(pair) ==
  IF Repeatable(pair) /\ \E h \in hash : h.input = VrfInput(pair)
  THEN {h \in hash : h.input = VrfInput(pair)}
  ELSE [input : {VrfInput(pair)}, index : {1, 2}]

\* ResolveConflictVRF, then the merged clock.
Resolve(r, local, remote) ==
  LET pair == Conflicting(local, remote) IN
  \E answer \in Answers(pair) :
    /\ hash' = IF Repeatable(pair) THEN hash \cup {answer} ELSE hash
    /\ store' = [store EXCEPT ![r] =
         [write |-> pair[answer.index].write,
          clock |-> Merge(local.clock, remote.clock),
          seen |-> local.seen \cup remote.seen]]

\* Mutant of HandlePotentialConflict: the version kept does not take over the
\* other one's clock.
HandleWithoutMerge(r, local, remote) ==
  \/ /\ Compare(local.clock, remote.clock) = -1
     /\ store' = [store EXCEPT ![r] = remote] /\ UNCHANGED hash
  \/ /\ Compare(local.clock, remote.clock) = 1
     /\ UNCHANGED <<store, hash>>
  \/ /\ Compare(local.clock, remote.clock) \in {0, 2}
     /\ \E v \in {local, remote} : store' = [store EXCEPT ![r] = v]
     /\ UNCHANGED hash

\* DetectCausalConflict and Compare: the later version wins, equal and concurrent
\* clocks go to the VRF.  All merge the clocks.  Versions of different keys, which
\* the code ignores, do not occur.
HandlePotentialConflict(r, local, remote) ==
  \/ /\ Compare(local.clock, remote.clock) = -1
     /\ store' = [store EXCEPT ![r] =
          [remote EXCEPT !.clock = Merge(remote.clock, local.clock),
                         !.seen = remote.seen \cup local.seen]]
     /\ UNCHANGED hash
  \/ /\ Compare(local.clock, remote.clock) = 1
     /\ store' = [store EXCEPT ![r] =
          [local EXCEPT !.clock = Merge(local.clock, remote.clock),
                        !.seen = local.seen \cup remote.seen]]
     /\ UNCHANGED hash
  \/ /\ Compare(local.clock, remote.clock) \in {0, 2}
     /\ Resolve(r, local, remote)

-----------------------------------------------------------------------------
Keep(v) == versions' = versions \cup {v}

\* A replica writes: it increments its own entry of the clock.
Write(r) ==
  LET w == <<r, written[r] + 1>> IN
  /\ written[r] < MaxWrites
  /\ written' = [written EXCEPT ![r] = @ + 1]
  /\ store' = [store EXCEPT ![r] =
       [write |-> w, clock |-> Increment(store[r].clock, r), seen |-> store[r].seen \cup {w}]]
  /\ Keep(store'[r])
  /\ UNCHANGED <<hash, delivered>>

\* A replica that holds nothing takes what comes, as ApplyStateChanges does.
Receive(r, v) ==
  /\ delivered < MaxDeliveries /\ delivered' = delivered + 1
  /\ IF store[r] = None
     THEN store' = [store EXCEPT ![r] = v] /\ UNCHANGED hash
     ELSE HandlePotentialConflict(r, store[r], v)
  /\ Keep(store'[r])
  /\ UNCHANGED written

ReplicationNext ==
  \E r \in Replicas : Write(r) \/ \E v \in versions : Receive(r, v)

ReplicationSpec == ReplicationInit /\ [][ReplicationNext]_repVars

-----------------------------------------------------------------------------
(***************************************************************************)
(* Properties.                                                             *)
(***************************************************************************)
ReplicationTypeOK ==
  /\ store \in [Replicas -> Versions \cup {None}]
  /\ written \in [Replicas -> Nat] /\ delivered \in Nat
  /\ versions \subseteq Versions

\* Clocks tell the histories of versions apart: Compare says "before" exactly when
\* one version has seen a strict part of what the other has, "equal" when they have
\* seen the same, "concurrent" when each has seen something the other has not; and
\* NodeVectorClock.Compare says the same.
ClocksMirrorHistory ==
  \A v, w \in versions :
    LET c == Compare(v.clock, w.clock)
        n == NodeCompare(v.clock, w.clock)
        below == v.seen \subseteq w.seen
        above == w.seen \subseteq v.seen
    IN /\ (c = -1 /\ n = "Before") <=> (below /\ ~above)
       /\ (c = 0 /\ n = "Equal") <=> (below /\ above)
       /\ (c = 1 /\ n = "After") <=> (~below /\ above)
       /\ (c = 2 /\ n = "Concurrent") <=> (~below /\ ~above)

\* No write a replica has seen is forgotten, whatever arrives in whatever order,
\* and its clock only grows.
HistoryGrows ==
  [][\A r \in Replicas : store[r] # None =>
       /\ store'[r] # None
       /\ store[r].seen \subseteq store'[r].seen
       /\ Compare(store[r].clock, store'[r].clock) \in {-1, 0}]_repVars

\* Replicas that have resolved the same two first writes, each with its own one as
\* the local version, hold the same value.
FirstConflictAgrees ==
  \A v, w \in versions :
    (v.seen = w.seen /\ Cardinality(v.seen) = 2 /\ \A x \in v.seen : x[2] = 1)
      => v.write = w.write
=============================================================================
