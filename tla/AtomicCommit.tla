---------------------------- MODULE AtomicCommit ----------------------------
(***************************************************************************)
(* What TwoPhaseCommit promises to someone who looks at a shard under its  *)
(* lock: a transaction shows as committed in a shard only after it was     *)
(* decided so, the decision stands, and a call that has returned has       *)
(* committed in both shards or left nothing in either.                     *)
(*                                                                         *)
(* A transaction is excused when resharding has taken one of its shards    *)
(* away: nothing is promised about it any more.                            *)
(***************************************************************************)
EXTENDS Naturals

CONSTANTS Tx, Shards, From, To

VARIABLES
  decision,  \* decision[t]: "working", "committing", "aborting", then "committed", "aborted"
  view,      \* view[t][s]: what shard s shows of t
  excused    \* transactions resharding got in the way of

acVars == <<decision, view, excused>>

Absent == [s \in Shards |-> "absent"]
BothCommitted(t) == [s \in Shards |-> IF s \in {From[t], To[t]} THEN "committed" ELSE "absent"]

ShowsNothing(w) == \A s \in Shards : w[s] # "committed"

ACInit ==
  /\ decision = [t \in Tx |-> "working"]
  /\ view = [t \in Tx |-> Absent]
  /\ excused = {}

Decide(t) ==
  /\ decision[t] = "working" /\ decision'[t] \in {"working", "committing", "aborting"}
  /\ ShowsNothing(view'[t])

Commit(t) ==
  /\ decision[t] = "committing" /\ decision'[t] \in {"committing", "committed"}
  /\ \A s \in Shards : view[t][s] = "committed" => view'[t][s] = "committed"
  /\ decision'[t] = "committed" => view'[t] = BothCommitted(t)

Abort(t) ==
  /\ decision[t] = "aborting" /\ decision'[t] \in {"aborting", "aborted"}
  /\ ShowsNothing(view'[t])
  /\ decision'[t] = "aborted" => view'[t] = Absent

Stays(t) == decision'[t] = decision[t] /\ view'[t] = view[t]

\* One step may touch many transactions, each in its own right.
ACNext ==
  /\ excused \subseteq excused'
  /\ \A t \in Tx \ excused' : Decide(t) \/ Commit(t) \/ Abort(t) \/ Stays(t)

ACSpec == ACInit /\ [][ACNext]_acVars
=============================================================================
