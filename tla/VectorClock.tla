---------------------------- MODULE VectorClock ----------------------------
(***************************************************************************)
(* The two vector clock types: VectorClock (types.go) and NodeVectorClock  *)
(* (vector_clock.go).  A clock is a Go map, here a function whose domain   *)
(* is the set of its keys; a key that is absent is not the same as a key   *)
(* with value 0.  A nil map compares like the empty clock.                 *)
(***************************************************************************)
EXTENDS Integers, FiniteSets

\* The clocks with keys in Ids.
Clocks(Ids) == UNION {[D -> Nat] : D \in SUBSET Ids}

NewVectorClock == [k \in {} |-> 0]

\* Go reads an absent key as 0.
At(vc, k) == IF k \in DOMAIN vc THEN vc[k] ELSE 0

Increment(vc, id) == [k \in DOMAIN vc \cup {id} |-> IF k = id THEN At(vc, k) + 1 ELSE vc[k]]

Merge(vc, other) ==
  [k \in DOMAIN vc \cup DOMAIN other |->
     IF k \in DOMAIN other /\ (k \notin DOMAIN vc \/ other[k] > vc[k]) THEN other[k] ELSE vc[k]]

LessEq(vc, other) == \A k \in DOMAIN vc : k \in DOMAIN other /\ vc[k] <= other[k]

\* Mutant of Compare: an absent key is not looked at.
CompareSharedKeys(vc, other) ==
  LET below == \A k \in DOMAIN vc \cap DOMAIN other : vc[k] <= other[k]
      above == \A k \in DOMAIN vc \cap DOMAIN other : other[k] <= vc[k]
  IN CASE below /\ above -> 0 [] below /\ ~above -> -1 [] above /\ ~below -> 1 [] OTHER -> 2

\* VectorClock.Compare; the tests for strictness do not change the answer.
Compare(vc, other) ==
  LET below == LessEq(vc, other)
      above == LessEq(other, vc)
  IN CASE below /\ above -> 0
       [] below /\ ~above -> -1
       [] above /\ ~below -> 1
       [] ~below /\ ~above -> 2

\* NodeVectorClock.Compare, one pass over the keys of both.
NodeCompare(vc, other) ==
  LET ids == DOMAIN vc \cup DOMAIN other
      In(id, c) == id \in DOMAIN c
      vcLessEqOther ==
        \A id \in ids : ~(In(id, vc) /\ (~In(id, other) \/ vc[id] > other[id]))
      otherLessEqVc ==
        \A id \in ids : ~(In(id, other) /\ (~In(id, vc) \/ other[id] > vc[id]))
      vcStrictlyLess ==
        \E id \in ids : In(id, other) /\ (In(id, vc) => vc[id] < other[id])
      otherStrictlyLess ==
        \E id \in ids : In(id, vc) /\ (In(id, other) => other[id] < vc[id])
  IN IF ~vcLessEqOther /\ ~otherLessEqVc THEN "Concurrent"
     ELSE IF vcLessEqOther /\ otherLessEqVc THEN "Equal"
     ELSE IF vcLessEqOther /\ vcStrictlyLess THEN "Before"
     ELSE IF otherLessEqVc /\ otherStrictlyLess THEN "After"
     ELSE IF vcLessEqOther THEN "Before" ELSE "After"

\* VectorClock.Serialize sorts the keys and then encodes the map itself, whose
\* entries gob writes in the order the map yields them.  The bytes are the same
\* every time only if there is no order to choose.
SerializesOneWay(vc) == Cardinality(DOMAIN vc) <= 1
=============================================================================
