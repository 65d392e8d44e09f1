-------------------------- MODULE ReplicationProofs --------------------------
(***************************************************************************)
(* Vector clocks as the code maintains and compares them characterise      *)
(* causal history, for any number of replicas, writes and deliveries, and  *)
(* replicas that resolved the same first conflict agree.                   *)
(***************************************************************************)
EXTENDS Replication, FiniteSetTheorems, TLAPS

-----------------------------------------------------------------------------
(***************************************************************************)
(* Clocks.                                                                 *)
(***************************************************************************)
LEMMA ClockDomain ==
  ASSUME NEW Ids, NEW c \in Clocks(Ids)
  PROVE  /\ DOMAIN c \subseteq Ids /\ c \in [DOMAIN c -> Nat]
         /\ \A k : At(c, k) \in Nat
BY DEF Clocks, At

\* A map from some of the ids to numbers is a clock.
LEMMA ClockIs ==
  ASSUME NEW Ids, NEW D \in SUBSET Ids, NEW c \in [D -> Nat]
  PROVE  c \in Clocks(Ids)
BY DEF Clocks

\* The new clock reads 0 everywhere.
LEMMA EmptyClock ==
  ASSUME NEW Ids
  PROVE  NewVectorClock \in Clocks(Ids) /\ DOMAIN NewVectorClock = {} /\ \A k : At(NewVectorClock, k) = 0
BY DEF Clocks, NewVectorClock, At

\* Increment adds one to the own entry and nothing else.
LEMMA IncrementEffect ==
  \A c \in Clocks(Replicas), id \in Replicas :
    /\ Increment(c, id) \in Clocks(Replicas)
    /\ DOMAIN Increment(c, id) = DOMAIN c \cup {id}
    /\ At(Increment(c, id), id) = At(c, id) + 1
    /\ \A k \in Replicas : k # id => At(Increment(c, id), k) = At(c, k)
<1> SUFFICES ASSUME NEW c \in Clocks(Replicas), NEW id \in Replicas
             PROVE  /\ Increment(c, id) \in Clocks(Replicas)
                    /\ DOMAIN Increment(c, id) = DOMAIN c \cup {id}
                    /\ At(Increment(c, id), id) = At(c, id) + 1
                    /\ \A k \in Replicas : k # id => At(Increment(c, id), k) = At(c, k)
  OBVIOUS
<1>1. DOMAIN c \subseteq Replicas /\ c \in [DOMAIN c -> Nat] /\ At(c, id) \in Nat
  BY ClockDomain
<1>2. Increment(c, id) \in [DOMAIN c \cup {id} -> Nat]
  BY <1>1 DEF Increment
<1>3. Increment(c, id) \in Clocks(Replicas)
  BY <1>1, <1>2, ClockIs
<1> QED
  BY <1>2, <1>3 DEF Increment, At

\* Merge takes the larger entry.
LEMMA MergeEffect ==
  \A c, d \in Clocks(Replicas) :
    /\ Merge(c, d) \in Clocks(Replicas)
    /\ DOMAIN Merge(c, d) = DOMAIN c \cup DOMAIN d
    /\ \A k \in Replicas : At(Merge(c, d), k) = IF At(d, k) > At(c, k) THEN At(d, k) ELSE At(c, k)
<1> SUFFICES ASSUME NEW c \in Clocks(Replicas), NEW d \in Clocks(Replicas)
             PROVE  /\ Merge(c, d) \in Clocks(Replicas)
                    /\ DOMAIN Merge(c, d) = DOMAIN c \cup DOMAIN d
                    /\ \A k \in Replicas :
                         At(Merge(c, d), k) = IF At(d, k) > At(c, k) THEN At(d, k) ELSE At(c, k)
  OBVIOUS
<1>1. /\ DOMAIN c \subseteq Replicas /\ c \in [DOMAIN c -> Nat]
      /\ DOMAIN d \subseteq Replicas /\ d \in [DOMAIN d -> Nat]
  BY ClockDomain
<1>2. Merge(c, d) \in [DOMAIN c \cup DOMAIN d -> Nat]
  BY <1>1 DEF Merge
<1>3. Merge(c, d) \in Clocks(Replicas)
  BY <1>1, <1>2, ClockIs
<1>4. ASSUME NEW k \in Replicas
      PROVE  At(Merge(c, d), k) = IF At(d, k) > At(c, k) THEN At(d, k) ELSE At(c, k)
  <2>1. CASE k \in DOMAIN c /\ k \in DOMAIN d
    BY <1>1, <2>1 DEF Merge, At
  <2>2. CASE k \in DOMAIN c /\ k \notin DOMAIN d
    BY <1>1, <2>2 DEF Merge, At
  <2>3. CASE k \notin DOMAIN c /\ k \in DOMAIN d
    BY <1>1, <2>3 DEF Merge, At
  <2>4. CASE k \notin DOMAIN c /\ k \notin DOMAIN d
    BY <1>1, <2>4 DEF Merge, At
  <2> QED
    BY <2>1, <2>2, <2>3, <2>4
<1> QED
  BY <1>2, <1>3, <1>4

\* Compare has four answers, one for each combination of the two tests.
LEMMA CompareCases ==
  ASSUME NEW c, NEW d
  PROVE  /\ Compare(c, d) = 0 <=> LessEq(c, d) /\ LessEq(d, c)
         /\ Compare(c, d) = -1 <=> LessEq(c, d) /\ ~LessEq(d, c)
         /\ Compare(c, d) = 1 <=> ~LessEq(c, d) /\ LessEq(d, c)
         /\ Compare(c, d) = 2 <=> ~LessEq(c, d) /\ ~LessEq(d, c)
         /\ Compare(c, d) \in {0, -1, 1, 2}
<1> DEFINE below == LessEq(c, d)
           above == LessEq(d, c)
<1>1. below \in BOOLEAN /\ above \in BOOLEAN
  BY DEF LessEq
<1>2. Compare(c, d) = CASE below /\ above -> 0
                       [] below /\ ~above -> -1
                       [] above /\ ~below -> 1
                       [] ~below /\ ~above -> 2
  BY DEF Compare
<1> HIDE DEF below, above
<1>3. /\ Compare(c, d) = 0 <=> below /\ above
      /\ Compare(c, d) = -1 <=> below /\ ~above
      /\ Compare(c, d) = 1 <=> ~below /\ above
      /\ Compare(c, d) = 2 <=> ~below /\ ~above
      /\ Compare(c, d) \in {0, -1, 1, 2}
  BY <1>1, <1>2
<1> QED
  BY <1>3 DEF below, above

\* The one-pass comparison of NodeVectorClock gives the same answers.
LEMMA NodeCompareAgrees ==
  ASSUME NEW Ids, NEW c \in Clocks(Ids), NEW d \in Clocks(Ids)
  PROVE  /\ NodeCompare(c, d) = "Equal" <=> Compare(c, d) = 0
         /\ NodeCompare(c, d) = "Before" <=> Compare(c, d) = -1
         /\ NodeCompare(c, d) = "After" <=> Compare(c, d) = 1
         /\ NodeCompare(c, d) = "Concurrent" <=> Compare(c, d) = 2
<1> DEFINE ids == DOMAIN c \cup DOMAIN d
           le == \A id \in ids : ~(id \in DOMAIN c /\ (~(id \in DOMAIN d) \/ c[id] > d[id]))
           ge == \A id \in ids : ~(id \in DOMAIN d /\ (~(id \in DOMAIN c) \/ d[id] > c[id]))
           lt == \E id \in ids : id \in DOMAIN d /\ (id \in DOMAIN c => c[id] < d[id])
           gt == \E id \in ids : id \in DOMAIN c /\ (id \in DOMAIN d => d[id] < c[id])
<1>1. c \in [DOMAIN c -> Nat] /\ d \in [DOMAIN d -> Nat]
  BY ClockDomain
<1>2. le <=> LessEq(c, d)
  BY <1>1 DEF LessEq
<1>3. ge <=> LessEq(d, c)
  BY <1>1 DEF LessEq
<1>4. NodeCompare(c, d) =
        IF ~le /\ ~ge THEN "Concurrent"
        ELSE IF le /\ ge THEN "Equal"
        ELSE IF le /\ lt THEN "Before"
        ELSE IF ge /\ gt THEN "After"
        ELSE IF le THEN "Before" ELSE "After"
  BY DEF NodeCompare
<1> HIDE DEF le, ge, lt, gt
<1>5. /\ NodeCompare(c, d) = "Equal" <=> le /\ ge
      /\ NodeCompare(c, d) = "Before" <=> le /\ ~ge
      /\ NodeCompare(c, d) = "After" <=> ~le /\ ge
      /\ NodeCompare(c, d) = "Concurrent" <=> ~le /\ ~ge
  BY <1>4
<1> QED
  BY <1>2, <1>3, <1>5, CompareCases

-----------------------------------------------------------------------------
(***************************************************************************)
(* Versions.                                                               *)
(***************************************************************************)

\* The clock of v counts what v has seen: of every replica a prefix of its writes.
Mirrors(v) ==
  \A i \in Replicas, k \in Nat \ {0} : <<i, k>> \in v.seen <=> k <= At(v.clock, i)

Counted(v) ==
  /\ v.clock \in Clocks(Replicas) /\ v.seen \subseteq Writes
  /\ \A i \in DOMAIN v.clock : v.clock[i] # 0
  /\ Mirrors(v)

\* The value before any write counts the empty history.
LEMMA NoneCounted == Counted(None) /\ None \notin Versions
<1>1. Counted(None)
  BY EmptyClock DEF Counted, Mirrors, None
<1>2. <<0, 0>> \notin Writes
  BY DEF Writes
<1> QED
  BY <1>1, <1>2 DEF Versions, None

\* One clock is below another exactly when its history is part of the other.
LEMMA ClockOrderIsHistory ==
  ASSUME NEW v, NEW w, Counted(v), Counted(w)
  PROVE  LessEq(v.clock, w.clock) <=> v.seen \subseteq w.seen
<1>1. /\ DOMAIN v.clock \subseteq Replicas /\ v.clock \in [DOMAIN v.clock -> Nat]
      /\ DOMAIN w.clock \subseteq Replicas /\ w.clock \in [DOMAIN w.clock -> Nat]
      /\ \A k : At(v.clock, k) \in Nat /\ At(w.clock, k) \in Nat
  BY ClockDomain DEF Counted
<1>2. ASSUME LessEq(v.clock, w.clock), NEW x \in v.seen PROVE x \in w.seen
  <2>1. PICK i \in Replicas, k \in Nat \ {0} : x = <<i, k>>
    BY DEF Counted, Writes
  <2>2. k <= At(v.clock, i)
    BY <2>1 DEF Counted, Mirrors
  <2>3. At(v.clock, i) <= At(w.clock, i)
    BY <1>1, <1>2, <2>2 DEF LessEq, At
  <2>4. k <= At(w.clock, i)
    BY <1>1, <2>2, <2>3
  <2> QED
    BY <2>1, <2>4 DEF Counted, Mirrors
<1>3. ASSUME v.seen \subseteq w.seen PROVE LessEq(v.clock, w.clock)
  <2> SUFFICES ASSUME NEW i \in DOMAIN v.clock
               PROVE  i \in DOMAIN w.clock /\ v.clock[i] <= w.clock[i]
    BY DEF LessEq
  <2>1. i \in Replicas /\ v.clock[i] \in Nat \ {0} /\ At(v.clock, i) = v.clock[i]
    BY <1>1 DEF Counted, At
  <2>2. <<i, v.clock[i]>> \in v.seen
    BY <2>1 DEF Counted, Mirrors
  <2>3. v.clock[i] <= At(w.clock, i)
    BY <1>3, <2>1, <2>2 DEF Counted, Mirrors
  <2> QED
    BY <1>1, <2>1, <2>3 DEF At
<1> QED
  BY <1>2, <1>3

\* Merging clocks and histories keeps them in step.
LEMMA MergeCounted ==
  ASSUME NEW v, NEW w, NEW u, Counted(v), Counted(w),
         u.clock = Merge(v.clock, w.clock), u.seen = v.seen \cup w.seen
  PROVE  Counted(u)
<1>1. /\ \A k : At(v.clock, k) \in Nat /\ At(w.clock, k) \in Nat
      /\ v.clock \in [DOMAIN v.clock -> Nat] /\ w.clock \in [DOMAIN w.clock -> Nat]
  BY ClockDomain DEF Counted
<1>2. /\ u.clock \in Clocks(Replicas) /\ DOMAIN u.clock = DOMAIN v.clock \cup DOMAIN w.clock
      /\ \A k \in Replicas : At(u.clock, k) = IF At(w.clock, k) > At(v.clock, k) THEN At(w.clock, k) ELSE At(v.clock, k)
  <2>1. v.clock \in Clocks(Replicas) /\ w.clock \in Clocks(Replicas)
    BY DEF Counted
  <2>2. /\ Merge(v.clock, w.clock) \in Clocks(Replicas)
        /\ DOMAIN Merge(v.clock, w.clock) = DOMAIN v.clock \cup DOMAIN w.clock
        /\ \A k \in Replicas : At(Merge(v.clock, w.clock), k) =
             IF At(w.clock, k) > At(v.clock, k) THEN At(w.clock, k) ELSE At(v.clock, k)
    BY <2>1, MergeEffect
  <2> QED
    BY <2>2
<1>3. ASSUME NEW i \in DOMAIN u.clock PROVE u.clock[i] # 0
  <2>1. i \in Replicas /\ At(u.clock, i) = u.clock[i]
    BY <1>2, ClockDomain DEF At
  <2>2. At(u.clock, i) # 0
    BY <1>1, <1>2, <2>1 DEF Counted, At
  <2> QED
    BY <2>1, <2>2
<1>4. ASSUME NEW i \in Replicas, NEW k \in Nat \ {0}
      PROVE  <<i, k>> \in u.seen <=> k <= At(u.clock, i)
  <2>1. /\ <<i, k>> \in v.seen <=> k <= At(v.clock, i)
        /\ <<i, k>> \in w.seen <=> k <= At(w.clock, i)
    BY DEF Counted, Mirrors
  <2>2. k <= At(u.clock, i) <=> k <= At(v.clock, i) \/ k <= At(w.clock, i)
    BY <1>1, <1>2
  <2>3. <<i, k>> \in u.seen <=> <<i, k>> \in v.seen \/ <<i, k>> \in w.seen
    OBVIOUS
  <2> QED
    BY <2>1, <2>2, <2>3
<1>5. u.seen \subseteq Writes
  BY DEF Counted
<1> QED
  BY <1>2, <1>3, <1>4, <1>5 DEF Counted, Mirrors

\* A write the clock does not count yet, counted.
LEMMA WriteCounted ==
  ASSUME NEW v, NEW u, NEW r \in Replicas, Counted(v),
         u.clock = Increment(v.clock, r),
         u.seen = v.seen \cup {<<r, At(v.clock, r) + 1>>}
  PROVE  Counted(u)
<1>1. /\ \A k : At(v.clock, k) \in Nat
      /\ v.clock \in [DOMAIN v.clock -> Nat]
  BY ClockDomain DEF Counted
<1>2. /\ u.clock \in Clocks(Replicas) /\ DOMAIN u.clock = DOMAIN v.clock \cup {r}
      /\ \A k \in Replicas : At(u.clock, k) = IF k = r THEN At(v.clock, r) + 1 ELSE At(v.clock, k)
  <2>1. v.clock \in Clocks(Replicas) /\ r \in Replicas
    BY DEF Counted
  <2> QED
    BY <2>1, IncrementEffect
<1>3. ASSUME NEW i \in DOMAIN u.clock PROVE u.clock[i] # 0
  <2>1. i \in Replicas /\ At(u.clock, i) = u.clock[i]
    BY <1>2, ClockDomain DEF At
  <2>2. At(u.clock, i) # 0
    BY <1>1, <1>2, <2>1 DEF Counted, At
  <2> QED
    BY <2>1, <2>2
<1>4. ASSUME NEW i \in Replicas, NEW k \in Nat \ {0}
      PROVE  <<i, k>> \in u.seen <=> k <= At(u.clock, i)
  <2>1. <<i, k>> \in v.seen <=> k <= At(v.clock, i)
    BY DEF Counted, Mirrors
  <2>2. k <= At(u.clock, i) <=> k <= At(v.clock, i) \/ (i = r /\ k = At(v.clock, r) + 1)
    BY <1>1, <1>2
  <2>3. <<i, k>> \in u.seen <=> <<i, k>> \in v.seen \/ (i = r /\ k = At(v.clock, r) + 1)
    OBVIOUS
  <2> QED
    BY <2>1, <2>2, <2>3
<1>5. u.seen \subseteq Writes
  BY <1>1 DEF Counted, Writes
<1> QED
  BY <1>2, <1>3, <1>4, <1>5 DEF Counted, Mirrors

-----------------------------------------------------------------------------
(***************************************************************************)
(* The inductive invariant.                                                *)
(***************************************************************************)

\* A replica counts all of its own writes, and nobody counts more than there are.
OwnWrites ==
  /\ \A r \in Replicas : At(store[r].clock, r) = written[r]
  /\ \A v \in versions, r \in Replicas : At(v.clock, r) <= written[r]

ReplicasInv ==
  /\ ReplicationTypeOK
  /\ \A v \in versions : Counted(v)
  /\ \A r \in Replicas : store[r] = None \/ store[r] \in versions
  /\ \A h \in hash : h.index \in {1, 2}
  /\ OwnWrites

\* Its clock reads 0 everywhere.
LEMMA NoneIsEmpty == \A k : At(None.clock, k) = 0
<1>1. None.clock = NewVectorClock
  BY DEF None
<1> QED
  BY <1>1, EmptyClock

\* The empty replicas satisfy the invariant.
LEMMA ReplicasInit == ReplicationInit => ReplicasInv
<1> SUFFICES ASSUME ReplicationInit PROVE ReplicasInv
  OBVIOUS
<1>1. ReplicationTypeOK
  BY DEF ReplicationInit, ReplicationTypeOK
<1>2. OwnWrites
  BY NoneIsEmpty DEF ReplicationInit, OwnWrites
<1> QED
  BY <1>1, <1>2 DEF ReplicationInit, ReplicasInv

\* What a replica stores counts its history, none of it unwritten.
LEMMA StoreCounted ==
  ASSUME ReplicasInv, NEW r \in Replicas
  PROVE  Counted(store[r]) /\ \A i \in Replicas : At(store[r].clock, i) <= written[i]
<1>1. CASE store[r] = None
  BY <1>1, NoneCounted, NoneIsEmpty DEF ReplicasInv, ReplicationTypeOK
<1>2. CASE store[r] \in versions
  BY <1>2 DEF ReplicasInv, OwnWrites
<1> QED
  BY <1>1, <1>2 DEF ReplicasInv

\* What a delivery to a replica that holds something leaves there.
LEMMA HandleEffect ==
  ASSUME ReplicasInv, NEW r \in Replicas, NEW local \in Versions, NEW remote \in Versions,
         HandlePotentialConflict(r, local, remote)
  PROVE  /\ \A h \in hash' : h.index \in {1, 2}
         /\ \E u \in [write : Writes, clock : {Merge(local.clock, remote.clock), Merge(remote.clock, local.clock)},
                       seen : {local.seen \cup remote.seen}] :
              store' = [store EXCEPT ![r] = u]
<1> DEFINE U == [write : Writes, clock : {Merge(local.clock, remote.clock), Merge(remote.clock, local.clock)},
                 seen : {local.seen \cup remote.seen}]
<1>1. CASE Compare(local.clock, remote.clock) = -1
  <2> DEFINE u == [remote EXCEPT !.clock = Merge(remote.clock, local.clock),
                                 !.seen = remote.seen \cup local.seen]
  <2>1. u \in U
    BY DEF Versions
  <2>2. store' = [store EXCEPT ![r] = u] /\ UNCHANGED hash
    BY <1>1 DEF HandlePotentialConflict
  <2> QED
    BY <2>1, <2>2 DEF ReplicasInv
<1>2. CASE Compare(local.clock, remote.clock) = 1
  <2> DEFINE u == [local EXCEPT !.clock = Merge(local.clock, remote.clock),
                                !.seen = local.seen \cup remote.seen]
  <2>1. u \in U
    BY DEF Versions
  <2>2. store' = [store EXCEPT ![r] = u] /\ UNCHANGED hash
    BY <1>2 DEF HandlePotentialConflict
  <2> QED
    BY <2>1, <2>2 DEF ReplicasInv
<1>3. CASE Resolve(r, local, remote)
  <2> DEFINE pair == Conflicting(local, remote)
  <2>1. PICK answer \in Answers(pair) :
          /\ hash' = IF Repeatable(pair) THEN hash \cup {answer} ELSE hash
          /\ store' = [store EXCEPT ![r] =
               [write |-> pair[answer.index].write,
                clock |-> Merge(local.clock, remote.clock),
                seen |-> local.seen \cup remote.seen]]
    BY <1>3 DEF Resolve
  <2>2. answer.index \in {1, 2}
    BY DEF Answers, ReplicasInv
  <2>3. pair[answer.index].write \in Writes
    BY <2>2 DEF Conflicting, Versions
  <2>4. \A h \in hash' : h.index \in {1, 2}
    BY <2>1, <2>2 DEF ReplicasInv
  <2> HIDE DEF pair
  <2> QED
    BY <2>1, <2>3, <2>4
<1> QED
  BY <1>1, <1>2, <1>3 DEF HandlePotentialConflict

\* What a step of a replica does: it stores one counted version, which includes the
\* one before, and keeps it.
LEMMA StepEffect ==
  ASSUME ReplicasInv, NEW r \in Replicas, Write(r) \/ \E v \in versions : Receive(r, v)
  PROVE  /\ \E u \in Versions : /\ Counted(u) /\ store' = [store EXCEPT ![r] = u]
                              /\ store[r].seen \subseteq u.seen
                              /\ At(u.clock, r) = written'[r]
                              /\ \A i \in Replicas : At(u.clock, i) <= written'[i]
                              /\ versions' = versions \cup {u}
         /\ written' \in [Replicas -> Nat] /\ \A i \in Replicas : written[i] <= written'[i]
         /\ \A i \in Replicas \ {r} : written'[i] = written[i]
         /\ \A h \in hash' : h.index \in {1, 2}
         /\ delivered' \in Nat
<1>0. /\ store \in [Replicas -> Versions \cup {None}] /\ written \in [Replicas -> Nat] /\ delivered \in Nat
      /\ versions \subseteq Versions /\ written[r] \in Nat
      /\ \A h \in hash : h.index \in {1, 2}
  BY DEF ReplicasInv, ReplicationTypeOK
<1>1. CASE Write(r)
  <2> DEFINE w == <<r, written[r] + 1>>
             u == [write |-> w, clock |-> Increment(store[r].clock, r), seen |-> store[r].seen \cup {w}]
  <2>1. /\ store' = [store EXCEPT ![r] = u] /\ written' = [written EXCEPT ![r] = @ + 1]
        /\ versions' = versions \cup {store'[r]} /\ UNCHANGED <<hash, delivered>>
    BY <1>1 DEF Write, Keep
  <2>2. At(store[r].clock, r) = written[r] /\ Counted(store[r])
    BY StoreCounted DEF ReplicasInv, OwnWrites
  <2>3. u.clock = Increment(store[r].clock, r) /\ u.seen = store[r].seen \cup {w} /\ u.write = w
    OBVIOUS
  <2>4. Counted(u)
    <3> HIDE DEF u
    <3> QED BY <2>2, <2>3, WriteCounted
  <2>5. u \in Versions
    <3>1. w \in Writes
      BY <1>0 DEF Writes
    <3>2. u.clock \in Clocks(Replicas) /\ u.seen \in SUBSET Writes
      BY <2>4 DEF Counted
    <3> QED
      BY <3>1, <3>2 DEF Versions
  <2>6. \A i \in Replicas : At(u.clock, i) = IF i = r THEN written[r] + 1 ELSE At(store[r].clock, i)
    <3>1. store[r].clock \in Clocks(Replicas) /\ r \in Replicas
      BY <2>2 DEF Counted
    <3>2. /\ At(Increment(store[r].clock, r), r) = At(store[r].clock, r) + 1
          /\ \A k \in Replicas : k # r => At(Increment(store[r].clock, r), k) = At(store[r].clock, k)
      BY <3>1, IncrementEffect
    <3> HIDE DEF u
    <3> QED BY <3>2, <2>2, <2>3
  <2> HIDE DEF u
  <2>7. \A i \in Replicas : At(u.clock, i) <= written'[i]
    BY <2>1, <2>6, <1>0, StoreCounted
  <2>8. store[r].seen \subseteq u.seen
    BY <2>3
  <2>9. At(u.clock, r) = written'[r]
    BY <2>1, <2>6, <1>0
  <2>10. versions' = versions \cup {u}
    BY <2>1, <1>0
  <2>11. /\ written' \in [Replicas -> Nat] /\ \A i \in Replicas : written[i] <= written'[i]
         /\ \A i \in Replicas \ {r} : written'[i] = written[i]
    BY <2>1, <1>0
  <2> QED
    BY <2>1, <2>4, <2>5, <2>7, <2>8, <2>9, <2>10, <2>11, <1>0
<1>2. ASSUME NEW v \in versions, Receive(r, v)
      PROVE  \E u \in Versions : /\ Counted(u) /\ store' = [store EXCEPT ![r] = u]
                                /\ store[r].seen \subseteq u.seen
                                /\ At(u.clock, r) = written[r]
                                /\ \A i \in Replicas : At(u.clock, i) <= written[i]
  <2>1. /\ v \in Versions /\ Counted(v) /\ \A i \in Replicas : At(v.clock, i) <= written[i]
        /\ At(store[r].clock, r) = written[r] /\ Counted(store[r])
        /\ \A i \in Replicas : At(store[r].clock, i) <= written[i]
        /\ \A i \in Replicas : written[i] \in Nat /\ At(v.clock, i) \in Nat /\ At(store[r].clock, i) \in Nat
    BY <1>0, StoreCounted, ClockDomain DEF ReplicasInv, OwnWrites, Counted
  <2>2. CASE store[r] = None
    <3>1. store' = [store EXCEPT ![r] = v]
      BY <1>2, <2>2 DEF Receive
    <3>2. written[r] = 0
      BY <2>1, <2>2, NoneIsEmpty
    <3>3. At(v.clock, r) = written[r]
      BY <2>1, <3>2
    <3>4. store[r].seen = {}
      BY <2>2 DEF None
    <3> QED
      BY <2>1, <3>1, <3>3, <3>4
  <2>3. CASE store[r] # None
    <3>1. store[r] \in Versions /\ HandlePotentialConflict(r, store[r], v)
      BY <1>0, <1>2, <2>3 DEF Receive
    <3>2. PICK u \in [write : Writes, clock : {Merge(store[r].clock, v.clock), Merge(v.clock, store[r].clock)},
                      seen : {store[r].seen \cup v.seen}] :
            store' = [store EXCEPT ![r] = u]
      BY <2>1, <3>1, HandleEffect
    <3>3. Counted(u)
      BY <2>1, <3>2, MergeCounted
    <3>4. u \in Versions
      <4>1. u.clock \in Clocks(Replicas) /\ u.seen \in SUBSET Writes /\ u.write \in Writes
        BY <3>2, <3>3 DEF Counted
      <4> QED
        BY <3>2, <4>1 DEF Versions
    <3>5. \A i \in Replicas : At(u.clock, i) \in {At(store[r].clock, i), At(v.clock, i)}
                           /\ At(u.clock, i) >= At(store[r].clock, i)
      <4>1. store[r].clock \in Clocks(Replicas) /\ v.clock \in Clocks(Replicas)
        BY <2>1 DEF Counted
      <4>2. /\ \A k \in Replicas : At(Merge(store[r].clock, v.clock), k) =
                   IF At(v.clock, k) > At(store[r].clock, k) THEN At(v.clock, k) ELSE At(store[r].clock, k)
            /\ \A k \in Replicas : At(Merge(v.clock, store[r].clock), k) =
                   IF At(store[r].clock, k) > At(v.clock, k) THEN At(store[r].clock, k) ELSE At(v.clock, k)
        BY <4>1, MergeEffect
      <4> QED
        BY <2>1, <3>2, <4>2
    <3>6. store[r].seen \subseteq u.seen
      BY <3>2
    <3>7. \A i \in Replicas : At(u.clock, i) <= written[i]
      BY <2>1, <3>5
    <3>8. At(u.clock, r) = written[r]
      BY <2>1, <3>5
    <3> QED
      BY <3>2, <3>3, <3>4, <3>6, <3>7, <3>8
  <2> QED
    BY <2>2, <2>3
<1>3. ASSUME NEW v \in versions, Receive(r, v)
      PROVE  /\ versions' = versions \cup {store'[r]} /\ written' = written /\ delivered' \in Nat
             /\ \A h \in hash' : h.index \in {1, 2}
  <2>1. versions' = versions \cup {store'[r]} /\ written' = written /\ delivered' \in Nat
    BY <1>0, <1>3 DEF Receive, Keep
  <2>2. CASE store[r] = None
    <3>1. hash' = hash
      BY <1>3, <2>2 DEF Receive
    <3> QED
      BY <1>0, <2>1, <3>1
  <2>3. CASE store[r] # None
    <3>1. store[r] \in Versions /\ v \in Versions /\ HandlePotentialConflict(r, store[r], v)
      BY <1>0, <1>3, <2>3 DEF Receive
    <3>2. \A h \in hash' : h.index \in {1, 2}
      BY <3>1, HandleEffect
    <3> QED
      BY <2>1, <3>2
  <2> QED
    BY <2>2, <2>3
<1>4. CASE \E v \in versions : Receive(r, v)
  <2>1. PICK v \in versions : Receive(r, v)
    BY <1>4
  <2>2. PICK u \in Versions : /\ Counted(u) /\ store' = [store EXCEPT ![r] = u]
                             /\ store[r].seen \subseteq u.seen
                             /\ At(u.clock, r) = written[r]
                             /\ \A i \in Replicas : At(u.clock, i) <= written[i]
    BY <2>1, <1>2
  <2>3. /\ versions' = versions \cup {u} /\ written' = written /\ delivered' \in Nat
        /\ \A h \in hash' : h.index \in {1, 2}
    BY <2>1, <2>2, <1>0, <1>3
  <2>4. \A i \in Replicas : written[i] \in Nat
    BY <1>0
  <2>5. /\ written' \in [Replicas -> Nat] /\ \A i \in Replicas : written[i] <= written'[i]
        /\ \A i \in Replicas \ {r} : written'[i] = written[i]
        /\ At(u.clock, r) = written'[r] /\ \A i \in Replicas : At(u.clock, i) <= written'[i]
    BY <2>2, <2>3, <2>4, <1>0
  <2> QED
    BY <2>2, <2>3, <2>5
<1> QED
  BY <1>1, <1>4

\* Every write and every delivery keeps the invariant.
LEMMA ReplicasNext == ReplicasInv /\ [ReplicationNext]_repVars => ReplicasInv'
<1> SUFFICES ASSUME ReplicasInv, [ReplicationNext]_repVars PROVE ReplicasInv'
  OBVIOUS
<1>1. ASSUME NEW r \in Replicas, Write(r) \/ \E v \in versions : Receive(r, v) PROVE ReplicasInv'
  <2>1. PICK u \in Versions : /\ Counted(u) /\ store' = [store EXCEPT ![r] = u]
                             /\ store[r].seen \subseteq u.seen
                             /\ At(u.clock, r) = written'[r]
                             /\ \A i \in Replicas : At(u.clock, i) <= written'[i]
                             /\ versions' = versions \cup {u}
    BY <1>1, StepEffect
  <2>2. /\ written' \in [Replicas -> Nat] /\ \A i \in Replicas : written[i] <= written'[i]
        /\ \A i \in Replicas \ {r} : written'[i] = written[i]
        /\ \A h \in hash' : h.index \in {1, 2}
        /\ delivered' \in Nat
    BY <1>1, StepEffect
  <2>3. ReplicationTypeOK'
    BY <2>1, <2>2 DEF ReplicasInv, ReplicationTypeOK
  <2>4. \A v \in versions' : Counted(v)
    BY <2>1 DEF ReplicasInv
  <2>5. \A i \in Replicas : store'[i] = None \/ store'[i] \in versions'
    BY <2>1 DEF ReplicasInv, ReplicationTypeOK
  <2>6. \A i \in Replicas : At(store'[i].clock, i) = written'[i]
    BY <2>1, <2>2 DEF ReplicasInv, ReplicationTypeOK, OwnWrites
  <2>7. \A v \in versions', i \in Replicas : At(v.clock, i) <= written'[i]
    <3>1. ASSUME NEW v \in versions, NEW i \in Replicas PROVE At(v.clock, i) <= written'[i]
      <4>1. At(v.clock, i) \in Nat /\ At(v.clock, i) <= written[i]
        BY ClockDomain DEF ReplicasInv, OwnWrites, Counted
      <4>2. written[i] \in Nat /\ written'[i] \in Nat /\ written[i] <= written'[i]
        BY <2>2 DEF ReplicasInv, ReplicationTypeOK
      <4> QED
        BY <4>1, <4>2
    <3> QED
      BY <2>1, <3>1
  <2> QED
    BY <2>2, <2>3, <2>4, <2>5, <2>6, <2>7 DEF ReplicasInv, OwnWrites, Counted, Mirrors
<1>2. CASE UNCHANGED repVars
  BY <1>2 DEF repVars, ReplicasInv, ReplicationTypeOK, OwnWrites, Counted, Mirrors
<1> QED
  BY <1>1, <1>2 DEF ReplicationNext

\* Every version ever held carries a clock that counts what it has seen.
THEOREM ReplicasInvariant == ReplicationSpec => []ReplicasInv
BY ReplicasInit, ReplicasNext, PTL DEF ReplicationSpec

\* Both comparisons of the code decide between "before", "equal", "after" and
\* "concurrent" exactly as the histories of the versions do.
THEOREM ClocksDecideHistory == ReplicationSpec => []ClocksMirrorHistory
<1>1. ReplicasInv => ClocksMirrorHistory
  <2> SUFFICES ASSUME ReplicasInv, NEW v \in versions, NEW w \in versions
               PROVE  LET c == Compare(v.clock, w.clock)
                          n == NodeCompare(v.clock, w.clock)
                          below == v.seen \subseteq w.seen
                          above == w.seen \subseteq v.seen
                      IN /\ (c = -1 /\ n = "Before") <=> (below /\ ~above)
                         /\ (c = 0 /\ n = "Equal") <=> (below /\ above)
                         /\ (c = 1 /\ n = "After") <=> (~below /\ above)
                         /\ (c = 2 /\ n = "Concurrent") <=> (~below /\ ~above)
    BY DEF ClocksMirrorHistory
  <2>1. Counted(v) /\ Counted(w) /\ v.clock \in Clocks(Replicas) /\ w.clock \in Clocks(Replicas)
    BY DEF ReplicasInv, Counted
  <2>2. /\ LessEq(v.clock, w.clock) <=> v.seen \subseteq w.seen
        /\ LessEq(w.clock, v.clock) <=> w.seen \subseteq v.seen
    BY <2>1, ClockOrderIsHistory
  <2> QED
    BY <2>1, <2>2, CompareCases, NodeCompareAgrees
<1> QED
  BY <1>1, ReplicasInvariant, PTL

\* No delivery, late, repeated or conflicting, makes a replica forget a write it has
\* seen, and the clock of what it holds never goes back.
THEOREM NothingIsForgotten == ReplicationSpec => HistoryGrows
<1>1. ReplicasInv /\ ReplicasInv' /\ [ReplicationNext]_repVars =>
        [\A r \in Replicas : store[r] # None =>
           /\ store'[r] # None
           /\ store[r].seen \subseteq store'[r].seen
           /\ Compare(store[r].clock, store'[r].clock) \in {-1, 0}]_repVars
  <2> SUFFICES ASSUME ReplicasInv, ReplicasInv', ReplicationNext,
                      NEW r \in Replicas, store[r] # None
               PROVE  /\ store'[r] # None
                      /\ store[r].seen \subseteq store'[r].seen
                      /\ Compare(store[r].clock, store'[r].clock) \in {-1, 0}
    OBVIOUS
  <2>1. PICK i \in Replicas : Write(i) \/ \E v \in versions : Receive(i, v)
    BY DEF ReplicationNext
  <2>2. PICK u \in Versions : Counted(u) /\ store' = [store EXCEPT ![i] = u] /\ store[i].seen \subseteq u.seen
    BY <2>1, StepEffect
  <2>3. Counted(store[r]) /\ store[r] \in Versions /\ store \in [Replicas -> Versions \cup {None}]
    BY StoreCounted DEF ReplicasInv, ReplicationTypeOK
  <2>4. store'[r] \in Versions /\ Counted(store'[r]) /\ store[r].seen \subseteq store'[r].seen
    BY <2>2, <2>3
  <2>5. LessEq(store[r].clock, store'[r].clock)
    BY <2>3, <2>4, ClockOrderIsHistory
  <2>6. Compare(store[r].clock, store'[r].clock) \in {-1, 0}
    BY <2>5, CompareCases
  <2> QED
    BY <2>4, <2>6, NoneCounted
<1> QED
  BY <1>1, ReplicasInvariant, PTL DEF ReplicationSpec, HistoryGrows

-----------------------------------------------------------------------------
(***************************************************************************)
(* The first conflict.  Two replicas that each made a first write, knowing *)
(* of nothing, hold versions whose clocks have one key; these serialize in *)
(* one way only, so the hash of the sorted pair is asked for once, and its *)
(* answer decides every later resolution of the same two writes.  A        *)
(* version that has seen the two may also come about in another way: the   *)
(* one was written upon the other.  Then nobody ever held the later write  *)
(* alone, and there was nothing to resolve.                                *)
(***************************************************************************)

\* The version a first write makes, and the hash input of two of them.
First(i) == [write |-> <<i, 1>>, clock |-> [k \in {i} |-> 1]]
Firsts(i, j) == [k \in 1 .. 2 |-> IF k = 1 THEN First(i) ELSE First(j)]

FirstPair(S) == Cardinality(S) = 2 /\ \A x \in S : x[2] = 1

\* Whoever knows the write of v has seen all that v has.
Caused(v) == \A w \in versions : v.write \in w.seen => v.seen \subseteq w.seen

\* The hash of two first writes chose the write of v, according to the answers H.
DecidedBy(H, v) ==
  \E i \in Replicas, j \in Replicas, h \in H :
    /\ i < j /\ v.seen = {<<i, 1>>, <<j, 1>>} /\ h.input = Firsts(i, j)
    /\ v.write = IF h.index = 1 THEN <<i, 1>> ELSE <<j, 1>>

Functional(H) == \A g \in H, h \in H : g.input = h.input => g.index = h.index

FirstInv ==
  /\ \A v \in versions : v.write \in v.seen /\ IsFiniteSet(v.seen)
  /\ Functional(hash)
  /\ FirstConflictAgrees
  /\ \A v \in versions : FirstPair(v.seen) => Caused(v) \/ DecidedBy(hash, v)

\* The first writes a pair consists of.
LEMMA PairOfFirsts ==
  ASSUME NEW S \in SUBSET Writes, IsFiniteSet(S), FirstPair(S)
  PROVE  \E i \in Replicas, j \in Replicas : i # j /\ S = {<<i, 1>>, <<j, 1>>}
<1>1. Cardinality(S) = 2 /\ S # {}
  BY FS_EmptySet DEF FirstPair
<1>2. PICK a \in S : TRUE
  BY <1>1
<1>3. IsFiniteSet(S \ {a}) /\ Cardinality(S \ {a}) = 1
  BY <1>1, <1>2, FS_RemoveElement
<1>4. PICK b : S \ {a} = {b}
  BY <1>3, FS_Singleton
<1>5. S = {a, b} /\ a # b
  BY <1>2, <1>4
<1>6. \A x \in S : \E i \in Replicas : x = <<i, 1>>
  BY DEF FirstPair, Writes
<1>7. PICK i \in Replicas, j \in Replicas : a = <<i, 1>> /\ b = <<j, 1>>
  BY <1>5, <1>6
<1> QED
  BY <1>5, <1>7

\* Who has seen one first write only carries the clock with that key.
LEMMA AloneIsFirst ==
  ASSUME NEW v, Counted(v), v.write \in v.seen, NEW i \in Replicas, v.seen = {<<i, 1>>}
  PROVE  v.write = First(i).write /\ v.clock = First(i).clock /\ SerializesOneWay(v.clock)
<1>1. DOMAIN v.clock \subseteq Replicas /\ v.clock \in [DOMAIN v.clock -> Nat]
  BY ClockDomain DEF Counted
<1>2. \A k \in Replicas : At(v.clock, k) \in Nat
  BY ClockDomain DEF Counted
<1>3. \A k \in Replicas, n \in Nat \ {0} : (k = i /\ n = 1) <=> n <= At(v.clock, k)
  BY DEF Counted, Mirrors
<1>4. At(v.clock, i) = 1
  <2>1. 1 <= At(v.clock, i) /\ ~(2 <= At(v.clock, i))
    BY <1>3
  <2> QED
    BY <2>1, <1>2
<1>5. \A k \in Replicas : k # i => At(v.clock, k) = 0
  <2>1. \A k \in Replicas : k # i => ~(1 <= At(v.clock, k))
    BY <1>3
  <2> QED
    BY <2>1, <1>2
<1>6. DOMAIN v.clock = {i}
  <2>1. i \in DOMAIN v.clock
    BY <1>4 DEF At
  <2>2. \A k \in DOMAIN v.clock : k = i
    BY <1>1, <1>5 DEF At, Counted
  <2> QED
    BY <2>1, <2>2
<1>7. v.clock[i] = 1
  BY <1>4, <1>6 DEF At
<1>8. v.clock = [k \in {i} |-> 1]
  BY <1>1, <1>6, <1>7
<1> QED
  BY SMTT(30), <1>6, <1>8, FS_Singleton DEF First, SerializesOneWay

\* Two resolutions of the same pair of first writes by the same answers agree.
LEMMA DecisionsAgree ==
  ASSUME NEW H, Functional(H), NEW v, NEW w, v.seen = w.seen, DecidedBy(H, v), DecidedBy(H, w),
         Replicas \subseteq Nat
  PROVE  v.write = w.write
<1>1. PICK i \in Replicas, j \in Replicas, g \in H :
        /\ i < j /\ v.seen = {<<i, 1>>, <<j, 1>>} /\ g.input = Firsts(i, j)
        /\ v.write = IF g.index = 1 THEN <<i, 1>> ELSE <<j, 1>>
  BY DEF DecidedBy
<1>2. PICK k \in Replicas, l \in Replicas, h \in H :
        /\ k < l /\ w.seen = {<<k, 1>>, <<l, 1>>} /\ h.input = Firsts(k, l)
        /\ w.write = IF h.index = 1 THEN <<k, 1>> ELSE <<l, 1>>
  BY DEF DecidedBy
<1>3. {i, j} = {k, l}
  <2>1. <<i, 1>> \in {<<k, 1>>, <<l, 1>>} /\ <<j, 1>> \in {<<k, 1>>, <<l, 1>>}
    BY <1>1, <1>2
  <2>2. <<k, 1>> \in {<<i, 1>>, <<j, 1>>} /\ <<l, 1>> \in {<<i, 1>>, <<j, 1>>}
    BY <1>1, <1>2
  <2> QED
    BY <2>1, <2>2
<1>4. i = k /\ j = l
  BY <1>1, <1>2, <1>3
<1>5. g.index = h.index
  BY <1>1, <1>2, <1>4 DEF Functional
<1> QED
  BY <1>1, <1>2, <1>4, <1>5

\* The answer of a resolution is recorded, if the same input can come again.
LEMMA AnswersStayFunctional ==
  ASSUME Functional(hash), NEW pair, NEW answer \in Answers(pair),
         hash' = IF Repeatable(pair) THEN hash \cup {answer} ELSE hash
  PROVE  /\ hash \subseteq hash' /\ Functional(hash')
         /\ answer.input = VrfInput(pair)
         /\ Repeatable(pair) => answer \in hash'
<1>1. answer.input = VrfInput(pair)
  BY DEF Answers
<1>2. CASE Repeatable(pair) /\ \E h \in hash : h.input = VrfInput(pair)
  <2>1. answer \in hash
    BY <1>2 DEF Answers
  <2>2. hash' = hash
    BY <2>1
  <2> QED
    BY <1>1, <2>1, <2>2
<1>3. CASE Repeatable(pair) /\ ~\E h \in hash : h.input = VrfInput(pair)
  <2>1. hash' = hash \cup {answer}
    BY <1>3
  <2> QED
    BY <1>1, <1>3, <2>1 DEF Functional
<1>4. CASE ~Repeatable(pair)
  BY <1>1, <1>4
<1> QED
  BY <1>2, <1>3, <1>4

\* What a delivery leaves of a first conflict: the write of a version that had seen
\* the same, or the decision between two versions that had seen one write each.
LEMMA HandleDecides ==
  ASSUME ReplicasInv, FirstInv, Replicas \subseteq Nat, NEW r \in Replicas,
         NEW local \in versions, NEW remote \in versions,
         HandlePotentialConflict(r, local, remote),
         NEW u, store' = [store EXCEPT ![r] = u]
  PROVE  /\ u.seen = local.seen \cup remote.seen
         /\ u.write \in {local.write, remote.write}
         /\ hash \subseteq hash' /\ Functional(hash')
         /\ FirstPair(u.seen) =>
              \/ \E x \in versions : x.seen = u.seen /\ x.write = u.write
              \/ /\ DecidedBy(hash', u)
                 /\ \A x \in u.seen : \E a \in versions : a.seen = {x}
<1>1. /\ Counted(local) /\ Counted(remote) /\ local \in Versions /\ remote \in Versions
      /\ local.write \in local.seen /\ remote.write \in remote.seen
      /\ IsFiniteSet(local.seen) /\ IsFiniteSet(remote.seen)
      /\ local.seen \subseteq Writes /\ remote.seen \subseteq Writes
      /\ Functional(hash) /\ \A h \in hash : h.index \in {1, 2}
      /\ u = store'[r]
  BY DEF ReplicasInv, ReplicationTypeOK, FirstInv, Counted
<1>2. /\ LessEq(local.clock, remote.clock) <=> local.seen \subseteq remote.seen
      /\ LessEq(remote.clock, local.clock) <=> remote.seen \subseteq local.seen
  BY <1>1, ClockOrderIsHistory
<1>3. CASE Compare(local.clock, remote.clock) = -1
  <2>1. /\ u = [remote EXCEPT !.clock = Merge(remote.clock, local.clock), !.seen = remote.seen \cup local.seen]
        /\ hash' = hash
    BY <1>1, <1>3 DEF HandlePotentialConflict, ReplicasInv, ReplicationTypeOK
  <2>2. u.seen = remote.seen \cup local.seen /\ u.write = remote.write
    BY <1>1, <2>1 DEF Versions
  <2>3. u.seen = remote.seen
    BY <1>2, <1>3, <2>2, CompareCases
  <2> QED
    BY <1>1, <2>1, <2>2, <2>3
<1>4. CASE Compare(local.clock, remote.clock) = 1
  <2>1. /\ u = [local EXCEPT !.clock = Merge(local.clock, remote.clock), !.seen = local.seen \cup remote.seen]
        /\ hash' = hash
    BY <1>1, <1>4 DEF HandlePotentialConflict, ReplicasInv, ReplicationTypeOK
  <2>2. u.seen = local.seen \cup remote.seen /\ u.write = local.write
    BY <1>1, <2>1 DEF Versions
  <2>3. u.seen = local.seen
    BY <1>2, <1>4, <2>2, CompareCases
  <2> QED
    BY <1>1, <2>1, <2>2, <2>3
<1>5. CASE Compare(local.clock, remote.clock) \in {0, 2} /\ Resolve(r, local, remote)
  <2> DEFINE pair == Conflicting(local, remote)
  <2>1. PICK answer \in Answers(pair) :
          /\ hash' = IF Repeatable(pair) THEN hash \cup {answer} ELSE hash
          /\ store' = [store EXCEPT ![r] =
               [write |-> pair[answer.index].write,
                clock |-> Merge(local.clock, remote.clock),
                seen |-> local.seen \cup remote.seen]]
    BY <1>5 DEF Resolve
  <2>2. u.write = pair[answer.index].write /\ u.seen = local.seen \cup remote.seen
    BY <1>1, <2>1 DEF ReplicasInv, ReplicationTypeOK
  <2>3. answer.index \in {1, 2}
    BY <1>1 DEF Answers
  <2>4. u.write \in {local.write, remote.write}
    BY <2>2, <2>3 DEF Conflicting
  <2>5. hash \subseteq hash' /\ Functional(hash')
    BY <1>1, <2>1, AnswersStayFunctional
  <2>6. ASSUME FirstPair(u.seen), Compare(local.clock, remote.clock) = 0
        PROVE  \E x \in versions : x.seen = u.seen /\ x.write = u.write
    <3>1. local.seen = remote.seen
      BY <1>2, <2>6, CompareCases
    <3> QED
      BY <2>2, <2>4, <3>1
  <2>7. ASSUME FirstPair(u.seen), Compare(local.clock, remote.clock) = 2
        PROVE  /\ DecidedBy(hash', u)
               /\ \A x \in u.seen : \E a \in versions : a.seen = {x}
    <3>1. ~(local.seen \subseteq remote.seen) /\ ~(remote.seen \subseteq local.seen)
      BY <1>2, <2>7, CompareCases
    <3>2. u.seen \in SUBSET Writes /\ IsFiniteSet(u.seen)
      <4>1. IsFiniteSet(local.seen \cup remote.seen)
        BY <1>1, FS_Union
      <4> QED
        BY <1>1, <2>2, <4>1
    <3>3. PICK i \in Replicas, j \in Replicas : i # j /\ u.seen = {<<i, 1>>, <<j, 1>>}
      BY <2>7, <3>2, PairOfFirsts
    <3>4. \/ local.seen = {<<i, 1>>} /\ remote.seen = {<<j, 1>>}
          \/ local.seen = {<<j, 1>>} /\ remote.seen = {<<i, 1>>}
      BY <2>2, <3>1, <3>3
    <3>5. ASSUME NEW a \in Replicas, NEW b \in Replicas, a # b,
                 local.seen = {<<a, 1>>}, remote.seen = {<<b, 1>>}
          PROVE  DecidedBy(hash', u)
      <4>0. /\ local.seen = {<<a, 1>>} /\ remote.seen = {<<b, 1>>} /\ a # b
        BY <3>5
      <4>1. /\ local.write = First(a).write /\ local.clock = First(a).clock /\ SerializesOneWay(local.clock)
            /\ remote.write = First(b).write /\ remote.clock = First(b).clock /\ SerializesOneWay(remote.clock)
        BY <1>1, <4>0, AloneIsFirst
      <4>2. Source(local) = a /\ Source(remote) = b
        BY <4>1 DEF Source, First
      <4>3. pair = IF b < a THEN <<remote, local>> ELSE <<local, remote>>
        BY <4>2 DEF Conflicting
      <4>4. Repeatable(pair)
        BY <4>1, <4>3 DEF Repeatable
      <4>5. VrfInput(pair) = IF b < a THEN Firsts(b, a) ELSE Firsts(a, b)
        <5>1. CASE b < a
          BY <4>1, <4>3, <5>1 DEF VrfInput, Firsts, First
        <5>2. CASE ~(b < a)
          BY <4>1, <4>3, <5>2 DEF VrfInput, Firsts, First
        <5> QED
          BY <5>1, <5>2
      <4>6. answer.input = VrfInput(pair) /\ answer \in hash'
        BY <1>1, <2>1, <4>4, AnswersStayFunctional
      <4>7. answer.index \in {1, 2}
        BY <1>1 DEF Answers
      <4>8. CASE b < a
        <5>1. u.write = IF answer.index = 1 THEN <<b, 1>> ELSE <<a, 1>>
          BY <4>1, <4>3, <4>7, <4>8, <2>2 DEF First
        <5>2. u.seen = {<<b, 1>>, <<a, 1>>} /\ answer.input = Firsts(b, a)
          BY <2>2, <4>0, <4>5, <4>6, <4>8
        <5> QED
          BY <4>6, <4>8, <5>1, <5>2 DEF DecidedBy
      <4>9. CASE a < b
        <5>0. ~(b < a)
          BY <4>9
        <5>1. u.write = IF answer.index = 1 THEN <<a, 1>> ELSE <<b, 1>>
          BY <4>1, <4>3, <4>7, <5>0, <2>2 DEF First
        <5>2. u.seen = {<<a, 1>>, <<b, 1>>} /\ answer.input = Firsts(a, b)
          BY <2>2, <4>0, <4>5, <4>6, <4>9, <5>0
        <5> QED
          BY <4>6, <4>9, <5>1, <5>2 DEF DecidedBy
      <4> QED
        BY <4>0, <4>8, <4>9
    <3>6. DecidedBy(hash', u)
      BY <3>5, <3>3, <3>4
    <3>7. \A x \in u.seen : \E a \in versions : a.seen = {x}
      BY <3>3, <3>4
    <3> QED
      BY <3>6, <3>7
  <2> HIDE DEF pair
  <2> QED
    BY <1>5, <2>2, <2>4, <2>5, <2>6, <2>7
<1> QED
  BY <1>3, <1>4, <1>5 DEF HandlePotentialConflict

\* In the beginning there are no versions and no answers.
LEMMA FirstInit == ReplicationInit => FirstInv
BY DEF ReplicationInit, FirstInv, Functional, FirstConflictAgrees

\* What has been answered stays answered.
LEMMA FirstKept ==
  ASSUME NEW v, NEW H, NEW G, H \subseteq G, DecidedBy(H, v)
  PROVE  DecidedBy(G, v)
BY DEF DecidedBy

\* One step stores one version u, from a write, from what came first or from a
\* conflict; the facts about u that carry the invariant over.
LEMMA NewVersion ==
  ASSUME ReplicasInv, FirstInv, Replicas \subseteq Nat, NEW r \in Replicas,
         Write(r) \/ \E v \in versions : Receive(r, v)
  PROVE  \E u \in Versions :
           /\ versions' = versions \cup {u} /\ u.write \in u.seen /\ IsFiniteSet(u.seen)
           /\ hash \subseteq hash' /\ Functional(hash')
           /\ \A v \in versions : Caused(v) /\ v.write \in u.seen => v.seen \subseteq u.seen
           /\ FirstPair(u.seen) =>
                \/ \E x \in versions : x.seen = u.seen /\ x.write = u.write
                \/ /\ DecidedBy(hash', u)
                   /\ \A x \in u.seen : \E a \in versions : a.seen = {x}
                \/ \A v \in versions : u.write \notin v.seen
<1>1. PICK u \in Versions : /\ store' = [store EXCEPT ![r] = u] /\ versions' = versions \cup {u}
                            /\ Counted(u) /\ store[r].seen \subseteq u.seen
  BY StepEffect
<1>2. /\ store \in [Replicas -> Versions \cup {None}] /\ written[r] \in Nat
      /\ store[r] = None \/ store[r] \in versions
      /\ Functional(hash) /\ \A v \in versions : v.write \in v.seen /\ IsFiniteSet(v.seen)
      /\ u = store'[r] /\ versions \subseteq Versions
  BY <1>1 DEF ReplicasInv, ReplicationTypeOK, FirstInv
<1>3. \A v \in versions : v.write \in store[r].seen /\ Caused(v) => v.seen \subseteq store[r].seen
  <2>1. store[r] = None => store[r].seen = {}
    BY DEF None
  <2> QED
    BY <1>2, <2>1 DEF Caused
<1>4. IsFiniteSet(store[r].seen)
  <2>1. store[r] = None => store[r].seen = {}
    BY DEF None
  <2> QED
    BY <1>2, <2>1, FS_EmptySet
<1>5. CASE Write(r)
  <2> DEFINE w == <<r, written[r] + 1>>
  <2>1. u = [write |-> w, clock |-> Increment(store[r].clock, r), seen |-> store[r].seen \cup {w}]
        /\ hash' = hash
    BY <1>2, <1>5 DEF Write
  <2>2. u.write = w /\ u.seen = store[r].seen \cup {w}
    BY <2>1
  <2>3. \A v \in versions : w \notin v.seen
    <3> SUFFICES ASSUME NEW v \in versions, w \in v.seen PROVE FALSE
      OBVIOUS
    <3>1. At(v.clock, r) <= written[r] /\ Mirrors(v) /\ At(v.clock, r) \in Nat
      BY ClockDomain DEF ReplicasInv, OwnWrites, Counted
    <3>2. written[r] + 1 <= At(v.clock, r)
      BY <1>2, <3>1 DEF Mirrors
    <3> QED
      BY <1>2, <3>1, <3>2
  <2>4. IsFiniteSet(u.seen)
    <3>1. IsFiniteSet(store[r].seen \cup {w})
      BY <1>4, FS_AddElement
    <3> QED
      BY <2>2, <3>1
  <2> HIDE DEF w
  <2>5. \A v \in versions : Caused(v) /\ v.write \in u.seen => v.seen \subseteq u.seen
    <3> SUFFICES ASSUME NEW v \in versions, Caused(v), v.write \in u.seen PROVE v.seen \subseteq u.seen
      OBVIOUS
    <3>1. v.write # w
      BY <1>2, <2>3
    <3> QED
      BY <1>3, <2>2, <3>1
  <2> QED
    BY <1>1, <1>2, <2>1, <2>2, <2>3, <2>4, <2>5
<1>6. ASSUME NEW v \in versions, Receive(r, v), store[r] = None
      PROVE  u = v /\ hash' = hash
  BY <1>2, <1>6 DEF Receive
<1>7. ASSUME NEW v \in versions, Receive(r, v), store[r] # None
      PROVE  /\ u.seen = store[r].seen \cup v.seen
             /\ u.write \in {store[r].write, v.write}
             /\ hash \subseteq hash' /\ Functional(hash')
             /\ FirstPair(u.seen) =>
                  \/ \E x \in versions : x.seen = u.seen /\ x.write = u.write
                  \/ /\ DecidedBy(hash', u)
                     /\ \A x \in u.seen : \E a \in versions : a.seen = {x}
  <2>1. HandlePotentialConflict(r, store[r], v) /\ store[r] \in versions
    BY <1>2, <1>7 DEF Receive
  <2> DEFINE local == store[r]
  <2>2. local \in versions /\ HandlePotentialConflict(r, local, v)
    BY <2>1
  <2> HIDE DEF local
  <2>3. /\ u.seen = local.seen \cup v.seen
        /\ u.write \in {local.write, v.write}
        /\ hash \subseteq hash' /\ Functional(hash')
        /\ FirstPair(u.seen) =>
             \/ \E x \in versions : x.seen = u.seen /\ x.write = u.write
             \/ /\ DecidedBy(hash', u)
                /\ \A x \in u.seen : \E a \in versions : a.seen = {x}
    BY <1>1, <2>2, HandleDecides
  <2> QED
    BY <2>3 DEF local
<1>8. CASE \E v \in versions : Receive(r, v)
  <2>1. PICK v \in versions : Receive(r, v)
    BY <1>8
  <2>2. CASE store[r] = None
    <3>1. u = v /\ hash' = hash
      BY <1>6, <2>1, <2>2
    <3>2. \A x \in versions : Caused(x) /\ x.write \in u.seen => x.seen \subseteq u.seen
      BY <3>1 DEF Caused
    <3> QED
      BY <1>1, <1>2, <3>1, <3>2
  <2>3. CASE store[r] # None
    <3>1. /\ u.seen = store[r].seen \cup v.seen
          /\ u.write \in {store[r].write, v.write}
          /\ hash \subseteq hash' /\ Functional(hash')
          /\ FirstPair(u.seen) =>
               \/ \E x \in versions : x.seen = u.seen /\ x.write = u.write
               \/ /\ DecidedBy(hash', u)
                  /\ \A x \in u.seen : \E a \in versions : a.seen = {x}
      BY <1>7, <2>1, <2>3
    <3>2. \A x \in versions : Caused(x) /\ x.write \in u.seen => x.seen \subseteq u.seen
      BY <1>3, <3>1 DEF Caused
    <3>3. IsFiniteSet(u.seen)
      <4>1. IsFiniteSet(v.seen)
        BY <1>2
      <4>2. IsFiniteSet(store[r].seen \cup v.seen)
        BY <1>4, <4>1, FS_Union
      <4> QED
        BY <3>1, <4>2
    <3>4. u.write \in u.seen
      BY <1>2, <2>3, <3>1
    <3> QED
      BY <1>1, <3>1, <3>2, <3>3, <3>4
  <2> QED
    BY <2>2, <2>3
<1> QED
  BY <1>5, <1>8

\* The invariant is kept: the new version agrees with every one of the same history.
LEMMA FirstNext ==
  ASSUME ReplicasInv, FirstInv, Replicas \subseteq Nat, [ReplicationNext]_repVars
  PROVE  FirstInv'
<1>1. ASSUME NEW r \in Replicas, Write(r) \/ \E v \in versions : Receive(r, v)
      PROVE  FirstInv'
  <2>1. PICK u \in Versions :
           /\ versions' = versions \cup {u} /\ u.write \in u.seen /\ IsFiniteSet(u.seen)
           /\ hash \subseteq hash' /\ Functional(hash')
           /\ \A v \in versions : Caused(v) /\ v.write \in u.seen => v.seen \subseteq u.seen
           /\ FirstPair(u.seen) =>
                \/ \E x \in versions : x.seen = u.seen /\ x.write = u.write
                \/ /\ DecidedBy(hash', u)
                   /\ \A x \in u.seen : \E a \in versions : a.seen = {x}
                \/ \A v \in versions : u.write \notin v.seen
    BY <1>1, NewVersion
  <2>2. /\ \A v \in versions : v.write \in v.seen /\ IsFiniteSet(v.seen)
        /\ \A v \in versions : FirstPair(v.seen) => Caused(v) \/ DecidedBy(hash, v)
        /\ \A v \in versions, w \in versions : v.seen = w.seen /\ FirstPair(v.seen) => v.write = w.write
    BY DEF FirstInv, FirstConflictAgrees, FirstPair
  <2> DEFINE CausedIn(V, v) == \A w \in V : v.write \in w.seen => v.seen \subseteq w.seen
  <2>3. \A v \in versions : Caused(v) => CausedIn(versions', v)
    BY <2>1 DEF Caused
  <2>4. \A v \in versions : FirstPair(v.seen) => CausedIn(versions', v) \/ DecidedBy(hash', v)
    BY <2>1, <2>2, <2>3, FirstKept
  <2>5. FirstPair(u.seen) => CausedIn(versions', u) \/ DecidedBy(hash', u)
    <3> SUFFICES ASSUME FirstPair(u.seen) PROVE CausedIn(versions', u) \/ DecidedBy(hash', u)
      OBVIOUS
    <3>1. CASE \E x \in versions : x.seen = u.seen /\ x.write = u.write
      <4>1. PICK x \in versions : x.seen = u.seen /\ x.write = u.write
        BY <3>1
      <4>2. CausedIn(versions', x) \/ DecidedBy(hash', x)
        BY <2>4, <4>1
      <4> QED
        BY <4>1, <4>2 DEF DecidedBy
    <3>2. CASE \A v \in versions : u.write \notin v.seen
      BY <2>1, <3>2
    <3> QED
      BY <2>1, <3>1, <3>2
  <2>6. ASSUME FirstPair(u.seen), NEW v \in versions, v.seen = u.seen
        PROVE  v.write = u.write
    <3>1. CASE \E x \in versions : x.seen = u.seen /\ x.write = u.write
      BY <2>2, <2>6, <3>1
    <3>2. CASE DecidedBy(hash', u) /\ \A x \in u.seen : \E a \in versions : a.seen = {x}
      <4>1. ~Caused(v)
        <5> SUFFICES ASSUME Caused(v) PROVE FALSE
          OBVIOUS
        <5>1. PICK a \in versions : a.seen = {v.write}
          BY <2>2, <2>6, <3>2
        <5>2. v.seen \subseteq {v.write}
          BY <5>1 DEF Caused
        <5>3. u.seen = {v.write}
          BY <2>2, <2>6, <5>2
        <5>4. Cardinality(u.seen) = 1
          BY <5>3, FS_Singleton
        <5> QED
          BY <2>6, <5>4 DEF FirstPair
      <4>2. DecidedBy(hash', v)
        BY <2>1, <2>2, <2>6, <4>1, FirstKept
      <4> QED
        BY <2>1, <2>6, <3>2, <4>2, DecisionsAgree
    <3>3. CASE \A x \in versions : u.write \notin x.seen
      BY <2>1, <2>6, <3>3
    <3> QED
      BY <2>1, <2>6, <3>1, <3>2, <3>3
  <2>7. \A v \in versions', w \in versions' : v.seen = w.seen /\ FirstPair(v.seen) => v.write = w.write
    BY <2>1, <2>2, <2>6
  <2>8. FirstConflictAgrees'
    BY <2>7 DEF FirstConflictAgrees, FirstPair
  <2>9. \A v \in versions' : v.write \in v.seen /\ IsFiniteSet(v.seen)
    BY <2>1, <2>2
  <2>10. \A v \in versions' : FirstPair(v.seen) => CausedIn(versions', v) \/ DecidedBy(hash', v)
    BY <2>1, <2>4, <2>5
  <2> QED
    BY <2>1, <2>8, <2>9, <2>10 DEF FirstInv, Caused
<1>2. CASE UNCHANGED repVars
  BY <1>2 DEF repVars, FirstInv, FirstConflictAgrees, Caused
<1> QED
  BY <1>1, <1>2 DEF ReplicationNext

\* Whoever resolves a conflict between two first writes, in whatever order and after
\* whatever else arrives of the two, ends with the same value: the hash is asked once.
THEOREM FirstConflictIsAgreed == ReplicationSpec => []FirstConflictAgrees
<1>1. ReplicasInv /\ FirstInv /\ [ReplicationNext]_repVars => FirstInv'
  BY ReplicationAssumption, FirstNext
<1>2. FirstInv => FirstConflictAgrees
  BY DEF FirstInv
<1> QED
  BY <1>1, <1>2, FirstInit, ReplicasInvariant, PTL DEF ReplicationSpec
=============================================================================
