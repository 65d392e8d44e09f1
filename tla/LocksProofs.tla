---------------------------- MODULE LocksProofs ----------------------------
(***************************************************************************)
(* Calls that wait for each other for ever contain one that took its locks *)
(* out of order, for any number of goroutines; of the program's eleven     *)
(* calls six do.                                                           *)
(***************************************************************************)
EXTENDS Locks, FiniteSetTheorems, FunctionTheorems, SequenceTheorems, TLAPS

Ops == [op : {"RLock", "RUnlock", "Lock", "Unlock"}, mu : Mutexes]

-----------------------------------------------------------------------------
(***************************************************************************)
(* The calls.  They are built from sections, one after the other and one   *)
(* in the other; what is said of them here is shown along that structure.  *)
(***************************************************************************)

\* The ranks of the locks.
LEMMA RankType == \A l \in Mutexes : Rank(l) \in 1 .. 8
BY DEF Rank, Mutexes

\* How often an operation is among the first n of p.
Count(p, n, op, l) == Cardinality({i \in 1 .. n : p[i] = [op |-> op, mu |-> l]})

\* The occurrences are a finite set.
LEMMA CountType ==
  ASSUME NEW p, NEW n \in Nat, NEW op, NEW l
  PROVE  /\ IsFiniteSet({i \in 1 .. n : p[i] = [op |-> op, mu |-> l]})
         /\ Count(p, n, op, l) \in Nat
         /\ Count(p, 0, op, l) = 0
<1> DEFINE S == {i \in 1 .. n : p[i] = [op |-> op, mu |-> l]}
<1>1. IsFiniteSet(1 .. n) /\ S \subseteq 1 .. n
  BY FS_Interval
<1>2. IsFiniteSet(S)
  <2> HIDE DEF S
  <2> QED  BY <1>1, FS_Subset
<1>3. Cardinality(S) \in Nat
  <2> HIDE DEF S
  <2> QED  BY <1>2, FS_CardinalityType
<1>4. {i \in 1 .. 0 : p[i] = [op |-> op, mu |-> l]} = {}
  OBVIOUS
<1>5. Count(p, 0, op, l) = 0
  BY <1>4, FS_EmptySet DEF Count
<1> QED
  BY <1>2, <1>3, <1>5 DEF Count

\* The places of a sequence after another one.
LEMMA ConcatAt ==
  ASSUME NEW p \in Seq(Ops), NEW q \in Seq(Ops)
  PROVE  /\ p \o q \in Seq(Ops) /\ Len(p) \in Nat /\ Len(q) \in Nat
         /\ Len(p \o q) = Len(p) + Len(q)
         /\ \A i \in 1 .. Len(p) : (p \o q)[i] = p[i]
         /\ \A i \in 1 .. Len(q) : (p \o q)[Len(p) + i] = q[i]
<1>1. /\ p \o q \in Seq(Ops) /\ Len(p \o q) = Len(p) + Len(q)
      /\ \A i \in 1 .. Len(p) + Len(q) : (p \o q)[i] = IF i <= Len(p) THEN p[i] ELSE q[i - Len(p)]
  BY ConcatProperties
<1>2. Len(p) \in Nat /\ Len(q) \in Nat
  OBVIOUS
<1>3. ASSUME NEW i \in 1 .. Len(q) PROVE (p \o q)[Len(p) + i] = q[i]
  <2>1. Len(p) + i \in 1 .. Len(p) + Len(q) /\ ~(Len(p) + i <= Len(p)) /\ Len(p) + i - Len(p) = i
    BY <1>2
  <2> QED  BY <1>1, <2>1
<1> QED
  BY <1>1, <1>2, <1>3

\* Counting in a concatenation.
LEMMA CountConcat ==
  ASSUME NEW p \in Seq(Ops), NEW q \in Seq(Ops), NEW op, NEW l
  PROVE  /\ \A n \in 0 .. Len(p) : Count(p \o q, n, op, l) = Count(p, n, op, l)
         /\ \A k \in 0 .. Len(q) :
              Count(p \o q, Len(p) + k, op, l) = Count(p, Len(p), op, l) + Count(q, k, op, l)
<1> DEFINE x == [op |-> op, mu |-> l]
           pq == p \o q
<1>1. /\ Len(p) \in Nat /\ Len(q) \in Nat
      /\ \A i \in 1 .. Len(p) : pq[i] = p[i]
      /\ \A i \in 1 .. Len(q) : pq[Len(p) + i] = q[i]
  BY ConcatAt
<1> HIDE DEF x, pq
<1>2. ASSUME NEW n \in 0 .. Len(p) PROVE Count(pq, n, op, l) = Count(p, n, op, l)
  <2>1. {i \in 1 .. n : pq[i] = x} = {i \in 1 .. n : p[i] = x}
    BY SMTT(30), <1>1
  <2> QED  BY <2>1 DEF Count, x
<1>3. ASSUME NEW k \in 0 .. Len(q)
      PROVE  Count(pq, Len(p) + k, op, l) = Count(p, Len(p), op, l) + Count(q, k, op, l)
  <2> DEFINE A == {i \in 1 .. Len(p) : p[i] = x}
             C == {i \in 1 .. k : q[i] = x}
             f == [i \in C |-> Len(p) + i]
             B == {Len(p) + i : i \in C}
             S == {i \in 1 .. Len(p) + k : pq[i] = x}
  <2>1. k \in Nat /\ C \subseteq Nat /\ A \subseteq 1 .. Len(p)
    BY <1>1
  <2>2. IsFiniteSet(A) /\ IsFiniteSet(C)
    <3>1. Len(p) \in Nat /\ k \in Nat
      BY <1>1, <2>1
    <3>2. IsFiniteSet({i \in 1 .. Len(p) : p[i] = [op |-> op, mu |-> l]})
      BY <3>1, CountType
    <3>3. IsFiniteSet({i \in 1 .. k : q[i] = [op |-> op, mu |-> l]})
      BY SMTT(30), <3>1, CountType
    <3> QED  BY <3>2, <3>3 DEF x
  <2>3. IsFiniteSet(B) /\ Cardinality(B) = Cardinality(C)
    <3>1. f \in Injection(C, B)
      BY <1>1, <2>1 DEF Injection, IsInjective
    <3>2. f \in Surjection(C, B)
      BY DEF Surjection
    <3>3. ExistsBijection(C, B)
      BY <3>1, <3>2 DEF ExistsBijection, Bijection
    <3> HIDE DEF B, C
    <3> QED  BY <2>2, <3>3, FS_Bijection
  <2>4. A \cap B = {}
    BY <1>1, <2>1
  <2>5. S = A \cup B
    <3>1. ASSUME NEW i \in S PROVE i \in A \cup B
      <4>1. CASE i <= Len(p)
        BY <1>1, <2>1, <4>1
      <4>2. CASE ~(i <= Len(p))
        <5>1. i - Len(p) \in 1 .. k /\ i = Len(p) + (i - Len(p))
          BY <1>1, <2>1, <4>2
        <5>2. q[i - Len(p)] = x
          BY <1>1, <5>1
        <5> QED  BY <5>1, <5>2
      <4> QED  BY <4>1, <4>2
    <3>2. A \cup B \subseteq S
      BY <1>1, <2>1
    <3> QED  BY <3>1, <3>2
  <2> HIDE DEF A, B, C, S
  <2>6. Cardinality(A \cup B) = Cardinality(A) + Cardinality(B) - Cardinality(A \cap B)
    BY <2>2, <2>3, FS_Union
  <2>7. Cardinality(A \cap B) = 0 /\ Cardinality(A) \in Nat /\ Cardinality(B) \in Nat
    BY <2>2, <2>3, <2>4, FS_EmptySet, FS_CardinalityType
  <2>8. Cardinality(S) = Cardinality(A) + Cardinality(C)
    BY <2>3, <2>5, <2>6, <2>7
  <2> QED  BY <2>8 DEF Count, A, C, S, x
<1> QED
  BY <1>2, <1>3 DEF pq

\* A single operation.
LEMMA CountOne ==
  ASSUME NEW o \in Ops, NEW op, NEW l
  PROVE  /\ <<o>> \in Seq(Ops) /\ Len(<<o>>) = 1
         /\ Count(<<o>>, 0, op, l) = 0
         /\ Count(<<o>>, 1, op, l) = IF o = [op |-> op, mu |-> l] THEN 1 ELSE 0
<1> DEFINE S == {i \in 1 .. 1 : <<o>>[i] = [op |-> op, mu |-> l]}
<1>1. CASE o = [op |-> op, mu |-> l]
  <2>1. S = {1}
    BY <1>1
  <2>2. Cardinality({1}) = 1
    BY FS_Singleton
  <2> QED  BY <1>1, <2>1, <2>2, CountType DEF Count
<1>2. CASE o # [op |-> op, mu |-> l]
  <2>1. S = {}
    BY <1>2
  <2> QED  BY <1>2, <2>1, FS_EmptySet, CountType DEF Count
<1> QED
  BY <1>1, <1>2

\* A call's locks: never more unlocked than locked, and in the end all of them.
Balanced(p) ==
  /\ p \in Seq(Ops)
  /\ \A l \in Mutexes :
       /\ \A n \in 0 .. Len(p) : Count(p, n, "Unlock", l) <= Count(p, n, "Lock", l)
       /\ Count(p, Len(p), "Unlock", l) = Count(p, Len(p), "Lock", l)
       /\ Count(p, Len(p), "RUnlock", l) = Count(p, Len(p), "RLock", l)

\* What a call holds after n operations.
HeldIn(p, n, l) ==
  \/ Count(p, n, "RLock", l) > Count(p, n, "RUnlock", l)
  \/ Count(p, n, "Lock", l) > Count(p, n, "Unlock", l)

\* Whatever p asks for comes after m and after everything p holds then.
InOrder(p, m) ==
  \A n \in 0 .. Len(p) - 1, l \in Mutexes :
    p[n + 1] \in {RLock(l), Lock(l)} =>
      Rank(l) > m /\ \A k \in Mutexes : HeldIn(p, n, k) => Rank(k) < Rank(l)

\* A place in a concatenation is in the first part or in the second one.
LEMMA PlaceInConcat ==
  ASSUME NEW a \in Nat, NEW b \in Nat, NEW n \in 0 .. a + b
  PROVE  n \in 0 .. a \/ \E k \in 0 .. b : n = a + k
<1>1. CASE n <= a
  BY <1>1
<1>2. CASE n > a
  <2>1. n - a \in 0 .. b /\ n = a + (n - a)
    BY <1>2
  <2> QED  BY <2>1
<1> QED  BY <1>1, <1>2

\* One balanced part after the other.
LEMMA BalancedConcat ==
  ASSUME NEW p, NEW q, Balanced(p), Balanced(q)
  PROVE  Balanced(p \o q)
<1>1. p \in Seq(Ops) /\ q \in Seq(Ops)
  BY DEF Balanced
<1>2. /\ p \o q \in Seq(Ops) /\ Len(p) \in Nat /\ Len(q) \in Nat /\ Len(p \o q) = Len(p) + Len(q)
  BY <1>1, ConcatAt
<1> DEFINE pq == p \o q
<1>3. \A op, l : /\ \A n \in 0 .. Len(p) : Count(pq, n, op, l) = Count(p, n, op, l)
                 /\ \A k \in 0 .. Len(q) :
                      Count(pq, Len(p) + k, op, l) = Count(p, Len(p), op, l) + Count(q, k, op, l)
  BY <1>1, CountConcat
<1>4. \A op, l : \A n \in Nat : Count(p, n, op, l) \in Nat /\ Count(q, n, op, l) \in Nat
  BY CountType
<1> HIDE DEF pq
<1>5. ASSUME NEW l \in Mutexes, NEW n \in 0 .. Len(pq)
      PROVE  Count(pq, n, "Unlock", l) <= Count(pq, n, "Lock", l)
  <2>1. CASE n \in 0 .. Len(p)
    <3>1. Count(p, n, "Unlock", l) <= Count(p, n, "Lock", l)
      BY <2>1 DEF Balanced
    <3> QED  BY <1>3, <2>1, <3>1
  <2>2. ASSUME NEW k \in 0 .. Len(q), n = Len(p) + k
        PROVE  Count(pq, n, "Unlock", l) <= Count(pq, n, "Lock", l)
    <3>1. /\ Count(p, Len(p), "Unlock", l) = Count(p, Len(p), "Lock", l)
          /\ Count(q, k, "Unlock", l) <= Count(q, k, "Lock", l)
      BY <2>2 DEF Balanced
    <3>2. /\ Count(pq, n, "Unlock", l) = Count(p, Len(p), "Unlock", l) + Count(q, k, "Unlock", l)
          /\ Count(pq, n, "Lock", l) = Count(p, Len(p), "Lock", l) + Count(q, k, "Lock", l)
      BY <1>3, <2>2
    <3>3. /\ Count(p, Len(p), "Unlock", l) \in Nat /\ Count(q, k, "Unlock", l) \in Nat
          /\ Count(q, k, "Lock", l) \in Nat
      BY <1>2, <1>4, <2>2
    <3> QED  BY <3>1, <3>2, <3>3
  <2>3. n \in 0 .. Len(p) \/ \E k \in 0 .. Len(q) : n = Len(p) + k
    <3>1. n \in 0 .. Len(p) + Len(q) /\ Len(p) \in Nat /\ Len(q) \in Nat
      BY <1>2 DEF pq
    <3> QED  BY <3>1, PlaceInConcat
  <2> QED  BY <2>1, <2>2, <2>3
<1>6. ASSUME NEW l \in Mutexes
      PROVE  /\ Count(pq, Len(pq), "Unlock", l) = Count(pq, Len(pq), "Lock", l)
             /\ Count(pq, Len(pq), "RUnlock", l) = Count(pq, Len(pq), "RLock", l)
  <2>1. Len(q) \in 0 .. Len(q) /\ Len(pq) = Len(p) + Len(q)
    BY <1>2 DEF pq
  <2>2. \A op : Count(pq, Len(pq), op, l) = Count(p, Len(p), op, l) + Count(q, Len(q), op, l)
    BY <1>3, <2>1
  <2> QED  BY <2>2 DEF Balanced
<1> QED
  BY <1>2, <1>5, <1>6 DEF Balanced, pq

\* One orderly part after the other: the first one has left nothing locked.
LEMMA InOrderConcat ==
  ASSUME NEW p, NEW q, Balanced(p), Balanced(q), NEW m, InOrder(p, m), InOrder(q, m)
  PROVE  InOrder(p \o q, m)
<1>1. p \in Seq(Ops) /\ q \in Seq(Ops)
  BY DEF Balanced
<1> DEFINE pq == p \o q
<1>2. /\ Len(p) \in Nat /\ Len(q) \in Nat /\ Len(pq) = Len(p) + Len(q)
      /\ \A i \in 1 .. Len(p) : pq[i] = p[i]
      /\ \A i \in 1 .. Len(q) : pq[Len(p) + i] = q[i]
  BY <1>1, ConcatAt
<1>3. \A op, l : /\ \A n \in 0 .. Len(p) : Count(pq, n, op, l) = Count(p, n, op, l)
                 /\ \A k \in 0 .. Len(q) :
                      Count(pq, Len(p) + k, op, l) = Count(p, Len(p), op, l) + Count(q, k, op, l)
  BY <1>1, CountConcat
<1>4. \A op, l : \A n \in Nat : Count(p, n, op, l) \in Nat /\ Count(q, n, op, l) \in Nat
  BY CountType
<1> HIDE DEF pq
<1>5. \A n \in 0 .. Len(p), k \in Mutexes : HeldIn(pq, n, k) <=> HeldIn(p, n, k)
  BY <1>3 DEF HeldIn
<1>6. ASSUME NEW n \in 0 .. Len(q), NEW k \in Mutexes PROVE HeldIn(pq, Len(p) + n, k) <=> HeldIn(q, n, k)
  <2>1. \A op : Count(pq, Len(p) + n, op, k) = Count(p, Len(p), op, k) + Count(q, n, op, k)
    BY <1>3
  <2>2. \A op : Count(p, Len(p), op, k) \in Nat /\ Count(q, n, op, k) \in Nat
    BY <1>2, <1>4
  <2>3. /\ Count(p, Len(p), "Unlock", k) = Count(p, Len(p), "Lock", k)
        /\ Count(p, Len(p), "RUnlock", k) = Count(p, Len(p), "RLock", k)
    BY DEF Balanced
  <2> QED  BY <2>1, <2>2, <2>3 DEF HeldIn
<1>7. ASSUME NEW n \in 0 .. Len(pq) - 1, NEW l \in Mutexes, pq[n + 1] \in {RLock(l), Lock(l)}
      PROVE  Rank(l) > m /\ \A k \in Mutexes : HeldIn(pq, n, k) => Rank(k) < Rank(l)
  <2>1. CASE n < Len(p)
    <3>1. n \in 0 .. Len(p) - 1 /\ n \in 0 .. Len(p) /\ pq[n + 1] = p[n + 1]
      BY <1>2, <2>1
    <3> QED  BY <1>5, <1>7, <3>1 DEF InOrder
  <2>2. CASE ~(n < Len(p))
    <3> DEFINE i == n - Len(p)
    <3>1. i \in 0 .. Len(q) - 1 /\ i \in 0 .. Len(q) /\ n = Len(p) + i /\ i + 1 \in 1 .. Len(q)
      BY <1>2, <2>2
    <3>2. n + 1 = Len(p) + (i + 1)
      BY <1>2, <2>2
    <3>3. pq[n + 1] = q[i + 1]
      BY <1>2, <3>1, <3>2
    <3> HIDE DEF i
    <3>4. Rank(l) > m /\ \A k \in Mutexes : HeldIn(q, i, k) => Rank(k) < Rank(l)
      BY <1>7, <3>1, <3>3 DEF InOrder
    <3> QED  BY <1>6, <3>1, <3>4
  <2> QED  BY <2>1, <2>2
<1> QED
  BY <1>7 DEF InOrder, pq

\* Nothing at all.
LEMMA NothingBalanced == Balanced(<<>>) /\ \A m : InOrder(<<>>, m)
<1>1. <<>> \in Seq(Ops) /\ Len(<<>>) = 0
  OBVIOUS
<1>2. \A op, l : Count(<<>>, 0, op, l) = 0
  BY CountType
<1> QED
  BY <1>1, <1>2 DEF Balanced, InOrder

\* How often a single operation is [op, l].
Is(o, op, l) == IF o = [op |-> op, mu |-> l] THEN 1 ELSE 0

\* A section.
Around(o, body, z) == <<o>> \o body \o <<z>>

\* The operations of a section: what opens it, its body, and what closes it.
LEMMA AroundAt ==
  ASSUME NEW body \in Seq(Ops), NEW o \in Ops, NEW z \in Ops
  PROVE  /\ Around(o, body, z) \in Seq(Ops) /\ Len(body) \in Nat /\ Len(Around(o, body, z)) = Len(body) + 2
         /\ Around(o, body, z)[1] = o /\ Around(o, body, z)[Len(body) + 2] = z
         /\ \A i \in 1 .. Len(body) : Around(o, body, z)[1 + i] = body[i]
<1> DEFINE a == <<o>>
           c == <<z>>
           ab == a \o body
           p == Around(o, body, z)
<1>1. a \in Seq(Ops) /\ c \in Seq(Ops) /\ Len(a) = 1 /\ Len(c) = 1 /\ a[1] = o /\ c[1] = z
  OBVIOUS
<1> HIDE DEF a, c
<1>2. /\ ab \in Seq(Ops) /\ Len(body) \in Nat /\ Len(ab) = 1 + Len(body)
      /\ ab[1] = o
      /\ \A i \in 1 .. Len(body) : ab[1 + i] = body[i]
  <2>1. /\ ab \in Seq(Ops) /\ Len(body) \in Nat /\ Len(ab) = Len(a) + Len(body)
        /\ \A i \in 1 .. Len(a) : ab[i] = a[i]
        /\ \A i \in 1 .. Len(body) : ab[Len(a) + i] = body[i]
    BY <1>1, ConcatAt
  <2> HIDE DEF ab
  <2> QED  BY <1>1, <2>1
<1> HIDE DEF ab
<1>3. p = ab \o c
  BY DEF ab, a, c, Around
<1> HIDE DEF p
<1>4. /\ p \in Seq(Ops) /\ Len(p) = Len(body) + 2
      /\ p[1] = o /\ p[Len(body) + 2] = z
      /\ \A i \in 1 .. Len(body) : p[1 + i] = body[i]
  <2>1. /\ p \in Seq(Ops) /\ Len(p) = Len(ab) + Len(c)
        /\ \A i \in 1 .. Len(ab) : p[i] = ab[i]
        /\ \A i \in 1 .. Len(c) : p[Len(ab) + i] = c[i]
    <3>1. ab \in Seq(Ops) /\ c \in Seq(Ops)
      BY <1>1, <1>2
    <3>2. /\ ab \o c \in Seq(Ops) /\ Len(ab \o c) = Len(ab) + Len(c)
          /\ \A i \in 1 .. Len(ab) : (ab \o c)[i] = ab[i]
          /\ \A i \in 1 .. Len(c) : (ab \o c)[Len(ab) + i] = c[i]
      BY <3>1, ConcatAt
    <3> QED  BY <1>3, <3>2
  <2>2. Len(p) = Len(body) + 2
    BY <1>1, <1>2, <2>1
  <2>3. p[1] = o
    BY <1>2, <2>1
  <2>4. p[Len(body) + 2] = z
    <3>1. p[Len(ab) + 1] = z
      BY <1>1, <2>1
    <3>2. Len(ab) + 1 = Len(body) + 2
      BY <1>2
    <3> QED  BY <3>1, <3>2
  <2>5. \A i \in 1 .. Len(body) : p[1 + i] = body[i]
    BY <1>2, <2>1
  <2> QED  BY <2>1, <2>2, <2>3, <2>4, <2>5
<1> QED
  BY <1>2, <1>4 DEF p

\* Counting in a section.
LEMMA CountAround ==
  ASSUME NEW body \in Seq(Ops), NEW o \in Ops, NEW z \in Ops, NEW op, NEW l
  PROVE  /\ Count(Around(o, body, z), 0, op, l) = 0
         /\ \A i \in 0 .. Len(body) : Count(Around(o, body, z), 1 + i, op, l) = Is(o, op, l) + Count(body, i, op, l)
         /\ Count(Around(o, body, z), Len(body) + 2, op, l)
              = Is(o, op, l) + Count(body, Len(body), op, l) + Is(z, op, l)
<1> DEFINE a == <<o>>
           c == <<z>>
           ab == a \o body
           p == Around(o, body, z)
<1>1. a \in Seq(Ops) /\ c \in Seq(Ops) /\ Len(a) = 1 /\ Len(c) = 1 /\ a[1] = o /\ c[1] = z
  OBVIOUS
<1>2. /\ Count(a, 0, op, l) = 0 /\ Count(a, 1, op, l) = Is(o, op, l)
      /\ Count(c, 0, op, l) = 0 /\ Count(c, 1, op, l) = Is(z, op, l)
  BY CountOne DEF Is
<1> HIDE DEF a, c
<1>3. /\ ab \in Seq(Ops) /\ Len(body) \in Nat /\ Len(ab) = 1 + Len(body)
      /\ ab[1] = o
      /\ \A i \in 1 .. Len(body) : ab[1 + i] = body[i]
  <2>1. /\ ab \in Seq(Ops) /\ Len(body) \in Nat /\ Len(ab) = Len(a) + Len(body)
        /\ \A i \in 1 .. Len(a) : ab[i] = a[i]
        /\ \A i \in 1 .. Len(body) : ab[Len(a) + i] = body[i]
    BY <1>1, ConcatAt
  <2> HIDE DEF ab
  <2> QED  BY <1>1, <2>1
<1>4. \A i \in 0 .. Len(body) : Count(ab, 1 + i, op, l) = Is(o, op, l) + Count(body, i, op, l)
  <2>1. \A i \in 0 .. Len(body) :
          Count(ab, Len(a) + i, op, l) = Count(a, Len(a), op, l) + Count(body, i, op, l)
    <3>1. a \in Seq(Ops) /\ body \in Seq(Ops)
      BY <1>1
    <3> QED  BY <3>1, CountConcat
  <2> HIDE DEF ab
  <2> QED  BY <1>1, <1>2, <2>1
<1> HIDE DEF ab
<1>5. p = ab \o c
  BY DEF ab, a, c, Around
<1> HIDE DEF p
<1>6. /\ \A n \in 0 .. Len(ab) : Count(p, n, op, l) = Count(ab, n, op, l)
      /\ \A k \in 0 .. Len(c) : Count(p, Len(ab) + k, op, l) = Count(ab, Len(ab), op, l) + Count(c, k, op, l)
  <2>1. ab \in Seq(Ops) /\ c \in Seq(Ops)
    BY <1>1, <1>3
  <2>2. /\ \A n \in 0 .. Len(ab) : Count(ab \o c, n, op, l) = Count(ab, n, op, l)
        /\ \A k \in 0 .. Len(c) :
             Count(ab \o c, Len(ab) + k, op, l) = Count(ab, Len(ab), op, l) + Count(c, k, op, l)
    BY <2>1, CountConcat
  <2> QED  BY <1>5, <2>2
<1>7. Count(p, 0, op, l) = 0
  BY CountType
<1>8. \A i \in 0 .. Len(body) : Count(p, 1 + i, op, l) = Is(o, op, l) + Count(body, i, op, l)
  BY <1>3, <1>4, <1>6
<1>9. Count(p, Len(ab) + 1, op, l) = Count(ab, Len(ab), op, l) + Is(z, op, l)
  <2>1. 1 \in 0 .. Len(c)
    BY <1>1
  <2>2. Count(p, Len(ab) + 1, op, l) = Count(ab, Len(ab), op, l) + Count(c, 1, op, l)
    BY <1>6, <2>1
  <2> QED  BY <1>2, <2>2
<1>10. Count(ab, Len(ab), op, l) = Is(o, op, l) + Count(body, Len(body), op, l)
  BY <1>3, <1>4
<1>11. Len(ab) + 1 = Len(body) + 2
  BY <1>3
<1> QED  BY <1>7, <1>8, <1>9, <1>10, <1>11 DEF p

\* What opens and what closes a section.
Section(o, z, l) == (o = Lock(l) /\ z = Unlock(l)) \/ (o = RLock(l) /\ z = RUnlock(l))

\* A section around a balanced body is balanced, and in order if its body is and
\* asks for later locks only.
LEMMA AroundGood ==
  ASSUME NEW body, Balanced(body), NEW l \in Mutexes, NEW o, NEW z, Section(o, z, l)
  PROVE  /\ Balanced(Around(o, body, z))
         /\ \A m \in 0 .. 8 : Rank(l) > m /\ InOrder(body, Rank(l)) => InOrder(Around(o, body, z), m)
<1> DEFINE p == Around(o, body, z)
           L == Len(body)
<1>1. body \in Seq(Ops) /\ o \in Ops /\ z \in Ops /\ L \in Nat
  BY DEF Balanced, Section, Lock, Unlock, RLock, RUnlock, Ops
<1>2. /\ p \in Seq(Ops) /\ Len(p) = L + 2 /\ p[1] = o /\ p[L + 2] = z
      /\ \A i \in 1 .. L : p[1 + i] = body[i]
  BY <1>1, AroundAt
<1>3. ASSUME NEW op, NEW k
      PROVE  /\ Count(p, 0, op, k) = 0
             /\ \A i \in 0 .. L : Count(p, 1 + i, op, k) = Is(o, op, k) + Count(body, i, op, k)
             /\ Count(p, L + 2, op, k) = Is(o, op, k) + Count(body, L, op, k) + Is(z, op, k)
  BY <1>1, CountAround
<1>4. \A op, k : \A i \in Nat : Count(body, i, op, k) \in Nat
  BY CountType
<1>5. \A k : /\ Is(o, "Unlock", k) = 0 /\ Is(o, "RUnlock", k) = 0
             /\ Is(z, "Lock", k) = 0 /\ Is(z, "RLock", k) = 0
             /\ Is(z, "Unlock", k) = Is(o, "Lock", k) /\ Is(z, "RUnlock", k) = Is(o, "RLock", k)
             /\ Is(o, "Lock", k) \in {0, 1} /\ Is(o, "RLock", k) \in {0, 1}
             /\ k # l => Is(o, "Lock", k) = 0 /\ Is(o, "RLock", k) = 0
  BY DEF Is, Section, Lock, Unlock, RLock, RUnlock
<1> HIDE DEF p, L
<1>6. \A n \in 0 .. Len(p) : n = 0 \/ n = L + 2 \/ \E i \in 0 .. L : n = 1 + i
  <2> SUFFICES ASSUME NEW n \in 0 .. L + 2, n # 0, n # L + 2 PROVE \E i \in 0 .. L : n = 1 + i
    BY <1>2
  <2>1. n - 1 \in 0 .. L /\ n = 1 + (n - 1)
    BY <1>1
  <2> QED  BY <2>1
<1>7. \A k \in Mutexes : /\ \A i \in 0 .. L : Count(body, i, "Unlock", k) <= Count(body, i, "Lock", k)
                         /\ Count(body, L, "Unlock", k) = Count(body, L, "Lock", k)
                         /\ Count(body, L, "RUnlock", k) = Count(body, L, "RLock", k)
  BY DEF Balanced, L
<1>8. ASSUME NEW k \in Mutexes
      PROVE  /\ Count(p, Len(p), "Unlock", k) = Count(p, Len(p), "Lock", k)
             /\ Count(p, Len(p), "RUnlock", k) = Count(p, Len(p), "RLock", k)
  <2>1. \A op : Count(p, Len(p), op, k) = Is(o, op, k) + Count(body, L, op, k) + Is(z, op, k)
    BY <1>2, <1>3
  <2>2. \A op : Count(body, L, op, k) \in Nat
    BY <1>1, <1>4
  <2> QED  BY <1>5, <1>7, <2>1, <2>2
<1>9. ASSUME NEW k \in Mutexes, NEW n \in 0 .. Len(p)
      PROVE  Count(p, n, "Unlock", k) <= Count(p, n, "Lock", k)
  <2>1. CASE n = 0
    BY <1>3, <2>1
  <2>2. CASE n = L + 2
    <3>0. n \in Nat
      BY <1>1, <2>2
    <3>1. Count(p, n, "Lock", k) \in Nat
      BY <3>0, CountType
    <3> QED  BY <1>2, <1>8, <2>2, <3>1
  <2>3. ASSUME NEW i \in 0 .. L, n = 1 + i PROVE Count(p, n, "Unlock", k) <= Count(p, n, "Lock", k)
    <3>1. \A op : Count(p, n, op, k) = Is(o, op, k) + Count(body, i, op, k)
      BY <1>3, <2>3
    <3>2. \A op : Count(body, i, op, k) \in Nat
      BY <1>1, <1>4
    <3>3. Count(body, i, "Unlock", k) <= Count(body, i, "Lock", k)
      BY <1>7
    <3> QED  BY <1>5, <3>1, <3>2, <3>3
  <2> QED  BY <1>6, <2>1, <2>2, <2>3
<1>10. Balanced(p)
  BY <1>2, <1>8, <1>9 DEF Balanced
<1>11. ASSUME NEW m \in 0 .. 8, Rank(l) > m, InOrder(body, Rank(l)) PROVE InOrder(p, m)
  <2> SUFFICES ASSUME NEW n \in 0 .. Len(p) - 1, NEW j \in Mutexes, p[n + 1] \in {RLock(j), Lock(j)}
               PROVE  Rank(j) > m /\ \A k \in Mutexes : HeldIn(p, n, k) => Rank(k) < Rank(j)
    BY DEF InOrder
  <2>1. CASE n = 0
    <3>1. j = l
      BY <1>2, <2>1 DEF Section, Lock, RLock
    <3>2. \A k \in Mutexes : ~HeldIn(p, n, k)
      BY <1>3, <2>1 DEF HeldIn
    <3> QED  BY <1>11, <3>1, <3>2
  <2>2. CASE n = L + 1
    <3>1. p[n + 1] = z
      BY <1>1, <1>2, <2>2
    <3> QED  BY <3>1 DEF Section, Lock, RLock, Unlock, RUnlock
  <2>3. ASSUME NEW i \in 0 .. L - 1, n = 1 + i
        PROVE  Rank(j) > m /\ \A k \in Mutexes : HeldIn(p, n, k) => Rank(k) < Rank(j)
    <3>1. n + 1 = 1 + (i + 1) /\ i + 1 \in 1 .. L /\ i \in 0 .. L /\ i \in Nat
      BY <1>1, <2>3
    <3>2. p[n + 1] = body[i + 1]
      BY <1>2, <3>1
    <3>3. Rank(j) > Rank(l) /\ \A k \in Mutexes : HeldIn(body, i, k) => Rank(k) < Rank(j)
      BY <1>11, <3>2 DEF InOrder, L
    <3>4. ASSUME NEW k \in Mutexes, HeldIn(p, n, k), k # l PROVE HeldIn(body, i, k)
      <4>1. \A op : Count(p, n, op, k) = Is(o, op, k) + Count(body, i, op, k)
        BY <1>3, <2>3, <3>1
      <4>2. \A op : Count(body, i, op, k) \in Nat
        BY <1>4, <3>1
      <4> QED  BY <1>5, <3>4, <4>1, <4>2 DEF HeldIn
    <3>5. Rank(l) \in 1 .. 8 /\ Rank(j) \in 1 .. 8
      BY RankType
    <3> QED  BY <1>11, <3>3, <3>4, <3>5
  <2>4. n = 0 \/ n = L + 1 \/ \E i \in 0 .. L - 1 : n = 1 + i
    <3> SUFFICES ASSUME n # 0, n # L + 1 PROVE \E i \in 0 .. L - 1 : n = 1 + i
      OBVIOUS
    <3>1. n - 1 \in 0 .. L - 1 /\ n = 1 + (n - 1)
      BY <1>1, <1>2
    <3> QED  BY <3>1
  <2> QED  BY <2>1, <2>2, <2>3, <2>4
<1> QED
  BY <1>10, <1>11 DEF p

\* Reading and writing sections, around a body or around nothing.
LEMMA SectionsGood ==
  ASSUME NEW l \in Mutexes
  PROVE  /\ \A body : Balanced(body) => Balanced(Reading(l, body)) /\ Balanced(Writing(l, body))
         /\ Balanced(Read(l)) /\ Balanced(Write(l))
         /\ \A body : \A m \in 0 .. 8 : Balanced(body) /\ Rank(l) > m /\ InOrder(body, Rank(l)) =>
              InOrder(Reading(l, body), m) /\ InOrder(Writing(l, body), m)
         /\ \A m \in 0 .. 8 : Rank(l) > m => InOrder(Read(l), m) /\ InOrder(Write(l), m)
<1>1. ASSUME NEW body, Balanced(body)
      PROVE  /\ Balanced(Reading(l, body)) /\ Balanced(Writing(l, body))
             /\ \A m \in 0 .. 8 : Rank(l) > m /\ InOrder(body, Rank(l)) =>
                  InOrder(Reading(l, body), m) /\ InOrder(Writing(l, body), m)
  <2>1. Section(RLock(l), RUnlock(l), l) /\ Section(Lock(l), Unlock(l), l)
    BY DEF Section
  <2>2. /\ Reading(l, body) = Around(RLock(l), body, RUnlock(l))
        /\ Writing(l, body) = Around(Lock(l), body, Unlock(l))
    BY DEF Reading, Writing, Around
  <2>3. /\ Balanced(Around(RLock(l), body, RUnlock(l)))
        /\ \A m \in 0 .. 8 : Rank(l) > m /\ InOrder(body, Rank(l)) => InOrder(Around(RLock(l), body, RUnlock(l)), m)
    BY <1>1, <2>1, AroundGood
  <2>4. /\ Balanced(Around(Lock(l), body, Unlock(l)))
        /\ \A m \in 0 .. 8 : Rank(l) > m /\ InOrder(body, Rank(l)) => InOrder(Around(Lock(l), body, Unlock(l)), m)
    BY <1>1, <2>1, AroundGood
  <2> QED  BY <2>2, <2>3, <2>4
<1>2. Read(l) = Reading(l, <<>>) /\ Write(l) = Writing(l, <<>>)
  BY DEF Read, Write
<1> QED
  BY <1>1, <1>2, NothingBalanced

\* Every call unlocks what it has locked.
LEMMA ProgramsBalanced ==
  ASSUME NEW c \in Calls
  PROVE  Balanced(Program(c))
<1>1. /\ \A p, q : Balanced(p) /\ Balanced(q) => Balanced(p \o q)
      /\ \A l \in Mutexes : \A p : Balanced(p) => Balanced(Reading(l, p)) /\ Balanced(Writing(l, p))
      /\ \A l \in Mutexes : Balanced(Read(l)) /\ Balanced(Write(l))
  BY BalancedConcat, SectionsGood
<1>2. /\ {"ChainMu", "sm.mu", "ChallengeMu", "vm.mu"} \subseteq Mutexes
      /\ {"shard0.mu", "shard1.mu", "db0.mu", "db1.mu"} \subseteq Mutexes
      /\ \A i : ShardMu(i) \in Mutexes /\ DbMu(i) \in Mutexes
  BY DEF Mutexes, ShardMu, DbMu
<1>3. /\ Balanced(SelectDelegateWithVRF) /\ Balanced(FinalizeBlockDBFT)
      /\ Balanced(UpdateReputation) /\ Balanced(MonitorAdversarialBehavior)
  BY <1>1, <1>2 DEF SelectDelegateWithVRF, FinalizeBlockDBFT, UpdateReputation, MonitorAdversarialBehavior
<1>4. \A i : /\ Balanced(GetStateRoot(i)) /\ Balanced(PruneChain(i))
             /\ Balanced(AddTransaction(i)) /\ Balanced(TwoPhaseCommit(i))
  BY <1>1, <1>2 DEF GetStateRoot, PruneChain, AddTransaction, TwoPhaseCommit
<1>5. \A i : Balanced(ApplyStateChanges(i))
  BY <1>1, <1>2, <1>4 DEF ApplyStateChanges
<1>6. \A i : Balanced(MineShardBlock(i))
  BY <1>1, <1>2, <1>3, <1>4, <1>5 DEF MineShardBlock
<1>7. Balanced(CheckAndManageShards) /\ Balanced(APIBlockchain)
  BY <1>1, <1>2 DEF CheckAndManageShards, APIBlockchain
<1>8. Balanced(PrintReport) /\ Balanced(Authenticate)
  BY <1>1, <1>2, <1>3, <1>4 DEF PrintReport, Authenticate
<1> QED
  BY <1>3, <1>4, <1>6, <1>7, <1>8, LocksAssumption DEF Program

\* The calls outside KnownNesting ask for their locks in the order of the ranks.
LEMMA OthersInOrder ==
  ASSUME NEW c \in Calls, c \notin KnownNesting
  PROVE  InOrder(Program(c), 0)
<1> DEFINE Good(p, m) == Balanced(p) /\ InOrder(p, m)
<1>1. \A m, p, q : Good(p, m) /\ Good(q, m) => Good(p \o q, m)
  BY BalancedConcat, InOrderConcat
<1>2. ASSUME NEW l \in Mutexes, NEW m \in 0 .. 8, Rank(l) > m
      PROVE  /\ Good(Read(l), m) /\ Good(Write(l), m)
             /\ \A p : Good(p, Rank(l)) => Good(Reading(l, p), m) /\ Good(Writing(l, p), m)
  BY <1>2, SectionsGood
<1>3. /\ Rank("ChainMu") = 1 /\ Rank("sm.mu") = 2 /\ Rank("shard0.mu") = 3 /\ Rank("shard1.mu") = 4
      /\ Rank("db0.mu") = 5 /\ Rank("db1.mu") = 6 /\ Rank("ChallengeMu") = 7 /\ Rank("vm.mu") = 8
  BY DEF Rank
<1> HIDE DEF Good
<1>4. ASSUME NEW m \in 0 .. 4
      PROVE  Good(Read("db0.mu"), m) /\ Good(Write("db0.mu"), m) /\ Good(Read("db1.mu"), m) /\ Good(Write("db1.mu"), m)
  BY <1>2, <1>3 DEF Mutexes
<1>5. ASSUME NEW m \in 0 .. 1 PROVE Good(Read("sm.mu"), m) /\ Good(Read("vm.mu"), m)
  BY <1>2, <1>3 DEF Mutexes
<1>6. Good(AddTransaction(0), 0) /\ Good(AddTransaction(1), 0)
  <2>1. Good(Write("shard0.mu"), 0) /\ Good(Write("shard1.mu"), 0)
    BY <1>2, <1>3 DEF Mutexes
  <2> QED  BY <1>1, <1>5, <2>1 DEF AddTransaction, ShardMu
<1>7. Good(CheckAndManageShards, 0)
  <2> DEFINE body == Read("db1.mu") \o Write("db0.mu") \o Write("db1.mu") \o Read("db0.mu")
  <2>1. Good(body, 4)
    BY <1>1, <1>4
  <2> HIDE DEF body
  <2>2. Good(Writing("shard1.mu", body), 3)
    BY <1>2, <1>3, <2>1 DEF Mutexes
  <2>3. Good(Writing("shard0.mu", Writing("shard1.mu", body)), 2)
    BY <1>2, <1>3, <2>2 DEF Mutexes
  <2>4. Good(Writing("sm.mu", Writing("shard0.mu", Writing("shard1.mu", body))), 0)
    BY <1>2, <1>3, <2>3 DEF Mutexes
  <2> QED  BY <2>4 DEF CheckAndManageShards, body
<1>8. Good(APIBlockchain, 0)
  <2> DEFINE body == Read("sm.mu") \o Read("db0.mu") \o Read("db1.mu") \o Read("vm.mu")
  <2>1. Good(body, 1)
    BY <1>1, <1>4, <1>5
  <2> HIDE DEF body
  <2>2. Good(Reading("ChainMu", body), 0)
    BY <1>2, <1>3, <2>1 DEF Mutexes
  <2> QED  BY <2>2 DEF APIBlockchain, body
<1>9. Good(Authenticate, 0)
  <2>1. Good(Write("ChallengeMu"), 0) /\ Good(Write("vm.mu"), 0)
    BY <1>2, <1>3 DEF Mutexes
  <2> QED  BY <1>1, <1>5, <2>1 DEF Authenticate, UpdateReputation
<1> QED
  BY <1>6, <1>7, <1>8, <1>9, LocksAssumption DEF Program, KnownNesting, Good

\* Calls unlock what they have locked, and end without a lock.
LEMMA CallsBalanced ==
  \A c \in Calls :
    /\ Programs[c] \in Seq(Ops)
    /\ \A n \in 0 .. Len(Programs[c]), l \in Mutexes :
         Times(c, n, "Unlock", l) <= Times(c, n, "Lock", l)
    /\ LET n == Len(Programs[c]) IN ReadLocked[c][n] = {} /\ WriteLocked[c][n] = {}
<1> SUFFICES ASSUME NEW c \in Calls
             PROVE  /\ Programs[c] \in Seq(Ops)
                    /\ \A n \in 0 .. Len(Programs[c]), l \in Mutexes :
                         Times(c, n, "Unlock", l) <= Times(c, n, "Lock", l)
                    /\ LET n == Len(Programs[c]) IN ReadLocked[c][n] = {} /\ WriteLocked[c][n] = {}
  OBVIOUS
<1> DEFINE p == Programs[c]
<1>1. Balanced(p)
  BY ProgramsBalanced DEF Programs
<1>2. \A n, op, l : Times(c, n, op, l) = Count(p, n, op, l)
  BY DEF Times, Count
<1>3. Len(p) \in Nat /\ p \in Seq(Ops)
  BY <1>1 DEF Balanced
<1>4. \A l \in Mutexes : /\ Times(c, Len(p), "RLock", l) \in Nat /\ Times(c, Len(p), "RLock", l) = Times(c, Len(p), "RUnlock", l)
                         /\ Times(c, Len(p), "Lock", l) \in Nat /\ Times(c, Len(p), "Lock", l) = Times(c, Len(p), "Unlock", l)
  <2>1. \A op, l : Count(p, Len(p), op, l) \in Nat
    BY <1>3, CountType
  <2> HIDE DEF p
  <2> QED  BY <1>1, <1>2, <2>1 DEF Balanced
<1>5. \A l \in Mutexes : /\ ~(Times(c, Len(p), "RLock", l) > Times(c, Len(p), "RUnlock", l))
                         /\ ~(Times(c, Len(p), "Lock", l) > Times(c, Len(p), "Unlock", l))
  <2> HIDE DEF p
  <2> QED  BY <1>4
<1>6. ReadLocked[c][Len(p)] = {} /\ WriteLocked[c][Len(p)] = {}
  BY <1>3, <1>5 DEF ReadLocked, WriteLocked
<1>7. \A n \in 0 .. Len(p), l \in Mutexes : Times(c, n, "Unlock", l) <= Times(c, n, "Lock", l)
  BY <1>1, <1>2 DEF Balanced
<1> QED
  BY <1>3, <1>6, <1>7

-----------------------------------------------------------------------------
\* One more operation counts once, if it is the one that is counted.
LEMMA TimesStep ==
  ASSUME NEW c \in Calls, NEW n \in 0 .. Len(Programs[c]) - 1, NEW op, NEW l
  PROVE  /\ Times(c, n, op, l) \in Nat
         /\ Programs[c][n + 1] = [op |-> op, mu |-> l] => Times(c, n + 1, op, l) = Times(c, n, op, l) + 1
         /\ Programs[c][n + 1] # [op |-> op, mu |-> l] => Times(c, n + 1, op, l) = Times(c, n, op, l)
<1> DEFINE S(m) == {i \in 1 .. m : Programs[c][i] = [op |-> op, mu |-> l]}
<1>1. Len(Programs[c]) \in Nat
  BY CallsBalanced
<1>2. n \in Nat /\ IsFiniteSet(1 .. n)
  BY <1>1, FS_Interval
<1>3. S(n) \subseteq 1 .. n
  OBVIOUS
<1>4. IsFiniteSet(S(n)) /\ Cardinality(S(n)) \in Nat
  <2> HIDE DEF S
  <2> QED BY <1>2, <1>3, FS_Subset, FS_CardinalityType
<1>5. CASE Programs[c][n + 1] = [op |-> op, mu |-> l]
  <2>1. S(n + 1) = S(n) \cup {n + 1} /\ n + 1 \notin S(n)
    BY <1>2, <1>5
  <2>2. Cardinality(S(n + 1)) = Cardinality(S(n)) + 1
    <3> HIDE DEF S
    <3> QED BY <2>1, <1>4, FS_AddElement
  <2> QED
    BY <1>4, <1>5, <2>2 DEF Times
<1>6. CASE Programs[c][n + 1] # [op |-> op, mu |-> l]
  <2>1. S(n + 1) = S(n)
    BY <1>2, <1>6
  <2> QED
    BY <1>4, <1>6, <2>1 DEF Times
<1> QED
  BY <1>5, <1>6

\* What one operation does to the locks held for writing.
LEMMA WriteLockedStep ==
  ASSUME NEW c \in Calls, NEW n \in 0 .. Len(Programs[c]) - 1, NEW l \in Mutexes
  PROVE  /\ Programs[c][n + 1] = Lock(l) => l \in WriteLocked[c][n + 1]
         /\ Programs[c][n + 1] # Lock(l) => (l \in WriteLocked[c][n + 1] => l \in WriteLocked[c][n])
         /\ Programs[c][n + 1] # Unlock(l) => (l \in WriteLocked[c][n] => l \in WriteLocked[c][n + 1])
<1> DEFINE up(m) == Times(c, m, "Lock", l)
           down(m) == Times(c, m, "Unlock", l)
<1>1. Len(Programs[c]) \in Nat
  BY CallsBalanced
<1>2. n \in 0 .. Len(Programs[c]) /\ n + 1 \in 0 .. Len(Programs[c])
  BY <1>1
<1>3. \A m \in 0 .. Len(Programs[c]) : l \in WriteLocked[c][m] <=> up(m) > down(m)
  BY DEF WriteLocked
<1>4. up(n) \in Nat /\ down(n) \in Nat /\ down(n) <= up(n)
  BY <1>2, TimesStep, CallsBalanced
<1>5. Lock(l) # Unlock(l)
  BY DEF Lock, Unlock
<1>6. /\ Programs[c][n + 1] = Lock(l) => up(n + 1) = up(n) + 1
      /\ Programs[c][n + 1] # Lock(l) => up(n + 1) = up(n)
      /\ Programs[c][n + 1] = Unlock(l) => down(n + 1) = down(n) + 1
      /\ Programs[c][n + 1] # Unlock(l) => down(n + 1) = down(n)
  BY TimesStep DEF Lock, Unlock
<1> HIDE DEF up, down
<1> QED
  BY <1>2, <1>3, <1>4, <1>5, <1>6

\* At its first operation a call holds no write lock.
LEMMA WriteLockedStart ==
  ASSUME NEW c \in Calls
  PROVE  WriteLocked[c][0] = {}
<1>1. Len(Programs[c]) \in Nat
  BY CallsBalanced
<1>2. \A op, l : Times(c, 0, op, l) = 0
  <2> SUFFICES ASSUME NEW op, NEW l PROVE Times(c, 0, op, l) = 0
    OBVIOUS
  <2>1. {i \in 1 .. 0 : Programs[c][i] = [op |-> op, mu |-> l]} = {}
    OBVIOUS
  <2> QED
    BY <2>1, FS_EmptySet DEF Times
<1> QED
  BY <1>1, <1>2 DEF WriteLocked

-----------------------------------------------------------------------------
(***************************************************************************)
(* The inductive invariant: a lock has one writer, a parked reader has a   *)
(* writer to wait for, and only who wants to write is announced.           *)
(***************************************************************************)
OneWriter ==
  \A l \in Mutexes, g, h \in Goroutines : WriterAt(g, l) /\ WriterAt(h, l) => g = h

ParkedHasWriter ==
  \A g \in parked : \E l \in Mutexes : Wants(g, "RLock", l) /\ WriterIn(l)

AnnouncedWants ==
  \A g \in announced : \E l \in Mutexes : Wants(g, "Lock", l)

LocksInv == LocksTypeOK /\ OneWriter /\ ParkedHasWriter /\ AnnouncedWants

\* A goroutine wants one thing at a time.
LEMMA WantsOne ==
  ASSUME NEW g, NEW op, NEW l, NEW op2, NEW l2, Wants(g, op, l), Wants(g, op2, l2)
  PROVE  op = op2 /\ l = l2
BY DEF Wants

\* Every lock is free and every call at its first operation.
LEMMA LocksInitInv == LocksInit => LocksInv
<1> SUFFICES ASSUME LocksInit PROVE LocksInv
  OBVIOUS
<1>1. LocksTypeOK
  BY CallsBalanced DEF LocksInit, LocksTypeOK, Prog
<1>2. \A g \in Goroutines, l \in Mutexes : ~WriterAt(g, l)
  BY WriteLockedStart DEF LocksInit, WriterAt, WriterOf
<1> QED
  BY <1>1, <1>2 DEF LocksInv, LocksInit, OneWriter, ParkedHasWriter, AnnouncedWants

\* A goroutine that does not move keeps what it wants and what it holds.
LEMMA StandsStill ==
  ASSUME NEW g, call'[g] = call[g], pos'[g] = pos[g]
  PROVE  /\ \A op, l : Wants(g, op, l)' <=> Wants(g, op, l)
         /\ \A l : WriterOf(g, l)' <=> WriterOf(g, l)
BY DEF Wants, Finished, NextOp, Prog, WriterOf

\* A goroutine that moves by one operation.
LEMMA Moves ==
  ASSUME LocksTypeOK, NEW g \in Goroutines, NEW op, NEW l \in Mutexes, Wants(g, op, l),
         call' = call, pos'[g] = pos[g] + 1
  PROVE  /\ pos[g] \in 0 .. Len(Prog(g)) - 1
         /\ op = "Lock" => WriterOf(g, l)'
         /\ \A k \in Mutexes : WriterOf(g, k)' => WriterOf(g, k) \/ (op = "Lock" /\ k = l)
         /\ \A k \in Mutexes : WriterOf(g, k) => WriterOf(g, k)' \/ (op = "Unlock" /\ k = l)
<1> DEFINE c == call[g]
           n == pos[g]
<1>1. c \in Calls /\ n \in Nat /\ n <= Len(Programs[c]) /\ Len(Programs[c]) \in Nat
  BY CallsBalanced DEF LocksTypeOK, Prog
<1>2. n \in 0 .. Len(Programs[c]) - 1 /\ Programs[c][n + 1] = [op |-> op, mu |-> l]
  BY <1>1 DEF Wants, Finished, NextOp, Prog
<1>3. \A k \in Mutexes : (Programs[c][n + 1] = Lock(k) <=> op = "Lock" /\ k = l)
                       /\ (Programs[c][n + 1] = Unlock(k) <=> op = "Unlock" /\ k = l)
  BY <1>2 DEF Lock, Unlock
<1>4. \A k \in Mutexes : /\ WriterOf(g, k) <=> k \in WriteLocked[c][n]
                        /\ WriterOf(g, k)' <=> k \in WriteLocked[c][n + 1]
  BY DEF WriterOf
<1>5. \A k \in Mutexes :
        /\ Programs[c][n + 1] = Lock(k) => k \in WriteLocked[c][n + 1]
        /\ Programs[c][n + 1] # Lock(k) => (k \in WriteLocked[c][n + 1] => k \in WriteLocked[c][n])
        /\ Programs[c][n + 1] # Unlock(k) => (k \in WriteLocked[c][n] => k \in WriteLocked[c][n + 1])
  BY <1>1, <1>2, WriteLockedStep
<1>6. pos[g] \in 0 .. Len(Prog(g)) - 1
  BY <1>2 DEF Prog
<1>7. op = "Lock" => WriterOf(g, l)'
  BY <1>3, <1>4, <1>5
<1>8. ASSUME NEW k \in Mutexes
      PROVE  /\ WriterOf(g, k)' => WriterOf(g, k) \/ (op = "Lock" /\ k = l)
             /\ WriterOf(g, k) => WriterOf(g, k)' \/ (op = "Unlock" /\ k = l)
  <2>1. call'[g] = c /\ pos'[g] = n + 1 /\ call[g] = c /\ pos[g] = n
    OBVIOUS
  <2>2. /\ k \in WriteLocked[c][n + 1] => k \in WriteLocked[c][n] \/ (op = "Lock" /\ k = l)
        /\ k \in WriteLocked[c][n] => k \in WriteLocked[c][n + 1] \/ (op = "Unlock" /\ k = l)
    BY <1>3, <1>5
  <2> HIDE DEF c, n
  <2> QED
    BY <2>1, <2>2 DEF WriterOf
<1> QED
  BY <1>6, <1>7, <1>8

\* What an action keeps of writers, shown goroutine by goroutine: no new writers,
\* except g for l.
LEMMA AdvanceInv ==
  ASSUME LocksInv, NEW g \in Goroutines, NEW op, NEW l \in Mutexes, Wants(g, op, l),
         op \in {"RLock", "RUnlock"}, Advance(g), g \notin parked,
         UNCHANGED <<announced, parked>>
  PROVE  LocksInv'
<1>1. /\ call' = call /\ pos'[g] = pos[g] + 1 /\ \A h \in Goroutines : h # g => pos'[h] = pos[h]
      /\ LocksTypeOK
  BY DEF Advance, LocksInv, LocksTypeOK
<1>2. g \notin announced
  BY WantsOne DEF LocksInv, AnnouncedWants
<1>3. \A h \in Goroutines, k \in Mutexes : WriterAt(h, k)' <=> WriterAt(h, k)
  BY <1>1, <1>2, StandsStill, Moves DEF WriterAt
<1>4. LocksTypeOK'
  BY <1>1, Moves, CallsBalanced DEF Advance, LocksTypeOK, Prog
<1>5. \A h \in Goroutines \ {g} : \A o, k : Wants(h, o, k)' <=> Wants(h, o, k)
  BY <1>1, StandsStill
<1>6. ParkedHasWriter'
  BY <1>3, <1>5, <1>1 DEF LocksInv, LocksTypeOK, ParkedHasWriter, WriterIn
<1>7. AnnouncedWants'
  BY <1>2, <1>5, <1>1 DEF LocksInv, LocksTypeOK, AnnouncedWants
<1> QED
  BY <1>3, <1>4, <1>6, <1>7 DEF LocksInv, OneWriter

\* A goroutine that starts to wait keeps the invariant.
LEMMA ParkInv ==
  ASSUME LocksInv, NEW g \in Goroutines, NEW l \in Mutexes, Wants(g, "RLock", l), WriterIn(l),
         parked' = parked \cup {g}, UNCHANGED <<call, pos, announced>>
  PROVE  LocksInv'
<1>1. /\ \A h \in Goroutines : \A o, k : Wants(h, o, k)' <=> Wants(h, o, k)
      /\ \A h \in Goroutines, k \in Mutexes : WriterAt(h, k)' <=> WriterAt(h, k)
  BY StandsStill DEF WriterAt
<1>2. \A k \in Mutexes : WriterIn(k)' <=> WriterIn(k)
  BY <1>1 DEF WriterIn
<1>3. LocksTypeOK'
  BY DEF LocksInv, LocksTypeOK, Prog
<1>4. OneWriter' /\ AnnouncedWants'
  BY <1>1 DEF LocksInv, LocksTypeOK, OneWriter, AnnouncedWants
<1>5. ParkedHasWriter'
  BY <1>1, <1>2 DEF LocksInv, LocksTypeOK, ParkedHasWriter
<1> QED
  BY <1>3, <1>4, <1>5 DEF LocksInv

\* So does a writer that announces itself to the readers.
LEMMA AnnounceInv ==
  ASSUME LocksInv, NEW g \in Goroutines, NEW l \in Mutexes, Announce(g, l)
  PROVE  LocksInv'
<1>1. /\ \A h \in Goroutines : \A o, k : Wants(h, o, k)' <=> Wants(h, o, k)
      /\ \A h \in Goroutines, k \in Mutexes : WriterOf(h, k)' <=> WriterOf(h, k)
  BY StandsStill DEF Announce
<1>2. \A h \in Goroutines, k \in Mutexes : WriterAt(h, k)' <=> WriterAt(h, k) \/ (h = g /\ k = l)
  BY <1>1, WantsOne DEF Announce, WriterAt
<1>3. LocksTypeOK'
  BY DEF LocksInv, LocksTypeOK, Prog, Announce
<1>4. OneWriter'
  BY <1>2 DEF LocksInv, OneWriter, Announce, WriterIn
<1>5. AnnouncedWants'
  BY <1>1 DEF LocksInv, LocksTypeOK, AnnouncedWants, Announce
<1>6. ParkedHasWriter'
  BY <1>1, <1>2 DEF LocksInv, LocksTypeOK, ParkedHasWriter, Announce, WriterIn
<1> QED
  BY <1>3, <1>4, <1>5, <1>6 DEF LocksInv

\* So does one that takes a lock.
LEMMA TakeLockInv ==
  ASSUME LocksInv, NEW g \in Goroutines, NEW l \in Mutexes, TakeLock(g, l)
  PROVE  LocksInv'
<1>1. /\ call' = call /\ pos'[g] = pos[g] + 1 /\ \A h \in Goroutines : h # g => pos'[h] = pos[h]
      /\ LocksTypeOK /\ Wants(g, "Lock", l) /\ g \in announced
      /\ announced' = announced \ {g} /\ parked' = parked
  BY DEF TakeLock, Advance, LocksInv, LocksTypeOK
<1>2. g \notin parked
  BY <1>1, WantsOne DEF LocksInv, ParkedHasWriter
<1>3. \A h \in Goroutines \ {g} : \A o, k : Wants(h, o, k)' <=> Wants(h, o, k)
  BY <1>1, StandsStill
<1>4. \A h \in Goroutines, k \in Mutexes : WriterAt(h, k)' <=> WriterAt(h, k)
  <2>1. ASSUME NEW k \in Mutexes PROVE WriterAt(g, k)' <=> WriterAt(g, k)
    BY <1>1, Moves, WantsOne DEF WriterAt
  <2>2. ASSUME NEW h \in Goroutines \ {g}, NEW k \in Mutexes
        PROVE  WriterAt(h, k)' <=> WriterAt(h, k)
    BY <1>1, StandsStill DEF WriterAt
  <2> QED
    BY <2>1, <2>2
<1>5. LocksTypeOK'
  BY <1>1, Moves, CallsBalanced DEF TakeLock, Advance, LocksTypeOK, Prog
<1>6. OneWriter'
  BY <1>4 DEF LocksInv, OneWriter
<1>7. AnnouncedWants'
  BY <1>1, <1>3 DEF LocksInv, LocksTypeOK, AnnouncedWants
<1>8. ParkedHasWriter'
  BY <1>1, <1>2, <1>3, <1>4 DEF LocksInv, LocksTypeOK, ParkedHasWriter, WriterIn
<1> QED
  BY <1>5, <1>6, <1>7, <1>8 DEF LocksInv

\* So does one that gives it back and hands it to those who wait.
LEMMA DoUnlockInv ==
  ASSUME LocksInv, NEW g \in Goroutines, NEW l \in Mutexes, DoUnlock(g, l)
  PROVE  LocksInv'
<1> DEFINE in == {h \in parked : Wants(h, "RLock", l)}
<1>1. /\ call' = call /\ \A h \in Goroutines : pos'[h] = IF h = g \/ h \in in THEN pos[h] + 1 ELSE pos[h]
      /\ LocksTypeOK /\ Wants(g, "Unlock", l)
      /\ announced' = announced /\ parked' = parked \ in
  BY DEF DoUnlock, LocksInv, LocksTypeOK
<1>2. g \notin announced /\ g \notin parked /\ \A h \in in : h \notin announced
  BY <1>1, WantsOne DEF LocksInv, ParkedHasWriter, AnnouncedWants
<1>3. \A h \in Goroutines : h # g /\ h \notin in => \A o, k : Wants(h, o, k)' <=> Wants(h, o, k)
  BY <1>1, StandsStill
<1>4. \A h \in Goroutines, k \in Mutexes :
        /\ WriterAt(h, k)' => WriterAt(h, k)
        /\ WriterAt(h, k) => WriterAt(h, k)' \/ k = l
  <2>1. ASSUME NEW k \in Mutexes
        PROVE  (WriterAt(g, k)' => WriterAt(g, k)) /\ (WriterAt(g, k) => WriterAt(g, k)' \/ k = l)
    BY <1>1, <1>2, Moves DEF WriterAt
  <2>2. ASSUME NEW h \in in, NEW k \in Mutexes PROVE WriterAt(h, k)' <=> WriterAt(h, k)
    <3>1. h \in Goroutines /\ Wants(h, "RLock", l) /\ h # g /\ pos'[h] = pos[h] + 1
      BY <1>1, <1>2 DEF LocksTypeOK
    <3> QED
      BY <1>1, <1>2, <3>1, Moves DEF WriterAt
  <2>3. ASSUME NEW h \in Goroutines, h # g, h \notin in, NEW k \in Mutexes
        PROVE  WriterAt(h, k)' <=> WriterAt(h, k)
    <3>1. pos'[h] = pos[h]
      BY <1>1, <2>3
    <3> QED
      BY <1>1, <3>1, StandsStill DEF WriterAt
  <2> QED
    BY <2>1, <2>2, <2>3
<1>5. LocksTypeOK'
  <2>1. ASSUME NEW h \in Goroutines PROVE pos'[h] \in Nat /\ pos'[h] <= Len(Prog(h))'
    <3>0. pos[h] \in Nat /\ pos[h] <= Len(Prog(h)) /\ Len(Prog(h)) \in Nat /\ Len(Prog(h))' = Len(Prog(h))
      BY <1>1, CallsBalanced DEF LocksTypeOK, Prog
    <3>1. CASE h = g \/ h \in in
      <4>1. pos'[h] = pos[h] + 1 /\ (Wants(h, "RLock", l) \/ Wants(h, "Unlock", l))
        BY <1>1, <3>1
      <4>2. pos[h] \in 0 .. Len(Prog(h)) - 1
        BY <1>1, <4>1, Moves
      <4> QED
        BY <3>0, <4>1, <4>2
    <3>2. CASE ~(h = g \/ h \in in)
      BY <1>1, <3>0, <3>2
    <3> QED
      BY <3>1, <3>2
  <2>2. pos' = [h \in Goroutines |-> pos'[h]]
    BY DEF DoUnlock
  <2> QED
    BY <1>1, <2>1, <2>2 DEF LocksTypeOK
<1>6. OneWriter'
  BY <1>4 DEF LocksInv, OneWriter
<1>7. AnnouncedWants'
  BY <1>1, <1>2, <1>3 DEF LocksInv, LocksTypeOK, AnnouncedWants
<1>8. ParkedHasWriter'
  <2> SUFFICES ASSUME NEW h \in parked' PROVE \E k \in Mutexes : (Wants(h, "RLock", k) /\ WriterIn(k))'
    BY DEF ParkedHasWriter
  <2>1. h \in Goroutines /\ h \in parked /\ h \notin in /\ h # g
    BY <1>1, <1>2 DEF LocksTypeOK
  <2>2. PICK k \in Mutexes : Wants(h, "RLock", k) /\ WriterIn(k)
    BY <2>1 DEF LocksInv, ParkedHasWriter
  <2>3. k # l
    BY <2>1, <2>2
  <2> QED
    BY <2>1, <2>2, <2>3, <1>3, <1>4 DEF WriterIn
<1> QED
  BY <1>5, <1>6, <1>7, <1>8 DEF LocksInv

\* Every step keeps the invariant.
LEMMA LocksNextInv == LocksInv /\ [LocksNext]_lockVars => LocksInv'
<1> SUFFICES ASSUME LocksInv, [LocksNext]_lockVars PROVE LocksInv'
  OBVIOUS
<1>1. ASSUME NEW g \in Goroutines, NEW l \in Mutexes, TryRLock(g, l) PROVE LocksInv'
  BY <1>1, AdvanceInv, ParkInv DEF TryRLock
<1>2. ASSUME NEW g \in Goroutines, NEW l \in Mutexes, DoRUnlock(g, l) PROVE LocksInv'
  <2>1. g \notin parked
    BY <1>2, WantsOne DEF LocksInv, ParkedHasWriter, DoRUnlock
  <2> QED
    BY <1>2, <2>1, AdvanceInv DEF DoRUnlock
<1>3. CASE UNCHANGED lockVars
  <2>1. /\ \A h, o, k : Wants(h, o, k)' <=> Wants(h, o, k)
        /\ \A h, k : WriterAt(h, k)' <=> WriterAt(h, k)
    BY <1>3, StandsStill DEF lockVars, WriterAt
  <2>2. \A k : WriterIn(k)' <=> WriterIn(k)
    BY <2>1 DEF WriterIn
  <2>3. LocksTypeOK'
    BY <1>3 DEF lockVars, LocksInv, LocksTypeOK, Prog
  <2> QED
    BY <1>3, <2>1, <2>2, <2>3 DEF lockVars, LocksInv, OneWriter, ParkedHasWriter, AnnouncedWants
<1> QED
  BY <1>1, <1>2, <1>3, AnnounceInv, TakeLockInv, DoUnlockInv DEF LocksNext, LockStep

\* A lock never has two writers, and whoever is parked has one to wait for.
THEOREM LocksInvariant == LocksSpec => []LocksInv
BY LocksInitInv, LocksNextInv, PTL DEF LocksSpec

-----------------------------------------------------------------------------
\* A set of ranks has a largest one.
LEMMA LargestRank ==
  ASSUME NEW R \in SUBSET (1 .. 8), R # {}
  PROVE  \E m \in R : \A k \in R : k <= m
<1> SUFFICES ASSUME \A m \in R : \E k \in R : k > m PROVE FALSE
  OBVIOUS
<1>1. R \subseteq 1 .. 7
  OBVIOUS
<1>2. R \subseteq 1 .. 5
  <2>1. R \subseteq 1 .. 6
    BY <1>1
  <2> QED
    BY <2>1
<1>3. R \subseteq 1 .. 3
  <2>1. R \subseteq 1 .. 4
    BY <1>2
  <2> QED
    BY <2>1
<1>4. R \subseteq 1 .. 2
  BY <1>3
<1>5. R \subseteq 1 .. 1
  BY <1>4
<1>6. PICK x \in R : TRUE
  OBVIOUS
<1>7. PICK y \in R : y > x
  BY <1>6
<1> QED
  BY <1>5, <1>6, <1>7

\* Who holds a lock has not finished.
LEMMA HolderRuns ==
  ASSUME LocksInv, NEW g \in Goroutines, NEW l \in Mutexes, Holds(g, l)
  PROVE  ~Finished(g)
BY CallsBalanced DEF LocksInv, LocksTypeOK, Holds, ReaderOf, WriterOf, Finished, Prog

\* If every call is finished or blocked and some is blocked, then one of the blocked
\* calls holds a lock that does not come before the one it asks for: follow the
\* waiting from the lock of highest rank that anyone waits for.
THEOREM DeadlockNeedsDisorder == LocksSpec => []StuckOnlyOutOfOrder
<1>1. LocksInv => StuckOnlyOutOfOrder
  <2> SUFFICES ASSUME LocksInv, Stuck,
                      \A g \in Goroutines : Blocked(g) => ~OutOfOrder(g)
               PROVE  FALSE
    BY DEF StuckOnlyOutOfOrder
  <2> DEFINE Asks(g, l) == Wants(g, "RLock", l) \/ Wants(g, "Lock", l)
             R == {r \in 1 .. 8 : \E g \in Goroutines, l \in Mutexes : Asks(g, l) /\ Blocked(g) /\ Rank(l) = r}
  <2>1. \A g \in Goroutines : ~Finished(g) => Blocked(g) /\ \E l \in Mutexes : Asks(g, l)
    BY DEF Stuck, Blocked
  <2>2. R # {}
    BY <2>1, RankType DEF Stuck
  <2>3. PICK m \in R : \A k \in R : k <= m
    <3> HIDE DEF R
    <3>1. R \in SUBSET (1 .. 8)
      BY DEF R
    <3> QED
      BY <2>2, <3>1, LargestRank
  <2>4. PICK g \in Goroutines, l \in Mutexes : Asks(g, l) /\ Blocked(g) /\ Rank(l) = m
    BY <2>3
  \* nobody holds that lock: its holder would wait for a higher one
  <2>5. ASSUME NEW h \in Goroutines, Holds(h, l) PROVE FALSE
    <3>1. Blocked(h)
      BY <2>1, <2>5, HolderRuns
    <3>2. PICK k \in Mutexes : Asks(h, k)
      BY <2>1, <2>5, HolderRuns
    <3>3. Rank(k) \in R /\ Rank(l) \in 1 .. 8 /\ Rank(k) \in 1 .. 8
      BY <3>1, <3>2, RankType
    <3>4. Rank(k) > Rank(l)
      BY <2>5, <3>1, <3>2, <3>3 DEF OutOfOrder
    <3> QED
      BY <2>3, <2>4, <3>3, <3>4
  \* and nobody is announced for it: only readers could keep it waiting
  <2>6. ASSUME NEW h \in Goroutines, WriterAt(h, l) PROVE FALSE
    <3>1. h \in announced /\ Wants(h, "Lock", l)
      BY <2>5, <2>6 DEF WriterAt, Holds
    <3>2. Blocked(h)
      BY <2>1, <3>1 DEF Wants
    <3>3. \E k \in Goroutines : ReaderOf(k, l) \/ (k # h /\ WriterAt(k, l))
      BY <3>1, <3>2, WantsOne DEF Blocked
    <3>4. PICK k \in Goroutines : ReaderOf(k, l)
      BY <3>3, <2>6 DEF LocksInv, OneWriter
    <3> QED
      BY <3>4, <2>5 DEF Holds
  <2>7. CASE Wants(g, "RLock", l)
    <3>1. WriterIn(l)
      <4>1. CASE g \in parked
        BY <2>7, <4>1, WantsOne DEF LocksInv, ParkedHasWriter
      <4>2. CASE g \notin parked
        BY <2>4, <2>7, <4>2, WantsOne DEF Blocked
      <4> QED
        BY <4>1, <4>2
    <3> QED
      BY <3>1, <2>6 DEF WriterIn
  <2>8. CASE Wants(g, "Lock", l)
    <3>1. \E h \in Goroutines : ReaderOf(h, l) \/ WriterAt(h, l)
      BY <2>4, <2>8, WantsOne DEF Blocked
    <3> QED
      BY <3>1, <2>5, <2>6 DEF Holds
  <2> QED
    BY <2>4, <2>7, <2>8
<1> QED
  BY <1>1, LocksInvariant, PTL

-----------------------------------------------------------------------------
\* A call outside KnownNesting never asks for a lock while it holds a later one.
LEMMA OrderedCalls ==
  ASSUME LocksInv, NEW g \in Goroutines, OutOfOrder(g)
  PROVE  call[g] \in KnownNesting
<1> SUFFICES ASSUME call[g] \notin KnownNesting PROVE FALSE
  OBVIOUS
<1> DEFINE c == call[g]
           n == pos[g]
           p == Programs[c]
<1>1. c \in Calls /\ n \in Nat /\ n <= Len(p) /\ Len(p) \in Nat
  BY CallsBalanced DEF LocksInv, LocksTypeOK, Prog
<1>2. InOrder(p, 0)
  BY <1>1, OthersInOrder DEF Programs
<1>3. PICK l \in Mutexes, k \in Mutexes :
        /\ Wants(g, "RLock", l) \/ Wants(g, "Lock", l)
        /\ Holds(g, k) /\ Rank(k) >= Rank(l)
  BY DEF OutOfOrder
<1>4. n \in 0 .. Len(p) - 1 /\ n \in 0 .. Len(p) /\ p[n + 1] \in {RLock(l), Lock(l)}
  BY <1>1, <1>3 DEF Wants, Finished, NextOp, Prog, RLock, Lock
<1>5. HeldIn(p, n, k)
  <2>1. \A op : Times(c, n, op, k) = Count(p, n, op, k)
    BY DEF Times, Count
  <2>2. \/ Times(c, n, "RLock", k) > Times(c, n, "RUnlock", k)
        \/ Times(c, n, "Lock", k) > Times(c, n, "Unlock", k)
    BY <1>1, <1>3, <1>4 DEF Holds, ReaderOf, WriterOf, ReadLocked, WriteLocked
  <2> HIDE DEF c, n, p
  <2> QED  BY <2>1, <2>2 DEF HeldIn
<1> HIDE DEF c, n, p
<1>6. Rank(k) < Rank(l)
  BY <1>2, <1>4, <1>5 DEF InOrder
<1> QED
  BY <1>3, <1>6, RankType

\* The deadlocks that are possible hinge on a call of KnownNesting: without these, no
\* number of goroutines and no mix of the other calls can come to a standstill.
THEOREM DeadlockNeedsKnownNesting == LocksSpec => []DeadlockOnlyByKnownNesting
<1>1. LocksInv /\ StuckOnlyOutOfOrder => DeadlockOnlyByKnownNesting
  BY OrderedCalls DEF StuckOnlyOutOfOrder, DeadlockOnlyByKnownNesting
<1> QED
  BY <1>1, LocksInvariant, DeadlockNeedsDisorder, PTL
=============================================================================
