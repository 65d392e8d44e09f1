---------------------------- MODULE MerkleProofs ----------------------------
(***************************************************************************)
(* Merkle trees over lists of any length: every proof verifies, what       *)
(* verifies is there, and a root fixes its list up to the padding.         *)
(***************************************************************************)
EXTENDS Merkle, SequenceTheorems, WellFoundedInduction, TLAPS

\* A non-empty set of naturals has a least member.
LEMMA LeastMember ==
  ASSUME NEW T \in SUBSET Nat, T # {}
  PROVE  \E m \in T : \A k \in T : m <= k
<1>1. IsWellFoundedOn(OpToRel(<, Nat), Nat)
  BY NatLessThanWellFounded
<1>2. PICK m \in T : \A k \in T : <<k, m>> \notin OpToRel(<, Nat)
  BY <1>1, WFMin
<1>3. \A k \in T : ~(k < m)
  BY <1>2 DEF OpToRel
<1> QED BY <1>3

\* Induction up to n, over the members of a set.
LEMMA Induction ==
  ASSUME NEW n \in Nat, NEW S, 0 \in S, \A k \in 0 .. n - 1 : k \in S => k + 1 \in S
  PROVE  \A k \in 0 .. n : k \in S
<1> DEFINE T == (0 .. n) \ S
<1> SUFFICES ASSUME T # {} PROVE FALSE
  OBVIOUS
<1>1. PICK m \in T : \A k \in T : m <= k
  <2>1. T \in SUBSET Nat
    OBVIOUS
  <2> HIDE DEF T
  <2> QED BY <2>1, LeastMember
<1>2. m # 0 /\ m - 1 \in 0 .. n - 1 /\ m - 1 \notin T
  BY <1>1
<1>3. m - 1 \in S
  BY <1>2
<1>4. (m - 1) + 1 \in S
  BY <1>2, <1>3
<1> QED BY <1>1, <1>4

\* And down from n.
LEMMA DownwardInduction ==
  ASSUME NEW n \in Nat, NEW S, n \in S, \A k \in 0 .. n - 1 : k + 1 \in S => k \in S
  PROVE  \A k \in 0 .. n : k \in S
<1> DEFINE T == {k \in 0 .. n : n - k \in S}
<1>1. 0 \in T
  OBVIOUS
<1>2. ASSUME NEW k \in 0 .. n - 1, k \in T PROVE k + 1 \in T
  <2>1. n - k - 1 \in 0 .. n - 1 /\ (n - k - 1) + 1 = n - k
    OBVIOUS
  <2>2. n - k - 1 \in S
    BY <1>2, <2>1
  <2>3. n - k - 1 = n - (k + 1)
    OBVIOUS
  <2> QED BY <2>2, <2>3
<1>3. \A k \in 0 .. n : k \in T
  <2> HIDE DEF T
  <2> QED BY <1>1, <1>2, Induction
<1>4. ASSUME NEW k \in 0 .. n PROVE k \in S
  <2>1. n - k \in 0 .. n /\ n - (n - k) = k
    OBVIOUS
  <2>2. n - (n - k) \in S
    BY <1>3, <2>1
  <2> QED BY <2>1, <2>2
<1> QED BY <1>4

-----------------------------------------------------------------------------
(***************************************************************************)
(* The recursions.  Each has a solution, found by induction.               *)
(***************************************************************************)

\* One round of the loop that builds the levels.
LevelsFrom(data, g) ==
  [k \in 0 .. Len(data) |-> IF k = 0 THEN PadLeaves(Leaves(data)) ELSE NextLevel(g[k - 1])]
LevelTable(data) == CHOOSE g : g = LevelsFrom(data, g)

\* The levels are its result.
LEMMA LevelsUnfolded == ASSUME NEW data PROVE Levels(data) = LevelTable(data)
BY Zenon DEF Levels, LevelTable, LevelsFrom

\* The first level is the padded leaves, the next is built from the one before.
LEMMA LevelsAre ==
  ASSUME NEW data, Len(data) \in Nat
  PROVE  /\ Levels(data)[0] = PadLeaves(Leaves(data))
         /\ \A k \in 0 .. Len(data) - 1 : Levels(data)[k + 1] = NextLevel(Levels(data)[k])
<1> DEFINE base == PadLeaves(Leaves(data))
           Solved == {n \in Nat : \E g : \A k \in 0 .. n :
                        g[k] = IF k = 0 THEN base ELSE NextLevel(g[k - 1])}
           n == Len(data)
<1>1. 0 \in Solved
  <2>1. \A k \in 0 .. 0 : [i \in {0} |-> base][k] = base /\ k = 0
    OBVIOUS
  <2> HIDE DEF base
  <2> QED BY <2>1
<1>2. ASSUME NEW k \in 0 .. n - 1, k \in Solved PROVE k + 1 \in Solved
  <2> HIDE DEF base
  <2>1. PICK g : \A i \in 0 .. k : g[i] = IF i = 0 THEN base ELSE NextLevel(g[i - 1])
    BY <1>2
  <2> DEFINE h == [i \in 0 .. k + 1 |-> IF i = k + 1 THEN NextLevel(g[k]) ELSE g[i]]
  <2>2. \A i \in 0 .. k : h[i] = g[i]
    OBVIOUS
  <2>3. h[k + 1] = NextLevel(g[k])
    OBVIOUS
  <2> HIDE DEF h
  <2>4. \A i \in 0 .. k + 1 : h[i] = IF i = 0 THEN base ELSE NextLevel(h[i - 1])
    BY <2>1, <2>2, <2>3
  <2> QED BY <2>4
<1>3. n \in Solved
  <2>1. n \in 0 .. n
    OBVIOUS
  <2> HIDE DEF Solved
  <2> QED BY <1>1, <1>2, <2>1, Induction
<1>4. PICK g : \A k \in 0 .. n : g[k] = IF k = 0 THEN base ELSE NextLevel(g[k - 1])
  BY <1>3
<1> DEFINE f == [k \in 0 .. n |-> g[k]]
<1>5. \A k \in 0 .. n : f[k] = g[k]
  OBVIOUS
<1>6. f = LevelsFrom(data, f)
  <2>1. \A k \in 0 .. n : g[k] = IF k = 0 THEN base ELSE NextLevel(f[k - 1])
    <3> HIDE DEF f
    <3> QED BY <1>4, <1>5
  <2>2. f = [k \in 0 .. n |-> IF k = 0 THEN base ELSE NextLevel(f[k - 1])]
    BY <2>1
  <2> HIDE DEF f
  <2> QED BY <2>2 DEF LevelsFrom
<1> HIDE DEF f
<1>7. LevelTable(data) = LevelsFrom(data, LevelTable(data))
  BY <1>6 DEF LevelTable
<1>8. Levels(data) = LevelsFrom(data, Levels(data))
  BY <1>7, LevelsUnfolded
<1>9. \A k \in 0 .. n : Levels(data)[k] = IF k = 0 THEN base ELSE NextLevel(Levels(data)[k - 1])
  <2>1. \A k \in 0 .. n : LevelsFrom(data, Levels(data))[k]
                            = IF k = 0 THEN base ELSE NextLevel(Levels(data)[k - 1])
    BY DEF LevelsFrom
  <2> QED BY <1>8, <2>1
<1>10. ASSUME NEW k \in 0 .. n - 1 PROVE Levels(data)[k + 1] = NextLevel(Levels(data)[k])
  <2>1. k + 1 \in 0 .. n /\ k + 1 # 0 /\ (k + 1) - 1 = k
    OBVIOUS
  <2> QED BY <1>9, <2>1
<1>11. Levels(data)[0] = base
  BY <1>9
<1> QED BY <1>10, <1>11

\* One round of halving an index.
AncestorsFrom(index, n, g) == [k \in 0 .. n |-> IF k = 0 THEN index ELSE g[k - 1] \div 2]
AncestorTable(index, n) == CHOOSE g : g = AncestorsFrom(index, n, g)

\* The indexes on the way up are its result.
LEMMA AncestorsUnfolded == ASSUME NEW index, NEW n PROVE Ancestors(index, n) = AncestorTable(index, n)
BY Zenon DEF Ancestors, AncestorTable, AncestorsFrom

\* Every index is half of the one before.
LEMMA AncestorsAre ==
  ASSUME NEW index, NEW n \in Nat
  PROVE  /\ Ancestors(index, n)[0] = index
         /\ \A k \in 0 .. n - 1 : Ancestors(index, n)[k + 1] = Ancestors(index, n)[k] \div 2
<1> DEFINE Solved == {m \in Nat : \E g : \A k \in 0 .. m :
                        g[k] = IF k = 0 THEN index ELSE g[k - 1] \div 2}
<1>1. 0 \in Solved
  <2>1. \A k \in 0 .. 0 : [i \in {0} |-> index][k] = index /\ k = 0
    OBVIOUS
  <2> QED BY <2>1
<1>2. ASSUME NEW k \in 0 .. n - 1, k \in Solved PROVE k + 1 \in Solved
  <2>1. PICK g : \A i \in 0 .. k : g[i] = IF i = 0 THEN index ELSE g[i - 1] \div 2
    BY <1>2
  <2> DEFINE h == [i \in 0 .. k + 1 |-> IF i = k + 1 THEN g[k] \div 2 ELSE g[i]]
  <2>2. \A i \in 0 .. k : h[i] = g[i]
    OBVIOUS
  <2>3. h[k + 1] = g[k] \div 2
    OBVIOUS
  <2> HIDE DEF h
  <2>4. \A i \in 0 .. k + 1 : h[i] = IF i = 0 THEN index ELSE h[i - 1] \div 2
    BY <2>1, <2>2, <2>3
  <2> QED BY <2>4
<1>3. n \in Solved
  <2>1. n \in 0 .. n
    OBVIOUS
  <2> HIDE DEF Solved
  <2> QED BY <1>1, <1>2, <2>1, Induction
<1>4. PICK g : \A k \in 0 .. n : g[k] = IF k = 0 THEN index ELSE g[k - 1] \div 2
  BY <1>3
<1> DEFINE f == [k \in 0 .. n |-> g[k]]
<1>5. \A k \in 0 .. n : f[k] = g[k]
  OBVIOUS
<1>6. f = AncestorsFrom(index, n, f)
  <2>1. \A k \in 0 .. n : g[k] = IF k = 0 THEN index ELSE f[k - 1] \div 2
    <3> HIDE DEF f
    <3> QED BY <1>4, <1>5
  <2>2. f = [k \in 0 .. n |-> IF k = 0 THEN index ELSE f[k - 1] \div 2]
    BY <2>1
  <2> HIDE DEF f
  <2> QED BY <2>2 DEF AncestorsFrom
<1> HIDE DEF f
<1> DEFINE up == Ancestors(index, n)
<1>7. AncestorTable(index, n) = AncestorsFrom(index, n, AncestorTable(index, n))
  BY <1>6 DEF AncestorTable
<1>8. up = AncestorsFrom(index, n, up)
  BY <1>7, AncestorsUnfolded
<1> HIDE DEF up
<1>9. \A k \in 0 .. n : up[k] = IF k = 0 THEN index ELSE up[k - 1] \div 2
  <2>1. \A k \in 0 .. n : AncestorsFrom(index, n, up)[k] = IF k = 0 THEN index ELSE up[k - 1] \div 2
    BY DEF AncestorsFrom
  <2> QED BY <1>8, <2>1
<1>10. ASSUME NEW k \in 0 .. n - 1 PROVE up[k + 1] = up[k] \div 2
  <2>1. k + 1 \in 0 .. n /\ k + 1 # 0 /\ (k + 1) - 1 = k
    OBVIOUS
  <2> QED BY <1>9, <2>1
<1>11. up[0] = index
  BY <1>9
<1> QED BY <1>10, <1>11 DEF up

\* One round of the loop of VerifyMerkleProof.
ClimbFrom(h, index, hashes, g) ==
  [k \in 0 .. Len(hashes) |->
     IF k = 0 THEN h ELSE Combine(g[k - 1], Ancestors(index, Len(hashes))[k - 1], hashes[k])]
ClimbTable(h, index, hashes) == CHOOSE g : g = ClimbFrom(h, index, hashes, g)

\* The hashes on the way up are its result.
LEMMA ClimbUnfolded ==
  ASSUME NEW h, NEW index, NEW hashes
  PROVE  Climb(h, index, hashes) = ClimbTable(h, index, hashes)
BY Zenon DEF Climb, ClimbTable, ClimbFrom

\* Every hash on the way up combines the one before and the sibling of its round.
LEMMA ClimbIs ==
  ASSUME NEW h, NEW index, NEW hashes, Len(hashes) \in Nat
  PROVE  /\ Climb(h, index, hashes)[0] = h
         /\ \A k \in 0 .. Len(hashes) - 1 :
              Climb(h, index, hashes)[k + 1] =
                Combine(Climb(h, index, hashes)[k], Ancestors(index, Len(hashes))[k], hashes[k + 1])
<1> DEFINE n == Len(hashes)
           node == Ancestors(index, n)
           Solved == {m \in Nat : \E g : \A k \in 0 .. m :
                        g[k] = IF k = 0 THEN h ELSE Combine(g[k - 1], node[k - 1], hashes[k])}
<1>1. 0 \in Solved
  <2>1. \A k \in 0 .. 0 : [i \in {0} |-> h][k] = h /\ k = 0
    OBVIOUS
  <2> HIDE DEF node
  <2> QED BY <2>1
<1>2. ASSUME NEW k \in 0 .. n - 1, k \in Solved PROVE k + 1 \in Solved
  <2> HIDE DEF node
  <2>1. PICK g : \A i \in 0 .. k : g[i] = IF i = 0 THEN h ELSE Combine(g[i - 1], node[i - 1], hashes[i])
    BY <1>2
  <2> DEFINE f == [i \in 0 .. k + 1 |-> IF i = k + 1 THEN Combine(g[k], node[k], hashes[k + 1]) ELSE g[i]]
  <2>2. \A i \in 0 .. k : f[i] = g[i]
    OBVIOUS
  <2>3. f[k + 1] = Combine(g[k], node[k], hashes[k + 1])
    OBVIOUS
  <2> HIDE DEF f
  <2>4. \A i \in 0 .. k + 1 : f[i] = IF i = 0 THEN h ELSE Combine(f[i - 1], node[i - 1], hashes[i])
    BY <2>1, <2>2, <2>3
  <2> QED BY <2>4
<1>3. n \in Solved
  <2>1. n \in 0 .. n
    OBVIOUS
  <2> HIDE DEF Solved
  <2> QED BY <1>1, <1>2, <2>1, Induction
<1>4. PICK g : \A k \in 0 .. n : g[k] = IF k = 0 THEN h ELSE Combine(g[k - 1], node[k - 1], hashes[k])
  BY <1>3
<1> DEFINE f == [k \in 0 .. n |-> g[k]]
<1>5. \A k \in 0 .. n : f[k] = g[k]
  OBVIOUS
<1>6. f = ClimbFrom(h, index, hashes, f)
  <2> HIDE DEF node
  <2>1. \A k \in 0 .. n : g[k] = IF k = 0 THEN h ELSE Combine(f[k - 1], node[k - 1], hashes[k])
    <3> HIDE DEF f
    <3> QED BY <1>4, <1>5
  <2>2. f = [k \in 0 .. n |-> IF k = 0 THEN h ELSE Combine(f[k - 1], node[k - 1], hashes[k])]
    BY <2>1
  <2> HIDE DEF f
  <2> QED BY <2>2 DEF ClimbFrom, node
<1> HIDE DEF f
<1> DEFINE up == Climb(h, index, hashes)
<1>7. ClimbTable(h, index, hashes) = ClimbFrom(h, index, hashes, ClimbTable(h, index, hashes))
  BY <1>6 DEF ClimbTable
<1>8. up = ClimbFrom(h, index, hashes, up)
  BY <1>7, ClimbUnfolded
<1> HIDE DEF up
<1>9. \A k \in 0 .. n : up[k] = IF k = 0 THEN h ELSE Combine(up[k - 1], node[k - 1], hashes[k])
  <2>1. \A k \in 0 .. n : ClimbFrom(h, index, hashes, up)[k]
                            = IF k = 0 THEN h ELSE Combine(up[k - 1], node[k - 1], hashes[k])
    BY DEF ClimbFrom
  <2> QED BY <1>8, <2>1
<1> HIDE DEF node
<1>10. ASSUME NEW k \in 0 .. n - 1 PROVE up[k + 1] = Combine(up[k], node[k], hashes[k + 1])
  <2>1. k + 1 \in 0 .. n /\ k + 1 # 0 /\ (k + 1) - 1 = k
    OBVIOUS
  <2> QED BY <1>9, <2>1
<1>11. up[0] = h
  BY <1>9
<1> QED BY <1>10, <1>11 DEF up, node

-----------------------------------------------------------------------------
(***************************************************************************)
(* The levels.                                                             *)
(***************************************************************************)

\* The level above s: half as many nodes, the last of them twice if they are an odd
\* number of more than one.
Half(s) == Len(s) \div 2

IsNext(s, t) ==
  /\ Len(t) = IF Half(s) % 2 = 1 /\ Half(s) > 1 THEN Half(s) + 1 ELSE Half(s)
  /\ \A i \in 1 .. Half(s) : t[i] = <<s[2 * i - 1], s[2 * i]>>
  /\ \A i \in Half(s) + 1 .. Len(t) : t[i] = t[Half(s)]

\* NextLevel builds it.
LEMMA NextLevelIs ==
  ASSUME NEW S, NEW s \in Seq(S), Len(s) > 1, Len(s) % 2 = 0
  PROVE  NextLevel(s) \in Seq(S \X S) /\ IsNext(s, NextLevel(s))
<1> DEFINE w == Half(s)
           p == Parents(s)
<1>1. Len(s) \in Nat /\ w \in Nat /\ w >= 1 /\ 2 * w = Len(s)
  BY DEF Half
<1>2. \A i \in 1 .. w : 2 * i - 1 \in 1 .. Len(s) /\ 2 * i \in 1 .. Len(s)
  BY <1>1
<1>3. p = [i \in 1 .. w |-> <<s[2 * i - 1], s[2 * i]>>]
  BY DEF Parents, HashPair, Half
<1> HIDE DEF p, w
<1>4. \A i \in 1 .. w : <<s[2 * i - 1], s[2 * i]>> \in S \X S
  BY <1>2, ElementOfSeq
<1>5. p \in Seq(S \X S) /\ Len(p) = w /\ \A i \in 1 .. w : p[i] = <<s[2 * i - 1], s[2 * i]>>
  BY <1>1, <1>3, <1>4
<1>6. NextLevel(s) = IF w % 2 = 1 /\ w > 1 THEN Append(p, p[w]) ELSE p
  BY <1>5 DEF NextLevel, PadLevel, Odd, DuplicateLast, p
<1>7. CASE w % 2 = 1 /\ w > 1
  <2>1. NextLevel(s) = Append(p, p[w])
    BY <1>6, <1>7
  <2>2. p[w] \in S \X S
    BY <1>1, <1>5, ElementOfSeq
  <2>3. Append(p, p[w]) \in Seq(S \X S) /\ Len(Append(p, p[w])) = w + 1
        /\ (\A i \in 1 .. w : Append(p, p[w])[i] = p[i]) /\ Append(p, p[w])[w + 1] = p[w]
    BY <1>1, <1>5, <2>2, AppendProperties
  <2>4. \A i \in w + 1 .. w + 1 : i = w + 1
    BY <1>1
  <2> QED BY <1>1, <1>5, <1>7, <2>1, <2>3, <2>4 DEF IsNext, w
<1>8. CASE ~(w % 2 = 1 /\ w > 1)
  <2>1. NextLevel(s) = p
    BY <1>6, <1>8
  <2> QED BY <1>1, <1>5, <1>8, <2>1 DEF IsNext, w
<1> QED BY <1>7, <1>8

\* The transactions of a block.
Blocks == Seq(Data) \ {<<>>}

\* What stands at the bottom: the leaves in their order, the last of them twice if they
\* are an odd number.
LEMMA BottomLevel ==
  ASSUME NEW s \in Blocks
  PROVE  LET b == PadLeaves(Leaves(s))
         IN  /\ \E S : b \in Seq(S)
             /\ Len(s) \in Nat /\ Len(s) >= 1
             /\ Len(b) = IF Len(s) % 2 = 1 THEN Len(s) + 1 ELSE Len(s)
             /\ \A i \in 1 .. Len(s) : b[i] = <<s[i]>>
             /\ \A i \in Len(s) + 1 .. Len(b) : b[i] = <<s[Len(s)]>>
<1> DEFINE n == Len(s)
           q == Leaves(s)
           D == {<<d>> : d \in Data}
<1>1. n \in Nat /\ n >= 1 /\ DOMAIN s = 1 .. n /\ \A i \in 1 .. n : s[i] \in Data
  <2>1. s \in Seq(Data) /\ s # <<>>
    BY DEF Blocks
  <2> QED BY <2>1, EmptySeq, LenProperties, ElementOfSeq
<1> HIDE DEF n
<1>2. q = [i \in 1 .. n |-> <<s[i]>>]
  BY <1>1 DEF Leaves, SimpleHash
<1> HIDE DEF q
<1>3. \A i \in 1 .. n : <<s[i]>> \in D
  BY <1>1
<1> HIDE DEF D
<1>4. q \in Seq(D) /\ Len(q) = n /\ \A i \in 1 .. n : q[i] = <<s[i]>>
  BY <1>1, <1>2, <1>3
<1>5. PadLeaves(q) = IF n % 2 = 1 THEN Append(q, q[n]) ELSE q
  BY <1>4 DEF PadLeaves, Odd, DuplicateLast
<1>6. CASE n % 2 = 1
  <2>1. PadLeaves(q) = Append(q, q[n]) /\ q[n] \in D
    BY <1>1, <1>3, <1>4, <1>5, <1>6
  <2>2. Append(q, q[n]) \in Seq(D) /\ Len(Append(q, q[n])) = n + 1
        /\ (\A i \in 1 .. n : Append(q, q[n])[i] = q[i]) /\ Append(q, q[n])[n + 1] = q[n]
    BY <1>1, <1>4, <2>1, AppendProperties
  <2>3. \A i \in n + 1 .. n + 1 : i = n + 1
    BY <1>1
  <2> QED BY <1>1, <1>4, <1>6, <2>1, <2>2, <2>3 DEF q, n
<1>7. CASE n % 2 # 1
  <2>1. PadLeaves(q) = q
    BY <1>5, <1>7
  <2> QED BY <1>1, <1>4, <1>7, <2>1 DEF q, n
<1> QED BY <1>6, <1>7

\* The number of nodes of a level.
Width(s, k) == Len(Levels(s)[k])

\* Every level has one node or an even number, and every round takes at least one off.
LEMMA LevelShape ==
  ASSUME NEW s \in Blocks
  PROVE  /\ Len(s) \in Nat /\ Len(s) >= 1 /\ Width(s, 0) >= 2
         /\ \A k \in 0 .. Len(s) :
              /\ \E S : Levels(s)[k] \in Seq(S)
              /\ Width(s, k) \in Nat /\ Width(s, k) >= 1
              /\ Width(s, k) = 1 \/ Width(s, k) % 2 = 0
              /\ Width(s, k) = 1 \/ Width(s, k) + k <= Len(s) + 1
<1> DEFINE n == Len(s)
           Shape(k) == /\ \E S : Levels(s)[k] \in Seq(S)
                       /\ Width(s, k) \in Nat /\ Width(s, k) >= 1
                       /\ Width(s, k) = 1 \/ Width(s, k) % 2 = 0
                       /\ Width(s, k) = 1 \/ Width(s, k) + k <= n + 1
           Good == {k \in 0 .. n : Shape(k)}
<1>1. n \in Nat /\ n >= 1
  BY BottomLevel
<1>2. /\ Levels(s)[0] = PadLeaves(Leaves(s))
      /\ \A k \in 0 .. n - 1 : Levels(s)[k + 1] = NextLevel(Levels(s)[k])
  BY <1>1, LevelsAre
<1>3. Shape(0) /\ Width(s, 0) >= 2
  <2>1. (\E S : Levels(s)[0] \in Seq(S)) /\ Width(s, 0) = IF n % 2 = 1 THEN n + 1 ELSE n
    BY <1>2, BottomLevel DEF Width
  <2> QED BY <1>1, <2>1
<1>4. ASSUME NEW k \in 0 .. n - 1, Shape(k) PROVE Shape(k + 1)
  <2> DEFINE l == Levels(s)[k]
             w == Len(l)
  <2>1. PICK S : l \in Seq(S)
    BY <1>4
  <2>2. w \in Nat /\ w >= 1 /\ (w = 1 \/ w % 2 = 0) /\ (w = 1 \/ w + k <= n + 1)
    BY <1>4 DEF Width
  <2>3. Levels(s)[k + 1] = NextLevel(l)
    BY <1>2
  <2> HIDE DEF l
  <2>4. CASE w = 1
    <3>1. NextLevel(l) = l
      BY <2>4 DEF NextLevel
    <3> QED BY <2>1, <2>3, <2>4, <3>1 DEF Width
  <2>5. CASE w # 1
    <3>1. Len(l) > 1 /\ Len(l) % 2 = 0
      BY <2>2, <2>5
    <3>2. NextLevel(l) \in Seq(S \X S) /\ IsNext(l, NextLevel(l))
      BY <2>1, <3>1, NextLevelIs
    <3>3. NextLevel(l) \in Seq(S \X S)
          /\ Len(NextLevel(l)) = IF (w \div 2) % 2 = 1 /\ w \div 2 > 1 THEN w \div 2 + 1 ELSE w \div 2
      BY <3>2 DEF IsNext, Half
    <3> HIDE DEF w
    <3>4. \E T : Levels(s)[k + 1] \in Seq(T)
      BY <2>3, <3>3
    <3>5. Width(s, k + 1) = IF (w \div 2) % 2 = 1 /\ w \div 2 > 1 THEN w \div 2 + 1 ELSE w \div 2
      BY <2>3, <3>3 DEF Width
    <3> QED BY <1>1, <2>2, <2>5, <3>4, <3>5
  <2> QED BY <2>4, <2>5
<1>5. n \in Nat /\ 0 \in Good /\ \A k \in 0 .. n - 1 : k \in Good => k + 1 \in Good
  <2>1. 0 \in Good
    BY <1>1, <1>3
  <2>2. ASSUME NEW k \in 0 .. n - 1, k \in Good PROVE k + 1 \in Good
    <3>1. Shape(k)
      BY <2>2
    <3>2. Shape(k + 1)
      <4> HIDE DEF Shape
      <4> QED BY <1>4, <3>1
    <3> HIDE DEF Shape
    <3> QED BY <1>1, <3>2
  <2> HIDE DEF Good
  <2> QED BY <1>1, <2>1, <2>2
<1>6. \A k \in 0 .. n : k \in Good
  <2> HIDE DEF Good
  <2> QED BY <1>5, Induction
<1> QED BY <1>1, <1>3, <1>6

\* The rounds end with one node; before that, every level is built from the one below.
LEMMA HeightIs ==
  ASSUME NEW s \in Blocks
  PROVE  /\ Height(s) \in Nat /\ Height(s) >= 1 /\ Height(s) <= Len(s)
         /\ Width(s, Height(s)) = 1
         /\ \A k \in 0 .. Height(s) - 1 :
              /\ Width(s, k) > 1 /\ Width(s, k) % 2 = 0
              /\ IsNext(Levels(s)[k], Levels(s)[k + 1])
<1> DEFINE n == Len(s)
           Ends == {k \in 0 .. n : Width(s, k) = 1}
<1>1. n \in Nat /\ n >= 1
  BY LevelShape
<1>2. n \in Ends
  <2>1. Width(s, n) \in Nat /\ Width(s, n) >= 1 /\ (Width(s, n) = 1 \/ Width(s, n) + n <= n + 1)
    BY <1>1, LevelShape
  <2> QED BY <1>1, <2>1
<1>3. PICK e \in Ends : \A k \in Ends : e <= k
  <2>1. Ends \in SUBSET Nat
    OBVIOUS
  <2> HIDE DEF Ends
  <2> QED BY <1>2, <2>1, LeastMember
<1>4. \A m \in 0 .. e - 1 : Width(s, m) > 1
  <2> SUFFICES ASSUME NEW m \in 0 .. e - 1 PROVE Width(s, m) > 1
    OBVIOUS
  <2>1. m \in 0 .. n /\ m \notin Ends
    BY <1>1, <1>3
  <2>2. Width(s, m) \in Nat /\ Width(s, m) >= 1
    BY <2>1, LevelShape
  <2> QED BY <2>1, <2>2
<1>5. /\ Height(s) \in 0 .. n /\ Width(s, Height(s)) = 1
      /\ \A m \in 0 .. Height(s) - 1 : Width(s, m) > 1
  <2>1. e \in 0 .. n /\ Width(s, e) = 1
    BY <1>3
  <2>2. Height(s) = CHOOSE k \in 0 .. n : Width(s, k) = 1 /\ \A m \in 0 .. k - 1 : Width(s, m) > 1
    BY DEF Height, Width
  <2> QED BY <1>4, <2>1, <2>2
<1>6. Height(s) # 0
  BY <1>5, LevelShape
<1>7. ASSUME NEW k \in 0 .. Height(s) - 1
      PROVE  /\ Width(s, k) > 1 /\ Width(s, k) % 2 = 0
             /\ IsNext(Levels(s)[k], Levels(s)[k + 1])
  <2>1. k \in 0 .. n - 1 /\ k \in 0 .. n
    BY <1>1, <1>5
  <2>2. Width(s, k) > 1
    BY <1>5
  <2>3. Width(s, k) = 1 \/ Width(s, k) % 2 = 0
    BY <2>1, LevelShape
  <2> DEFINE l == Levels(s)[k]
  <2>4. PICK S : l \in Seq(S)
    BY <2>1, LevelShape
  <2>5. Levels(s)[k + 1] = NextLevel(Levels(s)[k])
    BY <1>1, <2>1, LevelsAre
  <2>6. IsNext(l, NextLevel(l))
    <3>1. Width(s, k) \in Nat
      BY <2>1, LevelShape
    <3>2. Width(s, k) % 2 = 0
      BY <2>2, <2>3, <3>1
    <3>3. Len(l) = Width(s, k)
      BY DEF Width
    <3> HIDE DEF l
    <3>4. Len(l) > 1 /\ Len(l) % 2 = 0
      BY <2>2, <3>2, <3>3
    <3> QED BY <2>4, <3>4, NextLevelIs
  <2> QED BY <2>2, <2>3, <2>5, <2>6
<1> QED BY <1>1, <1>5, <1>6, <1>7

\* What a level says about the one below.
LEMMA NodeBelow ==
  ASSUME NEW s \in Blocks, NEW k \in 0 .. Height(s) - 1
  PROVE  LET w == Width(s, k) \div 2
         IN  /\ w \in Nat /\ w >= 1 /\ Width(s, k) = 2 * w
             /\ Width(s, k + 1) = IF w % 2 = 1 /\ w > 1 THEN w + 1 ELSE w
             /\ \A i \in 1 .. w :
                  Levels(s)[k + 1][i] = <<Levels(s)[k][2 * i - 1], Levels(s)[k][2 * i]>>
             /\ \A i \in w + 1 .. Width(s, k + 1) : Levels(s)[k + 1][i] = Levels(s)[k + 1][w]
<1>1. Width(s, k) \in Nat
  BY HeightIs, LevelShape
<1>2. Width(s, k) > 1 /\ Width(s, k) % 2 = 0 /\ IsNext(Levels(s)[k], Levels(s)[k + 1])
  BY HeightIs
<1> DEFINE w == Width(s, k) \div 2
           t == Levels(s)[k + 1]
<1>3. w \in Nat /\ w >= 1 /\ Width(s, k) = 2 * w
  BY <1>1, <1>2
<1>4. /\ Len(t) = IF w % 2 = 1 /\ w > 1 THEN w + 1 ELSE w
      /\ \A i \in 1 .. w : t[i] = <<Levels(s)[k][2 * i - 1], Levels(s)[k][2 * i]>>
      /\ \A i \in w + 1 .. Len(t) : t[i] = t[w]
  BY <1>2, Zenon DEF IsNext, Half, Width
<1>5. Len(t) = Width(s, k + 1)
  BY DEF Width
<1> HIDE DEF w, t
<1>6. \A i \in w + 1 .. Width(s, k + 1) : t[i] = t[w]
  BY <1>4, <1>5
<1> QED BY <1>3, <1>4, <1>5, <1>6, Zenon DEF w, t

-----------------------------------------------------------------------------
(***************************************************************************)
(* Proofs.                                                                 *)
(***************************************************************************)

\* On the way up from a leaf every index is that of a node, and the last one the root's.
LEMMA PathIsInTree ==
  ASSUME NEW s \in Blocks, NEW j \in Indexes(s)
  PROVE  LET A == Ancestors(j, Height(s))
         IN  /\ \A k \in 0 .. Height(s) : A[k] \in Nat /\ A[k] < Width(s, k)
             /\ \A k \in 0 .. Height(s) - 1 : A[k + 1] = A[k] \div 2
             /\ A[0] = j /\ A[Height(s)] = 0
<1> DEFINE H == Height(s)
           A == Ancestors(j, H)
           Good == {k \in 0 .. H : A[k] \in Nat /\ A[k] < Width(s, k)}
<1>1. H \in Nat /\ H >= 1 /\ H <= Len(s) /\ Width(s, H) = 1
  BY HeightIs
<1> HIDE DEF H
<1>2. A[0] = j /\ \A k \in 0 .. H - 1 : A[k + 1] = A[k] \div 2
  BY <1>1, AncestorsAre
<1> HIDE DEF A
<1>3. 0 \in Good
  <2>1. j \in Nat /\ j < Len(s)
    BY LevelShape DEF Indexes
  <2>2. Len(s) \in Nat /\ Width(s, 0) = IF Len(s) % 2 = 1 THEN Len(s) + 1 ELSE Len(s)
    <3>1. Levels(s)[0] = PadLeaves(Leaves(s))
      BY LevelsAre, LevelShape
    <3> QED BY <3>1, BottomLevel DEF Width
  <2> QED BY <1>1, <1>2, <2>1, <2>2
<1>4. ASSUME NEW k \in 0 .. H - 1, k \in Good PROVE k + 1 \in Good
  <2> DEFINE w == Width(s, k) \div 2
  <2>1. w \in Nat /\ Width(s, k) = 2 * w
        /\ Width(s, k + 1) = IF w % 2 = 1 /\ w > 1 THEN w + 1 ELSE w
    BY NodeBelow DEF H
  <2>2. A[k] \in Nat /\ A[k] < Width(s, k) /\ A[k + 1] = A[k] \div 2
    BY <1>2, <1>4
  <2> HIDE DEF w
  <2>3. A[k] \div 2 \in Nat /\ A[k] \div 2 < w
    BY <2>1, <2>2
  <2>4. Width(s, k + 1) >= w
    BY <2>1
  <2>5. k + 1 \in 0 .. H
    BY <1>1
  <2> QED BY <2>1, <2>2, <2>3, <2>4, <2>5
<1>5. \A k \in 0 .. H : k \in Good
  <2> HIDE DEF Good
  <2> QED BY <1>1, <1>3, <1>4, Induction
<1>6. A[H] = 0
  <2>1. H \in Good
    <3> HIDE DEF Good
    <3> QED BY <1>1, <1>5
  <2> QED BY <1>1, <2>1
<1> QED BY <1>2, <1>5, <1>6 DEF A, H

\* A node is combined with its sibling to the node above.
LEMMA SiblingsMeet ==
  ASSUME NEW s \in Blocks, NEW k \in 0 .. Height(s) - 1, NEW a \in Nat, a < Width(s, k)
  PROVE  Combine(Levels(s)[k][a + 1], a, Sibling(Levels(s)[k], a)) = Levels(s)[k + 1][a \div 2 + 1]
<1> DEFINE w == Width(s, k) \div 2
           l == Levels(s)[k]
           t == Levels(s)[k + 1]
<1>1. /\ w \in Nat /\ Width(s, k) = 2 * w
      /\ \A i \in 1 .. w : t[i] = <<l[2 * i - 1], l[2 * i]>>
  BY NodeBelow
<1> HIDE DEF w, l, t
<1>2. a \div 2 + 1 \in 1 .. w
  BY <1>1
<1>3. CASE a % 2 = 0
  <2>1. 2 * (a \div 2 + 1) - 1 = a + 1 /\ 2 * (a \div 2 + 1) = a + 2
    BY <1>3
  <2>2. t[a \div 2 + 1] = <<l[a + 1], l[a + 2]>>
    BY <1>1, <1>2, <2>1
  <2> QED BY <1>3, <2>2 DEF Combine, Sibling, HashPair, l, t
<1>4. CASE a % 2 # 0
  <2>1. 2 * (a \div 2 + 1) - 1 = a /\ 2 * (a \div 2 + 1) = a + 1
    BY <1>4
  <2>2. t[a \div 2 + 1] = <<l[a], l[a + 1]>>
    BY <1>1, <1>2, <2>1
  <2> QED BY <1>4, <2>2 DEF Combine, Sibling, HashPair, l, t
<1> QED BY <1>3, <1>4

\* The proof of a leaf leads from it to the root.
LEMMA ProofVerifies ==
  ASSUME NEW s \in Blocks, NEW j \in Indexes(s)
  PROVE  VerifyMerkleProof(GetMerkleRoot(s), s[j + 1], GenerateMerkleProof(s, j))
<1> DEFINE H == Height(s)
           A == Ancestors(j, H)
           hs == Siblings(s, j)
           C == Climb(SimpleHash(s[j + 1]), j, hs)
           Good == {k \in 0 .. H : C[k] = Levels(s)[k][A[k] + 1]}
<1>1. H \in Nat /\ H >= 1 /\ Len(s) \in Nat /\ Len(s) >= 1
  BY HeightIs, LevelShape
<1>2. hs = [k \in 1 .. H |-> Sibling(Levels(s)[k - 1], A[k - 1])]
  BY DEF Siblings
<1>3. /\ \A k \in 0 .. H : A[k] \in Nat /\ A[k] < Width(s, k)
      /\ \A k \in 0 .. H - 1 : A[k + 1] = A[k] \div 2
      /\ A[0] = j /\ A[H] = 0
  BY PathIsInTree
<1>4. Len(hs) = H
  <2> HIDE DEF H, A, hs
  <2> QED BY <1>1, <1>2
<1>5. /\ C[0] = SimpleHash(s[j + 1])
      /\ \A k \in 0 .. H - 1 : C[k + 1] = Combine(C[k], A[k], hs[k + 1])
  <2> HIDE DEF hs, H
  <2> QED BY <1>1, <1>4, ClimbIs
<1> HIDE DEF C, A, hs
<1>6. 0 \in Good
  <2>1. Levels(s)[0] = PadLeaves(Leaves(s))
    BY <1>1, LevelsAre
  <2>2. j + 1 \in 1 .. Len(s)
    BY <1>1 DEF Indexes
  <2>3. Levels(s)[0][j + 1] = <<s[j + 1]>>
    BY <2>1, <2>2, BottomLevel
  <2>4. C[0] = <<s[j + 1]>> /\ A[0] = j
    BY <1>3, <1>5 DEF SimpleHash
  <2>5. C[0] = Levels(s)[0][A[0] + 1]
    BY <2>3, <2>4
  <2>6. 0 \in 0 .. H
    <3> HIDE DEF H
    <3> QED BY <1>1
  <2> HIDE DEF H
  <2> QED BY <2>5, <2>6
<1>7. ASSUME NEW k \in 0 .. H - 1, k \in Good PROVE k + 1 \in Good
  <2>1. hs[k + 1] = Sibling(Levels(s)[k], A[k])
    <3>1. k + 1 \in 1 .. H /\ (k + 1) - 1 = k
      BY <1>1
    <3> HIDE DEF H
    <3> QED BY <1>2, <3>1
  <2>2. A[k] \in Nat /\ A[k] < Width(s, k) /\ A[k + 1] = A[k] \div 2
    <3> HIDE DEF H
    <3> QED BY <1>1, <1>3
  <2>3. Combine(Levels(s)[k][A[k] + 1], A[k], Sibling(Levels(s)[k], A[k])) = Levels(s)[k + 1][A[k] \div 2 + 1]
    BY <2>2, SiblingsMeet
  <2>4. C[k] = Levels(s)[k][A[k] + 1] /\ C[k + 1] = Combine(C[k], A[k], hs[k + 1])
    <3> HIDE DEF H
    <3> QED BY <1>5, <1>7
  <2>5. k + 1 \in 0 .. H
    <3> HIDE DEF H
    <3> QED BY <1>1
  <2> HIDE DEF H
  <2> QED BY <2>1, <2>2, <2>3, <2>4, <2>5
<1>8. \A k \in 0 .. H : k \in Good
  <2> HIDE DEF Good, H
  <2> QED BY <1>1, <1>6, <1>7, Induction
<1>9. C[H] = Levels(s)[H][1]
  <2>1. H \in Good
    <3> HIDE DEF Good, H
    <3> QED BY <1>1, <1>8
  <2> HIDE DEF H
  <2> QED BY <1>3, <2>1
<1>10. s # <<>>
  BY DEF Blocks
<1>11. GetMerkleRoot(s) = Levels(s)[H][1]
  BY <1>10 DEF GetMerkleRoot
<1>12. Climbed(SimpleHash(s[j + 1]), GenerateMerkleProof(s, j)) = C[H]
  BY <1>4, Zenon DEF Climbed, GenerateMerkleProof, C, hs
<1> QED BY <1>1, <1>9, <1>11, <1>12 DEF VerifyMerkleProof, GenerateMerkleProof


\* Every node above the leaves is the pair of two nodes below: those under it, or, if it
\* was padded, those under the last node that was not.
LEMMA PairAbove ==
  ASSUME NEW s \in Blocks, NEW k \in 0 .. Height(s) - 1, NEW p \in 1 .. Width(s, k + 1)
  PROVE  LET w == Width(s, k) \div 2
         IN  \E q \in 1 .. w :
               /\ Levels(s)[k + 1][p] = <<Levels(s)[k][2 * q - 1], Levels(s)[k][2 * q]>>
               /\ q = p \/ (p = w + 1 /\ q = w /\ w > 1)
<1> DEFINE w == Width(s, k) \div 2
           t == Levels(s)[k + 1]
           l == Levels(s)[k]
<1>1. /\ w \in Nat /\ w >= 1
      /\ Width(s, k + 1) = IF w % 2 = 1 /\ w > 1 THEN w + 1 ELSE w
      /\ \A i \in 1 .. w : t[i] = <<l[2 * i - 1], l[2 * i]>>
      /\ \A i \in w + 1 .. Width(s, k + 1) : t[i] = t[w]
  BY NodeBelow
<1> HIDE DEF w, t, l
<1>2. CASE p \in 1 .. w
  <2>1. t[p] = <<l[2 * p - 1], l[2 * p]>>
    BY <1>1, <1>2
  <2> QED BY <1>2, <2>1 DEF w, t, l
<1>3. CASE p \notin 1 .. w
  <2>1. p = w + 1 /\ w > 1 /\ p \in w + 1 .. Width(s, k + 1) /\ w \in 1 .. w
    BY <1>1, <1>3
  <2>2. t[p] = <<l[2 * w - 1], l[2 * w]>>
    BY <1>1, <2>1
  <2> QED BY <2>1, <2>2 DEF w, t, l
<1> QED BY <1>2, <1>3

\* A leaf is no pair of hashes.
LEMMA LeafIsNoPair == ASSUME NEW x, NEW a, NEW b PROVE <<x>> # <<a, b>>
OBVIOUS

\* The nodes at the bottom are hashes of transactions.
LEMMA NodeIsLeaf ==
  ASSUME NEW s \in Blocks, NEW p \in 1 .. Width(s, 0)
  PROVE  /\ Len(s) \in Nat /\ Len(s) >= 1
         /\ Levels(s)[0][p] = <<s[IF p <= Len(s) THEN p ELSE Len(s)]>>
         /\ Width(s, 0) = IF Len(s) % 2 = 1 THEN Len(s) + 1 ELSE Len(s)
<1>1. Len(s) \in Nat /\ Len(s) >= 1 /\ Levels(s)[0] = PadLeaves(Leaves(s))
  BY LevelsAre, LevelShape
<1>2. /\ Width(s, 0) = IF Len(s) % 2 = 1 THEN Len(s) + 1 ELSE Len(s)
      /\ \A i \in 1 .. Len(s) : Levels(s)[0][i] = <<s[i]>>
      /\ \A i \in Len(s) + 1 .. Width(s, 0) : Levels(s)[0][i] = <<s[Len(s)]>>
  BY <1>1, BottomLevel DEF Width
<1>3. CASE p <= Len(s)
  <2>1. p \in 1 .. Len(s)
    BY <1>1, <1>3
  <2> QED BY <1>1, <1>2, <1>3, <2>1
<1>4. CASE ~(p <= Len(s))
  <2>1. p \in Len(s) + 1 .. Width(s, 0)
    BY <1>1, <1>2, <1>4
  <2> QED BY <1>1, <1>2, <1>4, <2>1
<1> QED BY <1>3, <1>4

\* A proof leads to the root of a block only if it is as long as the tree is high: on
\* the way down it meets nodes of the tree, and leaves are no pairs.
LEMMA DepthIsHeight ==
  ASSUME NEW s \in Blocks, NEW d, NEW j \in Nat, NEW hs, Len(hs) \in Nat,
         Climb(<<d>>, j, hs)[Len(hs)] = GetMerkleRoot(s)
  PROVE  Len(hs) = Height(s)
<1> DEFINE H == Height(s)
           n == Len(hs)
           B == Ancestors(j, n)
           C == Climb(<<d>>, j, hs)
           m == IF n < H THEN n ELSE H
           Met(i, k) == \E p \in 1 .. Width(s, k) : C[i] = Levels(s)[k][p]
           Good == {t \in 0 .. m : Met(n - t, H - t)}
<1>1. H \in Nat /\ H >= 1 /\ n \in Nat /\ m \in 0 .. n /\ m \in 0 .. H /\ Width(s, H) = 1
  BY HeightIs
<1>2. C[0] = <<d>> /\ \A i \in 0 .. n - 1 : C[i + 1] = Combine(C[i], B[i], hs[i + 1])
  BY ClimbIs
<1>3. C[n] = Levels(s)[H][1]
  <2>1. s # <<>>
    BY DEF Blocks
  <2> QED BY <2>1 DEF GetMerkleRoot
<1> HIDE DEF C, B
<1>4. \A i \in 0 .. n - 1 : C[i + 1] = <<C[i], hs[i + 1]>> \/ C[i + 1] = <<hs[i + 1], C[i]>>
  BY <1>2 DEF Combine, HashPair
<1>5. Met(n, H)
  BY <1>1, <1>3
<1>6. ASSUME NEW i \in 0 .. n - 1, NEW k \in 0 .. H - 1, Met(i + 1, k + 1) PROVE Met(i, k)
  <2> DEFINE w == Width(s, k) \div 2
             l == Levels(s)[k]
  <2>1. PICK p \in 1 .. Width(s, k + 1) : C[i + 1] = Levels(s)[k + 1][p]
    BY <1>6
  <2>2. PICK q \in 1 .. w : Levels(s)[k + 1][p] = <<l[2 * q - 1], l[2 * q]>>
    BY PairAbove
  <2>3. w \in Nat /\ Width(s, k) = 2 * w
    BY NodeBelow
  <2> HIDE DEF w, l
  <2>4. 2 * q - 1 \in 1 .. Width(s, k) /\ 2 * q \in 1 .. Width(s, k)
    BY <2>3
  <2>5. C[i + 1] = <<C[i], hs[i + 1]>> \/ C[i + 1] = <<hs[i + 1], C[i]>>
    BY <1>4
  <2>6. C[i] = l[2 * q - 1] \/ C[i] = l[2 * q]
    BY <2>1, <2>2, <2>5
  <2> QED BY <2>4, <2>6 DEF l
<1>7. \A t \in 0 .. m : Met(n - t, H - t)
  <2>1. 0 \in Good
    <3>1. n - 0 = n /\ H - 0 = H /\ 0 \in 0 .. m
      BY <1>1
    <3> HIDE DEF Met, n, H, m
    <3> QED BY <1>5, <3>1
  <2>2. ASSUME NEW t \in 0 .. m - 1, t \in Good PROVE t + 1 \in Good
    <3>1. /\ n - (t + 1) \in 0 .. n - 1 /\ H - (t + 1) \in 0 .. H - 1 /\ t + 1 \in 0 .. m
          /\ (n - (t + 1)) + 1 = n - t /\ (H - (t + 1)) + 1 = H - t
      <4> HIDE DEF n, H, m
      <4> QED BY <1>1
    <3>2. Met(n - t, H - t)
      BY <2>2
    <3> HIDE DEF Met, n, H, m
    <3>3. Met(n - (t + 1), H - (t + 1))
      BY <1>6, <3>1, <3>2
    <3> QED BY <3>1, <3>3
  <2>3. m \in Nat
    <3> HIDE DEF n, H, m
    <3> QED BY <1>1
  <2>4. \A t \in 0 .. m : t \in Good
    <3> HIDE DEF Good, m
    <3> QED BY <2>1, <2>2, <2>3, Induction
  <2> HIDE DEF Met
  <2> QED BY <2>4
<1>8. Met(n - m, H - m)
  <2>1. m \in 0 .. m
    <3> HIDE DEF n, H, m
    <3> QED BY <1>1
  <2> HIDE DEF Met, n, H, m
  <2> QED BY <1>7, <2>1
<1>9. CASE n < H
  <2>1. m = n /\ n - m = 0 /\ H - m - 1 \in 0 .. H - 1 /\ (H - m - 1) + 1 = H - m
    <3>1. m = n
      BY <1>9
    <3> HIDE DEF n, H, m
    <3> QED BY <1>1, <1>9, <3>1
  <2>2. PICK p \in 1 .. Width(s, H - m) : C[0] = Levels(s)[H - m][p]
    BY <1>8, <2>1
  <2>3. \E a, b : Levels(s)[H - m][p] = <<a, b>>
    <3> DEFINE k == H - m - 1
    <3>1. k \in 0 .. Height(s) - 1 /\ k + 1 = H - m
      BY <2>1
    <3> HIDE DEF k, m
    <3>2. p \in 1 .. Width(s, k + 1)
      BY <3>1
    <3> QED BY <3>1, <3>2, PairAbove
  <2> QED BY <1>2, <2>2, <2>3, LeafIsNoPair
<1>10. CASE n > H
  <2>1. m = H /\ H - m = 0 /\ n - m - 1 \in 0 .. n - 1 /\ (n - m - 1) + 1 = n - m
    <3>1. m = H
      BY <1>1, <1>10
    <3> HIDE DEF n, H, m
    <3> QED BY <1>1, <1>10, <3>1
  <2>2. PICK p \in 1 .. Width(s, 0) : C[n - m] = Levels(s)[0][p]
    BY <1>8, <2>1
  <2>3. \E x : Levels(s)[0][p] = <<x>>
    BY NodeIsLeaf
  <2>4. \E a, b : C[n - m] = <<a, b>>
    <3> HIDE DEF m, n, H
    <3> QED BY <1>4, <2>1
  <2> QED BY <2>2, <2>3, <2>4, LeafIsNoPair
<1> QED BY <1>1, <1>9, <1>10

\* The indexes on the way up are naturals.
LEMMA AncestorsAreNat ==
  ASSUME NEW j \in Nat, NEW n \in Nat
  PROVE  \A k \in 0 .. n : Ancestors(j, n)[k] \in Nat
<1> DEFINE A == Ancestors(j, n)
           Good == {k \in 0 .. n : A[k] \in Nat}
<1>1. A[0] = j /\ \A k \in 0 .. n - 1 : A[k + 1] = A[k] \div 2
  BY AncestorsAre
<1> HIDE DEF A
<1>2. 0 \in Good
  BY <1>1
<1>3. ASSUME NEW k \in 0 .. n - 1, k \in Good PROVE k + 1 \in Good
  <2>1. A[k] \in Nat /\ A[k + 1] = A[k] \div 2
    BY <1>1, <1>3
  <2>2. A[k + 1] \in Nat
    BY <2>1
  <2> QED BY <2>2
<1>4. \A k \in 0 .. n : k \in Good
  <2> HIDE DEF Good
  <2> QED BY <1>2, <1>3, Induction
<1> QED BY <1>4 DEF A

\* Which of the two nodes below it is that the way up came from: the node of its index,
\* or, where the index is beyond the tree, one of the second half of the level.
LEMMA WayDown ==
  ASSUME NEW a \in Nat, NEW w \in Nat, w >= 1, NEW q \in Nat, q >= 1, NEW r \in 1 .. w, NEW W,
         W = IF w % 2 = 1 /\ w > 1 THEN w + 1 ELSE w,
         r = q \/ (q = w + 1 /\ r = w /\ w > 1),
         q = a \div 2 + 1 \/ (a \div 2 + 1 > W /\ 2 * q > W /\ W > 1)
  PROVE  LET p == IF a % 2 = 0 THEN 2 * r - 1 ELSE 2 * r
         IN  p \in 1 .. 2 * w /\ (p = a + 1 \/ (a + 1 > 2 * w /\ 2 * p > 2 * w))
<1> DEFINE p == IF a % 2 = 0 THEN 2 * r - 1 ELSE 2 * r
           b == a \div 2
<1>1. b \in Nat /\ a = 2 * b + (a % 2) /\ (a % 2 = 0 \/ a % 2 = 1)
  OBVIOUS
<1>2. p \in 1 .. 2 * w /\ p >= 2 * r - 1
  OBVIOUS
<1>3. CASE q = b + 1 /\ r = q
  <2>1. p = a + 1
    BY <1>1, <1>3
  <2> QED BY <1>2, <2>1
<1>4. CASE q = b + 1 /\ q = w + 1 /\ r = w /\ w > 1
  <2>1. a + 1 > 2 * w /\ 2 * r - 1 > w
    BY <1>1, <1>4
  <2> QED BY <1>2, <2>1
<1>5. CASE b + 1 > W /\ 2 * q > W /\ W > 1 /\ r = q
  <2>1. a + 1 > 2 * w
    BY <1>1, <1>5
  <2>2. 2 * r - 1 > w
    BY <1>5
  <2> HIDE DEF p
  <2> QED BY <1>2, <2>1, <2>2
<1>6. CASE b + 1 > W /\ r = w /\ w > 1
  <2>1. a + 1 > 2 * w /\ 2 * r - 1 > w
    BY <1>1, <1>6
  <2> HIDE DEF p
  <2> QED BY <1>2, <2>1
<1> QED BY <1>3, <1>4, <1>5, <1>6

\* What leads to the root of a block from place j is the leaf at j of its tree, or, if
\* the tree of another block is as high and has such a place, one of its second half.
LEMMA ClimbsFromLeaf ==
  ASSUME NEW s \in Blocks, NEW d, NEW j \in Nat, NEW hs, Len(hs) = Height(s),
         Ancestors(j, Height(s))[Height(s)] = 0,
         Climb(<<d>>, j, hs)[Height(s)] = GetMerkleRoot(s)
  PROVE  \E q \in 1 .. Width(s, 0) :
           /\ <<d>> = Levels(s)[0][q]
           /\ q = j + 1 \/ (j + 1 > Width(s, 0) /\ 2 * q > Width(s, 0))
<1> DEFINE H == Height(s)
           A == Ancestors(j, H)
           C == Climb(<<d>>, j, hs)
           At(k) == \E q \in 1 .. Width(s, k) :
                      /\ C[k] = Levels(s)[k][q]
                      /\ q = A[k] + 1 \/ (A[k] + 1 > Width(s, k) /\ 2 * q > Width(s, k))
           Good == {k \in 0 .. H : At(k)}
<1>1. H \in Nat /\ H >= 1 /\ Width(s, H) = 1
  BY HeightIs
<1>2. C[0] = <<d>> /\ \A k \in 0 .. H - 1 : C[k + 1] = Combine(C[k], A[k], hs[k + 1])
  <2>1. Len(hs) \in Nat /\ Len(hs) = H
    BY <1>1
  <2> HIDE DEF H
  <2> QED BY <2>1, ClimbIs
<1>3. C[H] = Levels(s)[H][1]
  <2>1. s # <<>>
    BY DEF Blocks
  <2> QED BY <2>1 DEF GetMerkleRoot
<1>4. /\ A[0] = j /\ A[H] = 0 /\ \A k \in 0 .. H - 1 : A[k + 1] = A[k] \div 2
      /\ \A k \in 0 .. H : A[k] \in Nat
  <2>1. A[H] = 0
    OBVIOUS
  <2> HIDE DEF H
  <2>2. A[0] = j /\ \A k \in 0 .. H - 1 : A[k + 1] = A[k] \div 2
    BY <1>1, AncestorsAre
  <2>3. \A k \in 0 .. H : A[k] \in Nat
    BY <1>1, AncestorsAreNat
  <2> HIDE DEF A
  <2> QED BY <2>1, <2>2, <2>3
<1> HIDE DEF C, A
<1>5. At(H)
  <2>1. 1 \in 1 .. Width(s, H) /\ 1 = A[H] + 1
    BY <1>1, <1>4
  <2> HIDE DEF H
  <2> QED BY <1>3, <2>1
<1>6. ASSUME NEW k \in 0 .. H - 1, At(k + 1) PROVE At(k)
  <2> DEFINE w == Width(s, k) \div 2
             W == Width(s, k + 1)
             l == Levels(s)[k]
             a == A[k]
  <2>1. PICK q \in 1 .. W :
          /\ C[k + 1] = Levels(s)[k + 1][q]
          /\ q = A[k + 1] + 1 \/ (A[k + 1] + 1 > W /\ 2 * q > W)
    BY <1>6
  <2>2. /\ w \in Nat /\ w >= 1 /\ Width(s, k) = 2 * w
        /\ W = IF w % 2 = 1 /\ w > 1 THEN w + 1 ELSE w
    BY NodeBelow
  <2>3. PICK r \in 1 .. w : /\ Levels(s)[k + 1][q] = <<l[2 * r - 1], l[2 * r]>>
                            /\ r = q \/ (q = w + 1 /\ r = w /\ w > 1)
    BY PairAbove
  <2>4. a \in Nat /\ A[k + 1] = a \div 2 /\ k \in 0 .. H
    <3> HIDE DEF H
    <3> QED BY <1>1, <1>4
  <2>5. A[k + 1] + 1 > W => W > 1
    <3>1. CASE k + 1 = H
      <4>1. A[k + 1] = 0 /\ W = 1
        BY <1>1, <1>4, <3>1
      <4> QED BY <4>1
    <3>2. CASE k + 1 # H
      <4>1. k + 1 \in 0 .. H - 1
        BY <1>1, <3>2
      <4> QED BY <4>1, HeightIs
    <3> QED BY <3>1, <3>2
  <2> DEFINE p == IF a % 2 = 0 THEN 2 * r - 1 ELSE 2 * r
  <2>6. p \in 1 .. 2 * w /\ (p = a + 1 \/ (a + 1 > 2 * w /\ 2 * p > 2 * w))
    <3>1. q \in Nat /\ q >= 1
      BY <2>2
    <3>2. q = a \div 2 + 1 \/ (a \div 2 + 1 > W /\ 2 * q > W /\ W > 1)
      BY <2>1, <2>4, <2>5
    <3>3. w \in Nat /\ w >= 1 /\ W = IF w % 2 = 1 /\ w > 1 THEN w + 1 ELSE w
      BY <2>2
    <3>4. r = q \/ (q = w + 1 /\ r = w /\ w > 1)
      BY <2>3
    <3>5. a \in Nat
      BY <2>4
    <3> HIDE DEF w, W, a, H
    <3> QED BY <3>1, <3>2, <3>3, <3>4, <3>5, WayDown
  <2>7. C[k] = l[p]
    <3>1. Combine(C[k], a, hs[k + 1]) = <<l[2 * r - 1], l[2 * r]>>
      <4>1. C[k + 1] = Combine(C[k], a, hs[k + 1])
        BY <1>2
      <4> QED BY <2>1, <2>3, <4>1
    <3> HIDE DEF l, a
    <3> QED BY <3>1 DEF Combine, HashPair
  <2> HIDE DEF p, w, H
  <2> QED BY <2>2, <2>6, <2>7
<1>7. \A k \in 0 .. H : k \in Good
  <2>1. H \in Good
    <3> HIDE DEF At, H
    <3> QED BY <1>1, <1>5
  <2>2. ASSUME NEW k \in 0 .. H - 1, k + 1 \in Good PROVE k \in Good
    <3>1. At(k + 1) /\ k \in 0 .. H
      <4> HIDE DEF At, H
      <4> QED BY <1>1, <2>2
    <3> HIDE DEF At, H
    <3> QED BY <1>6, <3>1
  <2> HIDE DEF Good, H
  <2> QED BY <1>1, <2>1, <2>2, DownwardInduction
<1>8. At(0)
  <2>1. 0 \in 0 .. H
    <3> HIDE DEF H
    <3> QED BY <1>1
  <2> HIDE DEF At
  <2> QED BY <1>7, <2>1
<1> QED BY <1>2, <1>4, <1>8

\* A proof has one sibling per level.
LEMMA ProofLength ==
  ASSUME NEW s \in Blocks, NEW j
  PROVE  Len(Siblings(s, j)) = Height(s) /\ Height(s) \in Nat
<1> DEFINE H == Height(s)
<1>1. H \in Nat
  BY HeightIs
<1>2. Siblings(s, j) = [k \in 1 .. H |-> Sibling(Levels(s)[k - 1], Ancestors(j, H)[k - 1])]
  BY DEF Siblings
<1> HIDE DEF H
<1> QED BY <1>1, <1>2 DEF H

\* A proof from one block, presented for a place of another, shows what is there.
LEMMA AcceptedHolds ==
  ASSUME NEW s \in Blocks, NEW t \in Blocks, NEW i \in Indexes(t), NEW j \in Indexes(s), NEW d,
         VerifyMerkleProof(GetMerkleRoot(s), d, [GenerateMerkleProof(t, i) EXCEPT !.index = j])
  PROVE  s[j + 1] = d
<1> DEFINE hs == Siblings(t, i)
<1>1. Len(hs) \in Nat
  BY ProofLength
<1>2. Climb(<<d>>, j, hs)[Len(hs)] = GetMerkleRoot(s)
  BY DEF VerifyMerkleProof, GenerateMerkleProof, Climbed, SimpleHash
<1> HIDE DEF hs
<1>3. Len(s) \in Nat /\ j \in Nat /\ j + 1 <= Len(s)
  BY LevelShape DEF Indexes
<1>4. Len(hs) = Height(s)
  BY <1>1, <1>2, <1>3, DepthIsHeight
<1>5. Ancestors(j, Height(s))[Height(s)] = 0
  BY PathIsInTree
<1>6. PICK q \in 1 .. Width(s, 0) :
        /\ <<d>> = Levels(s)[0][q]
        /\ q = j + 1 \/ (j + 1 > Width(s, 0) /\ 2 * q > Width(s, 0))
  <2>1. Climb(<<d>>, j, hs)[Height(s)] = GetMerkleRoot(s)
    BY <1>2, <1>4
  <2> QED BY <1>3, <1>4, <1>5, <2>1, ClimbsFromLeaf
<1>7. /\ Levels(s)[0][q] = <<s[IF q <= Len(s) THEN q ELSE Len(s)]>>
      /\ Width(s, 0) >= Len(s) /\ Width(s, 0) \in Nat
  <2>1. Width(s, 0) = IF Len(s) % 2 = 1 THEN Len(s) + 1 ELSE Len(s)
    BY NodeIsLeaf
  <2>2. Width(s, 0) >= Len(s) /\ Width(s, 0) \in Nat
    BY <1>3, <2>1
  <2> QED BY <2>2, NodeIsLeaf
<1>8. q = j + 1
  BY <1>3, <1>6, <1>7
<1>9. <<d>> = <<s[j + 1]>>
  BY <1>3, <1>6, <1>7, <1>8
<1> QED BY <1>9

\* Of two blocks with one root, the longer repeats the second half of the other.
LEMMA RootFixesBlock ==
  ASSUME NEW s \in Blocks, NEW t \in Blocks, GetMerkleRoot(s) = GetMerkleRoot(t),
         NEW k \in 1 .. Len(t)
  PROVE  /\ k <= Len(s) => t[k] = s[k]
         /\ k > Len(s) => \E i \in 1 .. Len(s) : 2 * i > Len(s) /\ t[k] = s[i]
<1> DEFINE j == k - 1
           hs == Siblings(t, j)
<1>1. Len(s) \in Nat /\ Len(t) \in Nat /\ j \in Nat /\ j \in Indexes(t) /\ j + 1 = k
  BY LevelShape DEF Indexes
<1> HIDE DEF j
<1>2. Len(hs) = Height(t) /\ Len(hs) \in Nat
  BY ProofLength
<1>3. Climb(<<t[k]>>, j, hs)[Len(hs)] = GetMerkleRoot(s)
  <2>1. VerifyMerkleProof(GetMerkleRoot(t), t[j + 1], GenerateMerkleProof(t, j))
    BY <1>1, ProofVerifies
  <2> QED BY <1>1, <2>1 DEF VerifyMerkleProof, GenerateMerkleProof, Climbed, SimpleHash
<1> HIDE DEF hs
<1>4. Len(hs) = Height(s)
  BY <1>1, <1>2, <1>3, DepthIsHeight
<1>5. Ancestors(j, Height(s))[Height(s)] = 0
  <2>1. Ancestors(j, Height(t))[Height(t)] = 0
    BY <1>1, PathIsInTree
  <2> QED BY <1>2, <1>4, <2>1
<1>6. PICK q \in 1 .. Width(s, 0) :
        /\ <<t[k]>> = Levels(s)[0][q]
        /\ q = j + 1 \/ (j + 1 > Width(s, 0) /\ 2 * q > Width(s, 0))
  <2>1. Climb(<<t[k]>>, j, hs)[Height(s)] = GetMerkleRoot(s)
    BY <1>3, <1>4
  <2> DEFINE d == t[k]
  <2>2. Climb(<<d>>, j, hs)[Height(s)] = GetMerkleRoot(s)
    BY <2>1
  <2>3. j \in Nat
    BY <1>1
  <2> HIDE DEF d
  <2>4. \E q \in 1 .. Width(s, 0) :
          /\ <<d>> = Levels(s)[0][q]
          /\ q = j + 1 \/ (j + 1 > Width(s, 0) /\ 2 * q > Width(s, 0))
    BY <1>4, <1>5, <2>2, <2>3, ClimbsFromLeaf
  <2> QED BY <2>4 DEF d
<1> DEFINE i == IF q <= Len(s) THEN q ELSE Len(s)
<1>7. /\ Levels(s)[0][q] = <<s[i]>> /\ Len(s) >= 1
      /\ Width(s, 0) = IF Len(s) % 2 = 1 THEN Len(s) + 1 ELSE Len(s)
  BY NodeIsLeaf
<1>8. t[k] = s[i]
  BY <1>6, <1>7
<1>9. i \in 1 .. Len(s) /\ (k <= Len(s) => i = k) /\ (k > Len(s) => 2 * i > Len(s))
  BY <1>1, <1>6, <1>7
<1> HIDE DEF i
<1> QED BY <1>8, <1>9

-----------------------------------------------------------------------------
(***************************************************************************)
(* The theorems.                                                           *)
(***************************************************************************)

\* Both lists are lists of transactions.
MerkleTypeOK == txs \in Seq(Data) /\ other \in Seq(Data)

\* They are grown by appending (NewMerkleTree takes any).
THEOREM MerkleInvariant == MerkleSpec => []MerkleTypeOK
<1>1. MerkleInit => MerkleTypeOK
  BY DEF MerkleInit, MerkleTypeOK
<1>2. MerkleTypeOK /\ [MerkleNext]_<<txs, other>> => MerkleTypeOK'
  <2> SUFFICES ASSUME MerkleTypeOK, [MerkleNext]_<<txs, other>> PROVE MerkleTypeOK'
    OBVIOUS
  <2>1. ASSUME NEW d \in Data, AddTx(d) PROVE MerkleTypeOK'
    BY <2>1, AppendProperties DEF AddTx, MerkleTypeOK
  <2>2. ASSUME NEW d \in Data, AddOther(d) PROVE MerkleTypeOK'
    BY <2>2, AppendProperties DEF AddOther, MerkleTypeOK
  <2>3. CASE UNCHANGED <<txs, other>>
    BY <2>3 DEF MerkleTypeOK
  <2> QED BY <2>1, <2>2, <2>3 DEF MerkleNext
<1> QED BY <1>1, <1>2, PTL DEF MerkleSpec

\* GenerateMerkleProof and VerifyMerkleProof fit together for blocks of any length.
THEOREM ProofsVerify == MerkleSpec => []EveryProofVerifies
<1>1. MerkleTypeOK => EveryProofVerifies
  <2> SUFFICES ASSUME MerkleTypeOK, NEW i \in Indexes(txs)
               PROVE  VerifyMerkleProof(GetMerkleRoot(txs), txs[i + 1], GenerateMerkleProof(txs, i))
    BY DEF EveryProofVerifies
  <2>1. txs \in Blocks
    <3>1. txs # <<>>
      BY DEF Indexes
    <3> QED BY <3>1 DEF MerkleTypeOK, Blocks
  <2> QED BY <2>1, ProofVerifies
<1> QED BY <1>1, MerkleInvariant, PTL

\* VerifyMerkleProof accepts nothing but the transaction at the place it is asked
\* about, whichever block of whatever length the proof was made for.
THEOREM AcceptedLeavesAreThere == MerkleSpec => []AcceptedIsThere
<1>1. MerkleTypeOK => AcceptedIsThere
  <2> SUFFICES ASSUME MerkleTypeOK, NEW i \in Indexes(other), NEW j \in Indexes(txs), NEW d \in Data,
                      VerifyMerkleProof(GetMerkleRoot(txs), d,
                                        [GenerateMerkleProof(other, i) EXCEPT !.index = j])
               PROVE  txs[j + 1] = d
    BY DEF AcceptedIsThere
  <2>1. txs \in Blocks /\ other \in Blocks
    <3>1. txs # <<>> /\ other # <<>>
      BY DEF Indexes
    <3> QED BY <3>1 DEF MerkleTypeOK, Blocks
  <2> QED BY <2>1, AcceptedHolds
<1> QED BY <1>1, MerkleInvariant, PTL

\* The root fixes the block up to the repetitions the padding makes.
THEOREM RootsFixBlocks == MerkleSpec => []SameRootSameBlock
<1>1. MerkleTypeOK => SameRootSameBlock
  <2> SUFFICES ASSUME MerkleTypeOK, GetMerkleRoot(txs) = GetMerkleRoot(other), Len(txs) <= Len(other)
               PROVE  /\ SubSeq(other, 1, Len(txs)) = txs
                      /\ \A k \in Len(txs) + 1 .. Len(other) :
                           \E i \in DOMAIN txs : 2 * i > Len(txs) /\ other[k] = txs[i]
    BY DEF SameRootSameBlock
  <2>1. /\ txs \in Seq(Data) /\ other \in Seq(Data)
        /\ Len(txs) \in Nat /\ Len(other) \in Nat /\ DOMAIN txs = 1 .. Len(txs)
    BY DEF MerkleTypeOK
  <2>2. CASE txs = <<>> /\ other = <<>>
    BY <2>2
  <2>3. CASE txs = <<>> /\ other # <<>>
    <3>1. GetMerkleRoot(txs) = <<>>
      BY <2>3 DEF GetMerkleRoot, EmptyMerkleRoot
    <3>2. other \in Blocks
      BY <2>1, <2>3 DEF Blocks
    <3>3. \E a, b : GetMerkleRoot(other) = <<a, b>>
      <4> DEFINE H == Height(other)
      <4>1. H - 1 \in 0 .. H - 1 /\ (H - 1) + 1 = H /\ 1 \in 1 .. Width(other, H)
        BY <3>2, HeightIs
      <4>2. GetMerkleRoot(other) = Levels(other)[H][1]
        BY <2>3 DEF GetMerkleRoot
      <4> DEFINE k == H - 1
      <4>3. k \in 0 .. Height(other) - 1 /\ 1 \in 1 .. Width(other, k + 1)
        BY <4>1
      <4>4. \E a, b : Levels(other)[k + 1][1] = <<a, b>>
        <5> HIDE DEF k
        <5> QED BY <3>2, <4>3, PairAbove
      <4> QED BY <4>1, <4>2, <4>4
    <3>4. PICK a, b : GetMerkleRoot(other) = <<a, b>>
      BY <3>3
    <3>5. <<a, b>> # <<>>
      OBVIOUS
    <3> QED BY <3>1, <3>4, <3>5
  <2>4. CASE txs # <<>>
    <3>1. txs \in Blocks /\ other \in Blocks
      BY <2>1, <2>4, EmptySeq DEF Blocks
    <3>2. ASSUME NEW k \in 1 .. Len(other)
          PROVE  /\ k <= Len(txs) => other[k] = txs[k]
                 /\ k > Len(txs) => \E i \in 1 .. Len(txs) : 2 * i > Len(txs) /\ other[k] = txs[i]
      BY <3>1, RootFixesBlock
    <3>3. SubSeq(other, 1, Len(txs)) = txs
      <4>1. \A k \in 1 .. Len(txs) : other[k] = txs[k]
        BY <2>1, <3>2
      <4>2. SubSeq(other, 1, Len(txs)) = [k \in 1 .. Len(txs) |-> other[k]]
        BY <2>1
      <4> QED BY <2>1, <4>1, <4>2
    <3>4. ASSUME NEW k \in Len(txs) + 1 .. Len(other)
          PROVE  \E i \in DOMAIN txs : 2 * i > Len(txs) /\ other[k] = txs[i]
      <4>1. k \in 1 .. Len(other) /\ k > Len(txs)
        BY <2>1
      <4>2. \E i \in 1 .. Len(txs) : 2 * i > Len(txs) /\ other[k] = txs[i]
        BY <3>2, <4>1
      <4> QED BY <2>1, <4>2
    <3> QED BY <3>3, <3>4
  <2> QED BY <2>2, <2>3, <2>4
<1> QED BY <1>1, MerkleInvariant, PTL
=============================================================================
