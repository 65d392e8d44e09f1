------------------------------- MODULE Merkle -------------------------------
(***************************************************************************)
(* The Merkle trees over the transactions of a block: building the root,   *)
(* generating a proof and verifying it, level by level as the code does.   *)
(*                                                                         *)
(* SHA-256 has no collisions here: the hash of a leaf is <<data>>, that of *)
(* two concatenated hashes the pair of them.  Transaction identifiers are  *)
(* hashes themselves, never as long as two of them.                        *)
(*                                                                         *)
(* The state is two lists of transactions, grown one by one, so that every *)
(* pair of lists up to MaxLeaves is looked at.                             *)
(***************************************************************************)
EXTENDS Integers, Sequences

CONSTANTS
  Data,       \* transaction identifiers
  MaxLeaves   \* bound: transactions in a list

VARIABLES
  txs,    \* the transactions of a block
  other   \* those of another one

SimpleHash(d) == <<d>>
HashPair(l, r) == <<l, r>>
EmptyMerkleRoot == <<>>

Leaves(data) == [i \in DOMAIN data |-> SimpleHash(data[i])]

Odd(s) == Len(s) % 2 = 1
DuplicateLast(s) == Append(s, s[Len(s)])

\* A single leaf is paired with itself; a single node of a higher level is the root.
PadLeaves(s) == IF Odd(s) THEN DuplicateLast(s) ELSE s

\* Mutant of PadLevel: the first node is repeated.
PadLevelWithFirst(s) == IF Odd(s) /\ Len(s) > 1 THEN Append(s, s[1]) ELSE s

PadLevel(s) == IF Odd(s) /\ Len(s) > 1 THEN DuplicateLast(s) ELSE s

Parents(level) == [i \in 1 .. Len(level) \div 2 |-> HashPair(level[2 * i - 1], level[2 * i])]

\* The level above, as long as there is more than the root.
NextLevel(level) == IF Len(level) > 1 THEN PadLevel(Parents(level)) ELSE level

\* The levels of the tree over data, from the leaves up.  A level is smaller than the
\* one below, so the last of them has one node.
Levels(data) ==
  LET level[k \in 0 .. Len(data)] ==
        IF k = 0 THEN PadLeaves(Leaves(data)) ELSE NextLevel(level[k - 1])
  IN level

\* How often the loop of NewMerkleTree and GenerateMerkleProof is executed.
Height(data) ==
  LET level == Levels(data)
  IN  CHOOSE k \in 0 .. Len(data) : Len(level[k]) = 1 /\ \A m \in 0 .. k - 1 : Len(level[m]) > 1

\* NewMerkleTree and GetMerkleRoot.
GetMerkleRoot(data) ==
  IF data = <<>> THEN EmptyMerkleRoot ELSE Levels(data)[Height(data)][1]

\* The (zero-based) indexes on the way up from index: halved in each of n rounds.
Ancestors(index, n) ==
  LET above[k \in 0 .. n] == IF k = 0 THEN index ELSE above[k - 1] \div 2
  IN above

Sibling(level, n) == IF n % 2 = 0 THEN level[n + 2] ELSE level[n]

Siblings(data, index) ==
  LET level == Levels(data)
      n == Height(data)
      node == Ancestors(index, n)
  IN  [k \in 1 .. n |-> Sibling(level[k - 1], node[k - 1])]

GenerateMerkleProof(data, index) ==
  [hashes |-> Siblings(data, index), index |-> index, numLeaves |-> Len(data)]

\* Mutant of Climb: the sibling is always taken for the right one.
ClimbRight(h, index, hashes) ==
  LET hash[k \in 0 .. Len(hashes)] ==
        IF k = 0 THEN h ELSE HashPair(hash[k - 1], hashes[k])
  IN hash

\* The hash of a node and its sibling, on whichever side that is.
Combine(h, index, sibling) ==
  IF index % 2 = 0 THEN HashPair(h, sibling) ELSE HashPair(sibling, h)

\* The hashes on the way up from h.
Climb(h, index, hashes) ==
  LET node == Ancestors(index, Len(hashes))
      hash[k \in 0 .. Len(hashes)] ==
        IF k = 0 THEN h ELSE Combine(hash[k - 1], node[k - 1], hashes[k])
  IN hash

\* The hash compared with the root.
Climbed(h, proof) == Climb(h, proof.index, proof.hashes)[Len(proof.hashes)]

\* Mutant of VerifyMerkleProof: what the data is does not enter.
VerifyAnyLeaf(root, data, proof) ==
  proof.numLeaves # 0 /\ \E d \in Data : Climbed(SimpleHash(d), proof) = root

VerifyMerkleProof(root, data, proof) ==
  proof.numLeaves # 0 /\ Climbed(SimpleHash(data), proof) = root

-----------------------------------------------------------------------------
MerkleInit == txs = <<>> /\ other = <<>>

AddTx(d) == Len(txs) < MaxLeaves /\ txs' = Append(txs, d) /\ UNCHANGED other
AddOther(d) == Len(other) < MaxLeaves /\ other' = Append(other, d) /\ UNCHANGED txs

MerkleNext == \E d \in Data : AddTx(d) \/ AddOther(d)

MerkleSpec == MerkleInit /\ [][MerkleNext]_<<txs, other>>

-----------------------------------------------------------------------------
(***************************************************************************)
(* Properties.                                                             *)
(***************************************************************************)
Indexes(s) == 0 .. Len(s) - 1

\* The proof of every transaction of a block is accepted against its root,
\* whatever levels had to be padded on the way.
EveryProofVerifies ==
  \A i \in Indexes(txs) :
    VerifyMerkleProof(GetMerkleRoot(txs), txs[i + 1], GenerateMerkleProof(txs, i))

\* What is accepted is there: a proof made for one place of one block, presented
\* for index j of another, is accepted only for the transaction at j.
AcceptedIsThere ==
  LET root == GetMerkleRoot(txs)
  IN  \A i \in Indexes(other) :
        LET proof == GenerateMerkleProof(other, i)
        IN  \A j \in Indexes(txs), d \in Data :
              VerifyMerkleProof(root, d, [proof EXCEPT !.index = j]) => txs[j + 1] = d

\* Two blocks have the same root only if they are the same, or one is the other
\* with transactions of its end repeated, as the padding does.
SameRootSameBlock ==
  (GetMerkleRoot(txs) = GetMerkleRoot(other) /\ Len(txs) <= Len(other)) =>
    /\ SubSeq(other, 1, Len(txs)) = txs
    /\ \A k \in Len(txs) + 1 .. Len(other) :
         \E i \in DOMAIN txs : 2 * i > Len(txs) /\ other[k] = txs[i]
=============================================================================
