------------------------------- MODULE Merkle -------------------------------
(***************************************************************************)
(* The Merkle construction of internal/domain/merkle.go, as operators on   *)
(* sequences.                                                              *)
(*                                                                         *)
(* Hashing is modelled by free terms: two hashes are equal exactly when    *)
(* their inputs are.  A leaf (the double keccak of a certificate's content *)
(* hash and feature commitment) is an atom, an internal node is the set of *)
(* its two children.  The code hashes a pair in ascending byte order, so   *)
(* the set, which has no order, is what the pair hash distinguishes.  An   *)
(* atom is never a set: that is the domain separation the second hash of a *)
(* leaf buys.                                                              *)
(***************************************************************************)
EXTENDS Integers, Sequences

(* hashPair: the hash of two nodes, independent of which side they sat on. *)
HashPair(a, b) == {a, b}

(***************************************************************************)
(* The loop state of BuildMerkleTree: the level being reduced, where each  *)
(* leaf currently sits in it (0-based, as in the code), and the siblings   *)
(* each leaf has collected.                                                *)
(***************************************************************************)
MerkleStart(leaves) ==
  [level     |-> leaves,
   positions |-> [i \in DOMAIN leaves |-> i - 1],
   proofs    |-> [i \in DOMAIN leaves |-> << >>]]

(* Mutated: an odd last node is paired with itself.                        *)
ParentLevel_Duplicates(level) ==
  LET n == Len(level) IN
  [j \in 1..((n + 1) \div 2) |->
     IF 2 * j > n THEN HashPair(level[n], level[n])
     ELSE HashPair(level[2 * j - 1], level[2 * j])]

(* The next level up: neighbours are hashed, an odd last node is carried.  *)
ParentLevel(level) ==
  LET n == Len(level) IN
  [j \in 1..((n + 1) \div 2) |->
     IF 2 * j > n THEN level[n] ELSE HashPair(level[2 * j - 1], level[2 * j])]

(* Mutated: the last node of every level is taken for a carried one.       *)
Carried_Always(level, pos) == pos = Len(level) - 1

(* A carried-up node has no sibling at this level.                         *)
Carried(level, pos) == pos = Len(level) - 1 /\ Len(level) % 2 = 1

(* Mutated: the sibling is always taken on the right.                      *)
Sibling_Right(pos) == IF pos % 2 = 0 THEN pos + 1 ELSE pos

(* pos ^ 1 *)
Sibling(pos) == IF pos % 2 = 0 THEN pos + 1 ELSE pos - 1

(* One iteration of the outer loop.                                        *)
MerkleStep(t) ==
  [level     |-> ParentLevel(t.level),
   positions |-> [i \in DOMAIN t.positions |-> t.positions[i] \div 2],
   proofs    |-> [i \in DOMAIN t.proofs |->
                    IF Carried(t.level, t.positions[i])
                    THEN t.proofs[i]
                    ELSE Append(t.proofs[i], t.level[Sibling(t.positions[i]) + 1])]]

(* Mutated: the loop stops at a level of two nodes.                        *)
MerkleLoop_StopsAtPair(leaves) ==
  LET loop[k \in 0..Len(leaves)] ==
        IF k = 0 THEN MerkleStart(leaves)
        ELSE IF Len(loop[k - 1].level) > 2 THEN MerkleStep(loop[k - 1])
        ELSE loop[k - 1]
  IN  loop

(* The loop, run until one node is left; Len(leaves) iterations suffice.   *)
MerkleLoop(leaves) ==
  LET loop[k \in 0..Len(leaves)] ==
        IF k = 0 THEN MerkleStart(leaves)
        ELSE IF Len(loop[k - 1].level) > 1 THEN MerkleStep(loop[k - 1])
        ELSE loop[k - 1]
  IN  loop

BuildMerkleTree(leaves) == MerkleLoop(leaves)[Len(leaves)]

MerkleRoot(leaves) == BuildMerkleTree(leaves).level[1]

MerkleProof(leaves, i) == BuildMerkleTree(leaves).proofs[i]

(***************************************************************************)
(* The node reached from leaf after the first k siblings of proof: the     *)
(* accumulator of VerifyMerkleProof.  The contract's verify view runs the  *)
(* same fold, so a certificate's proof means the same to both.             *)
(***************************************************************************)
Climb(leaf, proof) ==
  LET computed[k \in 0..Len(proof)] ==
        IF k = 0 THEN leaf ELSE HashPair(computed[k - 1], proof[k])
  IN  computed

VerifyMerkleProof(leaf, root, proof) == Climb(leaf, proof)[Len(proof)] = root
=============================================================================
