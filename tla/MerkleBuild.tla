---------------------------- MODULE MerkleBuild -----------------------------
(***************************************************************************)
(* BuildMerkleTree as the loop it is, one iteration a step, from every     *)
(* batch of at most MaxLeaves leaves.                                      *)
(***************************************************************************)
EXTENDS Integers, Sequences, FiniteSets, Merkle

CONSTANTS
  Contents,   \* the leaves a batch is made of; a batch may repeat one
  MaxLeaves   \* bound: leaves in a batch

ASSUME SomeLeaves == MaxLeaves \in Nat \ {0}

VARIABLES
  leaves,  \* the batch
  tree     \* the loop state

buildVars == <<leaves, tree>>

Batches == UNION {[1..n -> Contents] : n \in 1..MaxLeaves}

BuildInit == leaves \in Batches /\ tree = MerkleStart(leaves)

Built == Len(tree.level) = 1

Reduce ==
  /\ ~ Built
  /\ tree' = MerkleStep(tree)
  /\ UNCHANGED leaves

BuildSpec == BuildInit /\ [][Reduce]_buildVars /\ WF_buildVars(Reduce)

-----------------------------------------------------------------------------
(***************************************************************************)
(* The loop invariant: at every level, each leaf's proof so far climbs     *)
(* from the leaf to the node it currently sits under.                      *)
(***************************************************************************)
ProofsReachLevel ==
  \A i \in DOMAIN leaves :
    /\ tree.positions[i] \in 0..(Len(tree.level) - 1)
    /\ VerifyMerkleProof(leaves[i], tree.level[tree.positions[i] + 1], tree.proofs[i])

(***************************************************************************)
(* A finished proof vouches for its own leaf and for no other, whether or  *)
(* not the other is in the batch.                                          *)
(***************************************************************************)
ProofsAreExclusive ==
  Built => \A i \in DOMAIN leaves, x \in Contents :
             VerifyMerkleProof(x, tree.level[1], tree.proofs[i]) <=> x = leaves[i]

Occurrences(s, x) == Cardinality({i \in DOMAIN s : s[i] = x})

(***************************************************************************)
(* The root determines the batch up to order: no other batch, shorter or   *)
(* longer, with a leaf repeated or left out, hashes to it.                 *)
(***************************************************************************)
RootFixesLeaves ==
  Built => \A other \in Batches :
             MerkleRoot(other) = tree.level[1]
               => \A x \in Contents : Occurrences(other, x) = Occurrences(leaves, x)

(* The loop ends, with the tree the other modules call BuildMerkleTree.    *)
LoopBuildsTree == <>(Built /\ tree = BuildMerkleTree(leaves))
=============================================================================
