--------------------------- MODULE MerkleTheorems ---------------------------
(***************************************************************************)
(* For batches of every size: each leaf's proof, as BuildMerkleTree        *)
(* collects it, climbs from the leaf to the root.                          *)
(***************************************************************************)
EXTENDS Merkle, WellFoundedInduction, TLAPS

(***************************************************************************)
(* Induction on the naturals, stated about a set: a set of naturals that   *)
(* holds 0 and is closed under successor is Nat.                           *)
(***************************************************************************)
LEMMA SetInduction ==
  ASSUME NEW T, T \subseteq Nat, 0 \in T, \A n \in T : n + 1 \in T
  PROVE  T = Nat
<1> SUFFICES ASSUME Nat \ T # {} PROVE FALSE
  OBVIOUS
<1> DEFINE Missing == Nat \ T
<1>1. PICK x \in Missing : \A y \in Missing : ~ (<<y, x>> \in OpToRel(<, Nat))
  BY NatLessThanWellFounded, WFMin
<1>2. \A y \in Missing : ~ (y < x)
  BY <1>1 DEF OpToRel
<1>3. x - 1 \in Missing
  BY SMT
<1> QED
  BY <1>2, <1>3, SMT

-----------------------------------------------------------------------------
(* A function on 1..m is a sequence of length m.                           *)
LEMMA FunctionIsSeq ==
  ASSUME NEW T, NEW m \in Nat, NEW f \in [1..m -> T]
  PROVE  f \in Seq(T) /\ Len(f) = m
OBVIOUS

-----------------------------------------------------------------------------
(* The accumulator of VerifyMerkleProof, as a function on 0..n.            *)
ClimbSteps(g, leaf, proof, n) ==
  g = [k \in 0..n |-> IF k = 0 THEN leaf ELSE HashPair(g[k - 1], proof[k])]

(* The fold is defined for every proof.                                    *)
LEMMA ClimbExists ==
  ASSUME NEW leaf, NEW proof, NEW n \in Nat
  PROVE  \E g : ClimbSteps(g, leaf, proof, n)
<1> DEFINE T == {m \in Nat : \E g : ClimbSteps(g, leaf, proof, m)}
<1>1. 0 \in T
  <2> DEFINE g == [k \in 0..0 |-> leaf]
  <2>1. ClimbSteps(g, leaf, proof, 0)
    BY DEF ClimbSteps
  <2> QED BY <2>1
<1>2. ASSUME NEW m \in T PROVE m + 1 \in T
  <2>1. PICK g : ClimbSteps(g, leaf, proof, m)
    OBVIOUS
  <2> DEFINE h == [k \in 0..(m + 1) |-> IF k = m + 1 THEN HashPair(g[m], proof[m + 1]) ELSE g[k]]
  <2>2. ASSUME NEW k \in 0..(m + 1)
        PROVE  h[k] = IF k = 0 THEN leaf ELSE HashPair(h[k - 1], proof[k])
    <3>1. CASE k = m + 1
      BY <3>1
    <3>2. CASE k \in 0..m
      <4>1. g[k] = IF k = 0 THEN leaf ELSE HashPair(g[k - 1], proof[k])
        BY <2>1, <3>2 DEF ClimbSteps
      <4>2. h[k] = g[k] /\ (k # 0 => h[k - 1] = g[k - 1])
        BY <3>2
      <4> QED BY <4>1, <4>2
    <3> QED BY <3>1, <3>2
  <2>3. ClimbSteps(h, leaf, proof, m + 1)
    BY <2>2 DEF ClimbSteps
  <2> QED BY <2>3
<1> HIDE DEF T
<1>3. T = Nat
  BY <1>1, <1>2, SetInduction DEF T
<1> QED BY <1>3 DEF T

(* Its recursion equation.                                                 *)
LEMMA ClimbDef ==
  ASSUME NEW leaf, NEW proof, Len(proof) \in Nat
  PROVE  ClimbSteps(Climb(leaf, proof), leaf, proof, Len(proof))
<1>1. \E g : ClimbSteps(g, leaf, proof, Len(proof))
  BY ClimbExists
<1> QED BY <1>1 DEF ClimbSteps, Climb

(* Two climbs along sequences that agree on their first n siblings agree.  *)
LEMMA ClimbUnique ==
  ASSUME NEW leaf, NEW p, NEW q, NEW n \in Nat, NEW m \in Nat, n <= m,
         \A k \in 1..n : p[k] = q[k],
         NEW g, ClimbSteps(g, leaf, p, n),
         NEW h, ClimbSteps(h, leaf, q, m)
  PROVE  g[n] = h[n]
<1> DEFINE T == {k \in Nat : k <= n => g[k] = h[k]}
<1>1. 0 \in T
  BY DEF ClimbSteps
<1>2. ASSUME NEW k \in T PROVE k + 1 \in T
  <2> SUFFICES ASSUME k + 1 <= n PROVE g[k + 1] = h[k + 1]
    OBVIOUS
  <2>1. g[k] = h[k]
    OBVIOUS
  <2>2. g[k + 1] = HashPair(g[k], p[k + 1])
    BY DEF ClimbSteps
  <2>3. h[k + 1] = HashPair(h[k], q[k + 1])
    BY DEF ClimbSteps
  <2> QED BY <2>1, <2>2, <2>3
<1> HIDE DEF T
<1>3. T = Nat
  BY <1>1, <1>2, SetInduction DEF T
<1> QED BY <1>3 DEF T

(* One more sibling: the climb goes one hash further.                      *)
LEMMA ClimbAppend ==
  ASSUME NEW S, NEW p \in Seq(S), NEW x \in S, NEW leaf, NEW node,
         VerifyMerkleProof(leaf, node, p)
  PROVE  VerifyMerkleProof(leaf, HashPair(node, x), Append(p, x))
<1> DEFINE q == Append(p, x)
           g == Climb(leaf, p)
           h == Climb(leaf, q)
<1>1. /\ Len(p) \in Nat /\ Len(q) \in Nat /\ Len(q) = Len(p) + 1
      /\ \A k \in 1..Len(p) : p[k] = q[k]
      /\ q[Len(p) + 1] = x
  OBVIOUS
<1> HIDE DEF q
<1>2. ClimbSteps(g, leaf, p, Len(p)) /\ ClimbSteps(h, leaf, q, Len(q))
  BY <1>1, ClimbDef
<1> HIDE DEF g, h
<1>3. g[Len(p)] = h[Len(p)]
  BY <1>1, <1>2, ClimbUnique
<1>4. h[Len(q)] = HashPair(h[Len(p)], q[Len(q)])
  BY <1>1, <1>2 DEF ClimbSteps
<1> QED
  BY <1>1, <1>3, <1>4 DEF VerifyMerkleProof, q, g, h

(* An empty proof vouches for the leaf itself.                             *)
LEMMA ClimbNothing ==
  ASSUME NEW leaf
  PROVE  VerifyMerkleProof(leaf, leaf, << >>)
BY ClimbDef DEF ClimbSteps, VerifyMerkleProof

-----------------------------------------------------------------------------
(* The loop invariant of BuildMerkleTree.                                  *)
TreeInv(leaves, t) ==
  /\ \E S : t.level \in Seq(S)
  /\ t.positions \in [DOMAIN leaves -> 0..(Len(t.level) - 1)]
  /\ DOMAIN t.proofs = DOMAIN leaves
  /\ \A i \in DOMAIN leaves :
       /\ \E S : t.proofs[i] \in Seq(S)
       /\ VerifyMerkleProof(leaves[i], t.level[t.positions[i] + 1], t.proofs[i])

LEMMA ParentLevelIsSeq ==
  ASSUME NEW S, NEW level \in Seq(S)
  PROVE  /\ \E T : ParentLevel(level) \in Seq(T)
         /\ Len(ParentLevel(level)) = (Len(level) + 1) \div 2
<1> DEFINE n == Len(level)
           m == (n + 1) \div 2
           parent == ParentLevel(level)
           T == {parent[j] : j \in 1..m}
<1>1. m \in Nat
  OBVIOUS
<1>2. parent \in [1..m -> T]
  BY DEF ParentLevel
<1> HIDE DEF T, m
<1>3. parent \in Seq(T) /\ Len(parent) = m
  BY <1>1, <1>2, FunctionIsSeq
<1> QED BY <1>3 DEF m

(* Where a node of one level goes in the next.                             *)
LEMMA ParentNode ==
  ASSUME NEW S, NEW level \in Seq(S), NEW pos \in 0..(Len(level) - 1)
  PROVE  /\ pos \div 2 \in 0..(Len(ParentLevel(level)) - 1)
         /\ Carried(level, pos) =>
              ParentLevel(level)[pos \div 2 + 1] = level[pos + 1]
         /\ ~ Carried(level, pos) =>
              /\ Sibling(pos) \in 0..(Len(level) - 1)
              /\ ParentLevel(level)[pos \div 2 + 1]
                   = HashPair(level[pos + 1], level[Sibling(pos) + 1])
<1> DEFINE n == Len(level)
           m == (n + 1) \div 2
           parent == ParentLevel(level)
<1>1. n \in Nat /\ m \in Nat /\ pos \in Nat /\ pos < n
  OBVIOUS
<1>2. parent = [j \in 1..m |->
                  IF 2 * j > n THEN level[n]
                  ELSE HashPair(level[2 * j - 1], level[2 * j])]
  BY DEF ParentLevel
<1>4. Len(parent) = m
  BY ParentLevelIsSeq
<1>5. pos \div 2 \in 0..(m - 1) /\ pos \div 2 + 1 \in 1..m
  BY <1>1
<1>6. ASSUME Carried(level, pos)
      PROVE  parent[pos \div 2 + 1] = level[pos + 1]
  <2>1. pos = n - 1 /\ n % 2 = 1
    BY <1>6 DEF Carried
  <2>2. 2 * (pos \div 2 + 1) > n
    BY <2>1, <1>1
  <2> QED BY <2>1, <2>2, <1>2, <1>5, <1>1
<1>7. ASSUME ~ Carried(level, pos)
      PROVE  /\ Sibling(pos) \in 0..(n - 1)
             /\ parent[pos \div 2 + 1] = HashPair(level[pos + 1], level[Sibling(pos) + 1])
  <2>1. CASE pos % 2 = 0
    <3>1. pos + 1 < n /\ 2 * (pos \div 2 + 1) = pos + 2
      BY <2>1, <1>1, <1>7 DEF Carried
    <3>2. Sibling(pos) = pos + 1
      BY <2>1 DEF Sibling
    <3>3. parent[pos \div 2 + 1] = HashPair(level[pos + 1], level[pos + 2])
      BY <3>1, <1>1, <1>2, <1>5
    <3> QED BY <3>1, <3>2, <3>3, <1>1
  <2>2. CASE pos % 2 # 0
    <3>1. pos >= 1 /\ 2 * (pos \div 2 + 1) = pos + 1
      BY <2>2, <1>1
    <3>2. Sibling(pos) = pos - 1
      BY <2>2 DEF Sibling
    <3>3. parent[pos \div 2 + 1] = HashPair(level[pos], level[pos + 1])
      BY <3>1, <1>1, <1>2, <1>5
    <3> QED BY <3>1, <3>2, <3>3, <1>1 DEF HashPair
  <2> QED BY <2>1, <2>2
<1> QED BY <1>4, <1>5, <1>6, <1>7

(* One iteration preserves the loop invariant.                             *)
LEMMA StepPreservesTreeInv ==
  ASSUME NEW leaves, NEW t, TreeInv(leaves, t)
  PROVE  TreeInv(leaves, MerkleStep(t))
<1> DEFINE u == MerkleStep(t)
<1>1. PICK S : t.level \in Seq(S)
  BY DEF TreeInv
<1>2. /\ u.level = ParentLevel(t.level)
      /\ u.positions = [i \in DOMAIN t.positions |-> t.positions[i] \div 2]
      /\ u.proofs = [i \in DOMAIN t.proofs |->
                       IF Carried(t.level, t.positions[i])
                       THEN t.proofs[i]
                       ELSE Append(t.proofs[i], t.level[Sibling(t.positions[i]) + 1])]
  BY DEF MerkleStep
<1> HIDE DEF u
<1>3. DOMAIN t.positions = DOMAIN leaves /\ DOMAIN t.proofs = DOMAIN leaves
  BY DEF TreeInv
<1>4. \E T : u.level \in Seq(T)
  BY <1>1, <1>2, ParentLevelIsSeq
<1>5. ASSUME NEW i \in DOMAIN leaves
      PROVE  /\ u.positions[i] \in 0..(Len(u.level) - 1)
             /\ \E T : u.proofs[i] \in Seq(T)
             /\ VerifyMerkleProof(leaves[i], u.level[u.positions[i] + 1], u.proofs[i])
  <2> DEFINE pos == t.positions[i]
  <2>1. pos \in 0..(Len(t.level) - 1)
    BY DEF TreeInv
  <2>2. u.positions[i] = pos \div 2
    BY <1>2, <1>3
  <2> HIDE DEF pos
  <2>8. /\ pos \div 2 \in 0..(Len(u.level) - 1)
        /\ Carried(t.level, pos) => u.level[pos \div 2 + 1] = t.level[pos + 1]
        /\ ~ Carried(t.level, pos) =>
             u.level[pos \div 2 + 1] = HashPair(t.level[pos + 1], t.level[Sibling(pos) + 1])
    <3> DEFINE below == t.level
    <3>1. below \in Seq(S) /\ pos \in 0..(Len(below) - 1) /\ u.level = ParentLevel(below)
      BY <1>1, <1>2, <2>1
    <3> HIDE DEF below
    <3>2. /\ pos \div 2 \in 0..(Len(ParentLevel(below)) - 1)
          /\ Carried(below, pos) =>
               ParentLevel(below)[pos \div 2 + 1] = below[pos + 1]
          /\ ~ Carried(below, pos) =>
               /\ Sibling(pos) \in 0..(Len(below) - 1)
               /\ ParentLevel(below)[pos \div 2 + 1]
                    = HashPair(below[pos + 1], below[Sibling(pos) + 1])
      BY <3>1, ParentNode, Zenon
    <3> QED BY <3>1, <3>2 DEF below
  <2>3. u.positions[i] \in 0..(Len(u.level) - 1)
    BY <2>2, <2>8
  <2>4. PICK U : t.proofs[i] \in Seq(U)
    BY DEF TreeInv
  <2>5. VerifyMerkleProof(leaves[i], t.level[pos + 1], t.proofs[i])
    BY DEF TreeInv, pos
  <2>6. CASE Carried(t.level, pos)
    <3>1. u.proofs[i] = t.proofs[i]
      BY <1>2, <1>3, <2>6 DEF pos
    <3>2. u.level[u.positions[i] + 1] = t.level[pos + 1]
      BY <2>2, <2>6, <2>8
    <3> QED BY <2>3, <2>4, <2>5, <3>1, <3>2
  <2>7. CASE ~ Carried(t.level, pos)
    <3> DEFINE x == t.level[Sibling(pos) + 1]
               V == U \cup {x}
    <3>1. u.proofs[i] = Append(t.proofs[i], x)
      BY <1>2, <1>3, <2>7 DEF pos
    <3> HIDE DEF x
    <3>2. u.level[u.positions[i] + 1] = HashPair(t.level[pos + 1], x)
      BY <2>2, <2>7, <2>8 DEF x
    <3>3. t.proofs[i] \in Seq(V) /\ x \in V
      BY <2>4
    <3>4. Append(t.proofs[i], x) \in Seq(V)
      BY <3>3
    <3>5. VerifyMerkleProof(leaves[i], HashPair(t.level[pos + 1], x), Append(t.proofs[i], x))
      BY <2>5, <3>3, ClimbAppend
    <3> QED BY <2>3, <3>1, <3>2, <3>4, <3>5
  <2> QED BY <2>6, <2>7
<1>6. u.positions \in [DOMAIN leaves -> 0..(Len(u.level) - 1)] /\ DOMAIN u.proofs = DOMAIN leaves
  BY <1>2, <1>3, <1>5
<1> QED
  BY <1>4, <1>5, <1>6 DEF TreeInv, u

-----------------------------------------------------------------------------
(* The loop of BuildMerkleTree, as a function on 0..n.                     *)
LoopSteps(g, leaves, n) ==
  g = [k \in 0..n |->
         IF k = 0 THEN MerkleStart(leaves)
         ELSE IF Len(g[k - 1].level) > 1 THEN MerkleStep(g[k - 1])
         ELSE g[k - 1]]

(* The loop is defined for every number of iterations.                     *)
LEMMA LoopExists ==
  ASSUME NEW leaves, NEW n \in Nat
  PROVE  \E g : LoopSteps(g, leaves, n)
<1> DEFINE Turn(t) == IF Len(t.level) > 1 THEN MerkleStep(t) ELSE t
           T == {m \in Nat : \E g : LoopSteps(g, leaves, m)}
<1>1. 0 \in T
  <2> DEFINE g == [k \in 0..0 |-> MerkleStart(leaves)]
  <2>1. LoopSteps(g, leaves, 0)
    BY DEF LoopSteps
  <2> QED BY <2>1
<1>2. ASSUME NEW m \in T PROVE m + 1 \in T
  <2>1. PICK g : LoopSteps(g, leaves, m)
    OBVIOUS
  <2> DEFINE h == [k \in 0..(m + 1) |-> IF k = m + 1 THEN Turn(g[m]) ELSE g[k]]
  <2>2. ASSUME NEW k \in 0..(m + 1)
        PROVE  h[k] = IF k = 0 THEN MerkleStart(leaves) ELSE Turn(h[k - 1])
    <3> HIDE DEF Turn
    <3>1. CASE k = m + 1
      BY <3>1
    <3>2. CASE k \in 0..m
      <4>1. g[k] = IF k = 0 THEN MerkleStart(leaves) ELSE Turn(g[k - 1])
        BY <2>1, <3>2 DEF LoopSteps, Turn
      <4>2. h[k] = g[k] /\ (k # 0 => h[k - 1] = g[k - 1])
        BY <3>2
      <4> QED BY <4>1, <4>2
    <3> QED BY <3>1, <3>2
  <2>3. LoopSteps(h, leaves, m + 1)
    BY <2>2 DEF LoopSteps
  <2> QED BY <2>3
<1> HIDE DEF T
<1>3. T = Nat
  BY <1>1, <1>2, SetInduction DEF T
<1> QED BY <1>3 DEF T

(* Its recursion equation.                                                 *)
LEMMA LoopDef ==
  ASSUME NEW leaves, Len(leaves) \in Nat
  PROVE  LoopSteps(MerkleLoop(leaves), leaves, Len(leaves))
<1>1. \E g : LoopSteps(g, leaves, Len(leaves))
  BY LoopExists
<1> QED BY <1>1 DEF LoopSteps, MerkleLoop

(* An iteration that runs shortens the level and leaves at least one node. *)
LEMMA StepShortens ==
  ASSUME NEW S, NEW level \in Seq(S), Len(level) > 1
  PROVE  /\ Len(ParentLevel(level)) \in Nat \ {0}
         /\ Len(ParentLevel(level)) < Len(level)
<1>1. Len(ParentLevel(level)) = (Len(level) + 1) \div 2
  BY ParentLevelIsSeq
<1> DEFINE n == Len(level)
<1>2. n \in Nat /\ n > 1
  OBVIOUS
<1> HIDE DEF n
<1>3. (n + 1) \div 2 \in Nat \ {0} /\ (n + 1) \div 2 < n
  BY <1>2
<1> QED BY <1>1, <1>3 DEF n

(***************************************************************************)
(* BuildMerkleTree ends on a tree that satisfies the loop invariant and    *)
(* has exactly one node left: every iteration but the last ones shortens   *)
(* the level, and none empties it.                                         *)
(***************************************************************************)
LEMMA BuiltTree ==
  ASSUME NEW S, NEW leaves \in Seq(S), leaves # << >>
  PROVE  /\ TreeInv(leaves, BuildMerkleTree(leaves))
         /\ Len(BuildMerkleTree(leaves).level) = 1
<1> DEFINE n == Len(leaves)
<1>1. n \in Nat \ {0} /\ DOMAIN leaves = 1..n
  OBVIOUS
<1> DEFINE g == MerkleLoop(leaves)
<1>2. LoopSteps(g, leaves, n) /\ BuildMerkleTree(leaves) = g[n]
  BY <1>1, LoopDef DEF BuildMerkleTree
<1> HIDE DEF g
<1> DEFINE Size(k) == Len(g[k].level)
           Good(k) == /\ TreeInv(leaves, g[k])
                      /\ Size(k) \in Nat \ {0}
                      /\ Size(k) = 1 \/ Size(k) <= n - k
           T == {k \in Nat : k <= n => Good(k)}
<1>3. 0 \in T
  <2>1. g[0] = MerkleStart(leaves)
    BY <1>1, <1>2 DEF LoopSteps
  <2>4. g[0].level = leaves
    BY <2>1 DEF MerkleStart
  <2>2. TreeInv(leaves, g[0])
    <3>1. /\ g[0].positions = [i \in DOMAIN leaves |-> i - 1]
          /\ g[0].proofs = [i \in DOMAIN leaves |-> << >>]
      BY <2>1 DEF MerkleStart
    <3>2. g[0].positions \in [DOMAIN leaves -> 0..(Len(leaves) - 1)]
      BY <3>1, <1>1
    <3>3. ASSUME NEW i \in DOMAIN leaves
          PROVE  /\ \E U : g[0].proofs[i] \in Seq(U)
                 /\ VerifyMerkleProof(leaves[i], leaves[g[0].positions[i] + 1], g[0].proofs[i])
      <4>1. g[0].proofs[i] = << >> /\ g[0].positions[i] + 1 = i
        BY <3>1, <1>1
      <4>2. << >> \in Seq(S)
        OBVIOUS
      <4> QED BY <4>1, <4>2, ClimbNothing
    <3> QED BY <2>4, <3>1, <3>2, <3>3 DEF TreeInv
  <2>3. Size(0) = n
    BY <2>4
  <2> HIDE DEF Size
  <2> QED BY <2>2, <2>3, <1>1
<1>4. ASSUME NEW k \in T PROVE k + 1 \in T
  <2> SUFFICES ASSUME k + 1 <= n PROVE Good(k + 1)
    OBVIOUS
  <2>1. Good(k) /\ k \in Nat
    BY <1>1
  <2>4. g[k + 1] = IF Size(k) > 1 THEN MerkleStep(g[k]) ELSE g[k]
    BY <1>1, <1>2, <2>1 DEF LoopSteps
  <2>2. CASE Size(k) > 1
    <3>1. g[k + 1] = MerkleStep(g[k])
      BY <2>2, <2>4
    <3>2. TreeInv(leaves, g[k + 1])
      BY <2>1, <3>1, StepPreservesTreeInv
    <3>3. PICK U : g[k].level \in Seq(U)
      BY <2>1 DEF TreeInv
    <3>4. g[k + 1].level = ParentLevel(g[k].level)
      BY <3>1 DEF MerkleStep
    <3>5. Size(k + 1) \in Nat \ {0} /\ Size(k + 1) < Size(k)
      <4> DEFINE below == g[k].level
      <4>1. below \in Seq(U) /\ Len(below) > 1
        BY <3>3, <2>2
      <4> HIDE DEF below
      <4>2. Len(ParentLevel(below)) \in Nat \ {0} /\ Len(ParentLevel(below)) < Len(below)
        BY <4>1, StepShortens
      <4> QED BY <3>4, <4>2 DEF below
    <3> HIDE DEF Size
    <3> QED BY <2>1, <2>2, <3>2, <3>5, <1>1
  <2>3. CASE ~ (Size(k) > 1)
    <3>1. g[k + 1] = g[k]
      BY <2>3, <2>4
    <3>2. Size(k + 1) = Size(k)
      BY <3>1
    <3>3. TreeInv(leaves, g[k + 1])
      BY <2>1, <3>1
    <3> HIDE DEF Size
    <3>4. Size(k) = 1
      BY <2>1, <2>3
    <3> QED BY <3>2, <3>3, <3>4, <1>1
  <2> QED BY <2>2, <2>3
<1> HIDE DEF T
<1>5. T = Nat
  BY <1>3, <1>4, SetInduction DEF T
<1>6. Good(n)
  BY <1>1, <1>5 DEF T
<1> HIDE DEF Size
<1>7. Size(n) = 1
  BY <1>1, <1>6
<1> QED BY <1>2, <1>6, <1>7 DEF Size

(***************************************************************************)
(* Every certificate of a batch can prove its membership: for a batch of   *)
(* any size, VerifyMerkleProof accepts each leaf with the proof            *)
(* BuildMerkleTree gave it, against the root BuildMerkleTree returned.     *)
(***************************************************************************)
THEOREM MerkleProofsVerify ==
  ASSUME NEW S, NEW leaves \in Seq(S), NEW i \in DOMAIN leaves
  PROVE  VerifyMerkleProof(leaves[i], MerkleRoot(leaves), MerkleProof(leaves, i))
<1> DEFINE t == BuildMerkleTree(leaves)
<1>1. leaves # << >>
  OBVIOUS
<1>2. TreeInv(leaves, t) /\ Len(t.level) = 1
  BY <1>1, BuiltTree
<1> HIDE DEF t
<1>3. t.positions[i] = 0
  BY <1>2 DEF TreeInv
<1>4. VerifyMerkleProof(leaves[i], t.level[t.positions[i] + 1], t.proofs[i])
  BY <1>2 DEF TreeInv
<1> QED
  BY <1>3, <1>4 DEF MerkleRoot, MerkleProof, t
=============================================================================
