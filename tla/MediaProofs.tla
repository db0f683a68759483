---------------------------- MODULE MediaProofs -----------------------------
(***************************************************************************)
(* What the service makes of pictures and videos, for any sizes, grids and *)
(* gates: every cell is matched, brightness and turns do not show, what is *)
(* labelled a match passes the gates; a video gives the same samples and   *)
(* the same anchor however it is read, at any length and frame rate, and   *)
(* no frame is left open.                                                  *)
(***************************************************************************)
EXTENDS MCAlgorithms, MerkleTheorems, FiniteSetTheorems, SequenceTheorems, TLAPS

-----------------------------------------------------------------------------
(* Rounding and counting                                                   *)

(* Division rounds down.                                                   *)
LEMMA DivisionRounds ==
  ASSUME NEW a \in Int, NEW b \in Nat \ {0}
  PROVE  a \div b \in Int /\ b * (a \div b) <= a /\ a < b * (a \div b) + b
OBVIOUS

(* A quotient is at least, or below, what its dividend is of the divisor.  *)
LEMMA QuotientAtLeast ==
  ASSUME NEW a \in Int, NEW b \in Nat \ {0}, NEW q \in Int, b * q <= a
  PROVE  q <= a \div b
OBVIOUS

(* What is below a multiple has a quotient below the factor.               *)
LEMMA QuotientBelow ==
  ASSUME NEW a \in Int, NEW b \in Nat \ {0}, NEW q \in Int, a < b * q
  PROVE  a \div b < q
OBVIOUS

(* Division and multiplication keep the order.                             *)
LEMMA QuotientsOrdered ==
  ASSUME NEW a \in Int, NEW c \in Int, NEW b \in Nat \ {0}, a <= c
  PROVE  a \div b <= c \div b
OBVIOUS

LEMMA ProductsOrdered ==
  ASSUME NEW a \in Nat, NEW b \in Nat, NEW c \in Nat, NEW d \in Nat, a <= c, b <= d
  PROVE  a * b <= c * d
OBVIOUS

(* What can be told apart in a finite set is no more than is in it.        *)
LEMMA ApartIsAtMost ==
  ASSUME NEW S, IsFiniteSet(S), NEW T, IsFiniteSet(T), NEW f \in [S -> T],
         \A x, y \in S : f[x] = f[y] => x = y
  PROVE  Cardinality(S) <= Cardinality(T)
<1>1. Cardinality(S) \in Nat /\ Cardinality(T) \in Nat
  BY FS_CardinalityType
<1>2. ~ (Cardinality(T) < Cardinality(S))
  BY FS_PigeonHole
<1> QED
  BY <1>1, <1>2

-----------------------------------------------------------------------------
(* Cells of the colour grid                                                *)

(* The cell of a pixel.                                                    *)
CellOf(side, x) == ((x + 1) * GridSize - 1) \div side

(* Its cell holds it.                                                      *)
LEMMA CellOfHolds ==
  ASSUME NEW side \in Nat \ {0}, NEW x \in 0..(side - 1)
  PROVE  CellOf(side, x) \in Columns /\ x \in CellSpan(side, CellOf(side, x))
<1>1. PICK G \in Nat \ {0} : G = GridSize
  BY SomeGrid
<1>2. PICK a \in Int, g \in Int : a = (x + 1) * G - 1 /\ g = CellOf(side, x)
          /\ g = a \div side
  BY <1>1 DEF CellOf
<1>3. side * g <= a /\ a < side * g + side
  BY <1>2, DivisionRounds
<1>4. a >= 0 /\ a < side * G
  <2>1. (x + 1) * G >= G /\ (x + 1) * G <= side * G
    BY ProductsOrdered
  <2> QED
    BY <1>2, <2>1
<1>5. g \in 0..(G - 1)
  <2>1. g >= 0
    BY <1>2, <1>4, QuotientAtLeast
  <2>2. g < G
    BY <1>2, <1>4, QuotientBelow
  <2> QED
    BY <2>1, <2>2
<1>6. (side * g) \div G < x + 1
  <2>1. side * g < G * (x + 1)
    BY <1>2, <1>3
  <2> QED
    BY <2>1, <1>5, QuotientBelow
<1>7. x + 1 <= (side * (g + 1)) \div G
  <2>1. G * (x + 1) <= side * (g + 1)
    BY <1>2, <1>3
  <2> QED
    BY <2>1, <1>5, QuotientAtLeast
<1>8. (side * g) \div G \in Int /\ (side * (g + 1)) \div G \in Int
  BY <1>5
<1> QED
  BY <1>1, <1>2, <1>5, <1>6, <1>7, <1>8 DEF Columns, CellSpan

(* No other cell does.                                                     *)
LEMMA CellOfAlone ==
  ASSUME NEW side \in Nat \ {0}, NEW x \in 0..(side - 1), NEW g \in Columns,
         x \in CellSpan(side, g)
  PROVE  g = CellOf(side, x)
<1>1. PICK G \in Nat \ {0} : G = GridSize
  BY SomeGrid
<1>2. PICK a \in Int, h \in Int : a = (x + 1) * G - 1 /\ h = CellOf(side, x)
          /\ h = a \div side
  BY <1>1 DEF CellOf
<1>3. side * h <= a /\ a < side * h + side
  BY <1>2, DivisionRounds
<1>4. g \in Int /\ (side * g) \div G <= x /\ x + 1 <= (side * (g + 1)) \div G
  BY <1>1 DEF Columns, CellSpan
<1>5. side * g < (x + 1) * G
  <2>1. side * g < G * ((side * g) \div G) + G
    BY <1>4, DivisionRounds
  <2>2. G * ((side * g) \div G) <= G * x
    BY <1>4
  <2> QED
    BY <1>4, <2>1, <2>2
<1>6. (x + 1) * G <= side * (g + 1)
  <2>1. G * ((side * (g + 1)) \div G) <= side * (g + 1)
    BY <1>4, DivisionRounds
  <2>2. G * (x + 1) <= G * ((side * (g + 1)) \div G)
    BY <1>4
  <2> QED
    BY <1>4, <2>1, <2>2
<1>7. side * g < side * (h + 1) /\ side * h < side * (g + 1)
  BY <1>2, <1>3, <1>4, <1>5, <1>6
<1>8. g < h + 1 /\ h < g + 1
  BY <1>2, <1>4, <1>7
<1> QED
  BY <1>2, <1>4, <1>8

(***************************************************************************)
(* colorGridOf and colorResidual cut a side of any length into the same    *)
(* cells, and every pixel lies in one of them alone.                       *)
(***************************************************************************)
THEOREM CellsAlwaysTile == \A side \in Nat \ {0} : CellsTile(side)
<1> SUFFICES ASSUME NEW side \in Nat \ {0}, NEW x \in 0..(side - 1)
             PROVE  Cardinality({g \in Columns : x \in CellSpan(side, g)}) = 1
  BY DEF CellsTile
<1>1. {g \in Columns : x \in CellSpan(side, g)} = {CellOf(side, x)}
  BY CellOfHolds, CellOfAlone
<1> QED
  BY <1>1, FS_Singleton

(* A side has as many covered lines as pixels, or as the grid has cells.   *)
LEMMA LinesAreCovered ==
  ASSUME NEW side \in Nat \ {0}
  PROVE  /\ CoveredLines(side) \in Nat
         /\ side <= GridSize => CoveredLines(side) >= side
         /\ side >= GridSize => CoveredLines(side) >= GridSize
<1> DEFINE Covered == {g \in Columns : CellSpan(side, g) # {}}
<1>1. PICK G \in Nat \ {0} : G = GridSize
  BY SomeGrid
<1>2. IsFiniteSet(Columns) /\ Cardinality(Columns) = G
  <2>1. Columns = 0..(G - 1)
    BY <1>1 DEF Columns
  <2> QED
    BY <2>1, FS_Interval
<1>3. IsFiniteSet(Covered)
  BY <1>2, FS_Subset
<1>4. CoveredLines(side) = Cardinality(Covered) /\ Cardinality(Covered) \in Nat
  BY <1>3, FS_CardinalityType DEF CoveredLines
<1>5. ASSUME side <= G PROVE Cardinality(Covered) >= side
  <2> DEFINE f == [x \in 0..(side - 1) |-> CellOf(side, x)]
  <2>1. f \in [0..(side - 1) -> Covered]
    BY CellOfHolds
  <2>2. ASSUME NEW x \in 0..(side - 1), NEW y \in 0..(side - 1), f[x] = f[y] PROVE x = y
    <3>1. PICK g \in Int : g = CellOf(side, x) /\ g = CellOf(side, y)
      BY <2>2, CellOfHolds, <1>1 DEF Columns
    <3>2. x \in CellSpan(side, g) /\ y \in CellSpan(side, g)
      BY <3>1, CellOfHolds
    <3>3. (side * (g + 1)) \div G <= (side * g) \div G + 1
      <4>1. side * g \in Int /\ side * (g + 1) = side * g + side
        BY <3>1
      <4>4. side * g < G * ((side * g) \div G) + G /\ (side * g) \div G \in Int
        BY <4>1, DivisionRounds
      <4>2. side * (g + 1) < G * ((side * g) \div G + 2)
        BY <1>5, <4>1, <4>4
      <4>3. (side * (g + 1)) \div G < (side * g) \div G + 2
        BY <4>2, <3>1, QuotientBelow
      <4> QED
        BY <3>1, <4>3
    <3> QED
      BY <1>1, <3>1, <3>2, <3>3 DEF CellSpan
  <2>3. IsFiniteSet(0..(side - 1)) /\ Cardinality(0..(side - 1)) = side
    BY FS_Interval
  <2> HIDE DEF f, Covered
  <2>4. Cardinality(0..(side - 1)) <= Cardinality(Covered)
    BY <1>3, <2>1, <2>2, <2>3, ApartIsAtMost
  <2> QED
    BY <1>4, <2>3, <2>4
<1>6. ASSUME side >= G PROVE Cardinality(Covered) >= G
  <2>1. ASSUME NEW g \in Columns PROVE CellSpan(side, g) # {}
    <3>1. g \in Int /\ g >= 0
      BY <1>1 DEF Columns
    <3>2. G * ((side * g) \div G + 1) <= side * (g + 1)
      <4>1. G * ((side * g) \div G) <= side * g
        BY <3>1, DivisionRounds
      <4> QED
        BY <1>6, <3>1, <4>1
    <3>3. (side * g) \div G + 1 <= (side * (g + 1)) \div G
      BY <3>1, <3>2, QuotientAtLeast
    <3>4. (side * g) \div G \in CellSpan(side, g)
      BY <1>1, <3>1, <3>3 DEF CellSpan
    <3> QED
      BY <3>4
  <2>2. Covered = Columns
    BY <2>1
  <2> QED
    BY <1>2, <2>2
<1> QED
  BY <1>1, <1>4, <1>5, <1>6

(***************************************************************************)
(* A picture whose sides, once resized, are Enough pixels long reaches the *)
(* coverage gate against itself, wherever the square of Enough reaches it  *)
(* in a grid's cells (83 of 128 in the code): however elongated it is.     *)
(***************************************************************************)
THEOREM EnoughMatchesItself ==
  ASSUME NEW enough \in Nat \ {0},
         100 * enough * enough >= MinAreaCoverage * GridSize * GridSize,
         NEW w \in Nat \ {0}, NEW h \in Nat \ {0}
  PROVE  CanMatchItself(w, h, enough)
<1>1. PICK G \in Nat \ {0} : G = GridSize
  BY SomeGrid
<1>2. PICK A \in 0..100 : A = MinAreaCoverage
  BY SomeGates
<1>3. PICK rw, rh : rw = Resized(w, w, h) /\ rh = Resized(h, w, h)
  OBVIOUS
<1>4. rw \in Nat /\ rh \in Nat
  <2>1. Longest(w, h) \in Nat \ {0} /\ ResizeMax \in Nat
    BY SomeGates DEF Longest
  <2>2. w * ResizeMax \in Nat /\ h * ResizeMax \in Nat
    BY <2>1
  <2>3. (w * ResizeMax) \div Longest(w, h) \in Nat /\ (h * ResizeMax) \div Longest(w, h) \in Nat
    BY <2>1, <2>2
  <2> QED
    BY <1>3, <2>3 DEF Resized
<1>5. ASSUME rw >= enough, rh >= enough
      PROVE  100 * FullFrameCells(rw, rh) >= A * G * G
  <2>1. PICK least \in Nat : /\ least = (IF enough <= G THEN enough ELSE G)
    OBVIOUS
  <2>2. /\ CoveredLines(rw) \in Nat /\ CoveredLines(rw) >= least
        /\ CoveredLines(rh) \in Nat /\ CoveredLines(rh) >= least
    BY <1>1, <1>4, <1>5, <2>1, LinesAreCovered
  <2>3. least * least <= FullFrameCells(rw, rh) /\ FullFrameCells(rw, rh) \in Nat
    BY <2>2, ProductsOrdered DEF FullFrameCells
  <2>4. A * G * G <= 100 * (least * least)
    <3>1. CASE enough <= G
      BY <1>1, <1>2, <2>1, <3>1
    <3>2. CASE enough > G
      <4>1. A * (G * G) <= 100 * (G * G)
        BY <1>2, <1>1, ProductsOrdered
      <4> QED
        BY <1>1, <1>2, <2>1, <3>2, <4>1
    <3> QED
      BY <3>1, <3>2
  <2> QED
    BY <1>1, <1>2, <2>3, <2>4
<1> QED
  BY <1>1, <1>2, <1>3, <1>5 DEF CanMatchItself

-----------------------------------------------------------------------------
(* Ranks                                                                   *)

(* How many numbers there are up to n.                                     *)
LEMMA CountTo ==
  ASSUME NEW n \in Nat
  PROVE  IsFiniteSet(1..n) /\ Cardinality(1..n) = n
<1>1. 1 \in Int /\ n \in Int /\ (IF 1 > n THEN 0 ELSE n - 1 + 1) = n
  OBVIOUS
<1> QED
  BY <1>1, FS_Interval

(* Of some of a sequence's numbers one is the least and one the greatest.  *)
LEMMA ExtremesExist ==
  ASSUME NEW xs \in Seq(Int), NEW I \in SUBSET DOMAIN xs, I # {}
  PROVE  /\ \E i \in I : \A j \in I : xs[i] <= xs[j]
         /\ \E i \in I : \A j \in I : xs[j] <= xs[i]
<1> DEFINE Extremes(J) == /\ \E i \in J : \A j \in J : xs[i] <= xs[j]
                          /\ \E i \in J : \A j \in J : xs[j] <= xs[i]
           T == {n \in Nat : n <= Len(xs) => \A J \in SUBSET (1..n) : J # {} => Extremes(J)}
<1>1. Len(xs) \in Nat /\ DOMAIN xs = 1..Len(xs) /\ \A i \in 1..Len(xs) : xs[i] \in Int
  BY ElementOfSeq
<1>2. 0 \in T
  <2>1. 1..0 = {}
    OBVIOUS
  <2> HIDE DEF Extremes
  <2> QED
    BY <2>1
<1>3. ASSUME NEW n \in T PROVE n + 1 \in T
  <2>5. n \in Nat /\ (n <= Len(xs) => \A J \in SUBSET (1..n) : J # {} => Extremes(J))
    BY <1>3
  <2> HIDE DEF T, Extremes
  <2>6. SUFFICES ASSUME n + 1 <= Len(xs), NEW J \in SUBSET (1..(n + 1)), J # {} PROVE Extremes(J)
    BY <2>5 DEF T
  <2>1. /\ xs[n + 1] \in Int /\ \A i \in 1..n : xs[i] \in Int
        /\ n <= Len(xs)
    BY <1>1, <2>5, <2>6
  <2>2. CASE n + 1 \notin J
    <3>1. J \in SUBSET (1..n)
      BY <2>2, <2>5
    <3> QED
      BY <2>1, <2>5, <2>6, <3>1
  <2>3. CASE n + 1 \in J
    <3> DEFINE R == J \ {n + 1}
    <3>1. R \in SUBSET (1..n) /\ J = R \cup {n + 1}
      BY <2>3, <2>5
    <3> HIDE DEF R
    <3>2. CASE R = {}
      <4>1. J = {n + 1}
        BY <3>1, <3>2
      <4> QED
        BY <2>1, <4>1 DEF Extremes
    <3>3. CASE R # {}
      <4>1. Extremes(R)
        BY <2>1, <2>5, <3>1, <3>3
      <4>2. PICK a \in R : \A j \in R : xs[a] <= xs[j]
        BY <4>1 DEF Extremes
      <4>6. PICK b \in R : \A j \in R : xs[j] <= xs[b]
        BY <4>1 DEF Extremes
      <4>3. \A j \in J : xs[j] \in Int
        BY <2>1, <3>1
      <4>4. \E i \in J : \A j \in J : xs[i] <= xs[j]
        <5>1. CASE xs[a] <= xs[n + 1]
          BY <3>1, <4>2, <4>3, <5>1
        <5>2. CASE xs[n + 1] < xs[a]
          <6>1. \A j \in J : xs[n + 1] <= xs[j]
            BY <2>1, <3>1, <4>2, <4>3, <5>2
          <6> QED
            BY <3>1, <6>1
        <5> QED
          <6>1. xs[a] \in Int /\ xs[n + 1] \in Int
            BY <2>1, <3>1, <4>3
          <6> QED
            BY <5>1, <5>2, <6>1
      <4>5. \E i \in J : \A j \in J : xs[j] <= xs[i]
        <5>1. CASE xs[n + 1] <= xs[b]
          BY <3>1, <4>6, <4>3, <5>1
        <5>2. CASE xs[b] < xs[n + 1]
          <6>1. \A j \in J : xs[j] <= xs[n + 1]
            BY <2>1, <3>1, <4>6, <4>3, <5>2
          <6> QED
            BY <3>1, <6>1
        <5> QED
          <6>1. xs[b] \in Int /\ xs[n + 1] \in Int
            BY <2>1, <3>1, <4>3
          <6> QED
            BY <5>1, <5>2, <6>1
      <4> QED
        BY <4>4, <4>5 DEF Extremes
    <3> QED
      BY <3>2, <3>3
  <2> QED
    BY <2>2, <2>3
<1>4. T = Nat
  <2>1. T \subseteq Nat
    OBVIOUS
  <2> HIDE DEF T
  <2> QED
    BY <1>2, <1>3, <2>1, SetInduction
<1>5. \A J \in SUBSET (1..Len(xs)) : J # {} => Extremes(J)
  <2> HIDE DEF Extremes
  <2>1. Len(xs) \in T
    BY <1>1, <1>4
  <2> QED
    BY <1>1, <2>1
<1>6. I \in SUBSET (1..Len(xs)) /\ I # {}
  BY <1>1
<1>7. Extremes(I)
  <2> HIDE DEF Extremes
  <2> QED
    BY <1>5, <1>6
<1> QED
  BY <1>7

(* What the ranks count can be counted.                                    *)
LEMMA RanksCount ==
  ASSUME NEW xs \in Seq(Int), NEW v \in Int
  PROVE  /\ IsFiniteSet(Below(xs, v)) /\ IsFiniteSet(UpTo(xs, v))
         /\ Cardinality(Below(xs, v)) \in Nat /\ Cardinality(UpTo(xs, v)) \in Nat
         /\ Below(xs, v) \in SUBSET DOMAIN xs /\ UpTo(xs, v) \in SUBSET DOMAIN xs
<1>1. IsFiniteSet(DOMAIN xs)
  BY FS_Interval
<1>2. Below(xs, v) \in SUBSET DOMAIN xs /\ UpTo(xs, v) \in SUBSET DOMAIN xs
  BY DEF Below, UpTo
<1>3. IsFiniteSet(Below(xs, v)) /\ IsFiniteSet(UpTo(xs, v))
  BY <1>1, <1>2, FS_Subset
<1> QED
  BY <1>2, <1>3, FS_CardinalityType

(* At every place there is an element, ...                                 *)
LEMMA RankExists ==
  ASSUME NEW xs \in Seq(Int), NEW k \in 1..Len(xs)
  PROVE  \E i \in DOMAIN xs : HasRank(xs, k, xs[i])
<1> DEFINE Many == {i \in DOMAIN xs : k <= Cardinality(UpTo(xs, xs[i]))}
<1>1. Len(xs) \in Nat /\ DOMAIN xs = 1..Len(xs) /\ \A i \in DOMAIN xs : xs[i] \in Int
  BY ElementOfSeq
<1>2. Many # {}
  <2>1. PICK i \in DOMAIN xs : \A j \in DOMAIN xs : xs[j] <= xs[i]
    <3>1. DOMAIN xs # {}
      BY <1>1
    <3> QED
      BY <3>1, ExtremesExist
  <2>2. UpTo(xs, xs[i]) = 1..Len(xs)
    BY <1>1, <2>1 DEF UpTo
  <2>3. Cardinality(UpTo(xs, xs[i])) = Len(xs)
    BY <1>1, <2>2, CountTo
  <2>4. k <= Cardinality(UpTo(xs, xs[i]))
    BY <1>1, <2>3
  <2> QED
    BY <2>1, <2>4
<1>3. PICK i \in Many : \A j \in Many : xs[i] <= xs[j]
  BY <1>2, ExtremesExist
<1>4. Cardinality(Below(xs, xs[i])) < k
  <2>1. CASE Below(xs, xs[i]) = {}
    BY <1>1, <2>1, FS_EmptySet
  <2>2. CASE Below(xs, xs[i]) # {}
    <3>1. xs[i] \in Int
      BY <1>1, <1>3
    <3>2. PICK m \in Below(xs, xs[i]) : \A j \in Below(xs, xs[i]) : xs[j] <= xs[m]
      BY <2>2, <3>1, RanksCount, ExtremesExist
    <3>3. m \in DOMAIN xs /\ xs[m] \in Int /\ xs[m] < xs[i]
      BY <1>1, <3>2 DEF Below
    <3>4. UpTo(xs, xs[m]) = Below(xs, xs[i])
      BY <1>1, <3>1, <3>2, <3>3 DEF UpTo, Below
    <3>5. m \notin Many
      BY <1>3, <3>1, <3>3
    <3>6. ~ (k <= Cardinality(UpTo(xs, xs[m])))
      BY <3>3, <3>5
    <3>7. Cardinality(Below(xs, xs[i])) \in Nat
      BY <3>1, RanksCount
    <3> QED
      BY <1>1, <3>4, <3>6, <3>7
  <2> QED
    BY <2>1, <2>2
<1> QED
  BY <1>3, <1>4 DEF HasRank

(* ... and no two.                                                         *)
LEMMA RankAlone ==
  ASSUME NEW xs \in Seq(Int), NEW k \in Nat, NEW v \in Int, NEW w \in Int,
         HasRank(xs, k, v), HasRank(xs, k, w)
  PROVE  v = w
<1>1. ASSUME NEW a \in Int, NEW b \in Int, HasRank(xs, k, a), HasRank(xs, k, b), a < b PROVE FALSE
  <2>1. UpTo(xs, a) \in SUBSET Below(xs, b)
    <3>1. \A i \in DOMAIN xs : xs[i] \in Int
      BY ElementOfSeq
    <3> QED
      BY <1>1, <3>1 DEF UpTo, Below
  <2>2. Cardinality(UpTo(xs, a)) <= Cardinality(Below(xs, b))
    BY <2>1, RanksCount, FS_Subset
  <2>3. Cardinality(UpTo(xs, a)) \in Nat /\ Cardinality(Below(xs, b)) \in Nat
    BY RanksCount
  <2> QED
    BY <1>1, <2>2, <2>3 DEF HasRank
<1>2. ~ (v < w) /\ ~ (w < v)
  BY <1>1
<1> QED
  BY <1>2

(* What Ranked chooses has its rank, and nothing else has it.              *)
LEMMA RankedIsRanked ==
  ASSUME NEW xs \in Seq(Int), NEW k \in 1..Len(xs)
  PROVE  /\ Ranked(xs, k) \in Int /\ HasRank(xs, k, Ranked(xs, k))
         /\ \E i \in DOMAIN xs : Ranked(xs, k) = xs[i]
         /\ \A v \in Int : HasRank(xs, k, v) => v = Ranked(xs, k)
<1>1. \E v \in {xs[i] : i \in DOMAIN xs} : HasRank(xs, k, v)
  BY RankExists
<1>2. Ranked(xs, k) \in {xs[i] : i \in DOMAIN xs} /\ HasRank(xs, k, Ranked(xs, k))
  BY <1>1 DEF Ranked
<1>3. PICK i \in DOMAIN xs : Ranked(xs, k) = xs[i]
  BY <1>2
<1>4. Ranked(xs, k) \in Int
  BY <1>3, ElementOfSeq
<1>5. k \in Nat
  OBVIOUS
<1>6. \A v \in Int : HasRank(xs, k, v) => v = Ranked(xs, k)
  BY <1>2, <1>4, <1>5, RankAlone
<1> QED
  BY <1>2, <1>3, <1>4, <1>6
(* Numbers that are all lowered alike keep their order.                    *)
LEMMA RanksShift ==
  ASSUME NEW xs \in Seq(Int), NEW s \in Int, NEW ys, ys = [i \in DOMAIN xs |-> xs[i] - s],
         NEW k \in 1..Len(xs)
  PROVE  ys \in Seq(Int) /\ Len(ys) = Len(xs) /\ Ranked(ys, k) = Ranked(xs, k) - s
<1>1. Len(xs) \in Nat /\ DOMAIN xs = 1..Len(xs) /\ \A i \in DOMAIN xs : xs[i] \in Int
  BY ElementOfSeq
<1>2. ys \in Seq(Int) /\ Len(ys) = Len(xs) /\ DOMAIN ys = DOMAIN xs
  BY <1>1
<1>3. PICK v \in Int : v = Ranked(xs, k) /\ HasRank(xs, k, v)
  BY RankedIsRanked
<1>4. Below(ys, v - s) = Below(xs, v) /\ UpTo(ys, v - s) = UpTo(xs, v)
  <2>1. \A i \in DOMAIN xs : ys[i] = xs[i] - s
    BY <1>2
  <2> QED
    BY <1>1, <1>2, <2>1 DEF Below, UpTo
<1>5. HasRank(ys, k, v - s)
  BY <1>3, <1>4 DEF HasRank
<1>6. v - s = Ranked(ys, k)
  <2>1. k \in 1..Len(ys) /\ v - s \in Int
    BY <1>2
  <2> QED
    BY <1>2, <1>5, <2>1, RankedIsRanked
<1> QED
  BY <1>2, <1>3, <1>6

(* The places a median reads.                                              *)
LEMMA MiddlesAreThere ==
  ASSUME NEW n \in Nat \ {0}
  PROVE  /\ n \div 2 \in Nat /\ n \div 2 + 1 \in 1..n
         /\ n % 2 # 1 => n \div 2 \in 1..n
OBVIOUS

(* The median of numbers that are lowered is lowered as much.              *)
LEMMA MedianShifts ==
  ASSUME NEW xs \in Seq(Int), xs # <<>>, NEW s \in Int,
         NEW ys, ys = [i \in DOMAIN xs |-> xs[i] - s]
  PROVE  TwiceMedian(xs) \in Int /\ TwiceMedian(ys) = TwiceMedian(xs) - 2 * s
<1> DEFINE n == Len(xs)
           half == n \div 2
<1>1. n \in Nat \ {0}
  BY ElementOfSeq, EmptySeq
<1>2. half \in Nat /\ half + 1 \in 1..n /\ (n % 2 # 1 => half \in 1..n)
  BY <1>1, MiddlesAreThere
<1>3. Len(ys) = n
  BY <1>2, RanksShift
<1> HIDE DEF n, half
<1>4. Ranked(xs, half + 1) \in Int /\ Ranked(ys, half + 1) = Ranked(xs, half + 1) - s
  <2>1. half + 1 \in 1..Len(xs)
    BY <1>2 DEF n
  <2>2. Ranked(xs, half + 1) \in Int
    BY <2>1, RankedIsRanked
  <2>3. Ranked(ys, half + 1) = Ranked(xs, half + 1) - s
    BY <2>1, RanksShift
  <2> QED
    BY <2>2, <2>3
<1>5. CASE n % 2 = 1
  <2>1. TwiceMedian(xs) = 2 * Ranked(xs, half + 1) /\ TwiceMedian(ys) = 2 * Ranked(ys, half + 1)
    BY <1>3, <1>5 DEF TwiceMedian, n, half
  <2> QED
    BY <1>4, <2>1
<1>6. CASE n % 2 # 1
  <2>1. /\ TwiceMedian(xs) = Ranked(xs, half) + Ranked(xs, half + 1)
        /\ TwiceMedian(ys) = Ranked(ys, half) + Ranked(ys, half + 1)
    BY <1>3, <1>6 DEF TwiceMedian, n, half
  <2>2. Ranked(xs, half) \in Int /\ Ranked(ys, half) = Ranked(xs, half) - s
    <3>1. half \in 1..Len(xs)
      BY <1>2, <1>6 DEF n
    <3>2. Ranked(xs, half) \in Int
      BY <3>1, RankedIsRanked
    <3>3. Ranked(ys, half) = Ranked(xs, half) - s
      BY <3>1, RanksShift
    <3> QED
      BY <3>2, <3>3
  <2> QED
    BY <1>4, <2>1, <2>2
<1> QED
  BY <1>5, <1>6

(* What matchPair is given, as far as it is modelled.                      *)
ComparedPairs ==
  [kind : {"pair"}, keypoints : Nat, good : Nat, homography : BOOLEAN, invertible : BOOLEAN,
   inliers : Nat, deltas : Seq(Int), cells : Nat]

(***************************************************************************)
(* The median that colorResidual takes out of the luminance leaves nothing *)
(* of an exposure: however many cells are compared and whatever stands in  *)
(* them, a copy brighter or darker by the same amount everywhere gets the  *)
(* verdict of one that is not.                                             *)
(***************************************************************************)
THEOREM BrightnessNeverShows == \A m \in ComparedPairs, shift \in Int : BrightnessIsInvisible(m, shift)
<1> SUFFICES ASSUME NEW m \in ComparedPairs, NEW shift \in Int PROVE BrightnessIsInvisible(m, shift)
  OBVIOUS
<1> DEFINE xs == m.deltas
           ys == [i \in DOMAIN m.deltas |-> m.deltas[i] - shift]
           brighter == [m EXCEPT !.deltas = ys]
<1>1. /\ brighter.deltas = ys /\ brighter.keypoints = m.keypoints /\ brighter.good = m.good
      /\ brighter.homography = m.homography /\ brighter.invertible = m.invertible
      /\ brighter.inliers = m.inliers /\ brighter.cells = m.cells
  BY DEF ComparedPairs
<1>2. xs \in Seq(Int) /\ Len(xs) \in Nat /\ DOMAIN xs = 1..Len(xs) /\ \A i \in DOMAIN xs : xs[i] \in Int
  BY ElementOfSeq DEF ComparedPairs
<1>3. DOMAIN ys = DOMAIN xs /\ ys \in Seq(Int) /\ Len(ys) = Len(xs) /\ (ys = <<>> <=> xs = <<>>)
      /\ \A i \in DOMAIN xs : ys[i] = xs[i] - shift
  BY <1>2
<1>4. ASSUME xs # <<>> PROVE CellDists(ys) = CellDists(xs)
  <2>1. PICK a \in Int : a = TwiceMedian(xs) /\ TwiceMedian(ys) = a - 2 * shift
    BY <1>2, <1>4, MedianShifts
  <2>2. \A i \in DOMAIN xs : 2 * ys[i] - TwiceMedian(ys) = 2 * xs[i] - TwiceMedian(xs)
    <3> SUFFICES ASSUME NEW i \in DOMAIN xs
                 PROVE  2 * ys[i] - TwiceMedian(ys) = 2 * xs[i] - TwiceMedian(xs)
      OBVIOUS
    <3>1. xs[i] \in Int /\ ys[i] = xs[i] - shift
      BY <1>2, <1>3
    <3> HIDE DEF xs, ys
    <3> QED
      BY <2>1, <3>1
  <2> HIDE DEF xs, ys
  <2> QED
    BY <1>3, <2>2 DEF CellDists, Offset
<1>5. ResidualOf(brighter) = ResidualOf(m)
  <2> HIDE DEF brighter
  <2>1. CASE xs = <<>>
    BY <1>1, <1>3, <2>1 DEF ResidualOf
  <2>2. CASE xs # <<>>
    <3> HIDE DEF ys
    <3> QED
      BY <1>1, <1>3, <1>4, <2>2 DEF ResidualOf
  <2> QED
    BY <2>1, <2>2
<1> HIDE DEF brighter
<1>6. MatchPair(brighter) = MatchPair(m)
  BY <1>1, <1>5 DEF MatchPair
<1> QED
  BY <1>6 DEF BrightnessIsInvisible, brighter

(***************************************************************************)
(* A comparison that matchPair gave up matches for no verdict, whatever    *)
(* the gates are; and Decide asks one thing more than the verdict on the   *)
(* anchor of a video.                                                      *)
(***************************************************************************)
THEOREM IncompleteNever == \A m \in ComparedPairs : IncompleteNeverMatches(m)
<1> SUFFICES ASSUME NEW m \in ComparedPairs PROVE IncompleteNeverMatches(m)
  OBVIOUS
<1>1. CASE m.keypoints < 4 \/ m.good < 8 \/ ~ m.homography \/ ~ m.invertible \/ m.deltas = <<>>
  <2>1. MatchPair(m).meanOK = FALSE
    BY <1>1 DEF MatchPair, ResidualOf, NoDecision, Decision
  <2> QED
    BY <2>1 DEF IncompleteNeverMatches, Decide, DecideAnchor
<1>2. CASE ~ (m.keypoints < 4 \/ m.good < 8 \/ ~ m.homography \/ ~ m.invertible \/ m.deltas = <<>>)
  <2>1. /\ MatchPair(m).inliers = m.inliers
        /\ MatchPair(m).meanOK = MeanWithin(CellDists(m.deltas), MaxColorMean)
        /\ MatchPair(m).maxOK = MaxWithin(CellDists(m.deltas), MaxCellDist)
    BY <1>2 DEF MatchPair, ResidualOf, Decision
  <2>2. m.keypoints >= 4 /\ m.good >= 8
    BY <1>2 DEF ComparedPairs
  <2> QED
    BY <1>2, <2>1, <2>2 DEF IncompleteNeverMatches, Decide, DecideAnchor
<1> QED
  BY <1>1, <1>2

-----------------------------------------------------------------------------
(* Orientations                                                            *)

Picture(W, H, f) == [w |-> W, h |-> H, px |-> f]

IsPicture(img) ==
  \E W, H \in Nat \ {0} : \E f :
    img = Picture(W, H, f) /\ f = [p \in Places(W, H) |-> f[p]]

(* What a turn makes of the pixels of a picture of W by H.                 *)
Of90(W, H, f)        == [p \in Places(H, W) |-> f[<<p[2], H - 1 - p[1]>>]]
Of180(W, H, f)       == [p \in Places(W, H) |-> f[<<W - 1 - p[1], H - 1 - p[2]>>]]
Of270(W, H, f)       == [p \in Places(H, W) |-> f[<<W - 1 - p[2], p[1]>>]]
OfTranspose(W, H, f) == [p \in Places(H, W) |-> f[<<p[2], p[1]>>]]
OfColumns(W, H, f)   == [p \in Places(W, H) |-> f[<<W - 1 - p[1], p[2]>>]]
OfRows(W, H, f)      == [p \in Places(W, H) |-> f[<<p[1], H - 1 - p[2]>>]]

(* The pixels of a turned picture are those of the turn.                   *)
LEMMA TurnsOfPictures ==
  ASSUME NEW W, NEW H, NEW f
  PROVE  /\ Rotate90(Picture(W, H, f)) = Picture(H, W, Of90(W, H, f))
         /\ Rotate180(Picture(W, H, f)) = Picture(W, H, Of180(W, H, f))
         /\ Rotate270(Picture(W, H, f)) = Picture(H, W, Of270(W, H, f))
         /\ Transpose(Picture(W, H, f)) = Picture(H, W, OfTranspose(W, H, f))
         /\ FlipColumns(Picture(W, H, f)) = Picture(W, H, OfColumns(W, H, f))
         /\ FlipRows(Picture(W, H, f)) = Picture(W, H, OfRows(W, H, f))
BY DEF Picture, Rotate90, Rotate180, Rotate270, Transpose, FlipColumns, FlipRows,
       Of90, Of180, Of270, OfTranspose, OfColumns, OfRows

(* A flip after a transposition, or after a flip, is a turn.               *)
LEMMA TurnsOfOpenCV ==
  ASSUME NEW W \in Nat \ {0}, NEW H \in Nat \ {0}, NEW f
  PROVE  /\ OfColumns(H, W, OfTranspose(W, H, f)) = Of90(W, H, f)
         /\ OfRows(W, H, OfColumns(W, H, f)) = Of180(W, H, f)
         /\ OfRows(H, W, OfTranspose(W, H, f)) = Of270(W, H, f)
<1>1. OfColumns(H, W, OfTranspose(W, H, f)) = Of90(W, H, f)
  BY DEF Places, Of90, OfColumns, OfTranspose
<1>2. OfRows(W, H, OfColumns(W, H, f)) = Of180(W, H, f)
  BY DEF Places, Of180, OfColumns, OfRows
<1>3. OfRows(H, W, OfTranspose(W, H, f)) = Of270(W, H, f)
  BY DEF Places, Of270, OfRows, OfTranspose
<1> QED
  BY <1>1, <1>2, <1>3

(* Two turns are a turn, or none.                                          *)
LEMMA TurnsOfTurns ==
  ASSUME NEW W \in Nat \ {0}, NEW H \in Nat \ {0}, NEW f,
         f = [p \in Places(W, H) |-> f[p]]
  PROVE  /\ Of90(H, W, Of90(W, H, f)) = Of180(W, H, f)
         /\ Of180(H, W, Of90(W, H, f)) = Of270(W, H, f)
         /\ Of270(H, W, Of90(W, H, f)) = f
         /\ Of90(W, H, Of180(W, H, f)) = Of270(W, H, f)
         /\ Of180(W, H, Of180(W, H, f)) = f
         /\ Of270(W, H, Of180(W, H, f)) = Of90(W, H, f)
         /\ Of90(H, W, Of270(W, H, f)) = f
         /\ Of180(H, W, Of270(W, H, f)) = Of90(W, H, f)
         /\ Of270(H, W, Of270(W, H, f)) = Of180(W, H, f)
<1>1. Of90(H, W, Of90(W, H, f)) = Of180(W, H, f)
  BY DEF Places, Of180, Of90
<1>2. Of180(H, W, Of90(W, H, f)) = Of270(W, H, f)
  BY DEF Places, Of180, Of270, Of90
<1>3. Of270(H, W, Of90(W, H, f)) = f
  BY DEF Places, Of270, Of90
<1>4. Of90(W, H, Of180(W, H, f)) = Of270(W, H, f)
  BY DEF Places, Of180, Of270, Of90
<1>5. Of180(W, H, Of180(W, H, f)) = f
  BY DEF Places, Of180
<1>6. Of270(W, H, Of180(W, H, f)) = Of90(W, H, f)
  BY DEF Places, Of180, Of270, Of90
<1>7. Of90(H, W, Of270(W, H, f)) = f
  BY DEF Places, Of270, Of90
<1>8. Of180(H, W, Of270(W, H, f)) = Of90(W, H, f)
  BY DEF Places, Of180, Of270, Of90
<1>9. Of270(H, W, Of270(W, H, f)) = Of180(W, H, f)
  BY DEF Places, Of180, Of270
<1> QED
  BY <1>1, <1>2, <1>3, <1>4, <1>5, <1>6, <1>7, <1>8, <1>9

(***************************************************************************)
(* PHash256Variants undoes every quarter turn of every picture, whatever   *)
(* its size and its pixels, and tries nothing but turns of it.             *)
(***************************************************************************)
THEOREM EveryTurnIsUndone == \A img : IsPicture(img) => VariantsUndoTurns(img)
<1> SUFFICES ASSUME NEW img, IsPicture(img) PROVE VariantsUndoTurns(img)
  OBVIOUS
<1> PICK W, H, f : /\ W \in Nat \ {0} /\ H \in Nat \ {0}
                   /\ img = Picture(W, H, f) /\ f = [p \in Places(W, H) |-> f[p]]
  BY DEF IsPicture
<1> DEFINE Undone(t) == /\ \E v \in 1..4 : Variants(t)[v] = img
                        /\ \A v \in 1..4 : \E u \in 1..4 : Variants(t)[v] = Variants(img)[u]
<1>1. /\ Variants(img)[1] = img /\ Variants(img)[2] = Rotate90(img)
      /\ Variants(img)[3] = Rotate180(img) /\ Variants(img)[4] = Rotate270(img)
  BY DEF Variants
<1>2. Undone(Rotate90(img))
  <2>1. PICK g : g = Of90(W, H, f)
    OBVIOUS
  <2>5. Rotate90(img) = Picture(H, W, g)
    BY <2>1, TurnsOfPictures
  <2>2. /\ Of90(H, W, g) = Of180(W, H, f)
        /\ Of180(H, W, g) = Of270(W, H, f)
        /\ Of270(H, W, g) = f
    BY <2>1, TurnsOfTurns
  <2>3. /\ Rotate90(Rotate90(img)) = Rotate180(img)
        /\ Rotate180(Rotate90(img)) = Rotate270(img)
        /\ Rotate270(Rotate90(img)) = img
    <3>1. /\ Rotate90(Picture(H, W, g)) = Picture(W, H, Of90(H, W, g))
          /\ Rotate180(Picture(H, W, g)) = Picture(H, W, Of180(H, W, g))
          /\ Rotate270(Picture(H, W, g)) = Picture(W, H, Of270(H, W, g))
      BY TurnsOfPictures
    <3>2. /\ Rotate90(img) = Picture(H, W, Of90(W, H, f))
          /\ Rotate180(img) = Picture(W, H, Of180(W, H, f))
          /\ Rotate270(img) = Picture(H, W, Of270(W, H, f))
      BY TurnsOfPictures
    <3> QED
      BY <2>1, <2>2, <2>5, <3>1, <3>2
  <2>4. /\ Variants(Rotate90(img))[1] = Variants(img)[2]
        /\ Variants(Rotate90(img))[2] = Variants(img)[3]
        /\ Variants(Rotate90(img))[3] = Variants(img)[4]
        /\ Variants(Rotate90(img))[4] = Variants(img)[1]
    BY <1>1, <2>3 DEF Variants
  <2> QED
    BY <1>1, <2>4
<1>3. Undone(Rotate180(img))
  <2>1. PICK g : g = Of180(W, H, f)
    OBVIOUS
  <2>5. Rotate180(img) = Picture(W, H, g)
    BY <2>1, TurnsOfPictures
  <2>2. /\ Of90(W, H, g) = Of270(W, H, f)
        /\ Of180(W, H, g) = f
        /\ Of270(W, H, g) = Of90(W, H, f)
    BY <2>1, TurnsOfTurns
  <2>3. /\ Rotate90(Rotate180(img)) = Rotate270(img)
        /\ Rotate180(Rotate180(img)) = img
        /\ Rotate270(Rotate180(img)) = Rotate90(img)
    <3>1. /\ Rotate90(Picture(W, H, g)) = Picture(H, W, Of90(W, H, g))
          /\ Rotate180(Picture(W, H, g)) = Picture(W, H, Of180(W, H, g))
          /\ Rotate270(Picture(W, H, g)) = Picture(H, W, Of270(W, H, g))
      BY TurnsOfPictures
    <3>2. /\ Rotate90(img) = Picture(H, W, Of90(W, H, f))
          /\ Rotate180(img) = Picture(W, H, Of180(W, H, f))
          /\ Rotate270(img) = Picture(H, W, Of270(W, H, f))
      BY TurnsOfPictures
    <3> QED
      BY <2>1, <2>2, <2>5, <3>1, <3>2
  <2>4. /\ Variants(Rotate180(img))[1] = Variants(img)[3]
        /\ Variants(Rotate180(img))[2] = Variants(img)[4]
        /\ Variants(Rotate180(img))[3] = Variants(img)[1]
        /\ Variants(Rotate180(img))[4] = Variants(img)[2]
    BY <1>1, <2>3 DEF Variants
  <2> QED
    BY <1>1, <2>4
<1>4. Undone(Rotate270(img))
  <2>1. PICK g : g = Of270(W, H, f)
    OBVIOUS
  <2>5. Rotate270(img) = Picture(H, W, g)
    BY <2>1, TurnsOfPictures
  <2>2. /\ Of90(H, W, g) = f
        /\ Of180(H, W, g) = Of90(W, H, f)
        /\ Of270(H, W, g) = Of180(W, H, f)
    BY <2>1, TurnsOfTurns
  <2>3. /\ Rotate90(Rotate270(img)) = img
        /\ Rotate180(Rotate270(img)) = Rotate90(img)
        /\ Rotate270(Rotate270(img)) = Rotate180(img)
    <3>1. /\ Rotate90(Picture(H, W, g)) = Picture(W, H, Of90(H, W, g))
          /\ Rotate180(Picture(H, W, g)) = Picture(H, W, Of180(H, W, g))
          /\ Rotate270(Picture(H, W, g)) = Picture(W, H, Of270(H, W, g))
      BY TurnsOfPictures
    <3>2. /\ Rotate90(img) = Picture(H, W, Of90(W, H, f))
          /\ Rotate180(img) = Picture(W, H, Of180(W, H, f))
          /\ Rotate270(img) = Picture(H, W, Of270(W, H, f))
      BY TurnsOfPictures
    <3> QED
      BY <2>1, <2>2, <2>5, <3>1, <3>2
  <2>4. /\ Variants(Rotate270(img))[1] = Variants(img)[4]
        /\ Variants(Rotate270(img))[2] = Variants(img)[1]
        /\ Variants(Rotate270(img))[3] = Variants(img)[2]
        /\ Variants(Rotate270(img))[4] = Variants(img)[3]
    BY <1>1, <2>3 DEF Variants
  <2> QED
    BY <1>1, <2>4
<1> HIDE DEF Undone
<1>5. /\ RotateImage(img, 90) = Rotate90(img) /\ RotateImage(img, 180) = Rotate180(img)
      /\ RotateImage(img, 270) = Rotate270(img)
  BY TurnsOfPictures, TurnsOfOpenCV DEF RotateImage
<1>6. \A deg \in {90, 180, 270} : Undone(RotateImage(img, deg))
  BY <1>2, <1>3, <1>4, <1>5
<1> QED
  BY <1>6 DEF VariantsUndoTurns, Undone

(***************************************************************************)
(* resizeAndGrayscale samples inside the picture, however small it is, and *)
(* from left to right and from top to bottom.                              *)
(***************************************************************************)
THEOREM SamplesAlwaysInside ==
  \A w \in Nat \ {0}, h \in Nat \ {0} : SamplesLieInside(AllDistinct(w, h))
<1> SUFFICES ASSUME NEW w \in Nat \ {0}, NEW h \in Nat \ {0} PROVE SamplesLieInside(AllDistinct(w, h))
  OBVIOUS
<1> DEFINE img == AllDistinct(w, h)
<1>1. PICK H \in Nat \ {0} : H = HashSize
  BY SomeHashSize
<1>2. ASSUME NEW side \in Nat \ {0}, NEW i \in 0..(H - 1)
      PROVE  SampleAt(i, side) \in 0..(side - 1)
  <2>1. i * side \in Nat /\ i * side < H * side
    BY ProductsOrdered
  <2>2. (i * side) \div H < side /\ (i * side) \div H >= 0 /\ (i * side) \div H \in Int
    BY <2>1, QuotientBelow, QuotientAtLeast
  <2> QED
    BY <1>1, <2>2 DEF SampleAt
<1>3. ASSUME NEW side \in Nat \ {0}, NEW i \in 0..(H - 1), NEW j \in 0..(H - 1), i <= j
      PROVE  SampleAt(i, side) <= SampleAt(j, side)
  <2>1. i * side \in Int /\ j * side \in Int /\ i * side <= j * side
    BY <1>3, ProductsOrdered
  <2> QED
    BY <1>1, <2>1, QuotientsOrdered DEF SampleAt
<1>4. img.w = w /\ img.h = h /\ \A x \in 0..(w - 1), y \in 0..(h - 1) : img.px[<<x, y>>] = <<x, y>>
  BY DEF AllDistinct, Places
<1> HIDE DEF img
<1>5. DOMAIN Sampled(img).px = (0..(H - 1)) \X (0..(H - 1))
  BY <1>1 DEF Sampled, Places
<1>6. ASSUME NEW p \in (0..(H - 1)) \X (0..(H - 1))
      PROVE  Sampled(img).px[p] = <<SampleAt(p[1], w), SampleAt(p[2], h)>>
  <2>1. SampleAt(p[1], w) \in 0..(w - 1) /\ SampleAt(p[2], h) \in 0..(h - 1)
    BY <1>2
  <2>2. Sampled(img).px[p] = img.px[<<SampleAt(p[1], w), SampleAt(p[2], h)>>]
    BY <1>1, <1>4 DEF Sampled, Places
  <2> QED
    BY <1>4, <2>1, <2>2
<1>7. ASSUME NEW p \in (0..(H - 1)) \X (0..(H - 1)), NEW q \in (0..(H - 1)) \X (0..(H - 1)),
             p[1] <= q[1], p[2] <= q[2]
      PROVE  /\ Sampled(img).px[p][1] <= Sampled(img).px[q][1]
             /\ Sampled(img).px[p][2] <= Sampled(img).px[q][2]
  BY <1>3, <1>6, <1>7
<1>8. \A i \in 0..(HashSize - 1) : SampleAt(i, img.w) < img.w /\ SampleAt(i, img.h) < img.h
  BY <1>1, <1>2, <1>4
<1> QED
  BY <1>5, <1>7, <1>8 DEF SamplesLieInside, img

-----------------------------------------------------------------------------
(* The hash                                                                *)

(* A higher rank is of a number that is not less.                          *)
LEMMA RanksOrdered ==
  ASSUME NEW xs \in Seq(Int), NEW k \in 1..Len(xs), NEW l \in 1..Len(xs), k <= l
  PROVE  Ranked(xs, k) <= Ranked(xs, l)
<1>1. PICK a \in Int, b \in Int : /\ a = Ranked(xs, k) /\ HasRank(xs, k, a)
                                  /\ b = Ranked(xs, l) /\ HasRank(xs, l, b)
  BY RankedIsRanked
<1>2. ASSUME b < a PROVE FALSE
  <2>1. UpTo(xs, b) \in SUBSET Below(xs, a)
    <3>1. \A i \in DOMAIN xs : xs[i] \in Int
      BY ElementOfSeq
    <3> QED
      BY <1>2, <3>1 DEF UpTo, Below
  <2>2. Cardinality(UpTo(xs, b)) <= Cardinality(Below(xs, a))
    BY <2>1, RanksCount, FS_Subset
  <2>3. Cardinality(UpTo(xs, b)) \in Nat /\ Cardinality(Below(xs, a)) \in Nat
    BY RanksCount
  <2> QED
    BY <1>1, <2>2, <2>3 DEF HasRank
<1> QED
  BY <1>1, <1>2

(* The largest coefficient may change as long as it stays the largest: no  *)
(* place but the last is its.                                              *)
LEMMA RanksIgnoreLargest ==
  ASSUME NEW xs \in Seq(Int), NEW b \in Int, NEW k \in 1..(Len(xs) - 1),
         \A i \in DOMAIN xs : i > 1 => xs[i] < xs[1] /\ xs[i] < b
  PROVE  /\ Ranked([xs EXCEPT ![1] = b], k) = Ranked(xs, k)
         /\ Ranked(xs, k) < xs[1] /\ Ranked(xs, k) < b
<1> DEFINE ys == [xs EXCEPT ![1] = b]
<1>1. Len(xs) \in Nat /\ DOMAIN xs = 1..Len(xs) /\ \A i \in DOMAIN xs : xs[i] \in Int
  BY ElementOfSeq
<1>2. 1 \in DOMAIN xs /\ k \in 1..Len(xs) /\ xs[1] \in Int
  BY <1>1
<1>3. /\ ys \in Seq(Int) /\ Len(ys) = Len(xs) /\ DOMAIN ys = DOMAIN xs
      /\ ys[1] = b /\ \A i \in DOMAIN xs : i # 1 => ys[i] = xs[i]
  BY <1>1, <1>2
<1> HIDE DEF ys
<1>4. PICK v \in Int, j \in DOMAIN xs : v = Ranked(xs, k) /\ HasRank(xs, k, v) /\ v = xs[j]
  BY <1>2, RankedIsRanked
<1>5. j # 1
  <2>1. ASSUME j = 1 PROVE FALSE
    <3>1. Below(xs, v) = 2..Len(xs)
      BY <1>1, <1>2, <1>4, <2>1 DEF Below
    <3>2. Cardinality(2..Len(xs)) = Len(xs) - 1
      <4>1. 2 \in Int /\ Len(xs) \in Int /\ ~ (2 > Len(xs)) /\ Len(xs) - 2 + 1 = Len(xs) - 1
        BY <1>1
      <4> QED
        BY <4>1, FS_Interval
    <3> QED
      BY <1>1, <1>4, <3>1, <3>2 DEF HasRank
  <2> QED
    BY <2>1
<1>6. v < xs[1] /\ v < b
  BY <1>1, <1>4, <1>5
<1>7. Below(ys, v) = Below(xs, v) /\ UpTo(ys, v) = UpTo(xs, v)
  <2>1. \A i \in DOMAIN xs : (ys[i] < v <=> xs[i] < v) /\ (ys[i] <= v <=> xs[i] <= v)
    <3>1. ~ (ys[1] < v) /\ ~ (xs[1] < v) /\ ~ (ys[1] <= v) /\ ~ (xs[1] <= v)
      BY <1>2, <1>3, <1>6
    <3> QED
      BY <1>3, <3>1
  <2> QED
    BY <1>3, <2>1 DEF Below, UpTo
<1>8. HasRank(ys, k, v)
  BY <1>4, <1>7 DEF HasRank
<1>9. v = Ranked(ys, k)
  BY <1>2, <1>3, <1>8, RankedIsRanked
<1> QED
  BY <1>4, <1>6, <1>9 DEF ys

(* The median does not see how large the largest number is.                *)
LEMMA MedianIgnoresLargest ==
  ASSUME NEW xs \in Seq(Int), Len(xs) >= 3, NEW b \in Int,
         \A i \in DOMAIN xs : i > 1 => xs[i] < xs[1] /\ xs[i] < b
  PROVE  /\ TwiceMedianFloat64([xs EXCEPT ![1] = b]) = TwiceMedianFloat64(xs)
         /\ TwiceMedianFloat64(xs) \in Int
         /\ TwiceMedianFloat64(xs) < 2 * xs[1] /\ TwiceMedianFloat64(xs) < 2 * b
<1> DEFINE ys == [xs EXCEPT ![1] = b]
           half == Len(xs) \div 2
<1>1. Len(xs) \in Nat /\ DOMAIN xs = 1..Len(xs) /\ \A i \in DOMAIN xs : xs[i] \in Int
  BY ElementOfSeq
<1>2. half \in 1..(Len(xs) - 1) /\ half + 1 \in 1..(Len(xs) - 1) /\ xs[1] \in Int
  BY <1>1
<1>3. Len(ys) = Len(xs)
  BY <1>1
<1> HIDE DEF ys, half
<1>4. ASSUME NEW k \in 1..(Len(xs) - 1)
      PROVE  /\ Ranked(ys, k) = Ranked(xs, k) /\ Ranked(xs, k) \in Int
             /\ Ranked(xs, k) < xs[1] /\ Ranked(xs, k) < b
  <2>1. k \in 1..Len(xs)
    BY <1>1
  <2> QED
    <3>1. Ranked(xs, k) \in Int
      BY <2>1, RankedIsRanked
    <3>2. /\ Ranked(ys, k) = Ranked(xs, k)
          /\ Ranked(xs, k) < xs[1] /\ Ranked(xs, k) < b
      BY RanksIgnoreLargest DEF ys
    <3> QED
      BY <3>1, <3>2
<1>5. PICK r \in Int, s \in Int :
         /\ r = Ranked(xs, half) /\ Ranked(ys, half) = r /\ r < xs[1] /\ r < b
         /\ s = Ranked(xs, half + 1) /\ Ranked(ys, half + 1) = s /\ s < xs[1] /\ s < b
  BY <1>2, <1>4
<1>6. /\ TwiceMedianFloat64(xs) = IF Len(xs) % 2 = 1 THEN 2 * s ELSE r + s
      /\ TwiceMedianFloat64(ys) = IF Len(xs) % 2 = 1 THEN 2 * s ELSE r + s
  BY <1>3, <1>5 DEF TwiceMedianFloat64, half
<1>7. /\ TwiceMedianFloat64(ys) = TwiceMedianFloat64(xs)
      /\ TwiceMedianFloat64(xs) \in Int
      /\ TwiceMedianFloat64(xs) < 2 * xs[1] /\ TwiceMedianFloat64(xs) < 2 * b
  <2>1. CASE Len(xs) % 2 = 1
    BY <1>2, <1>5, <1>6, <2>1
  <2>2. CASE Len(xs) % 2 # 1
    <3>1. TwiceMedianFloat64(xs) = r + s /\ TwiceMedianFloat64(ys) = r + s
      BY <1>6, <2>2
    <3>2. r + s \in Int /\ r + s < 2 * xs[1] /\ r + s < 2 * b
      <4>1. r \in Int /\ s \in Int /\ r < xs[1] /\ s < xs[1] /\ r < b /\ s < b
        BY <1>5
      <4>2. xs[1] \in Int /\ b \in Int
        BY <1>2
      <4> QED
        BY <4>1, <4>2
    <3> QED
      BY <3>1, <3>2
  <2> QED
    BY <2>1, <2>2
<1> QED
  BY <1>7 DEF ys

(***************************************************************************)
(* A hash of three coefficients or more does not change with the first as  *)
(* long as that stays the largest, and at most half of its bits are set:   *)
(* whatever the picture and its size.                                      *)
(***************************************************************************)
THEOREM HashNeverBrightens ==
  \A values \in Seq(Int), brighter \in Int :
    Len(values) >= 3 => HashIgnoresBrightness(values, brighter)
<1> SUFFICES ASSUME NEW xs \in Seq(Int), NEW b \in Int, Len(xs) >= 3
             PROVE  HashIgnoresBrightness(xs, b)
  OBVIOUS
<1> DEFINE ys == [xs EXCEPT ![1] = b]
           n == Len(xs)
           half == n \div 2
<1>1. n \in Nat /\ DOMAIN xs = 1..n /\ \A i \in DOMAIN xs : xs[i] \in Int
  BY ElementOfSeq
<1>2. ASSUME \A i \in DOMAIN xs : i > 1 => xs[i] < xs[1] /\ xs[i] < b
      PROVE  HashBits(ys) = HashBits(xs)
  <2>1. PICK t \in Int : /\ t = TwiceMedianFloat64(xs) /\ TwiceMedianFloat64(ys) = t
                         /\ t < 2 * xs[1] /\ t < 2 * b
    BY <1>2, MedianIgnoresLargest
  <2>2. DOMAIN ys = DOMAIN xs /\ ys[1] = b /\ \A i \in DOMAIN xs : i # 1 => ys[i] = xs[i]
    BY <1>1
  <2> HIDE DEF ys
  <2>3. \A i \in DOMAIN xs : 2 * ys[i] > t <=> 2 * xs[i] > t
    <3>1. xs[1] \in Int
      BY <1>1
    <3> QED
      BY <2>1, <2>2, <3>1
  <2> QED
    BY <2>1, <2>2, <2>3 DEF HashBits
<1>3. PICK r \in Int : /\ TwiceMedianFloat64(xs) \in Int /\ 2 * r <= TwiceMedianFloat64(xs)
                       /\ n - half <= Cardinality(UpTo(xs, r))
  <2>1. half \in Nat /\ half \in 1..n /\ half + 1 \in 1..n
    BY <1>1
  <2>2. PICK p \in Int, q \in Int : /\ p = Ranked(xs, half) /\ HasRank(xs, half, p)
                                    /\ q = Ranked(xs, half + 1) /\ HasRank(xs, half + 1, q)
                                    /\ p <= q
    BY <2>1, RankedIsRanked, RanksOrdered
  <2>3. Cardinality(UpTo(xs, p)) \in Nat /\ Cardinality(UpTo(xs, q)) \in Nat
    BY RanksCount
  <2>4. CASE n % 2 = 1
    <3>1. TwiceMedianFloat64(xs) = 2 * q
      BY <2>2, <2>4 DEF TwiceMedianFloat64
    <3>2. n - half <= Cardinality(UpTo(xs, q))
      BY <1>1, <2>2, <2>3, <2>4 DEF HasRank
    <3>3. TwiceMedianFloat64(xs) \in Int /\ 2 * q <= TwiceMedianFloat64(xs)
      BY <2>2, <3>1
    <3> QED
      BY <2>2, <3>2, <3>3
  <2>5. CASE n % 2 # 1
    <3>1. TwiceMedianFloat64(xs) = p + q
      BY <2>2, <2>5 DEF TwiceMedianFloat64
    <3>2. n - half <= Cardinality(UpTo(xs, p))
      BY <1>1, <2>2, <2>3, <2>5 DEF HasRank
    <3> QED
      BY <2>2, <3>1, <3>2
  <2> QED
    BY <2>4, <2>5
<1>4. 2 * Cardinality(HashBits(xs)) <= n
  <2>1. HashBits(xs) \in SUBSET (DOMAIN xs \ UpTo(xs, r))
    BY <1>1, <1>3 DEF HashBits, UpTo
  <2>2. IsFiniteSet(DOMAIN xs) /\ Cardinality(DOMAIN xs) = n
    <3>1. 1 \in Int /\ n \in Int /\ ~ (1 > n) /\ n - 1 + 1 = n
      BY <1>1
    <3> QED
      BY <1>1, <3>1, FS_Interval
  <2>3. /\ IsFiniteSet(DOMAIN xs \ UpTo(xs, r))
        /\ Cardinality(DOMAIN xs \ UpTo(xs, r)) = n - Cardinality(UpTo(xs, r))
    <3>1. DOMAIN xs \cap UpTo(xs, r) = UpTo(xs, r)
      BY RanksCount
    <3> QED
      BY <2>2, <3>1, FS_Difference
  <2>4. Cardinality(HashBits(xs)) <= n - Cardinality(UpTo(xs, r))
    BY <2>1, <2>3, FS_Subset
  <2>5. Cardinality(HashBits(xs)) \in Nat /\ Cardinality(UpTo(xs, r)) \in Nat
    <3>1. IsFiniteSet(HashBits(xs))
      BY <2>1, <2>3, FS_Subset
    <3> QED
      BY <3>1, FS_CardinalityType, RanksCount
  <2> QED
    BY <1>1, <1>3, <2>4, <2>5
<1> QED
  <2>1. ASSUME \A i \in DOMAIN xs : i > 1 => xs[i] < xs[1], \A i \in DOMAIN xs : i > 1 => xs[i] < b
        PROVE  HashBits(ys) = HashBits(xs)
    BY <1>2, <2>1
  <2> HIDE DEF ys
  <2> QED
    BY <1>4, <2>1 DEF HashIgnoresBrightness, ys

-----------------------------------------------------------------------------
(* Transforms                                                              *)

(* The rungs of the two families that cut.                                 *)
LEMMA CropRungsAre ==
  ASSUME NEW rung \in CropRungs
  PROVE  \/ /\ rung.family = "crop_border" /\ rung.percent \in {5, 10, 15, 20}
            /\ rung.expect <=> rung.percent # 20
         \/ /\ rung.family = "heavy_crop" /\ rung.percent \in {40, 50, 60}
            /\ rung.expect = FALSE
BY DEF CropRungs, CropEntry, HeavyCropEntry

(* A share of a side.                                                      *)
LEMMA PartOfSide ==
  ASSUME NEW side \in Nat, NEW percent \in 0..100
  PROVE  /\ Part(side, percent) \in 0..side
         /\ 100 * Part(side, percent) <= side * percent
         /\ side * percent < 100 * Part(side, percent) + 100
<1>1. side * percent \in Int
  OBVIOUS
<1>2. /\ Part(side, percent) \in Int /\ 100 * Part(side, percent) <= side * percent
      /\ side * percent < 100 * Part(side, percent) + 100
  BY <1>1, DivisionRounds DEF Part
<1>3. side * percent <= side * 100 /\ 0 <= side * percent
  BY ProductsOrdered
<1> QED
  BY <1>2, <1>3

(* What is left of a side: two margins less, or a part from the middle.    *)
LEMMA CropBorderKeeps ==
  ASSUME NEW side \in Nat, side >= 63, NEW percent \in {5, 10, 15, 20}
  PROVE  /\ Part(side, percent) \in Nat /\ Part(side, percent) < side - Part(side, percent)
         /\ percent # 20 => 10 * (side - 2 * Part(side, percent)) >= 7 * side
         /\ percent = 20 => 100 * (side - 2 * Part(side, percent)) < 60 * side + 200
<1>1. PICK p \in Int : /\ p = Part(side, percent) /\ p >= 0 /\ 100 * p <= side * percent
                       /\ side * percent < 100 * p + 100
  <2>1. percent \in 0..100
    OBVIOUS
  <2>2. /\ Part(side, percent) \in 0..side
        /\ 100 * Part(side, percent) <= side * percent
        /\ side * percent < 100 * Part(side, percent) + 100
    BY <2>1, PartOfSide
  <2> QED
    BY <2>2
<1>2. CASE percent = 20
  BY <1>1, <1>2
<1>3. CASE percent # 20
  <2>1. percent <= 15
    BY <1>3
  <2>2. side * percent <= side * 15
    BY <2>1, ProductsOrdered
  <2> QED
    BY <1>1, <1>3, <2>2
<1> QED
  BY <1>2, <1>3

(* What heavy_crop keeps is at most 60 per cent, and lies inside.          *)
LEMMA HeavyCropKeeps ==
  ASSUME NEW side \in Nat, side >= 3, NEW keep \in {40, 50, 60}
  PROVE  /\ Part(side, keep) \in Nat /\ Part(side, keep) > 0
         /\ 100 * Part(side, keep) <= 60 * side
         /\ (side - Part(side, keep)) \div 2 \in Nat
         /\ (side - Part(side, keep)) \div 2 + Part(side, keep) <= side
<1>1. PICK p \in Int : /\ p = Part(side, keep) /\ p >= 0 /\ p <= side
                       /\ 100 * p <= side * keep /\ side * keep < 100 * p + 100
  <2>1. keep \in 0..100
    OBVIOUS
  <2>2. /\ Part(side, keep) \in 0..side
        /\ 100 * Part(side, keep) <= side * keep
        /\ side * keep < 100 * Part(side, keep) + 100
    BY <2>1, PartOfSide
  <2> QED
    BY <2>2
<1>2. side * keep <= side * 60 /\ side * 40 <= side * keep
  BY ProductsOrdered
<1> QED
  BY <1>1, <1>2

(* overlayRectangle and localizedRecolor find a side.                      *)
LEMMA SideExists ==
  ASSUME NEW area \in Nat
  PROVE  SideOf(area) \in Nat \ {0}
<1> DEFINE Wide == {s \in Nat : s >= 1 /\ s * s >= area}
           Narrow(s) == s = 1 \/ (s - 1) * (s - 1) < area
           T == {n \in Nat : n \in 1..(area + 1) => n * n < area \/ \E s \in 1..n : s * s >= area /\ Narrow(s)}
<1>1. T = Nat
  <2>1. 0 \in T
    OBVIOUS
  <2>2. ASSUME NEW n \in T PROVE n + 1 \in T
    <3>1. n \in Nat /\ n + 1 \in Nat /\ n * n \in Nat /\ (n + 1) * (n + 1) \in Nat
      OBVIOUS
    <3>2. CASE n = 0
      <4>1. 1 * 1 < area \/ (1 * 1 >= area /\ Narrow(1))
        BY SMT
      <4> QED
        BY <3>2, <4>1
    <3>3. CASE n # 0 /\ n + 1 \in 1..(area + 1)
      <4>1. n \in 1..(area + 1)
        BY <3>1, <3>3
      <4>2. CASE n * n < area
        <5>1. (n + 1) * (n + 1) < area \/ ((n + 1) * (n + 1) >= area /\ Narrow(n + 1))
          BY <3>1, <4>2
        <5> QED
          BY <3>1, <5>1
      <4>3. CASE ~ (n * n < area)
        BY <3>1, <4>1, <4>3
      <4> QED
        BY <4>2, <4>3
    <3> QED
      BY <3>1, <3>2, <3>3
  <2>3. T \subseteq Nat
    OBVIOUS
  <2> HIDE DEF T
  <2> QED
    BY <2>1, <2>2, <2>3, SetInduction
<1>2. (area + 1) * (area + 1) >= area
  OBVIOUS
<1>3. area + 1 \in T /\ area + 1 \in 1..(area + 1)
  <2> HIDE DEF T
  <2> QED
    BY <1>1
<1>4. \E s \in 1..(area + 1) : s * s >= area /\ (s = 1 \/ (s - 1) * (s - 1) < area)
  <2>1. ~ ((area + 1) * (area + 1) < area)
    BY <1>2, <1>3
  <2>2. \E s \in 1..(area + 1) : s * s >= area /\ Narrow(s)
    <3> HIDE DEF Narrow
    <3> QED
      BY <1>3, <2>1
  <2> QED
    BY <2>2
<1>5. SideOf(area) \in 1..(area + 1)
  BY <1>4 DEF SideOf
<1> QED
  BY <1>5

(* A square of any share, at either corner, lies inside the picture.       *)
LEMMA SquareInside ==
  ASSUME NEW w \in Nat, NEW h \in Nat, w >= 3, h >= 3, NEW percent \in 0..100,
         NEW corner \in {5, 30}
  PROVE  Inside(SquareAt(w, h, percent, corner), w, h)
<1>1. w * h \in Nat
  OBVIOUS
<1>2. PICK wanted \in Nat \ {0} : wanted = SideOf(Part(w * h, percent))
  <2>1. PICK area \in Nat : area = w * h
    BY <1>1
  <2>2. Part(area, percent) \in 0..area
    BY PartOfSide
  <2> QED
    BY <2>1, <2>2, SideExists
<1>3. PICK s \in Nat : s = SquareSide(w, h, percent) /\ s > 0 /\ 2 * s <= w /\ 2 * s <= h
  BY <1>2 DEF SquareSide
<1>4. PICK x \in Nat, y \in Nat : /\ x = Part(w, corner) /\ 100 * x <= w * corner
                                  /\ y = Part(h, corner) /\ 100 * y <= h * corner
  <2>1. corner \in 0..100
    OBVIOUS
  <2>2. /\ Part(w, corner) \in 0..w /\ 100 * Part(w, corner) <= w * corner
    BY <2>1, PartOfSide
  <2>3. /\ Part(h, corner) \in 0..h /\ 100 * Part(h, corner) <= h * corner
    BY <2>1, PartOfSide
  <2> QED
    BY <2>2, <2>3
<1>5. w * corner <= w * 30 /\ h * corner <= h * 30
  BY ProductsOrdered
<1>6. SquareAt(w, h, percent, corner) = [x0 |-> x, y0 |-> y, x1 |-> x + s, y1 |-> y + s]
  BY <1>3, <1>4 DEF SquareAt, Rect
<1> QED
  BY <1>3, <1>4, <1>5, <1>6 DEF Inside

(***************************************************************************)
(* builders.go cuts and paints inside every picture of at least 63 pixels  *)
(* a side.                                                                 *)
(***************************************************************************)
THEOREM RegionsAlwaysInside ==
  \A w, h \in Nat : w >= 63 /\ h >= 63 => RegionsLieInside(w, h)
<1> SUFFICES ASSUME NEW w \in Nat, NEW h \in Nat, w >= 63, h >= 63 PROVE RegionsLieInside(w, h)
  OBVIOUS
<1>1. ASSUME NEW rung \in CropRungs PROVE Inside(Kept(rung, w, h), w, h)
  <2>1. CASE rung.family = "crop_border"
    <3>1. rung.percent \in {5, 10, 15, 20}
      BY <2>1, CropRungsAre
    <3>2. PICK p \in Nat, q \in Nat : /\ p = Part(w, rung.percent) /\ p < w - p
                                      /\ q = Part(h, rung.percent) /\ q < h - q
      <4>1. PICK m \in {5, 10, 15, 20} : m = rung.percent
        BY <3>1
      <4>2. Part(w, m) \in Nat /\ Part(w, m) < w - Part(w, m)
        BY <4>1, CropBorderKeeps
      <4>3. Part(h, m) \in Nat /\ Part(h, m) < h - Part(h, m)
        BY <4>1, CropBorderKeeps
      <4> QED
        BY <4>1, <4>2, <4>3
    <3>3. Kept(rung, w, h) = [x0 |-> p, y0 |-> q, x1 |-> w - p, y1 |-> h - q]
      BY <2>1, <3>2 DEF Kept, CropBorder, Rect
    <3> QED
      BY <3>2, <3>3 DEF Inside
  <2>2. CASE rung.family = "heavy_crop"
    <3>1. rung.percent \in {40, 50, 60}
      BY <2>2, CropRungsAre
    <3>2. PICK p \in Nat, a \in Nat : /\ p = Part(w, rung.percent) /\ p > 0
                                      /\ a = (w - p) \div 2 /\ a + p <= w
      <4>1. PICK keep \in {40, 50, 60} : keep = rung.percent
        BY <3>1
      <4>2. /\ Part(w, keep) \in Nat /\ Part(w, keep) > 0
            /\ (w - Part(w, keep)) \div 2 \in Nat
            /\ (w - Part(w, keep)) \div 2 + Part(w, keep) <= w
        <5>1. w >= 3
          OBVIOUS
        <5> QED
          BY <4>1, <5>1, HeavyCropKeeps
      <4> QED
        BY <4>1, <4>2
    <3>3. PICK q \in Nat, b \in Nat : /\ q = Part(h, rung.percent) /\ q > 0
                                      /\ b = (h - q) \div 2 /\ b + q <= h
      <4>1. PICK keep \in {40, 50, 60} : keep = rung.percent
        BY <3>1
      <4>2. /\ Part(h, keep) \in Nat /\ Part(h, keep) > 0
            /\ (h - Part(h, keep)) \div 2 \in Nat
            /\ (h - Part(h, keep)) \div 2 + Part(h, keep) <= h
        <5>1. h >= 3
          OBVIOUS
        <5> QED
          BY <4>1, <5>1, HeavyCropKeeps
      <4> QED
        BY <4>1, <4>2
    <3>4. Kept(rung, w, h) = [x0 |-> a, y0 |-> b, x1 |-> a + p, y1 |-> b + q]
      BY <2>2, <3>2, <3>3 DEF Kept, HeavyCrop, Rect
    <3> QED
      BY <3>2, <3>3, <3>4 DEF Inside
  <2> QED
    BY <2>1, <2>2, CropRungsAre
<1>2. Inside(LocalizedRecolor(w, h), w, h)
  BY SquareInside DEF LocalizedRecolor
<1>3. ASSUME NEW percent \in {10, 15, 20, 30} PROVE Inside(OverlayRectangle(w, h, percent), w, h)
  <2>1. percent \in 0..100 /\ w >= 3 /\ h >= 3 /\ 5 \in {5, 30}
    OBVIOUS
  <2>2. Inside(SquareAt(w, h, percent, 5), w, h)
    BY <2>1, SquareInside
  <2> QED
    BY <2>2 DEF OverlayRectangle
<1> QED
  BY <1>1, <1>2, <1>3 DEF RegionsLieInside

(***************************************************************************)
(* The labels of registry.go for cut pictures follow the coverage gate, at *)
(* any threshold from 40 to 49 per cent (42 in the code), for every        *)
(* picture of at least 63 pixels a side: of a smaller one the rounding of  *)
(* two margins leaves too much.                                            *)
(***************************************************************************)
THEOREM LabelsAlwaysFollow ==
  ASSUME MinCoverage \in 40..49
  PROVE  \A w, h \in Nat : w >= 63 /\ h >= 63 => LabelsFollowCoverage(w, h)
<1> SUFFICES ASSUME NEW w \in Nat, NEW h \in Nat, w >= 63, h >= 63,
                    NEW rung \in CropRungs
             PROVE  rung.expect <=> 100 * Area(Kept(rung, w, h)) >= MinCoverage * w * h
  BY DEF LabelsFollowCoverage
<1>1. PICK C \in 40..49 : C = MinCoverage
  OBVIOUS
<1>2. /\ w * h \in Nat /\ 40 * (w * h) <= C * (w * h) /\ C * (w * h) <= 49 * (w * h)
      /\ w * h > 0 /\ C * w * h = C * (w * h)
  OBVIOUS
<1>3. CASE rung.family = "crop_border"
  <2>1. rung.percent \in {5, 10, 15, 20} /\ (rung.expect <=> rung.percent # 20)
    BY <1>3, CropRungsAre
  <2>2. PICK m \in {5, 10, 15, 20} : m = rung.percent
    BY <2>1
  <2>7. PICK p \in Nat, q \in Nat :
           /\ p = Part(w, m) /\ p < w - p /\ q = Part(h, m) /\ q < h - q
           /\ m # 20 => 10 * (w - 2 * p) >= 7 * w /\ 10 * (h - 2 * q) >= 7 * h
           /\ m = 20 => 100 * (w - 2 * p) < 60 * w + 200 /\ 100 * (h - 2 * q) < 60 * h + 200
    <3>1. /\ Part(w, m) \in Nat /\ Part(w, m) < w - Part(w, m)
          /\ m # 20 => 10 * (w - 2 * Part(w, m)) >= 7 * w
          /\ m = 20 => 100 * (w - 2 * Part(w, m)) < 60 * w + 200
      BY CropBorderKeeps
    <3>2. /\ Part(h, m) \in Nat /\ Part(h, m) < h - Part(h, m)
          /\ m # 20 => 10 * (h - 2 * Part(h, m)) >= 7 * h
          /\ m = 20 => 100 * (h - 2 * Part(h, m)) < 60 * h + 200
      BY CropBorderKeeps
    <3> QED
      BY <3>1, <3>2
  <2>3. PICK a \in Nat, b \in Nat : a = w - 2 * p /\ b = h - 2 * q
    BY <2>7
  <2>4. Area(Kept(rung, w, h)) = a * b
    <3>1. Kept(rung, w, h) = [x0 |-> p, y0 |-> q, x1 |-> w - p, y1 |-> h - q]
      BY <1>3, <2>2, <2>7 DEF Kept, CropBorder, Rect
    <3>2. (w - p) - p = a /\ (h - q) - q = b
      BY <2>3
    <3> QED
      BY <3>1, <3>2 DEF Area
  <2>5. CASE rung.percent # 20
    <3>1. 7 * w <= 10 * a /\ 7 * h <= 10 * b
      BY <2>2, <2>3, <2>5, <2>7
    <3>2. (7 * w) * (7 * h) <= (10 * a) * (10 * b)
      BY <3>1, ProductsOrdered
    <3>3. 49 * (w * h) <= 100 * (a * b)
      BY <3>2
    <3> QED
      BY <1>1, <1>2, <2>1, <2>4, <2>5, <3>3
  <2>6. CASE rung.percent = 20
    <3>1. 100 * a < 60 * w + 200 /\ 100 * b < 60 * h + 200
      BY <2>2, <2>3, <2>6, <2>7
    <3>2. 100 * a <= 63 * w /\ 100 * b <= 63 * h
      BY <3>1
    <3>3. (100 * a) * (100 * b) <= (63 * w) * (63 * h)
      BY <3>2, ProductsOrdered
    <3>4. 10000 * (a * b) <= 3969 * (w * h)
      BY <3>3
    <3> QED
      BY <1>1, <1>2, <2>1, <2>4, <2>6, <3>4
  <2> QED
    BY <2>5, <2>6
<1>4. CASE rung.family = "heavy_crop"
  <2>1. rung.percent \in {40, 50, 60} /\ rung.expect = FALSE
    BY <1>4, CropRungsAre
  <2>2. PICK p \in Nat, q \in Nat : /\ p = Part(w, rung.percent) /\ 100 * p <= 60 * w
                                    /\ q = Part(h, rung.percent) /\ 100 * q <= 60 * h
    <3>1. PICK keep \in {40, 50, 60} : keep = rung.percent
      BY <2>1
    <3>2. Part(w, keep) \in Nat /\ 100 * Part(w, keep) <= 60 * w
      <4>1. w >= 3
        OBVIOUS
      <4> QED
        BY <4>1, HeavyCropKeeps
    <3>3. Part(h, keep) \in Nat /\ 100 * Part(h, keep) <= 60 * h
      <4>1. h >= 3
        OBVIOUS
      <4> QED
        BY <4>1, HeavyCropKeeps
    <3> QED
      BY <3>1, <3>2, <3>3
  <2>3. (w - p) \div 2 \in Int /\ (h - q) \div 2 \in Int
    OBVIOUS
  <2>4. Area(Kept(rung, w, h)) = p * q
    BY <1>4, <2>2, <2>3 DEF Kept, HeavyCrop, Rect, Area
  <2>5. (100 * p) * (100 * q) <= (60 * w) * (60 * h)
    BY <2>2, ProductsOrdered
  <2>6. 10000 * (p * q) <= 3600 * (w * h)
    BY <2>5
  <2> QED
    BY <1>1, <1>2, <2>1, <2>4, <2>6
<1> QED
  BY <1>3, <1>4, CropRungsAre

(* The rungs of the families that scale.                                   *)
LEMMA ScaleRungsAre ==
  ASSUME NEW rung \in ScaleRungs
  PROVE  \/ rung.family \in {"downscale", "upscale"} /\ rung.scale \in {33, 50, 75, 150, 200}
         \/ rung.family = "downscale" /\ rung.scale \in {-256, -160}
         \/ rung.family = "whatsapp_like" /\ rung.scale = -960
BY DEF ScaleRungs, DownscaleEntry, UpscaleEntry, WhatsappEntry

(* The longer side is one of the two.                                      *)
LEMMA LongIs ==
  ASSUME NEW w \in Nat, NEW h \in Nat
  PROVE  Long(w, h) \in Nat /\ w <= Long(w, h) /\ h <= Long(w, h) /\ (Long(w, h) = w \/ Long(w, h) = h)
BY DEF Long

(* A side under a cap, of a picture whose long side is over it.            *)
LEMMA CappedSide ==
  ASSUME NEW side \in Nat \ {0}, NEW long \in Nat, side <= long, NEW cap \in Nat \ {0}
  PROVE  /\ (side * cap) \div long \in 0..cap
         /\ (side * cap) \div long > 0 <=> long <= cap * side
         /\ \A least \in Nat : 2 * long <= 5 * side /\ 5 * least <= 2 * cap => (side * cap) \div long >= least
<1>1. long \in Nat \ {0} /\ side * cap \in Nat
  OBVIOUS
<1>2. side * cap <= long * cap
  BY ProductsOrdered
<1>3. PICK q \in Int : q = (side * cap) \div long /\ long * q <= side * cap /\ side * cap < long * q + long
  BY <1>1, DivisionRounds
<1>4. q >= 0
  BY <1>1, <1>3, QuotientAtLeast
<1>5. q < cap + 1
  <2>1. side * cap < long * (cap + 1)
    BY <1>1, <1>2
  <2> QED
    BY <1>1, <1>3, <2>1, QuotientBelow
<1>6. q > 0 <=> long <= cap * side
  <2>1. ASSUME q > 0 PROVE long <= cap * side
    <3>1. long * 1 <= long * q
      BY <1>1, <1>3, <2>1, ProductsOrdered
    <3> QED
      BY <1>1, <1>3, <3>1
  <2>2. ASSUME long <= cap * side PROVE q > 0
    <3>1. long * 1 <= side * cap
      BY <2>2
    <3>2. 1 <= (side * cap) \div long
      BY <1>1, <3>1, QuotientAtLeast
    <3> QED
      BY <1>3, <3>2
  <2> QED
    BY <2>1, <2>2
<1>7. ASSUME NEW least \in Nat, 2 * long <= 5 * side, 5 * least <= 2 * cap PROVE q >= least
  <2>1. (2 * long) * (5 * least) <= (5 * side) * (2 * cap)
    BY <1>7, ProductsOrdered
  <2>2. long * least <= side * cap
    BY <2>1
  <2> QED
    BY <1>1, <1>3, <2>2, QuotientAtLeast
<1> QED
  BY <1>3, <1>4, <1>5, <1>6, <1>7

(* A picture scaled under a cap: its sides are under it, one vanishes only *)
(* where the other is more than the cap times as long, and they keep what  *)
(* the gates need.                                                         *)
LEMMA CappedIs ==
  ASSUME NEW w \in Nat \ {0}, NEW h \in Nat \ {0}, NEW cap \in Nat \ {0}
  PROVE  /\ Capped(w, h, cap).w \in 0..cap /\ Capped(w, h, cap).h \in 0..cap
         /\ Capped(w, h, cap).w > 0 /\ Capped(w, h, cap).h > 0
              <=> Long(w, h) <= cap * w /\ Long(w, h) <= cap * h
         /\ \A least \in Nat :
              w >= least /\ h >= least /\ 2 * w <= 5 * h /\ 2 * h <= 5 * w /\ 5 * least <= 2 * cap =>
                Capped(w, h, cap).w >= least /\ Capped(w, h, cap).h >= least
<1>1. PICK long \in Nat : /\ long = Long(w, h) /\ w <= long /\ h <= long
                       /\ (long = w \/ long = h)
  BY LongIs
<1>2. CASE long <= cap
  <2>1. Capped(w, h, cap) = Sized(w, h)
    BY <1>1, <1>2 DEF Capped
  <2>2. Capped(w, h, cap).w = w /\ Capped(w, h, cap).h = h
    BY <2>1 DEF Sized
  <2>3. cap * 1 <= cap * w /\ cap * 1 <= cap * h
    BY ProductsOrdered
  <2>4. long <= cap * w /\ long <= cap * h
    BY <1>1, <1>2, <2>3
  <2> QED
    BY <1>1, <1>2, <2>1, <2>2, <2>4
<1>3. CASE long > cap
  <2>1. PICK a \in 0..cap, b \in 0..cap : a = (w * cap) \div long /\ b = (h * cap) \div long
    <3>1. (w * cap) \div long \in 0..cap
      BY <1>1, CappedSide
    <3>2. (h * cap) \div long \in 0..cap
      BY <1>1, CappedSide
    <3> QED
      BY <3>1, <3>2
  <2>2. Capped(w, h, cap) = Sized(a, b)
    BY <1>1, <1>3, <2>1 DEF Capped
  <2>3. Capped(w, h, cap).w = a /\ Capped(w, h, cap).h = b
    BY <2>2 DEF Sized
  <2>4. (a > 0 <=> long <= cap * w) /\ (b > 0 <=> long <= cap * h)
    BY <1>1, <2>1, CappedSide
  <2>6. ASSUME NEW least \in Nat, 2 * w <= 5 * h, 2 * h <= 5 * w, 5 * least <= 2 * cap
        PROVE  a >= least /\ b >= least
    <3>1. 2 * long <= 5 * w /\ 2 * long <= 5 * h
      BY <1>1, <2>6
    <3> QED
      BY <1>1, <2>1, <2>6, <3>1, CappedSide
  <2> QED
    BY <1>1, <2>1, <2>2, <2>3, <2>4, <2>6
<1> QED
  BY <1>1, <1>2, <1>3

(* No rung that scales by a share takes away more than two thirds.         *)
LEMMA SharesGrow ==
  ASSUME NEW side \in Nat, NEW percent \in {33, 50, 75, 150, 200}
  PROVE  Part(side, percent) \in Nat /\ Part(side, 33) \in Nat /\ Part(side, 33) <= Part(side, percent)
         /\ Part(side, 33) <= side
<1>1. side * percent \in Nat /\ side * 33 \in Nat /\ side * 33 <= side * percent /\ side * 33 <= side * 100
  BY ProductsOrdered
<1>2. (side * 100) \div 100 = side
  OBVIOUS
<1> QED
  BY <1>1, <1>2, QuotientsOrdered DEF Part

(***************************************************************************)
(* Every change of size that registry.go labels a match leaves a picture   *)
(* that is large enough for it extractable, of whatever size, as long as   *)
(* the extractor asks for no more than 64 pixels (63 in the code), two     *)
(* fifths of the smallest cap.                                             *)
(***************************************************************************)
THEOREM ScalingAlwaysKeeps ==
  ASSUME MinDimension <= 64
  PROVE  \A w, h \in Nat \ {0} : ScaledStaysExtractable(w, h)
<1> SUFFICES ASSUME NEW w \in Nat \ {0}, NEW h \in Nat \ {0} PROVE ScaledStaysExtractable(w, h)
  OBVIOUS
<1>1. PICK D \in Nat : D = MinDimension /\ D >= 1 /\ D <= 64
  BY MinDimensionAssumption
<1> DEFINE short == IF w < h THEN w ELSE h
           Keeps(rung, to) ==
             /\ to.w > 0 /\ to.h > 0 <=>
                  rung.family # "whatsapp_like" \/ Long(w, h) <= -rung.scale * short
             /\ rung.scale < 0 => Long(to.w, to.h) <= -rung.scale
             /\ /\ rung.expect /\ Part(w, 33) >= MinDimension /\ Part(h, 33) >= MinDimension
                /\ 2 * w <= 5 * h /\ 2 * h <= 5 * w
                => to.w >= MinDimension /\ to.h >= MinDimension
<1>3. ASSUME NEW cap \in Nat \ {0}
      PROVE  /\ Capped(w, h, cap).w \in 0..cap /\ Capped(w, h, cap).h \in 0..cap
             /\ Capped(w, h, cap).w > 0 /\ Capped(w, h, cap).h > 0
                  <=> Long(w, h) <= cap * w /\ Long(w, h) <= cap * h
             /\ \A least \in Nat :
                  w >= least /\ h >= least /\ 2 * w <= 5 * h /\ 2 * h <= 5 * w /\ 5 * least <= 2 * cap =>
                    Capped(w, h, cap).w >= least /\ Capped(w, h, cap).h >= least
  BY CappedIs
<1>2. ASSUME NEW rung \in ScaleRungs PROVE Keeps(rung, Scaled(rung, w, h))
  <2>1. CASE rung.family \in {"downscale", "upscale"} /\ rung.scale \in {33, 50, 75, 150, 200}
    <3>1. PICK a \in Nat, b \in Nat : /\ a = Part(w, rung.scale) /\ b = Part(h, rung.scale)
                                      /\ Part(w, 33) <= a /\ Part(h, 33) <= b
      <4>1. PICK m \in {33, 50, 75, 150, 200} : m = rung.scale
        BY <2>1
      <4>2. Part(w, m) \in Nat /\ Part(w, 33) <= Part(w, m) /\ Part(h, m) \in Nat /\ Part(h, 33) <= Part(h, m)
        BY SharesGrow
      <4> QED
        BY <4>1, <4>2
    <3>2. PICK c \in Nat, d \in Nat : c = Floored(a, 1) /\ d = Floored(b, 1) /\ c >= 1 /\ d >= 1 /\ c >= a /\ d >= b
      BY DEF Floored
    <3>3. Scaled(rung, w, h) = [w |-> c, h |-> d]
      BY <2>1, <3>1, <3>2 DEF Scaled, Rescale, Sized
    <3>4. Part(w, 33) \in Nat /\ Part(h, 33) \in Nat
      BY SharesGrow
    <3>5. PICK t : t = Scaled(rung, w, h) /\ t.w = c /\ t.h = d
      BY <3>3
    <3> QED
      BY <1>1, <2>1, <3>1, <3>2, <3>4, <3>5
  <2>2. CASE \/ rung.family = "downscale" /\ rung.scale \in {-256, -160}
             \/ rung.family = "whatsapp_like" /\ rung.scale = -960
    <3>1. PICK cap \in Nat \ {0} : /\ cap \in {160, 256, 960} /\ cap = -rung.scale /\ rung.scale < 0
                                   /\ cap = 960 <=> rung.family = "whatsapp_like"
      BY <2>2
    <3>2. PICK t : t = Capped(w, h, cap)
      OBVIOUS
    <3>3. /\ t.w \in 0..cap /\ t.h \in 0..cap
          /\ t.w > 0 /\ t.h > 0 <=> Long(w, h) <= cap * short
          /\ \A least \in Nat :
              w >= least /\ h >= least /\ 2 * w <= 5 * h /\ 2 * h <= 5 * w /\ 5 * least <= 2 * cap =>
                t.w >= least /\ t.h >= least
      <4>2. /\ Capped(w, h, cap).w \in 0..cap /\ Capped(w, h, cap).h \in 0..cap
            /\ Capped(w, h, cap).w > 0 /\ Capped(w, h, cap).h > 0
                 <=> Long(w, h) <= cap * w /\ Long(w, h) <= cap * h
            /\ \A least \in Nat :
                 w >= least /\ h >= least /\ 2 * w <= 5 * h /\ 2 * h <= 5 * w /\ 5 * least <= 2 * cap =>
                   Capped(w, h, cap).w >= least /\ Capped(w, h, cap).h >= least
        BY <1>3
      <4>3. Long(w, h) <= cap * w /\ Long(w, h) <= cap * h <=> Long(w, h) <= cap * short
        <5>1. PICK long \in Nat : long = Long(w, h)
          BY LongIs
        <5>2. CASE w < h
          <6>1. cap * w <= cap * h
            BY <5>2, ProductsOrdered
          <6> QED
            BY <5>1, <5>2, <6>1
        <5>3. CASE ~ (w < h)
          <6>1. cap * h <= cap * w
            BY <5>3, ProductsOrdered
          <6> QED
            BY <5>1, <5>3, <6>1
        <5> QED
          BY <5>2, <5>3
      <4> HIDE DEF short
      <4> QED
        BY <3>2, <4>2, <4>3
    <3>4. Part(w, 33) \in Nat /\ Part(h, 33) \in Nat /\ Part(w, 33) <= w /\ Part(h, 33) <= h
      BY SharesGrow
    <3>5. ASSUME Part(w, 33) >= D, Part(h, 33) >= D, 2 * w <= 5 * h, 2 * h <= 5 * w PROVE t.w >= D /\ t.h >= D
      <4>1. w >= D /\ h >= D /\ 5 * D <= 2 * cap
        BY <1>1, <3>1, <3>4, <3>5
      <4> QED
        BY <3>3, <3>5, <4>1
    <3>6. CASE rung.family = "whatsapp_like"
      <4>1. Scaled(rung, w, h) = t
        BY <3>1, <3>2, <3>6 DEF Scaled, WhatsappLike
      <4>2. Long(t.w, t.h) <= cap
        BY <3>3 DEF Long
      <4>3. rung.scale = -960 /\ cap = 960
        BY <2>2, <3>1, <3>6
      <4>4. short \in Int /\ -rung.scale * short = cap * short
        BY <4>3
      <4>5. t.w > 0 /\ t.h > 0 <=>
              rung.family # "whatsapp_like" \/ Long(w, h) <= -rung.scale * short
        BY <3>3, <3>6, <4>3, <4>4
      <4> HIDE DEF short
      <4> QED
        BY <1>1, <3>1, <3>5, <4>1, <4>2, <4>5
    <3>7. CASE rung.family = "downscale"
      <4>1. PICK c \in Nat, d \in Nat : /\ c = Floored(t.w, 1) /\ d = Floored(t.h, 1) /\ c >= 1 /\ d >= 1
                                        /\ c >= t.w /\ d >= t.h /\ c <= cap /\ d <= cap
        BY <3>3 DEF Floored
      <4>2. Scaled(rung, w, h) = [w |-> c, h |-> d]
        BY <3>1, <3>2, <3>7, <4>1 DEF Scaled, Rescale, Sized
      <4>3. PICK u : u = Scaled(rung, w, h) /\ u.w = c /\ u.h = d
        BY <4>2
      <4>4. Long(u.w, u.h) <= cap
        BY <4>1, <4>3 DEF Long
      <4> HIDE DEF short
      <4> QED
        BY <1>1, <3>1, <3>3, <3>5, <3>7, <4>1, <4>3, <4>4
    <3> QED
      BY <2>2, <3>6, <3>7
  <2> QED
    BY <2>1, <2>2, ScaleRungsAre
<1> QED
  BY <1>2 DEF ScaledStaysExtractable

(***************************************************************************)
(* Every rung of hueShift turns a hue by the degrees of its label, but for *)
(* the half turn of the hues that 8 bits do not hold with it.              *)
(***************************************************************************)
THEOREM HuesAlwaysTurn == \A hue \in 0..179 : HuesTurnAsLabelled(hue)
<1> SUFFICES ASSUME NEW hue \in 0..179, NEW deg \in HueRungs
             PROVE  (HueShift(hue, deg) - hue - deg \div 2) % 180 = 0 <=> deg < 180 \/ hue <= 165
  BY DEF HuesTurnAsLabelled
<1>1. PICK half \in {15, 30, 60, 90} : half = deg \div 2 /\ deg = 2 * half
  BY DEF HueRungs
<1>2. CASE hue + half < 180
  <2>1. HueShift(hue, deg) = hue + half
    BY <1>1, <1>2 DEF HueShift, Saturated
  <2> QED
    BY <1>1, <1>2, <2>1
<1>3. CASE hue + half >= 180 /\ hue + half <= 255
  <2>1. HueShift(hue, deg) = hue + half - 180
    BY <1>1, <1>3 DEF HueShift, Saturated
  <2> QED
    BY <1>1, <1>3, <2>1
<1>4. CASE hue + half > 255
  <2>1. HueShift(hue, deg) = 75
    BY <1>1, <1>4 DEF HueShift, Saturated
  <2>2. half = 90
    BY <1>4
  <2> QED
    BY <1>1, <1>4, <2>1, <2>2
<1> QED
  BY <1>2, <1>3, <1>4

-----------------------------------------------------------------------------
(* Sums                                                                    *)

(* What the community modules' FoldFunction(+, 0, f) is made of.           *)
Adds(g, f) ==
  g = [S \in SUBSET DOMAIN f |->
         IF S = {} THEN 0 ELSE LET x == CHOOSE x \in S : TRUE IN f[x] + g[S \ {x}]]

(* A subset without one of its elements is a smaller subset.               *)
LEMMA OneLess ==
  ASSUME NEW D, IsFiniteSet(D), NEW S \in SUBSET D
  PROVE  /\ Cardinality(S) \in Nat /\ Cardinality(S) <= Cardinality(D)
         /\ Cardinality(S) <= 0 => S = {}
         /\ \A x \in S : S \ {x} \in SUBSET D /\ Cardinality(S \ {x}) = Cardinality(S) - 1
<1>1. IsFiniteSet(S) /\ Cardinality(S) <= Cardinality(D) /\ Cardinality(S) \in Nat
  BY FS_Subset, FS_CardinalityType
<1>2. Cardinality(S) <= 0 => S = {}
  BY <1>1, FS_EmptySet
<1>3. ASSUME NEW x \in S PROVE S \ {x} \in SUBSET D /\ Cardinality(S \ {x}) = Cardinality(S) - 1
  BY <1>1, FS_RemoveElement
<1> QED
  BY <1>1, <1>2, <1>3

(* The sum over every subset is defined.                                   *)
LEMMA AddsExists ==
  ASSUME NEW f, IsFiniteSet(DOMAIN f)
  PROVE  \E g : Adds(g, f)
<1> DEFINE D == DOMAIN f
           Sum(g, S) == IF S = {} THEN 0
                        ELSE LET x == CHOOSE x \in S : TRUE IN f[x] + g[S \ {x}]
           Good(g, n) == \A S \in SUBSET D : Cardinality(S) <= n => g[S] = Sum(g, S)
           T == {n \in Nat : \E g : Good(g, n)}
<1>0. IsFiniteSet(D)
  OBVIOUS
<1>1. 0 \in T
  <2> DEFINE g == [S \in SUBSET D |-> 0]
  <2>1. Good(g, 0)
    <3> SUFFICES ASSUME NEW S \in SUBSET D, Cardinality(S) <= 0 PROVE g[S] = Sum(g, S)
      OBVIOUS
    <3>1. S = {}
      BY <1>0, OneLess
    <3> QED
      BY <3>1
  <2> QED
    BY <2>1
<1>2. ASSUME NEW n \in T PROVE n + 1 \in T
  <2>1. PICK g : Good(g, n)
    OBVIOUS
  <2>0. n \in Nat
    OBVIOUS
  <2> DEFINE h == [S \in SUBSET D |-> Sum(g, S)]
  <2>2. ASSUME NEW S \in SUBSET D, Cardinality(S) <= n + 1 PROVE h[S] = Sum(h, S)
    <3>1. CASE S = {}
      BY <3>1
    <3>2. CASE S # {}
      <4> DEFINE p == CHOOSE x \in S : TRUE
                 R == S \ {p}
      <4>1. R \in SUBSET D /\ Cardinality(R) <= n
        <5>1. p \in S
          BY <3>2
        <5>2. /\ Cardinality(S) \in Nat
              /\ \A x \in S : S \ {x} \in SUBSET D /\ Cardinality(S \ {x}) = Cardinality(S) - 1
          BY <1>0, OneLess
        <5> HIDE DEF p
        <5> QED
          BY <2>0, <2>2, <5>1, <5>2
      <4>2. g[R] = Sum(g, R)
        BY <2>1, <4>1
      <4>3. h[R] = Sum(g, R)
        BY <4>1
      <4>4. Sum(g, S) = f[p] + g[R] /\ Sum(h, S) = f[p] + h[R]
        BY <3>2
      <4>5. h[S] = Sum(g, S)
        OBVIOUS
      <4> HIDE DEF Sum, h, R, p
      <4> QED
        BY <4>2, <4>3, <4>4, <4>5
    <3> QED
      BY <3>1, <3>2
  <2> HIDE DEF h, Sum
  <2> QED
    BY <2>2
<1> HIDE DEF T
<1>3. T = Nat
  BY <1>1, <1>2, SetInduction DEF T
<1>4. PICK g : Good(g, Cardinality(D))
  <2>1. Cardinality(D) \in Nat
    BY FS_CardinalityType
  <2> QED
    BY <1>3, <2>1 DEF T
<1> DEFINE h == [S \in SUBSET D |-> g[S]]
<1>5. ASSUME NEW S \in SUBSET D PROVE h[S] = Sum(h, S)
  <2>1. Cardinality(S) <= Cardinality(D)
    BY <1>0, OneLess
  <2>2. g[S] = Sum(g, S)
    BY <1>4, <2>1
  <2>3. S # {} => S \ {CHOOSE x \in S : TRUE} \in SUBSET D
    OBVIOUS
  <2> QED
    BY <2>2, <2>3
<1>6. h = [S \in SUBSET D |-> Sum(h, S)]
  <2> HIDE DEF Sum
  <2> QED
    BY <1>5
<1> QED
  BY <1>6 DEF Adds

(* A sum of which all but one term are nothing is that term.               *)
LEMMA OneTermSum ==
  ASSUME NEW f, IsFiniteSet(DOMAIN f), NEW j \in DOMAIN f, f[j] \in Nat,
         \A i \in DOMAIN f : i # j => f[i] = 0
  PROVE  FoldFunction(+, 0, f) = f[j]
<1> DEFINE D == DOMAIN f
<1>1. PICK g : Adds(g, f) /\ FoldFunction(+, 0, f) = g[D]
  <2>1. \E g : Adds(g, f)
    BY AddsExists
  <2> QED
    BY <2>1 DEF Adds, FoldFunction, FoldFunctionOnSet, MapThenFoldSet
<1> DEFINE Fits(S) == g[S] = IF j \in S THEN f[j] ELSE 0
           T == {n \in Nat : \A S \in SUBSET D : Cardinality(S) <= n => Fits(S)}
<1>0. IsFiniteSet(D)
  OBVIOUS
<1>3. Fits({})
  BY <1>1 DEF Adds
<1>4. 0 \in T
  <2> HIDE DEF Fits
  <2> SUFFICES ASSUME NEW S \in SUBSET D, Cardinality(S) <= 0 PROVE Fits(S)
    OBVIOUS
  <2>1. S = {}
    BY <1>0, OneLess
  <2> QED
    BY <1>3, <2>1
<1>5. ASSUME NEW n \in T PROVE n + 1 \in T
  <2>1. n \in Nat /\ \A S \in SUBSET D : Cardinality(S) <= n => Fits(S)
    OBVIOUS
  <2>2. ASSUME NEW S \in SUBSET D, Cardinality(S) <= n + 1 PROVE Fits(S)
    <3>1. CASE S = {}
      BY <1>3, <3>1
    <3>2. CASE S # {}
      <4>1. PICK p \in S : p = CHOOSE x \in S : TRUE
        BY <3>2
      <4>2. S \ {p} \in SUBSET D /\ Cardinality(S \ {p}) <= n
        <5>1. /\ Cardinality(S) \in Nat
              /\ \A x \in S : S \ {x} \in SUBSET D /\ Cardinality(S \ {x}) = Cardinality(S) - 1
          BY <1>0, OneLess
        <5> QED
          BY <2>1, <2>2, <5>1
      <4>3. g[S] = f[p] + g[S \ {p}]
        BY <1>1, <3>2, <4>1 DEF Adds
      <4>4. g[S \ {p}] = IF j \in S \ {p} THEN f[j] ELSE 0
        BY <2>1, <4>2
      <4>5. p \in D
        OBVIOUS
      <4>6. CASE p = j
        BY <4>3, <4>4, <4>6
      <4>7. CASE p # j
        BY <4>3, <4>4, <4>5, <4>7
      <4> QED
        BY <4>6, <4>7
    <3> QED
      BY <3>1, <3>2
  <2> HIDE DEF Fits
  <2> QED
    BY <2>1, <2>2
<1> HIDE DEF T
<1>6. T = Nat
  BY <1>4, <1>5, SetInduction DEF T
<1>7. Fits(D)
  <2>1. Cardinality(D) \in Nat
    BY FS_CardinalityType
  <2> HIDE DEF Fits
  <2> QED
    BY <1>6, <2>1 DEF T
<1>8. g[D] = f[j]
  BY <1>7
<1> QED
  BY <1>1, <1>8, Zenon
(* What a rung takes out of the lightness of a cell: nothing beyond d, and *)
(* all of d where 8 bits hold it.                                          *)
Shifts(l, pct, d) ==
  /\ l - AdjustBrightness(l, pct) \in Int
  /\ d <= 0 => l - AdjustBrightness(l, pct) \in d..0
  /\ d >= 0 => l - AdjustBrightness(l, pct) \in 0..d
  /\ AdjustBrightness(l, pct) \notin {0, 255} => l - AdjustBrightness(l, pct) = d

(* Every rung of brightness takes out one amount, of 26 at most.           *)
LEMMA RungShifts ==
  ASSUME NEW pct \in BrightnessRungs
  PROVE  \E d \in -26..26 : \A l \in 0..255 : Shifts(l, pct, d)
<1>1. CASE pct = 5
  <2>1. (2 * 255 * pct + 100) \div 200 = 13
    BY <1>1
  <2>2. \A l \in 0..255 : AdjustBrightness(l, pct) = Saturated(l + 13)
    BY <2>1 DEF AdjustBrightness
  <2>4. ASSUME NEW l \in 0..255 PROVE Shifts(l, pct, -13)
    <3>1. PICK a \in Int : a = Saturated(l + 13)
      BY DEF Saturated
    <3>2. l - a \in -13..0 /\ (a \notin {0, 255} => l - a = -13)
      BY <3>1 DEF Saturated
    <3>3. AdjustBrightness(l, pct) = a
      BY <2>2, <3>1
    <3> QED
      BY <3>1, <3>2, <3>3 DEF Shifts
  <2>5. -13 \in -26..26
    OBVIOUS
  <2> QED
    BY <2>4, <2>5
<1>2. CASE pct = -5
  <2>1. (2 * 255 * pct + 100) \div 200 = -13
    <3>1. PICK a \in Int : a = 2 * 255 * pct + 100 /\ a = -2450
      BY <1>2
    <3>2. a \div 200 \in Int /\ 200 * (a \div 200) <= a /\ a < 200 * (a \div 200) + 200
      BY DivisionRounds
    <3> QED
      BY <3>1, <3>2
  <2>2. \A l \in 0..255 : AdjustBrightness(l, pct) = Saturated(l - 13)
    BY <2>1 DEF AdjustBrightness
  <2>4. ASSUME NEW l \in 0..255 PROVE Shifts(l, pct, 13)
    <3>1. PICK a \in Int : a = Saturated(l - 13)
      BY DEF Saturated
    <3>2. l - a \in 0..13 /\ (a \notin {0, 255} => l - a = 13)
      BY <3>1 DEF Saturated
    <3>3. AdjustBrightness(l, pct) = a
      BY <2>2, <3>1
    <3> QED
      BY <3>1, <3>2, <3>3 DEF Shifts
  <2>5. 13 \in -26..26
    OBVIOUS
  <2> QED
    BY <2>4, <2>5
<1>3. CASE pct = 10
  <2>1. (2 * 255 * pct + 100) \div 200 = 26
    BY <1>3
  <2>2. \A l \in 0..255 : AdjustBrightness(l, pct) = Saturated(l + 26)
    BY <2>1 DEF AdjustBrightness
  <2>4. ASSUME NEW l \in 0..255 PROVE Shifts(l, pct, -26)
    <3>1. PICK a \in Int : a = Saturated(l + 26)
      BY DEF Saturated
    <3>2. l - a \in -26..0 /\ (a \notin {0, 255} => l - a = -26)
      BY <3>1 DEF Saturated
    <3>3. AdjustBrightness(l, pct) = a
      BY <2>2, <3>1
    <3> QED
      BY <3>1, <3>2, <3>3 DEF Shifts
  <2>5. -26 \in -26..26
    OBVIOUS
  <2> QED
    BY <2>4, <2>5
<1>4. CASE pct = -10
  <2>1. (2 * 255 * pct + 100) \div 200 = -25
    BY <1>4
  <2>2. \A l \in 0..255 : AdjustBrightness(l, pct) = Saturated(l - 25)
    BY <2>1 DEF AdjustBrightness
  <2>4. ASSUME NEW l \in 0..255 PROVE Shifts(l, pct, 25)
    <3>1. PICK a \in Int : a = Saturated(l - 25)
      BY DEF Saturated
    <3>2. l - a \in 0..25 /\ (a \notin {0, 255} => l - a = 25)
      BY <3>1 DEF Saturated
    <3>3. AdjustBrightness(l, pct) = a
      BY <2>2, <3>1
    <3> QED
      BY <3>1, <3>2, <3>3 DEF Shifts
  <2>5. 25 \in -26..26
    OBVIOUS
  <2> QED
    BY <2>4, <2>5
<1> QED
  BY <1>1, <1>2, <1>3, <1>4 DEF BrightnessRungs

(* Four cells of one rung: no distance is above the rung, and none but one *)
(* is above nothing where three have all of it.                            *)
LEMMA FourCells ==
  ASSUME NEW d \in -26..26, NEW xs \in [1..4 -> Int],
         \A i \in 1..4 : (d <= 0 => xs[i] \in d..0) /\ (d >= 0 => xs[i] \in 0..d)
  PROVE  /\ CellDists(xs) \in [1..4 -> 0..52]
         /\ \A j \in 1..4 : (\A i \in 1..4 : i # j => xs[i] = d) =>
              \A i \in 1..4 : i # j => CellDists(xs)[i] = 0
<1>1. xs \in Seq(Int) /\ Len(xs) = 4 /\ DOMAIN xs = 1..4
  BY FunctionIsSeq
<1>2. 2 \in 1..Len(xs) /\ 3 \in 1..Len(xs)
  BY <1>1
<1>3. PICK r \in Int, s \in Int : r = Ranked(xs, 2) /\ s = Ranked(xs, 3)
  BY <1>1, <1>2, RankedIsRanked
<1>4. /\ \E a \in 1..4 : r = xs[a]
      /\ \E b \in 1..4 : s = xs[b]
  BY <1>1, <1>2, <1>3, RankedIsRanked
<1>5. Offset(xs) = r + s
  <2>1. 4 \div 2 = 2 /\ 4 % 2 # 1 /\ 2 + 1 = 3
    OBVIOUS
  <2> QED
    BY <1>1, <1>3, <2>1 DEF Offset, TwiceMedian
<1>6. CellDists(xs) = [i \in 1..4 |-> Mag(2 * xs[i] - (r + s))]
  BY <1>1, <1>5 DEF CellDists
<1>7. ASSUME NEW i \in 1..4 PROVE Mag(2 * xs[i] - (r + s)) \in 0..52
  <2>1. PICK a \in 1..4, b \in 1..4 : r = xs[a] /\ s = xs[b]
    BY <1>4
  <2>2. CASE d <= 0
    <3>1. xs[i] \in d..0 /\ r \in d..0 /\ s \in d..0
      BY <2>1, <2>2
    <3> QED
      BY <2>2, <3>1 DEF Mag
  <2>3. CASE d > 0
    <3>1. xs[i] \in 0..d /\ r \in 0..d /\ s \in 0..d
      BY <2>1, <2>3
    <3> QED
      BY <2>3, <3>1 DEF Mag
  <2> QED
    BY <2>2, <2>3
<1>8. ASSUME NEW j \in 1..4, \A i \in 1..4 : i # j => xs[i] = d, NEW i \in 1..4, i # j
      PROVE  CellDists(xs)[i] = 0
  <2>1. IsFiniteSet(1..4) /\ Cardinality(1..4) = 4
    BY CountTo
  <2>2. Cardinality(Below(xs, d)) <= 1
    <3>1. Below(xs, d) \in SUBSET {j}
      BY <1>1, <1>8 DEF Below
    <3> QED
      <4>1. IsFiniteSet({j}) /\ Cardinality({j}) = 1
        BY FS_Singleton
      <4>2. Cardinality(Below(xs, d)) <= Cardinality({j})
        BY <3>1, <4>1, FS_Subset
      <4> QED
        BY <4>1, <4>2
  <2>3. 3 <= Cardinality(UpTo(xs, d))
    <3>1. (1..4) \ {j} \in SUBSET UpTo(xs, d)
      BY <1>1, <1>8 DEF UpTo
    <3>2. Cardinality((1..4) \ {j}) = 3
      <4>1. Cardinality((1..4) \ {j}) = Cardinality(1..4) - 1
        BY <2>1, OneLess
      <4> QED
        BY <2>1, <4>1
    <3>3. IsFiniteSet(UpTo(xs, d))
      <4>1. d \in Int
        OBVIOUS
      <4> QED
        BY <1>1, <4>1, RanksCount
    <3> QED
      BY <3>1, <3>2, <3>3, FS_Subset
  <2>7. d \in Int
    OBVIOUS
  <2>4. Cardinality(Below(xs, d)) \in Nat /\ Cardinality(UpTo(xs, d)) \in Nat
    BY <1>1, <2>7, RanksCount
  <2>5. HasRank(xs, 2, d) /\ HasRank(xs, 3, d)
    BY <2>2, <2>3, <2>4 DEF HasRank
  <2>6. r = d /\ s = d
    <3>1. \A v \in Int : HasRank(xs, 2, v) => v = Ranked(xs, 2)
      BY <1>1, <1>2, RankedIsRanked
    <3>2. \A v \in Int : HasRank(xs, 3, v) => v = Ranked(xs, 3)
      BY <1>1, <1>2, RankedIsRanked
    <3> QED
      BY <1>3, <2>5, <2>7, <3>1, <3>2
  <2> QED
    BY <1>6, <1>8, <2>6 DEF Mag
<1> QED
  BY <1>6, <1>7, <1>8

(***************************************************************************)
(* registry.go's rungs of brightness and the gates agree: the largest is   *)
(* 26 units of lightness, below maxCellDist (38), and what one clipped     *)
(* cell of four leaves is spread over the four, below maxColorMean (8).    *)
(***************************************************************************)
THEOREM BrightnessAlwaysPasses ==
  ASSUME MaxCellDist >= 26, MaxColorMean >= 7, NEW l \in [1..4 -> 0..255], NEW pct \in BrightnessRungs,
         NEW m, m = [keypoints |-> 4, good |-> 8, homography |-> TRUE, invertible |-> TRUE,
                     inliers |-> MinInliers, cells |-> 4,
                     deltas |-> [i \in 1..4 |-> l[i] - AdjustBrightness(l[i], pct)]],
         NEW clipped, clipped = {i \in 1..4 : AdjustBrightness(l[i], pct) \in {0, 255}}
  PROVE  /\ MatchPair(m).maxOK
         /\ Cardinality(clipped) <= 1 => Decide(MatchPair(m))
<1> DEFINE xs == m.deltas
           dists == CellDists(m.deltas)
<1>1. PICK d \in -26..26 : \A i \in 1..4 :
         /\ xs[i] \in Int
         /\ d <= 0 => xs[i] \in d..0
         /\ d >= 0 => xs[i] \in 0..d
         /\ i \notin clipped => xs[i] = d
  <2>1. PICK d \in -26..26 : \A c \in 0..255 : Shifts(c, pct, d)
    BY RungShifts
  <2>2. \A i \in 1..4 : l[i] \in 0..255 /\ xs[i] = l[i] - AdjustBrightness(l[i], pct)
    OBVIOUS
  <2> QED
    BY <2>1, <2>2 DEF Shifts
<1>2. xs = [i \in 1..4 |-> xs[i]] /\ xs # <<>> /\ Len(xs) = 4
  OBVIOUS
<1>3. xs \in [1..4 -> Int]
  <2> HIDE DEF xs
  <2> QED
    BY <1>1, <1>2
<1>4. /\ dists \in [1..4 -> 0..52]
      /\ \A j \in 1..4 : (\A i \in 1..4 : i # j => xs[i] = d) =>
           \A i \in 1..4 : i # j => dists[i] = 0
  BY <1>1, <1>3, FourCells
<1>5. /\ MatchPair(m).maxOK = MaxWithin(dists, MaxCellDist)
      /\ MatchPair(m).meanOK = MeanWithin(dists, MaxColorMean)
      /\ MatchPair(m).inliers = MinInliers
      /\ MatchPair(m).covered = (100 * 4 >= MinAreaCoverage * 4)
  <2>1. /\ m.keypoints = 4 /\ m.good = 8 /\ m.homography = TRUE /\ m.invertible = TRUE
        /\ m.inliers = MinInliers /\ m.cells = 4
    OBVIOUS
  <2>2. MatchPair(m) = Decision(m.inliers, MeanWithin(dists, MaxColorMean), MaxWithin(dists, MaxCellDist),
                                100 * Len(xs) >= MinAreaCoverage * m.cells)
    <3>1. MatchPair(m) = ResidualOf(m)
      BY <2>1 DEF MatchPair
    <3>2. xs # <<>>
      BY <1>2
    <3> HIDE DEF xs
    <3>3. xs = m.deltas /\ dists = CellDists(xs)
      BY DEF xs
    <3> HIDE DEF dists
    <3>4. ResidualOf(m) = Decision(m.inliers, MeanWithin(dists, MaxColorMean), MaxWithin(dists, MaxCellDist),
                                   100 * Len(xs) >= MinAreaCoverage * m.cells)
      BY <2>1, <3>2, <3>3 DEF ResidualOf
    <3> QED
      BY <3>1, <3>4
  <2> HIDE DEF dists
  <2> QED
    BY <1>2, <2>1, <2>2 DEF Decision
<1>6. MaxWithin(dists, MaxCellDist)
  <2>1. 2 * MaxCellDist >= 52
    BY SomeGates
  <2>2. DOMAIN dists = 1..4 /\ \A i \in 1..4 : dists[i] <= 52 /\ dists[i] \in Int
    <3> HIDE DEF dists
    <3> QED
      BY <1>4
  <2> HIDE DEF dists
  <2> QED
    BY <2>1, <2>2, SomeGates DEF MaxWithin
<1>7. ASSUME Cardinality(clipped) <= 1 PROVE MeanWithin(dists, MaxColorMean)
  <2>1. PICK j \in 1..4 : \A i \in 1..4 : i # j => i \notin clipped
    <3>1. IsFiniteSet(clipped)
      <4>1. IsFiniteSet(1..4) /\ clipped \in SUBSET (1..4)
        BY CountTo
      <4> QED
        BY <4>1, FS_Subset
    <3>2. clipped = {} \/ \E j : clipped = {j}
      <4>1. Cardinality(clipped) \in {0, 1}
        BY <1>7, <3>1, FS_CardinalityType
      <4>2. Cardinality(clipped) = 0 => clipped = {}
        BY <3>1, FS_EmptySet
      <4>3. Cardinality(clipped) = 1 => \E j : clipped = {j}
        BY <3>1, FS_Singleton
      <4> QED
        BY <4>1, <4>2, <4>3
    <3>3. clipped \in SUBSET (1..4) /\ 1 \in 1..4
      OBVIOUS
    <3> QED
      BY <3>2, <3>3
  <2>2. \A i \in 1..4 : i # j => dists[i] = 0
    BY <1>1, <1>4, <2>1
  <2> HIDE DEF dists
  <2>3. FoldFunction(+, 0, dists) = dists[j]
    <3>1. DOMAIN dists = 1..4 /\ IsFiniteSet(1..4) /\ dists[j] \in Nat
      <4>1. DOMAIN dists = 1..4 /\ dists[j] \in Nat
        BY <1>4
      <4> QED
        BY <4>1, CountTo
    <3>2. \A i \in DOMAIN dists : i # j => dists[i] = 0
      BY <2>2, <3>1
    <3> QED
      BY <3>1, <3>2, OneTermSum, Zenon
  <2>4. Len(dists) = 4 /\ dists[j] <= 52 /\ dists[j] \in Nat
    BY <1>4
  <2>5. 2 * MaxColorMean * Len(dists) >= 52
    BY <2>4, SomeGates
  <2> QED
    <3>1. dists[j] <= 2 * MaxColorMean * Len(dists)
      BY <2>4, <2>5, SomeGates
    <3> QED
      BY <2>3, <3>1, Zenon DEF MeanWithin
<1>8. 100 * 4 >= MinAreaCoverage * 4 /\ MinInliers >= MinInliers
  BY SomeGates
<1> QED
  BY <1>5, <1>6, <1>7, <1>8 DEF Decide

-----------------------------------------------------------------------------
(* video.go: where the samples fall                                        *)

(* Products of opaque numbers, in the shape the proofs below meet them.    *)
LEMMA ScaledBounds ==
  ASSUME NEW m \in Nat, NEW u \in Int, NEW lo \in Int, NEW hi \in Int, lo <= u, u <= hi
  PROVE  m * lo <= m * u /\ m * u <= m * hi
OBVIOUS

(* What is ordered when scaled was ordered before.                         *)
LEMMA ScaledBelow ==
  ASSUME NEW k \in Nat \ {0}, NEW u \in Int, NEW v \in Int, k * u <= k * v
  PROVE  u <= v
OBVIOUS

(* The middle of slot i among n frames, in units of half a slot.           *)
Middle(n, i) == n * (2 * i + 1)

(* The middle lies half a slot or more before the end.                     *)
LEMMA MiddleIs ==
  ASSUME NEW n \in Nat, NEW i \in Slots
  PROVE  /\ Middle(n, i) \in Nat /\ Middle(n, i) = 2 * (n * i) + n
         /\ Middle(n, i) <= 2 * (VideoFrameSamples * n) - n
<1>1. VideoFrameSamples \in Nat \ {0} /\ i \in Nat /\ i + 1 <= VideoFrameSamples
  BY SomeSlots DEF Slots
<1>2. Middle(n, i) = 2 * (n * i) + n /\ n * i \in Nat
  BY <1>1 DEF Middle
<1>3. n * (i + 1) <= n * VideoFrameSamples
  BY <1>1, ScaledBounds
<1>4. n * (i + 1) = n * i + n /\ n * VideoFrameSamples = VideoFrameSamples * n
      /\ VideoFrameSamples * n \in Nat
  BY <1>1
<1> QED
  BY <1>2, <1>3, <1>4

(* A sample is a frame, within a frame of the middle of its slot; within   *)
(* half of one where there is a frame for every slot.                      *)
LEMMA SampleIsNear ==
  ASSUME NEW n \in Nat \ {0}, NEW i \in Slots
  PROVE  /\ SampleFrame(n, i) \in 0..(n - 1)
         /\ 2 * VideoFrameSamples * SampleFrame(n, i) - Middle(n, i)
              \in -(2 * VideoFrameSamples)..VideoFrameSamples
         /\ VideoFrameSamples <= n =>
              2 * VideoFrameSamples * SampleFrame(n, i) - Middle(n, i)
                \in -VideoFrameSamples..VideoFrameSamples
<1> DEFINE k == VideoFrameSamples
           a == Middle(n, i)
           t == (a + k) \div (2 * k)
           f == SampleFrame(n, i)
<1>1. k \in Nat \ {0} /\ 2 * k \in Nat \ {0}
  BY SomeSlots
<1>2. a \in Nat /\ a <= 2 * (k * n) - n
  BY MiddleIs
<1>3. f = IF t >= n THEN n - 1 ELSE t
  BY DEF SampleFrame, Middle
<1> HIDE DEF a, f, k
<1>4. t \in Int /\ 2 * k * t <= a + k /\ a + k < 2 * k * t + 2 * k
  <2>1. a + k \in Int
    BY <1>1, <1>2
  <2> QED
    BY <1>1, <2>1, DivisionRounds
<1>5. 0 <= t
  <2>1. a + k \in Int /\ 2 * k * 0 <= a + k /\ 0 \in Int
    BY <1>1, <1>2
  <2> QED
    BY <1>1, <2>1, QuotientAtLeast
<1> HIDE DEF t
<1>6. CASE t >= n
  <2>1. f = n - 1 /\ 2 * k * f = 2 * (k * n) - 2 * k
    BY <1>1, <1>3, <1>6
  <2>2. 2 * k * n <= 2 * k * t
    BY <1>1, <1>4, <1>6, ScaledBounds
  <2>3. 2 * k * n = 2 * (k * n) /\ k * n \in Nat
    BY <1>1
  <2>4. /\ 2 * (k * n) - 2 * k - a \in -(2 * k)..k
        /\ k <= n => 2 * (k * n) - 2 * k - a \in -k..k
    <3>1. 2 * (k * n) <= a + k
      BY <1>1, <1>2, <1>4, <2>2, <2>3
    <3> QED
      BY <1>1, <1>2, <2>3, <3>1
  <2> QED
    BY <2>1, <2>4 DEF a, f, k
<1>7. CASE t < n
  <2>1. f = t /\ 2 * k * t \in Int
    BY <1>1, <1>3, <1>4, <1>7
  <2>2. /\ 2 * k * t - a \in -(2 * k)..k
        /\ 2 * k * t - a \in -k..k
    BY <1>1, <1>2, <1>4, <2>1
  <2>3. t \in 0..(n - 1)
    BY <1>4, <1>5, <1>7
  <2> QED
    BY <2>1, <2>2, <2>3 DEF a, f, k
<1> QED
  BY <1>4, <1>6, <1>7

(* Later slots, and the same slot of more frames, are sampled no earlier.  *)
LEMMA SamplesAscend ==
  ASSUME NEW n \in Nat \ {0}, NEW m \in Nat \ {0}, m <= n, NEW i \in Slots, NEW j \in Slots, i <= j
  PROVE  SampleFrame(m, i) <= SampleFrame(n, j)
<1> DEFINE k == VideoFrameSamples
           a == Middle(m, i)
           b == Middle(n, j)
<1>1. k \in Nat \ {0} /\ 2 * k \in Nat \ {0}
  BY SomeSlots
<1>2. a \in Nat /\ b \in Nat /\ a <= b
  <2>1. a \in Nat /\ b \in Nat
    BY MiddleIs
  <2>2. 2 * i + 1 \in Nat /\ 2 * j + 1 \in Nat /\ 2 * i + 1 <= 2 * j + 1
    BY SomeSlots DEF Slots
  <2>3. m * (2 * i + 1) <= n * (2 * j + 1)
    BY <2>2, ProductsOrdered
  <2> QED
    BY <2>1, <2>3 DEF Middle
<1>3. /\ SampleFrame(m, i) = IF (a + k) \div (2 * k) >= m THEN m - 1 ELSE (a + k) \div (2 * k)
      /\ SampleFrame(n, j) = IF (b + k) \div (2 * k) >= n THEN n - 1 ELSE (b + k) \div (2 * k)
  BY DEF SampleFrame, Middle
<1> HIDE DEF a, b, k
<1>4. (a + k) \div (2 * k) <= (b + k) \div (2 * k)
  <2>1. a + k \in Int /\ b + k \in Int /\ a + k <= b + k
    BY <1>1, <1>2
  <2> QED
    BY <1>1, <2>1, QuotientsOrdered
<1>5. (a + k) \div (2 * k) \in Int /\ (b + k) \div (2 * k) \in Int
  BY <1>1, <1>2, DivisionRounds
<1> QED
  BY <1>3, <1>4, <1>5

(***************************************************************************)
(* SampleFrameIndexes: the samples of any number of frames lie in the      *)
(* file, in order, and within a frame of the middle of their slots.        *)
(***************************************************************************)
THEOREM SamplesAreAlwaysMidpoints == \A n \in Nat \ {0} : SamplesAreMidpoints(n)
<1> SUFFICES ASSUME NEW n \in Nat \ {0}, NEW i \in Slots
             PROVE  /\ SampleFrame(n, i) \in 0..(n - 1)
                    /\ \A j \in Slots : i <= j => SampleFrame(n, i) <= SampleFrame(n, j)
                    /\ 2 * VideoFrameSamples * SampleFrame(n, i) - n * (2 * i + 1)
                         \in -(2 * VideoFrameSamples)..VideoFrameSamples
  BY DEF SamplesAreMidpoints
<1>1. \A j \in Slots : i <= j => SampleFrame(n, i) <= SampleFrame(n, j)
  BY SamplesAscend
<1> QED
  BY <1>1, SampleIsNear DEF Middle

(***************************************************************************)
(* A slot lands at the same instant whatever the frame rate: re-encoding   *)
(* any number of frames as any other moves a sample by less than a frame   *)
(* of each.                                                                *)
(***************************************************************************)
THEOREM RatesAlwaysKeepSlots == \A n, m \in Nat \ {0} : RateChangeKeepsSlots(n, m)
<1> SUFFICES ASSUME NEW n \in Nat \ {0}, NEW m \in Nat \ {0}, NEW i \in Slots
             PROVE  SampleFrame(n, i) * m - SampleFrame(m, i) * n \in -(n + m)..(n + m)
  BY DEF RateChangeKeepsSlots
<1> DEFINE k == VideoFrameSamples
           c == 2 * i + 1
           f == SampleFrame(n, i)
           g == SampleFrame(m, i)
<1>1. k \in Nat \ {0} /\ c \in Nat
  BY SomeSlots DEF Slots
<1>2. f \in Nat /\ g \in Nat /\ 2 * k * f - n * c \in -(2 * k)..k /\ 2 * k * g - m * c \in -(2 * k)..k
  BY SampleIsNear DEF Middle
<1> HIDE DEF k, c, f, g
<1> DEFINE u == 2 * k * f - n * c
           v == 2 * k * g - m * c
           d == f * m - g * n
<1>3. u \in Int /\ v \in Int /\ d \in Int
  BY <1>1, <1>2
<1>4. 2 * k * d = m * u - n * v
  <2>1. m * u = 2 * (k * f * m) - n * c * m
    BY <1>1, <1>2
  <2>2. n * v = 2 * (k * g * n) - n * c * m
    BY <1>1, <1>2
  <2>3. 2 * k * d = 2 * (k * f * m) - 2 * (k * g * n)
    BY <1>1, <1>2
  <2>4. k * f * m \in Int /\ k * g * n \in Int /\ n * c * m \in Int
    BY <1>1, <1>2
  <2> HIDE DEF u, v, d
  <2> QED
    BY <2>1, <2>2, <2>3, <2>4
<1>5. m * (-(2 * k)) <= m * u /\ m * u <= m * k /\ n * (-(2 * k)) <= n * v /\ n * v <= n * k
  <2>1. -(2 * k) <= u /\ u <= k /\ -(2 * k) <= v /\ v <= k /\ -(2 * k) \in Int /\ k \in Int
    BY <1>1, <1>2
  <2> HIDE DEF u, v
  <2> QED
    BY <1>3, <2>1, ScaledBounds
<1> HIDE DEF u, v, d
<1>6. /\ m * (-(2 * k)) = -(2 * (k * m)) /\ n * (-(2 * k)) = -(2 * (k * n))
      /\ m * k = k * m /\ n * k = k * n /\ k * m \in Nat /\ k * n \in Nat
      /\ m * u \in Int /\ n * v \in Int
  BY <1>1, <1>3
<1>7. /\ 2 * k * d <= 2 * k * (n + m) /\ 2 * k * (-(n + m)) <= 2 * k * d
  <2>1. 2 * k * (n + m) = 2 * (k * n) + 2 * (k * m) /\ 2 * k * (-(n + m)) = -(2 * (k * n) + 2 * (k * m))
    BY <1>1
  <2> QED
    BY <1>4, <1>5, <1>6, <2>1
<1>8. d <= n + m /\ -(n + m) <= d
  <2>1. 2 * k \in Nat \ {0} /\ n + m \in Int /\ -(n + m) \in Int
    BY <1>1
  <2> QED
    BY <1>3, <1>7, <2>1, ScaledBelow
<1>9. d \in -(n + m)..(n + m)
  BY <1>3, <1>8
<1> QED
  BY <1>9 DEF d, f, g

(* Where the tail that is dropped is a slot long at most, the sample of    *)
(* what is left lies between the sample of its slot and the one before it; *)
(* those two are no further apart than a slot and a frame.                 *)
LEMMA TailsLieBetween ==
  ASSUME NEW n \in Nat \ {0}, NEW m \in Nat \ {0}, VideoFrameSamples <= m, m <= n,
         VideoFrameSamples * (n - m) <= n, NEW i \in Slots, i # 0
  PROVE  /\ SampleFrame(n, i - 1) <= SampleFrame(m, i)
         /\ 2 * VideoFrameSamples * (SampleFrame(n, i) - SampleFrame(n, i - 1))
              <= 2 * n + 2 * VideoFrameSamples
<1> DEFINE k == VideoFrameSamples
           c == 2 * i + 1
           d == n - m
           f == SampleFrame(n, i)
           p == SampleFrame(n, i - 1)
           g == SampleFrame(m, i)
<1>1. k \in Nat \ {0} /\ c \in Nat /\ c <= 2 * k - 1 /\ i - 1 \in Slots /\ 2 * (i - 1) + 1 = c - 2
  BY SomeSlots DEF Slots
<1>2. f \in Nat /\ p \in Nat /\ g \in Nat
  BY <1>1, SampleIsNear
<1>3. 2 * k * f - n * c \in -k..k /\ 2 * k * p - n * (c - 2) \in -k..k /\ 2 * k * g - m * c \in -k..k
  BY <1>1, SampleIsNear DEF Middle
<1>4. k <= m /\ m <= n /\ d \in Nat /\ k * d <= n /\ m = n - d
  OBVIOUS
<1> HIDE DEF k, c, d, f, p, g
<1>5. /\ n * (c - 2) = n * c - 2 * n /\ m * c = n * c - d * c
      /\ n * c \in Int /\ d * c \in Nat
  BY <1>1, <1>4
<1>6. k * (d * c) <= 2 * (k * n) - n
  <2>1. c * (k * d) <= c * n
    <3>1. k * d \in Int
      BY <1>1, <1>4
    <3> QED
      BY <1>1, <1>4, <3>1, ScaledBounds
  <2>2. n * c <= n * (2 * k - 1)
    <3>1. 2 * k - 1 \in Int
      BY <1>1
    <3> QED
      BY <1>1, <3>1, ScaledBounds
  <2>3. /\ k * (d * c) = c * (k * d) /\ c * n = n * c /\ n * (2 * k - 1) = 2 * (k * n) - n
        /\ k * (d * c) \in Int /\ n * c \in Int /\ k * n \in Int
    BY <1>1, <1>4
  <2> QED
    BY <2>1, <2>2, <2>3
<1>7. d * c - 2 * n + 2 * k < 2 * k
  <2>1. k * (d * c - 2 * n) = k * (d * c) - 2 * (k * n) /\ k * (d * c) \in Int /\ k * n \in Int
    BY <1>1, <1>5
  <2>2. k * (d * c - 2 * n) < 0
    BY <1>6, <2>1
  <2>3. ~ (0 <= d * c - 2 * n)
    <3>1. d * c - 2 * n \in Int
      BY <1>5
    <3> QED
      BY <1>1, <2>2, <3>1
  <2> QED
    BY <1>1, <1>5, <2>3
<1>8. p <= g
  <2>1. 2 * k * p - 2 * k * g < 2 * k
    <3>1. 2 * k * p \in Int /\ 2 * k * g \in Int
      BY <1>1, <1>2
    <3> HIDE DEF Middle
    <3> QED
      BY <1>1, <1>3, <1>5, <1>7, <3>1
  <2>2. 2 * k * p - 2 * k * g = 2 * k * (p - g)
    BY <1>1, <1>2
  <2>3. ~ (1 <= p - g)
    <3>1. 2 * k \in Nat /\ p - g \in Int
      BY <1>1, <1>2
    <3>2. ASSUME 1 <= p - g PROVE 2 * k * 1 <= 2 * k * (p - g)
      BY <3>1, <3>2, ScaledBounds
    <3>3. 2 * k * (p - g) \in Int /\ 2 * k * 1 = 2 * k
      BY <1>1, <3>1
    <3> QED
      BY <1>1, <2>1, <2>2, <3>2, <3>3
  <2> QED
    BY <1>2, <2>3
<1>9. 2 * k * (f - p) <= 2 * n + 2 * k
  <2>1. 2 * k * f \in Int /\ 2 * k * p \in Int /\ 2 * k * (f - p) = 2 * k * f - 2 * k * p
    BY <1>1, <1>2
  <2> QED
    BY <1>1, <1>3, <1>5, <2>1
<1> QED
  BY <1>8, <1>9 DEF f, p, g, k

(* Half a slot, rounded up.                                                *)
HalfSlot(n) == (n + 2 * VideoFrameSamples - 1) \div (2 * VideoFrameSamples)

(* It is not less than half of the frames of a slot.                       *)
LEMMA HalfSlotIs ==
  ASSUME NEW n \in Nat \ {0}
  PROVE  HalfSlot(n) \in Nat /\ n <= 2 * VideoFrameSamples * HalfSlot(n)
<1> DEFINE k == VideoFrameSamples
           a == n + 2 * VideoFrameSamples - 1
<1>1. k \in Nat \ {0} /\ 2 * k \in Nat \ {0} /\ a \in Int /\ 2 * k * 0 <= a /\ 0 \in Int
  BY SomeSlots
<1>2. a \div (2 * k) \in Int /\ 2 * k * (a \div (2 * k)) <= a /\ a < 2 * k * (a \div (2 * k)) + 2 * k
  BY <1>1, DivisionRounds
<1>3. 0 <= a \div (2 * k)
  BY <1>1, QuotientAtLeast
<1>4. a = n + 2 * k - 1
  OBVIOUS
<1>5. HalfSlot(n) = a \div (2 * k)
  BY DEF HalfSlot
<1> HIDE DEF a, k
<1>6. 2 * k * HalfSlot(n) \in Int
  BY <1>1, <1>2, <1>5
<1> QED
  BY <1>1, <1>2, <1>3, <1>4, <1>5, <1>6 DEF k

(* One of the two frames is within half a slot.                            *)
LEMMA TailsAreNear ==
  ASSUME NEW n \in Nat \ {0}, NEW m \in Nat \ {0}, VideoFrameSamples <= m, m <= n,
         VideoFrameSamples * (n - m) <= n, NEW i \in Slots
  PROVE  \/ SampleFrame(m, i) - SampleFrame(n, i) \in -HalfSlot(n)..HalfSlot(n)
         \/ i # 0 /\ SampleFrame(m, i) - SampleFrame(n, i - 1) \in -HalfSlot(n)..HalfSlot(n)
<1> DEFINE k == VideoFrameSamples
           h == HalfSlot(n)
           f == SampleFrame(n, i)
           g == SampleFrame(m, i)
<1>1. k \in Nat \ {0} /\ h \in Nat /\ n <= 2 * k * h
  BY HalfSlotIs, SomeSlots
<1>2. f \in Nat /\ g \in Nat /\ g <= f
  <2>1. i \in Int
    BY DEF Slots
  <2> QED
    BY <2>1, SampleIsNear, SamplesAscend
<1> HIDE DEF k, h, f, g
<1>3. CASE f - g <= h
  <2>1. g - f \in -h..h
    BY <1>1, <1>2, <1>3
  <2> QED
    BY <2>1 DEF f, g, h
<1>4. CASE i = 0
  <2>1. 2 * k * f - Middle(n, i) \in -k..k /\ Middle(n, i) = n
    <3>1. VideoFrameSamples <= n
      BY SomeSlots
    <3>2. n * 1 = n /\ 2 * 0 + 1 = 1
      OBVIOUS
    <3> QED
      BY <1>4, <3>1, <3>2, SampleIsNear DEF k, f, Middle
  <2>2. 2 * k * f <= 2 * k * h + k /\ 2 * k * f \in Int /\ 2 * k * h \in Int
    BY <1>1, <1>2, <2>1
  <2>3. ~ (h + 1 <= f)
    <3>1. ASSUME h + 1 <= f PROVE 2 * k * (h + 1) <= 2 * k * f
      <4>1. 2 * k \in Nat /\ h + 1 \in Int /\ f \in Int
        BY <1>1, <1>2
      <4> QED
        BY <3>1, <4>1, ScaledBounds
    <3>2. 2 * k * (h + 1) = 2 * k * h + 2 * k
      BY <1>1
    <3> QED
      BY <1>1, <2>2, <3>1, <3>2
  <2>4. f - g <= h
    BY <1>1, <1>2, <2>3
  <2> QED
    BY <1>3, <2>4
<1>5. ASSUME i # 0, ~ (f - g <= h)
      PROVE  g - SampleFrame(n, i - 1) \in -h..h
  <2> DEFINE p == SampleFrame(n, i - 1)
  <2>1. p \in Nat
    <3>1. i - 1 \in Slots
      BY <1>5, SomeSlots DEF Slots
    <3> QED
      BY <3>1, SampleIsNear
  <2>2. p <= g /\ 2 * k * (f - p) <= 2 * n + 2 * k
    BY <1>5, TailsLieBetween DEF f, g, k
  <2> HIDE DEF p
  <2>3. f - p <= 2 * h + 1
    <3>1. 2 * k * (2 * h + 1) = 2 * (2 * k * h) + 2 * k /\ 2 * k * h \in Int /\ 2 * k * (f - p) \in Int
      BY <1>1, <1>2, <2>1
    <3>2. 2 * k * (f - p) <= 2 * k * (2 * h + 1)
      BY <1>1, <2>2, <3>1
    <3>3. 2 * k \in Nat \ {0} /\ f - p \in Int /\ 2 * h + 1 \in Int
      BY <1>1, <1>2, <2>1
    <3> QED
      BY <3>2, <3>3, ScaledBelow
  <2>4. g - p \in -h..h
    BY <1>1, <1>2, <1>5, <2>1, <2>2, <2>3
  <2> QED
    BY <2>4 DEF p
<1> QED
  BY <1>3, <1>4, <1>5 DEF f, g, h

(***************************************************************************)
(* A transcode that loses a slot of frames at most still passes the        *)
(* sequence gate, however many frames there are, if a frame may match a    *)
(* slot to either side, and FrameAlignSlack is 1.                          *)
(***************************************************************************)
THEOREM TailsMayAlwaysDrop ==
  ASSUME FrameAlignSlack >= 1
  PROVE  \A n, m \in Nat \ {0} :
           VideoFrameSamples <= m /\ m <= n => DroppedTailAgrees(n, n - m)
<1> SUFFICES ASSUME NEW n \in Nat \ {0}, NEW m \in Nat \ {0}, VideoFrameSamples <= m, m <= n,
                    VideoFrameSamples * (n - m) <= n
             PROVE  LET sampled(k) == [i \in 1..VideoFrameSamples |-> SampleFrame(k, i - 1)]
                        near == {p \in (0..(n - 1)) \X (0..(n - 1)) :
                                   p[1] - p[2] \in -HalfSlot(n)..HalfSlot(n)}
                    IN  SequencesAgree(sampled(n), sampled(n - (n - m)), near)
  BY DEF DroppedTailAgrees, HalfSlot
<1> DEFINE k == VideoFrameSamples
           ref == [i \in 1..k |-> SampleFrame(n, i - 1)]
           cand == [i \in 1..k |-> SampleFrame(m, i - 1)]
           near == {p \in (0..(n - 1)) \X (0..(n - 1)) : p[1] - p[2] \in -HalfSlot(n)..HalfSlot(n)}
<1>1. n - (n - m) = m
  OBVIOUS
<1>2. k \in Nat \ {0} /\ FrameAlignSlack \in Nat \ {0} /\ Agreement \in 0..100
  BY SomeSlots, GatesAssumption
<1>3. /\ ref \in Seq(Int) /\ cand \in Seq(Int) /\ Len(ref) = k /\ Len(cand) = k
      /\ DOMAIN ref = 1..k /\ DOMAIN cand = 1..k
  <2>1. \A i \in 1..k : i - 1 \in Slots
    BY <1>2 DEF Slots
  <2>2. ref \in [1..k -> Int] /\ cand \in [1..k -> Int]
    BY <2>1, SampleIsNear
  <2> QED
    BY <1>2, <2>2, FunctionIsSeq
<1>4. ASSUME NEW i \in 1..k PROVE i \in Matched(ref, cand, near)
  <2>1. i - 1 \in Slots /\ i \in Int
    BY <1>2 DEF Slots
  <2>2. cand[i] = SampleFrame(m, i - 1) /\ ref[i] = SampleFrame(n, i - 1)
        /\ cand[i] \in 0..(n - 1) /\ ref[i] \in 0..(n - 1)
    <3>1. SampleFrame(m, i - 1) \in 0..(m - 1) /\ SampleFrame(n, i - 1) \in 0..(n - 1)
      BY <2>1, SampleIsNear
    <3> QED
      BY <3>1
  <2>3. i \in Window(ref, i)
    BY <1>2, <1>3, <2>1 DEF Window
  <2>4. CASE SampleFrame(m, i - 1) - SampleFrame(n, i - 1) \in -HalfSlot(n)..HalfSlot(n)
    <3>1. <<cand[i], ref[i]>> \in near
      BY <2>2, <2>4
    <3> QED
      BY <1>3, <2>3, <3>1 DEF Matched
  <2>5. CASE i - 1 # 0 /\ SampleFrame(m, i - 1) - SampleFrame(n, (i - 1) - 1) \in -HalfSlot(n)..HalfSlot(n)
    <3>1. i - 1 \in 1..k /\ (i - 1) - 1 \in Slots
      BY <1>2, <2>1, <2>5 DEF Slots
    <3>2. ref[i - 1] = SampleFrame(n, (i - 1) - 1) /\ ref[i - 1] \in 0..(n - 1)
      BY <3>1, SampleIsNear
    <3>3. <<cand[i], ref[i - 1]>> \in near
      BY <2>2, <2>5, <3>2
    <3>4. i - 1 \in Window(ref, i)
      BY <1>2, <1>3, <2>1, <3>1 DEF Window
    <3> QED
      BY <1>3, <3>3, <3>4 DEF Matched
  <2> QED
    BY <2>1, <2>4, <2>5, TailsAreNear
<1> HIDE DEF ref, cand, near
<1>5. Matched(ref, cand, near) = 1..k
  BY <1>3, <1>4 DEF Matched
<1>6. Cardinality(Matched(ref, cand, near)) = k
  <2>1. Cardinality(1..k) = IF 1 > k THEN 0 ELSE k - 1 + 1
    BY <1>2, FS_Interval
  <2> QED
    BY <1>2, <1>5, <2>1
<1>7. 100 * k >= Agreement * k
  BY <1>2
<1>8. SequencesAgree(ref, cand, near)
  <2>1. ref # <<>> /\ cand # <<>>
    BY <1>2, <1>3
  <2> QED
    BY <1>3, <1>6, <1>7, <2>1 DEF SequencesAgree
<1> QED
  BY <1>1, <1>8 DEF ref, cand, near, k

-----------------------------------------------------------------------------
(* video_extractor.go: the loop of Reduce                                  *)

(* What is recorded, what the keeper holds, and what the loop carries.     *)
Looked == [sharp : Int, orb : BOOLEAN]
Recordings == [frames : Seq(Looked), header : Nat, fps : Nat]
Candidates == [slot : Nat, frame : Nat, sharp : Int, orb : BOOLEAN]
Reducing ==
  [at : Nat, cursor : Int, hashes : Seq(Nat), kept : SUBSET Candidates, open : SUBSET Nat,
   end : {"running", "cancelled", "truncated", "unconvertible"}]

(* The resolved count is a number.                                         *)
LEMMA CountIs == \A v \in Recordings : ResolveFrameCount(v) \in Nat /\ Len(v.frames) \in Nat
BY DEF Recordings, ResolveFrameCount

(* The turns of the loop, as a function of how many there were.            *)
Turning(v, cancelAt, broken, g) ==
  g = [i \in 0..VideoFrameSamples |->
         IF i = 0 THEN ReduceStart ELSE ReduceTurn(v, g[i - 1], i - 1, cancelAt, broken)]

TurningTo(v, cancelAt, broken, g, m) ==
  g = [i \in 0..m |->
         IF i = 0 THEN ReduceStart ELSE ReduceTurn(v, g[i - 1], i - 1, cancelAt, broken)]

(* The turns are defined for every recording and interruption.             *)
LEMMA TurningExists ==
  ASSUME NEW v, NEW cancelAt, NEW broken
  PROVE  \E g : Turning(v, cancelAt, broken, g)
<1> DEFINE T == {m \in Nat : \E g : TurningTo(v, cancelAt, broken, g, m)}
<1>1. 0 \in T
  <2> DEFINE g == [i \in 0..0 |-> ReduceStart]
  <2>1. TurningTo(v, cancelAt, broken, g, 0)
    BY DEF TurningTo
  <2> QED
    BY <2>1
<1>2. ASSUME NEW m \in T PROVE m + 1 \in T
  <2>1. PICK g : TurningTo(v, cancelAt, broken, g, m)
    OBVIOUS
  <2> DEFINE h == [i \in 0..(m + 1) |->
                     IF i = m + 1 THEN ReduceTurn(v, g[m], m, cancelAt, broken) ELSE g[i]]
  <2>2. ASSUME NEW i \in 0..(m + 1)
        PROVE  h[i] = IF i = 0 THEN ReduceStart ELSE ReduceTurn(v, h[i - 1], i - 1, cancelAt, broken)
    <3>1. CASE i = m + 1
      BY <3>1
    <3>2. CASE i \in 0..m
      <4>1. g[i] = IF i = 0 THEN ReduceStart ELSE ReduceTurn(v, g[i - 1], i - 1, cancelAt, broken)
        BY <2>1, <3>2 DEF TurningTo
      <4>2. h[i] = g[i] /\ (i # 0 => h[i - 1] = g[i - 1])
        BY <3>2
      <4> HIDE DEF h
      <4> QED
        BY <4>1, <4>2
    <3> QED
      BY <3>1, <3>2
  <2>3. TurningTo(v, cancelAt, broken, h, m + 1)
    <3>1. h = [i \in 0..(m + 1) |-> h[i]]
      OBVIOUS
    <3> HIDE DEF h
    <3> QED
      BY <2>2, <3>1 DEF TurningTo
  <2> QED
    BY <2>3
<1> HIDE DEF T
<1>3. VideoFrameSamples \in T
  BY <1>1, <1>2, SetInduction, SomeSlots DEF T
<1> QED
  BY <1>3 DEF T, TurningTo, Turning

(* The loop of Reduce is such a function, at its last turn.                *)
LEMMA LoopTurns ==
  ASSUME NEW v, NEW cancelAt, NEW broken, ResolveFrameCount(v) # 0
  PROVE  \E g : /\ Turning(v, cancelAt, broken, g)
                /\ ReduceLoop(v, cancelAt, broken) = g[VideoFrameSamples]
<1> DEFINE G == CHOOSE g : Turning(v, cancelAt, broken, g)
<1>1. Turning(v, cancelAt, broken, G)
  BY TurningExists
<1>2. ReduceLoop(v, cancelAt, broken) = G[VideoFrameSamples]
  BY DEF ReduceLoop, Turning
<1> QED
  BY <1>1, <1>2

(* Its values, one turn from the other.                                    *)
LEMMA TurnByTurn ==
  ASSUME NEW v, NEW cancelAt, NEW broken, NEW g, Turning(v, cancelAt, broken, g)
  PROVE  /\ g[0] = ReduceStart
         /\ \A i \in Slots : g[i + 1] = ReduceTurn(v, g[i], i, cancelAt, broken)
<1>1. VideoFrameSamples \in Nat \ {0}
  BY SomeSlots
<1>2. g[0] = ReduceStart
  BY <1>1 DEF Turning
<1>3. ASSUME NEW i \in Slots PROVE g[i + 1] = ReduceTurn(v, g[i], i, cancelAt, broken)
  <2>1. i + 1 \in 0..VideoFrameSamples /\ i + 1 # 0 /\ (i + 1) - 1 = i
    BY <1>1 DEF Slots
  <2>2. g[i + 1] = IF i + 1 = 0 THEN ReduceStart
                   ELSE ReduceTurn(v, g[(i + 1) - 1], (i + 1) - 1, cancelAt, broken)
    BY <2>1 DEF Turning
  <2> QED
    BY <2>1, <2>2
<1> QED
  BY <1>2, <1>3

(* Two recordings whose turns are the same go round alike.                 *)
LEMMA TurnsAgree ==
  ASSUME NEW v, NEW w, NEW cancelAt, NEW broken, NEW g, NEW h,
         Turning(v, cancelAt, broken, g), Turning(w, cancelAt, broken, h),
         \A st, i : ReduceTurn(v, st, i, cancelAt, broken) = ReduceTurn(w, st, i, cancelAt, broken)
  PROVE  g[VideoFrameSamples] = h[VideoFrameSamples]
<1> DEFINE T == {i \in Nat : i <= VideoFrameSamples => g[i] = h[i]}
<1>1. VideoFrameSamples \in Nat \ {0}
  BY SomeSlots
<1>2. 0 \in T
  BY TurnByTurn
<1>3. ASSUME NEW i \in T PROVE i + 1 \in T
  <2>1. ASSUME i + 1 <= VideoFrameSamples PROVE g[i + 1] = h[i + 1]
    <3>1. i \in Slots /\ i <= VideoFrameSamples
      BY <1>1, <2>1 DEF Slots
    <3>2. g[i] = h[i]
      BY <3>1
    <3>3. g[i + 1] = ReduceTurn(v, g[i], i, cancelAt, broken)
      BY <3>1, TurnByTurn
    <3>4. h[i + 1] = ReduceTurn(w, h[i], i, cancelAt, broken)
      BY <3>1, TurnByTurn
    <3> QED
      BY <3>2, <3>3, <3>4
  <2> QED
    BY <2>1
<1> HIDE DEF T
<1>4. VideoFrameSamples \in T
  BY <1>1, <1>2, <1>3, SetInduction DEF T
<1> QED
  BY <1>1, <1>4 DEF T

(***************************************************************************)
(* resolveFrameCount, probeVideo, VideoProbe.Validate: counting the frames *)
(* of a container finds the samples its length would have, and opens no    *)
(* way in: the recording has no duration, so it is refused before it is    *)
(* reduced, and matches nothing if it were not.                            *)
(***************************************************************************)
THEOREM CountingFailsClosed == \A v \in Recordings : CountedFailsClosed(v)
<1> SUFFICES ASSUME NEW v \in Recordings PROVE CountedFailsClosed(v)
  OBVIOUS
<1> DEFINE x == Recording(v.frames, 0, v.fps)
           y == Recording(v.frames, Len(v.frames), v.fps)
           n == Len(v.frames)
           c == Reduction(x, VideoFrameSamples, NoFrame)
           r == Reduction(y, VideoFrameSamples, NoFrame)
           own == Reduction(v, VideoFrameSamples, NoFrame).durationMs
<1>a. DurationMs(x) = 0 /\ c.durationMs = 0
  BY DEF DurationMs, Recording, Reduction
<1>b. ~ Validate(x)
  BY <1>a, SomeDuration DEF Validate
<1>c. ~ DurationWithinTolerance(c.durationMs, own) /\ ~ DurationWithinTolerance(own, c.durationMs)
  BY <1>a DEF DurationWithinTolerance
<1>d. ASSUME n \in 1..MaxDecodeFrames
      PROVE  c.error = r.error /\ c.hashes = r.hashes /\ c.anchor = r.anchor
  <2>1. MaxDecodeFrames \in Nat /\ n \in 1..MaxDecodeFrames
    BY <1>d, SomeBudget
  <2>2. x.frames = v.frames /\ y.frames = v.frames /\ x.header = 0 /\ y.header = n
    BY DEF Recording
  <2> HIDE DEF x, y, c, r
  <2>3. ResolveFrameCount(x) = n /\ ResolveFrameCount(y) = n /\ n # 0
    BY <2>1, <2>2 DEF ResolveFrameCount
  <2> HIDE DEF n
  <2>4. ASSUME NEW st, NEW i
        PROVE  ReduceTurn(x, st, i, VideoFrameSamples, NoFrame)
                 = ReduceTurn(y, st, i, VideoFrameSamples, NoFrame)
    <3>1. /\ \A a, b : SkipTo(x, a, b) = SkipTo(y, a, b)
          /\ \A a : Readable(x, a) = Readable(y, a)
          /\ \A a, b, s, t : Keep(x, a, b, s, t) = Keep(y, a, b, s, t)
      <4>1. \A a, b : SkipTo(x, a, b) = SkipTo(y, a, b)
        BY <2>2, Zenon DEF SkipTo, Grab
      <4>2. \A a : Readable(x, a) = Readable(y, a)
        BY <2>2, Zenon DEF Readable
      <4>3. \A f : Frame(x, f) = Frame(y, f)
        BY <2>2, Zenon DEF Frame
      <4>4. \A a, b, s, t : Keep(x, a, b, s, t) = Keep(y, a, b, s, t)
        <5>1. ASSUME NEW a, NEW b, NEW s, NEW t PROVE Keep(x, a, b, s, t) = Keep(y, a, b, s, t)
          <6>1. Frame(x, s) = Frame(y, s)
            BY <4>3
          <6> QED
            BY <6>1, Zenon DEF Keep
        <5> QED
          BY <5>1
      <4> QED
        BY <4>1, <4>2, <4>4
    <3> QED
      BY <2>3, <3>1, Zenon DEF ReduceTurn
  <2>5. PICK g : Turning(x, VideoFrameSamples, NoFrame, g)
                 /\ ReduceLoop(x, VideoFrameSamples, NoFrame) = g[VideoFrameSamples]
    BY <2>3, LoopTurns
  <2>6. PICK h : Turning(y, VideoFrameSamples, NoFrame, h)
                 /\ ReduceLoop(y, VideoFrameSamples, NoFrame) = h[VideoFrameSamples]
    BY <2>3, LoopTurns
  <2>7. ReduceLoop(x, VideoFrameSamples, NoFrame) = ReduceLoop(y, VideoFrameSamples, NoFrame)
    BY <2>4, <2>5, <2>6, TurnsAgree
  <2>8. \A st : ReduceError(x, st) = ReduceError(y, st)
    BY <2>3 DEF ReduceError
  <2>10. /\ ReduceError(x, ReduceLoop(x, VideoFrameSamples, NoFrame))
           = ReduceError(y, ReduceLoop(y, VideoFrameSamples, NoFrame))
        /\ SelectAnchor(ReduceLoop(x, VideoFrameSamples, NoFrame))
           = SelectAnchor(ReduceLoop(y, VideoFrameSamples, NoFrame))
    BY <2>7, <2>8
  <2> QED
    BY <2>7, <2>10 DEF Reduction, c, r
<1>e. CountedFailsClosed(v)
  <2>1. CountedFailsClosed(v) <=>
          /\ n \in 1..MaxDecodeFrames => <<c.error, c.hashes, c.anchor>> = <<r.error, r.hashes, r.anchor>>
          /\ ~ Validate(x)
          /\ ~ DurationWithinTolerance(c.durationMs, own)
          /\ ~ DurationWithinTolerance(own, c.durationMs)
    BY DEF CountedFailsClosed
  <2> HIDE DEF c, r, x, y, n, own
  <2> QED
    BY <1>b, <1>c, <1>d, <2>1
<1> QED
  BY <1>e

-----------------------------------------------------------------------------
(* What the deferred keeper.Close has to release                           *)

SlotsOf(cands) == {c.slot : c \in cands}

Shape(st) ==
  /\ st \in Reducing
  /\ st.open \subseteq SlotsOf(st.kept)
  /\ st.end = "running" => st.at = st.cursor + 1
  /\ st.hashes = <<>> => st.cursor = -1

Offer(v, st, target) ==
  [slot |-> Len(st.hashes), frame |-> target, sharp |-> Frame(v, target).sharp,
   orb |-> Frame(v, target).orb]

(* One turn, by how it ends; a target is skipped to exactly, or not found. *)
Unchanged(st, t)        == st.end # "running" /\ t = st
Cancelled(st, t)        == st.end = "running" /\ t = [st EXCEPT !.end = "cancelled"]
Repeated(st, t, target) ==
  /\ st.end = "running" /\ target = st.cursor /\ st.hashes # <<>>
  /\ t = [st EXCEPT !.hashes = Append(@, @[Len(@)])]
Sampling(v, st, t, target, broken) ==
  /\ st.end = "running" /\ target # st.cursor /\ target < Len(v.frames)
  /\ t = Keep(v, st, target, target, broken)
Truncated(v, st, t, target) ==
  /\ st.end = "running" /\ target # st.cursor /\ target >= Len(v.frames)
  /\ t = [st EXCEPT !.end = "truncated", !.at = Len(v.frames)]

(* Every turn ends in one of these ways.                                   *)
LEMMA TurnEnds ==
  ASSUME NEW v \in Recordings, ResolveFrameCount(v) # 0, NEW st, Shape(st), NEW i \in Slots,
         NEW cancelAt, NEW broken
  PROVE  LET target == SampleFrame(ResolveFrameCount(v), i)
             t == ReduceTurn(v, st, i, cancelAt, broken)
         IN  /\ target \in Nat
             /\ \/ Unchanged(st, t)
                \/ i >= cancelAt /\ Cancelled(st, t)
                \/ Repeated(st, t, target)
                \/ Sampling(v, st, t, target, broken)
                \/ Truncated(v, st, t, target)
<1> DEFINE n == ResolveFrameCount(v)
           target == SampleFrame(n, i)
           t == ReduceTurn(v, st, i, cancelAt, broken)
           at == SkipTo(v, st, target)
<1>1. n \in Nat \ {0} /\ Len(v.frames) \in Nat
  BY CountIs
<1>2. target \in Nat
  BY <1>1, SampleIsNear
<1>3. st.at \in Nat /\ st.cursor \in Int
  BY DEF Shape, Reducing
<1>4. t = IF st.end # "running" THEN st
          ELSE IF i >= cancelAt THEN [st EXCEPT !.end = "cancelled"]
          ELSE IF target = st.cursor THEN [st EXCEPT !.hashes = Append(@, @[Len(@)])]
          ELSE IF Readable(v, at) THEN Keep(v, st, target, at, broken)
          ELSE [st EXCEPT !.end = "truncated", !.at = at]
  BY DEF ReduceTurn
<1>5. at = IF st.at + (target - st.cursor - 1) > Len(v.frames) THEN Len(v.frames)
           ELSE st.at + (target - st.cursor - 1)
  BY DEF SkipTo, Grab
<1> HIDE DEF n, target, t, at
<1>6. ASSUME st.end = "running"
      PROVE  /\ target < Len(v.frames) => Readable(v, at) /\ at = target
             /\ target >= Len(v.frames) => ~ Readable(v, at) /\ at = Len(v.frames)
  <2>1. st.at + (target - st.cursor - 1) = target
    BY <1>2, <1>3, <1>6 DEF Shape
  <2> QED
    BY <1>1, <1>2, <1>5, <2>1 DEF Readable
<1>7. target = st.cursor => st.hashes # <<>>
  BY <1>2 DEF Shape
<1>8. \/ Unchanged(st, t)
      \/ i >= cancelAt /\ Cancelled(st, t)
      \/ Repeated(st, t, target)
      \/ Sampling(v, st, t, target, broken)
      \/ Truncated(v, st, t, target)
  <2>1. CASE st.end # "running"
    BY <1>4, <2>1 DEF Unchanged
  <2>2. CASE st.end = "running" /\ i >= cancelAt
    BY <1>4, <2>2 DEF Cancelled
  <2>3. CASE st.end = "running" /\ ~ (i >= cancelAt) /\ target = st.cursor
    BY <1>4, <1>7, <2>3 DEF Repeated
  <2>4. CASE st.end = "running" /\ ~ (i >= cancelAt) /\ target # st.cursor /\ target < Len(v.frames)
    BY <1>4, <1>6, <2>4 DEF Sampling
  <2>5. CASE st.end = "running" /\ ~ (i >= cancelAt) /\ target # st.cursor /\ target >= Len(v.frames)
    BY <1>4, <1>6, <2>5 DEF Truncated
  <2>6. target < Len(v.frames) \/ target >= Len(v.frames)
    BY <1>1, <1>2
  <2> QED
    BY <2>1, <2>2, <2>3, <2>4, <2>5, <2>6
<1> QED
  BY <1>2, <1>8 DEF n, target, t

(* What is kept of a frame that could be converted.                        *)
LEMMA KeepIs ==
  ASSUME NEW v, NEW st, NEW target, NEW broken, target # broken
  PROVE  LET cand == Offer(v, st, target)
             gone == Dropped(st.kept, cand)
         IN  Keep(v, st, target, target, broken)
               = [at |-> target + 1, cursor |-> target, hashes |-> Append(st.hashes, target),
                  kept |-> (st.kept \cup {cand}) \ gone,
                  open |-> (st.open \cup {cand.slot}) \ SlotsOf(gone), end |-> "running"]
BY DEF Keep, Offer, SlotsOf

(* What is offered of a frame that is there is a candidate.                *)
LEMMA OffersAreCandidates ==
  ASSUME NEW v \in Recordings, NEW st \in Reducing, NEW target \in Nat, target < Len(v.frames)
  PROVE  Offer(v, st, target) \in Candidates /\ Len(st.hashes) \in Nat
<1>1. v.frames \in Seq(Looked) /\ st.hashes \in Seq(Nat)
  BY DEF Recordings, Reducing
<1>2. Len(v.frames) \in Nat /\ Len(st.hashes) \in Nat
  BY <1>1
<1>3. Frame(v, target) \in Looked
  <2>1. target + 1 \in 1..Len(v.frames)
    BY <1>2
  <2>2. v.frames[target + 1] \in Looked
    BY <1>1, <2>1, ElementOfSeq
  <2> QED
    BY <2>2 DEF Frame
<1> QED
  BY <1>2, <1>3 DEF Offer, Candidates, Looked

(* Appending to a sequence of numbers, and reading the last of one.        *)
LEMMA AppendsNumber ==
  ASSUME NEW s \in Seq(Nat), NEW x \in Nat
  PROVE  /\ Append(s, x) \in Seq(Nat) /\ Append(s, x) # <<>> /\ Len(Append(s, x)) = Len(s) + 1
         /\ Append(s, x)[Len(s) + 1] = x
         /\ \A j \in 1..Len(s) : Append(s, x)[j] = s[j]
BY AppendProperties

LEMMA LastIsNumber ==
  ASSUME NEW s \in Seq(Nat), s # <<>>
  PROVE  Len(s) \in Nat \ {0} /\ s[Len(s)] \in Nat
<1>1. Len(s) \in Nat \ {0}
  BY EmptySeq
<1> QED
  BY <1>1, ElementOfSeq

(* No turn loses track of an open Mat.                                     *)
LEMMA ShapeStays ==
  ASSUME NEW v \in Recordings, ResolveFrameCount(v) # 0, NEW st, Shape(st), NEW i \in Slots,
         NEW cancelAt, NEW broken
  PROVE  Shape(ReduceTurn(v, st, i, cancelAt, broken))
<1> DEFINE target == SampleFrame(ResolveFrameCount(v), i)
           t == ReduceTurn(v, st, i, cancelAt, broken)
<1>1. /\ target \in Nat
      /\ \/ Unchanged(st, t)
         \/ Cancelled(st, t)
         \/ Repeated(st, t, target)
         \/ Sampling(v, st, t, target, broken)
         \/ Truncated(v, st, t, target)
  BY TurnEnds
<1>2. /\ st \in Reducing /\ st.open \subseteq SlotsOf(st.kept)
      /\ st.hashes = <<>> => st.cursor = -1
      /\ st.end = "running" => st.at = st.cursor + 1
  BY DEF Shape
<1>3. Len(v.frames) \in Nat
  BY CountIs
<1> SUFFICES Shape(t)
  OBVIOUS
<1> HIDE DEF target, t
<1>4. CASE Unchanged(st, t)
  BY <1>4 DEF Unchanged
<1>5. CASE Cancelled(st, t)
  BY <1>2, <1>5 DEF Cancelled, Shape, Reducing
<1>6. CASE Repeated(st, t, target)
  <2>1. st.hashes \in Seq(Nat) /\ st.hashes # <<>>
    BY <1>2, <1>6 DEF Repeated, Reducing
  <2>2. PICK s \in Seq(Nat) : s = Append(st.hashes, st.hashes[Len(st.hashes)]) /\ s # <<>>
    BY <2>1, LastIsNumber, AppendsNumber
  <2>3. t = [st EXCEPT !.hashes = s]
    BY <1>2, <1>6, <2>2 DEF Repeated, Reducing
  <2> QED
    BY <1>2, <2>2, <2>3 DEF Shape, Reducing
<1>7. CASE Truncated(v, st, t, target)
  BY <1>2, <1>3, <1>7 DEF Truncated, Shape, Reducing
<1>8. CASE Sampling(v, st, t, target, broken) /\ target = broken
  <2>1. t = [st EXCEPT !.end = "unconvertible", !.at = target + 1]
    BY <1>8 DEF Sampling, Keep
  <2>2. PICK a \in Nat : a = target + 1
    BY <1>1
  <2>3. t = [st EXCEPT !.end = "unconvertible", !.at = a]
    BY <2>1, <2>2
  <2> QED
    BY <1>2, <2>3 DEF Shape, Reducing
<1>9. CASE Sampling(v, st, t, target, broken) /\ target # broken
  <2> DEFINE cand == Offer(v, st, target)
             gone == Dropped(st.kept, cand)
  <2>1. t = [at |-> target + 1, cursor |-> target, hashes |-> Append(st.hashes, target),
             kept |-> (st.kept \cup {cand}) \ gone,
             open |-> (st.open \cup {cand.slot}) \ SlotsOf(gone), end |-> "running"]
    BY <1>9, KeepIs DEF Sampling
  <2>2. cand \in Candidates /\ cand.slot \in Nat
    <3>1. cand \in Candidates
      BY <1>1, <1>2, <1>9, OffersAreCandidates DEF Sampling
    <3> QED
      BY <3>1 DEF Candidates
  <2> HIDE DEF cand, gone
  <2>3. PICK s \in Seq(Nat) : s = Append(st.hashes, target) /\ s # <<>>
    <3>1. st.hashes \in Seq(Nat)
      BY <1>2 DEF Reducing
    <3> QED
      BY <1>1, <3>1, AppendsNumber
  <2>4. st.kept \subseteq Candidates /\ st.open \subseteq Nat
    BY <1>2 DEF Reducing
  <2>5. t \in Reducing
    <3>1. (st.kept \cup {cand}) \ gone \in SUBSET Candidates
          /\ (st.open \cup {cand.slot}) \ SlotsOf(gone) \in SUBSET Nat
          /\ target + 1 \in Nat /\ target \in Int
      BY <1>1, <2>2, <2>4
    <3> QED
      BY <2>1, <2>3, <3>1 DEF Reducing
  <2>6. t.open \subseteq SlotsOf(t.kept)
    <3>1. t.open = (st.open \cup {cand.slot}) \ SlotsOf(gone) /\ t.kept = (st.kept \cup {cand}) \ gone
      BY <2>1
    <3> QED
      BY <1>2, <3>1 DEF SlotsOf
  <2>7. t.hashes # <<>> /\ t.at = t.cursor + 1
    BY <2>1, <2>3
  <2> QED
    BY <2>5, <2>6, <2>7 DEF Shape
<1> QED
  BY <1>1, <1>4, <1>5, <1>6, <1>7, <1>8, <1>9

(* None is open at the start.                                              *)
LEMMA ShapeStarts == Shape(ReduceStart)
BY DEF Shape, ReduceStart, Reducing, SlotsOf

(* Nor does the loop, however it ends.                                     *)
LEMMA LoopKeepsShape ==
  ASSUME NEW v \in Recordings, NEW cancelAt, NEW broken
  PROVE  Shape(ReduceLoop(v, cancelAt, broken))
<1>1. CASE ResolveFrameCount(v) = 0
  BY <1>1, ShapeStarts DEF ReduceLoop
<1>2. CASE ResolveFrameCount(v) # 0
  <2>1. PICK g : /\ Turning(v, cancelAt, broken, g)
                 /\ ReduceLoop(v, cancelAt, broken) = g[VideoFrameSamples]
    BY <1>2, LoopTurns
  <2>2. g[0] = ReduceStart
        /\ \A i \in Slots : g[i + 1] = ReduceTurn(v, g[i], i, cancelAt, broken)
    BY <2>1, TurnByTurn
  <2> DEFINE T == {i \in Nat : i <= VideoFrameSamples => Shape(g[i])}
  <2>3. VideoFrameSamples \in Nat \ {0}
    BY SomeSlots
  <2>4. 0 \in T
    BY <2>2, ShapeStarts
  <2>5. ASSUME NEW i \in T PROVE i + 1 \in T
    <3>1. ASSUME i + 1 <= VideoFrameSamples PROVE Shape(g[i + 1])
      <4>1. i \in Slots /\ Shape(g[i])
        BY <2>3, <3>1 DEF Slots
      <4> QED
        BY <1>2, <2>2, <4>1, ShapeStays
    <3> QED
      BY <3>1
  <2> HIDE DEF T
  <2>6. VideoFrameSamples \in T
    BY <2>3, <2>4, <2>5, SetInduction DEF T
  <2> QED
    BY <2>1, <2>3, <2>6 DEF T
<1> QED
  BY <1>1, <1>2

(***************************************************************************)
(* keeper.Close: no frame outlives the request, whatever the recording,    *)
(* the slot at which the request is cancelled and the frame that cannot be *)
(* converted.                                                              *)
(***************************************************************************)
THEOREM MatsAlwaysClosed ==
  \A v \in Recordings, cancelAt, broken \in Int : MatsAreClosed(v, cancelAt, broken)
<1> SUFFICES ASSUME NEW v \in Recordings, NEW cancelAt \in Int, NEW broken \in Int
             PROVE  Reduction(v, cancelAt, broken).leaked = {}
  BY DEF MatsAreClosed
<1> DEFINE st == ReduceLoop(v, cancelAt, broken)
<1>1. st.open \subseteq SlotsOf(st.kept)
  BY LoopKeepsShape DEF Shape
<1>2. Reduction(v, cancelAt, broken).leaked = st.open \ DeferredClose(v, st)
  BY DEF Reduction
<1> QED
  BY <1>1, <1>2 DEF DeferredClose, SlotsOf

-----------------------------------------------------------------------------
(* The hashes of an undisturbed reduction                                  *)

(* After i turns: the samples of the first slots, each a frame that is     *)
(* there; all i of them, or up to the first that is not there.             *)
SampledTo(v, i, st) ==
  /\ Len(st.hashes) <= i
  /\ \A j \in 1..Len(st.hashes) :
       /\ st.hashes[j] = SampleFrame(ResolveFrameCount(v), j - 1)
       /\ st.hashes[j] < Len(v.frames)
  /\ st.end = "running" =>
       /\ Len(st.hashes) = i
       /\ i # 0 => st.cursor = SampleFrame(ResolveFrameCount(v), i - 1)
  /\ st.end # "running" =>
       /\ st.end = "truncated" /\ Len(st.hashes) < i
       /\ SampleFrame(ResolveFrameCount(v), Len(st.hashes)) >= Len(v.frames)

(* A turn that is not disturbed adds the sample of its slot, or ends.      *)
LEMMA SampledStays ==
  ASSUME NEW v \in Recordings, ResolveFrameCount(v) # 0, NEW st, Shape(st), NEW i \in Slots,
         SampledTo(v, i, st)
  PROVE  SampledTo(v, i + 1, ReduceTurn(v, st, i, VideoFrameSamples, NoFrame))
<1> DEFINE n == ResolveFrameCount(v)
           target == SampleFrame(n, i)
           t == ReduceTurn(v, st, i, VideoFrameSamples, NoFrame)
           len == Len(st.hashes)
<1>1. /\ target \in Nat
      /\ \/ Unchanged(st, t)
         \/ i >= VideoFrameSamples /\ Cancelled(st, t)
         \/ Repeated(st, t, target)
         \/ Sampling(v, st, t, target, NoFrame)
         \/ Truncated(v, st, t, target)
  BY TurnEnds
<1>2. i \in Nat /\ (i + 1) - 1 = i /\ i + 1 # 0 /\ ~ (i >= VideoFrameSamples)
  BY SomeSlots DEF Slots
<1>3. Len(v.frames) \in Nat
  BY CountIs
<1>4. st \in Reducing /\ st.hashes \in Seq(Nat) /\ len \in Nat
  BY DEF Shape, Reducing
<1>5. /\ len <= i
      /\ \A j \in 1..len : st.hashes[j] = SampleFrame(n, j - 1) /\ st.hashes[j] < Len(v.frames)
      /\ st.end = "running" => len = i /\ (i # 0 => st.cursor = SampleFrame(n, i - 1))
      /\ st.end # "running" => /\ st.end = "truncated" /\ len < i
                               /\ SampleFrame(n, len) >= Len(v.frames)
  BY DEF SampledTo
<1> SUFFICES /\ Len(t.hashes) <= i + 1
             /\ \A j \in 1..Len(t.hashes) : /\ t.hashes[j] = SampleFrame(n, j - 1)
                                            /\ t.hashes[j] < Len(v.frames)
             /\ t.end = "running" => Len(t.hashes) = i + 1 /\ t.cursor = target
             /\ t.end # "running" => /\ t.end = "truncated" /\ Len(t.hashes) < i + 1
                                     /\ SampleFrame(n, Len(t.hashes)) >= Len(v.frames)
  BY <1>2 DEF SampledTo
<1>6. ASSUME NEW x \in Nat, x = target, x < Len(v.frames), len = i,
             t.hashes = Append(st.hashes, x), t.end = "running", t.cursor = target
      PROVE  /\ Len(t.hashes) = i + 1
             /\ \A j \in 1..(i + 1) : /\ t.hashes[j] = SampleFrame(n, j - 1)
                                      /\ t.hashes[j] < Len(v.frames)
  <2>1. /\ Len(t.hashes) = len + 1 /\ t.hashes[len + 1] = x
        /\ \A j \in 1..len : t.hashes[j] = st.hashes[j]
    BY <1>4, <1>6, AppendsNumber
  <2>2. ASSUME NEW j \in 1..(i + 1)
        PROVE  t.hashes[j] = SampleFrame(n, j - 1) /\ t.hashes[j] < Len(v.frames)
    <3>1. CASE j = i + 1
      BY <1>2, <1>6, <2>1, <3>1
    <3>2. CASE j \in 1..i
      BY <1>5, <1>6, <2>1, <3>2
    <3> QED
      BY <1>2, <3>1, <3>2
  <2> QED
    BY <1>6, <2>1, <2>2
<1> HIDE DEF n, target, t, len
<1>7. CASE Unchanged(st, t)
  <2>1. t = st /\ st.end # "running"
    BY <1>7 DEF Unchanged
  <2> QED
    BY <1>2, <1>4, <1>5, <2>1 DEF len
<1>8. CASE Repeated(st, t, target)
  <2>1. st.end = "running" /\ target = st.cursor /\ st.hashes # <<>> /\ len = i
    BY <1>5, <1>8 DEF Repeated
  <2>2. len \in Nat \ {0} /\ st.hashes[len] \in Nat
    BY <1>4, <2>1, LastIsNumber DEF len
  <2>3. st.hashes[len] = SampleFrame(n, i - 1) /\ st.hashes[len] < Len(v.frames)
    BY <1>5, <2>1, <2>2
  <2>4. st.hashes[len] = target
    BY <1>5, <2>1, <2>2, <2>3
  <2>5. t.hashes = Append(st.hashes, target) /\ t.end = "running" /\ t.cursor = target
    BY <1>4, <1>8, <2>1, <2>4 DEF Repeated, Reducing, len
  <2> QED
    BY <1>1, <1>2, <1>6, <2>1, <2>3, <2>4, <2>5
<1>9. CASE Sampling(v, st, t, target, NoFrame)
  <2>1. st.end = "running" /\ target < Len(v.frames) /\ len = i
    BY <1>5, <1>9 DEF Sampling
  <2>2. t.hashes = Append(st.hashes, target) /\ t.end = "running" /\ t.cursor = target
    <3>1. target # NoFrame
      BY <1>1 DEF NoFrame
    <3> QED
      BY <1>9, <3>1, KeepIs DEF Sampling
  <2>3. /\ Len(t.hashes) = i + 1
        /\ \A j \in 1..(i + 1) : /\ t.hashes[j] = SampleFrame(n, j - 1)
                                 /\ t.hashes[j] < Len(v.frames)
    BY <1>1, <1>6, <2>1, <2>2
  <2> QED
    BY <1>2, <2>2, <2>3
<1>10. CASE Truncated(v, st, t, target)
  <2>1. st.end = "running" /\ target >= Len(v.frames) /\ len = i
    BY <1>5, <1>10 DEF Truncated
  <2>2. t.hashes = st.hashes /\ t.end = "truncated"
    BY <1>4, <1>10 DEF Truncated, Reducing
  <2>3. target = SampleFrame(n, len)
    BY <2>1 DEF target
  <2> QED
    BY <1>2, <1>4, <1>5, <2>1, <2>2, <2>3 DEF len
<1> QED
  BY <1>1, <1>2, <1>7, <1>8, <1>9, <1>10

(* Before the first turn there is nothing.                                 *)
LEMMA SampledStarts == \A v : SampledTo(v, 0, ReduceStart)
BY DEF SampledTo, ReduceStart

(* The hashes of the whole loop.                                           *)
LEMMA LoopSamples ==
  ASSUME NEW v \in Recordings, ResolveFrameCount(v) # 0
  PROVE  /\ Shape(ReduceLoop(v, VideoFrameSamples, NoFrame))
         /\ SampledTo(v, VideoFrameSamples, ReduceLoop(v, VideoFrameSamples, NoFrame))
<1>1. PICK g : /\ Turning(v, VideoFrameSamples, NoFrame, g)
               /\ ReduceLoop(v, VideoFrameSamples, NoFrame) = g[VideoFrameSamples]
  BY LoopTurns
<1>2. g[0] = ReduceStart
      /\ \A i \in Slots : g[i + 1] = ReduceTurn(v, g[i], i, VideoFrameSamples, NoFrame)
  BY <1>1, TurnByTurn
<1> DEFINE T == {i \in Nat : i <= VideoFrameSamples => Shape(g[i]) /\ SampledTo(v, i, g[i])}
<1>3. VideoFrameSamples \in Nat \ {0}
  BY SomeSlots
<1>4. 0 \in T
  BY <1>2, ShapeStarts, SampledStarts
<1>5. ASSUME NEW i \in T PROVE i + 1 \in T
  <2>1. ASSUME i + 1 <= VideoFrameSamples PROVE Shape(g[i + 1]) /\ SampledTo(v, i + 1, g[i + 1])
    <3>1. i \in Slots /\ Shape(g[i]) /\ SampledTo(v, i, g[i])
      BY <1>3, <2>1 DEF Slots
    <3> QED
      BY <1>2, <3>1, ShapeStays, SampledStays
  <2> QED
    BY <2>1
<1> HIDE DEF T
<1>6. VideoFrameSamples \in T
  BY <1>3, <1>4, <1>5, SetInduction DEF T
<1> QED
  BY <1>1, <1>3, <1>6 DEF T

(***************************************************************************)
(* FrameAt and Reduce find the same frame in a slot, one skipping from the *)
(* start and the other from sample to sample; where the header promised    *)
(* more frames than there are, both find none.                             *)
(***************************************************************************)
THEOREM FrameAtAlwaysAgrees == \A v \in Recordings : FrameAtAgrees(v)
<1> SUFFICES ASSUME NEW v \in Recordings, NEW slot \in Slots,
                    Reduction(v, VideoFrameSamples, NoFrame).error = "none"
             PROVE  LET r == Reduction(v, VideoFrameSamples, NoFrame)
                    IN  FrameAt(v, slot) = IF slot < Len(r.hashes) THEN r.hashes[slot + 1] ELSE NoFrame
  BY DEF FrameAtAgrees
<1> DEFINE r == Reduction(v, VideoFrameSamples, NoFrame)
           st == ReduceLoop(v, VideoFrameSamples, NoFrame)
           n == ResolveFrameCount(v)
           s == SampleFrame(n, slot)
           len == Len(st.hashes)
<1>1. r.error = ReduceError(v, st) /\ (r.error = "none" => r.hashes = st.hashes)
  BY DEF Reduction
<1>2. n # 0
  BY <1>1 DEF ReduceError
<1>3. Shape(st) /\ SampledTo(v, VideoFrameSamples, st)
  BY <1>2, LoopSamples
<1>4. n \in Nat \ {0} /\ Len(v.frames) \in Nat
  BY <1>2, CountIs
<1>5. s \in Nat /\ slot \in Nat /\ slot < VideoFrameSamples
  <2>1. s \in Nat
    BY <1>4, SampleIsNear
  <2>2. slot \in Nat /\ slot < VideoFrameSamples
    BY SomeSlots DEF Slots
  <2> QED
    BY <2>1, <2>2
<1>6. len \in Nat
  BY <1>3 DEF Shape, Reducing
<1>7. FrameAt(v, slot) = IF s < Len(v.frames) THEN s ELSE NoFrame
  <2>1. 0 + s = s
    BY <1>5
  <2>2. Grab(v, 0, s) = IF s > Len(v.frames) THEN Len(v.frames) ELSE s
    BY <2>1 DEF Grab
  <2>3. FrameAt(v, slot) = IF Grab(v, 0, s) < Len(v.frames) THEN Grab(v, 0, s) ELSE NoFrame
    BY <1>2 DEF FrameAt, Readable
  <2> HIDE DEF s
  <2> QED
    BY <1>4, <1>5, <2>2, <2>3
<1>8. CASE slot < len
  <2>1. slot + 1 \in 1..len /\ (slot + 1) - 1 = slot
    BY <1>5, <1>6, <1>8
  <2>2. st.hashes[slot + 1] = s /\ st.hashes[slot + 1] < Len(v.frames)
    BY <1>3, <2>1 DEF SampledTo
  <2> QED
    BY <1>1, <1>7, <1>8, <2>2
<1>9. CASE ~ (slot < len)
  <2>1. len < VideoFrameSamples /\ SampleFrame(n, len) >= Len(v.frames)
    <3>1. len # VideoFrameSamples
      BY <1>5, <1>9, SomeSlots
    <3> QED
      BY <1>3, <3>1 DEF SampledTo
  <2>2. len \in Slots /\ len <= slot
    BY <1>5, <1>6, <1>9, <2>1, SomeSlots DEF Slots
  <2>3. SampleFrame(n, len) <= s /\ SampleFrame(n, len) \in Nat
    <3>1. n <= n
      BY <1>4
    <3> QED
      BY <1>4, <2>2, <3>1, SamplesAscend, SampleIsNear
  <2>4. ~ (s < Len(v.frames))
    BY <1>4, <1>5, <2>1, <2>3
  <2> QED
    BY <1>1, <1>7, <1>9, <2>4
<1> QED
  BY <1>8, <1>9 DEF r

-----------------------------------------------------------------------------
(* anchorKeeper and selectAnchor                                           *)

Apart(S) == \A c, d \in S : c.slot = d.slot => c = d

(* Outranks is a strict order, total among candidates of different slots.  *)
LEMMA OutranksOrders ==
  /\ \A c \in Candidates : ~ Outranks(c, c)
  /\ \A c, d \in Candidates : Outranks(c, d) => ~ Outranks(d, c)
  /\ \A c, d, e \in Candidates : Outranks(c, d) /\ Outranks(d, e) => Outranks(c, e)
  /\ \A c, d \in Candidates : c.slot # d.slot => Outranks(c, d) \/ Outranks(d, c)
BY DEF Outranks, Candidates

(* Among finitely many, one outranks all others, and one is outranked by   *)
(* all others.                                                             *)
LEMMA BestAndWorstExist ==
  ASSUME NEW S \in SUBSET Candidates, IsFiniteSet(S), S # {}, Apart(S)
  PROVE  /\ \E c \in S : \A d \in S \ {c} : Outranks(c, d)
         /\ \E c \in S : \A d \in S \ {c} : Outranks(d, c)
<1> DEFINE Ends(Q) == /\ \E c \in Q : \A d \in Q \ {c} : Outranks(c, d)
                      /\ \E c \in Q : \A d \in Q \ {c} : Outranks(d, c)
           T == {k \in Nat : \A Q \in SUBSET Candidates :
                   IsFiniteSet(Q) /\ Apart(Q) /\ Q # {} /\ Cardinality(Q) = k => Ends(Q)}
<1>1. 0 \in T
  BY FS_EmptySet
<1>2. ASSUME NEW k \in T PROVE k + 1 \in T
  <2>1. k \in Nat /\ \A Q \in SUBSET Candidates :
          IsFiniteSet(Q) /\ Apart(Q) /\ Q # {} /\ Cardinality(Q) = k => Ends(Q)
    OBVIOUS
  <2> SUFFICES ASSUME NEW Q \in SUBSET Candidates, IsFiniteSet(Q), Apart(Q), Q # {},
                      Cardinality(Q) = k + 1
               PROVE  Ends(Q)
    BY <2>1
  <2>2. PICK x : x \in Q
    OBVIOUS
  <2> DEFINE R == Q \ {x}
  <2>3. IsFiniteSet(R) /\ Cardinality(R) = k
    <3>1. IsFiniteSet(R) /\ Cardinality(R) = Cardinality(Q) - 1
      BY <2>2, FS_RemoveElement
    <3> QED
      BY <2>1, <3>1
  <2>4. CASE R = {}
    <3>1. Q = {x}
      BY <2>2, <2>4
    <3> QED
      BY <3>1
  <2>5. CASE R # {}
    <3>1. Apart(R) /\ R \in SUBSET Candidates
      BY DEF Apart
    <3>2. Ends(R)
      BY <2>1, <2>3, <2>5, <3>1
    <3>3. PICK b \in R : \A d \in R \ {b} : Outranks(b, d)
      BY <3>2
    <3>4. PICK w \in R : \A d \in R \ {w} : Outranks(d, w)
      BY <3>2
    <3>5. /\ x \in Candidates /\ b \in Candidates /\ w \in Candidates /\ b # x /\ w # x
          /\ b.slot # x.slot /\ w.slot # x.slot
      BY <2>2, <3>3, <3>4 DEF Apart
    <3>6. \E c \in Q : \A d \in Q \ {c} : Outranks(c, d)
      <4>1. CASE Outranks(b, x)
        <5>1. \A d \in Q \ {b} : Outranks(b, d)
          BY <3>3, <4>1
        <5> QED
          BY <3>3, <5>1
      <4>2. CASE Outranks(x, b)
        <5>1. ASSUME NEW d \in Q \ {x} PROVE Outranks(x, d)
          <6>1. d = b \/ Outranks(b, d)
            BY <3>3, <5>1
          <6> QED
            BY <3>5, <4>2, <6>1, OutranksOrders
        <5> QED
          BY <2>2, <5>1
      <4> QED
        BY <3>5, <4>1, <4>2, OutranksOrders
    <3>7. \E c \in Q : \A d \in Q \ {c} : Outranks(d, c)
      <4>1. CASE Outranks(x, w)
        <5>1. \A d \in Q \ {w} : Outranks(d, w)
          BY <3>4, <4>1
        <5> QED
          BY <3>4, <5>1
      <4>2. CASE Outranks(w, x)
        <5>1. ASSUME NEW d \in Q \ {x} PROVE Outranks(d, x)
          <6>1. d = w \/ Outranks(d, w)
            BY <3>4, <5>1
          <6> QED
            BY <3>5, <4>2, <6>1, OutranksOrders
        <5> QED
          BY <2>2, <5>1
      <4> QED
        BY <3>5, <4>1, <4>2, OutranksOrders
    <3> QED
      BY <3>6, <3>7
  <2> QED
    BY <2>4, <2>5
<1> HIDE DEF T
<1>3. T = Nat
  BY <1>1, <1>2, SetInduction DEF T
<1>4. Cardinality(S) \in Nat
  BY FS_CardinalityType
<1>5. Ends(S)
  BY <1>3, <1>4 DEF T
<1> QED
  BY <1>5

(* What Best chooses outranks the others.                                  *)
LEMMA BestIs ==
  ASSUME NEW S \in SUBSET Candidates, IsFiniteSet(S), S # {}, Apart(S)
  PROVE  Best(S) \in S /\ \A d \in S \ {Best(S)} : Outranks(Best(S), d)
<1>1. \E c \in S : \A d \in S \ {c} : Outranks(c, d)
  BY BestAndWorstExist
<1> QED
  BY <1>1 DEF Best

(* What Worst chooses is outranked by the others.                          *)
LEMMA WorstIs ==
  ASSUME NEW S \in SUBSET Candidates, IsFiniteSet(S), S # {}, Apart(S)
  PROVE  Worst(S) \in S /\ \A d \in S \ {Worst(S)} : Outranks(d, Worst(S))
<1>1. \E c \in S : \A d \in S \ {c} : Outranks(d, c)
  BY BestAndWorstExist
<1> QED
  BY <1>1 DEF Worst

(* The candidates the hashes stand for: one of every frame, at its first   *)
(* slot.                                                                   *)
FirstSeen(hashes) == {i \in DOMAIN hashes : \A j \in 1..(i - 1) : hashes[j] # hashes[i]}
OfferOf(v, hashes, i) ==
  [slot |-> i - 1, frame |-> hashes[i], sharp |-> Frame(v, hashes[i]).sharp,
   orb |-> Frame(v, hashes[i]).orb]
Offered(v, hashes) == {OfferOf(v, hashes, i) : i \in FirstSeen(hashes)}

(* They are candidates, each of a slot of its own.                         *)
LEMMA OfferedAreCandidates ==
  ASSUME NEW v \in Recordings, NEW h \in Seq(Nat), \A j \in 1..Len(h) : h[j] < Len(v.frames)
  PROVE  /\ Offered(v, h) \subseteq Candidates /\ Apart(Offered(v, h))
         /\ \A c \in Offered(v, h) : c.slot \in Nat /\ c.slot < Len(h)
<1>1. Len(h) \in Nat /\ DOMAIN h = 1..Len(h) /\ \A j \in 1..Len(h) : h[j] \in Nat
  BY ElementOfSeq
<1>2. ASSUME NEW i \in FirstSeen(h)
      PROVE  /\ OfferOf(v, h, i) \in Candidates /\ i \in Int
             /\ OfferOf(v, h, i).slot = i - 1 /\ i - 1 < Len(h)
  <2>1. i \in 1..Len(h) /\ i - 1 \in Nat /\ i - 1 < Len(h)
    BY <1>1 DEF FirstSeen
  <2>2. h[i] \in Nat /\ h[i] < Len(v.frames)
    BY <1>1, <2>1
  <2>3. Frame(v, h[i]) \in Looked
    <3>1. v.frames \in Seq(Looked)
      BY DEF Recordings
    <3>2. h[i] + 1 \in 1..Len(v.frames)
      BY <2>2, <3>1
    <3>3. v.frames[h[i] + 1] \in Looked
      BY <3>1, <3>2, ElementOfSeq
    <3> QED
      BY <3>3 DEF Frame
  <2>4. Frame(v, h[i]).sharp \in Int /\ Frame(v, h[i]).orb \in BOOLEAN
    BY <2>3 DEF Looked
  <2> QED
    BY <2>1, <2>2, <2>4 DEF OfferOf, Candidates
<1>3. Apart(Offered(v, h))
  <2> SUFFICES ASSUME NEW c \in Offered(v, h), NEW d \in Offered(v, h), c.slot = d.slot
               PROVE  c = d
    BY DEF Apart
  <2>1. PICK i \in FirstSeen(h) : c = OfferOf(v, h, i)
    BY DEF Offered
  <2>2. PICK j \in FirstSeen(h) : d = OfferOf(v, h, j)
    BY DEF Offered
  <2>3. i - 1 = j - 1 /\ i \in Int /\ j \in Int
    BY <1>2, <2>1, <2>2
  <2>4. i = j
    BY <2>3
  <2> QED
    BY <2>1, <2>2, <2>4
<1>4. \A c \in Offered(v, h) : c \in Candidates /\ c.slot \in Nat /\ c.slot < Len(h)
  BY <1>2 DEF Offered, Candidates
<1> QED
  BY <1>3, <1>4

(* A frame that is repeated offers nothing; a new one offers itself.       *)
LEMMA OfferedAppends ==
  ASSUME NEW v, NEW h \in Seq(Nat), NEW x \in Nat
  PROVE  /\ h # <<>> /\ x = h[Len(h)] => Offered(v, Append(h, x)) = Offered(v, h)
         /\ (\A j \in 1..Len(h) : h[j] # x) =>
              Offered(v, Append(h, x)) = Offered(v, h) \cup
                {[slot |-> Len(h), frame |-> x, sharp |-> Frame(v, x).sharp, orb |-> Frame(v, x).orb]}
<1> DEFINE s == Append(h, x)
           n == Len(h)
           new == [slot |-> n, frame |-> x, sharp |-> Frame(v, x).sharp, orb |-> Frame(v, x).orb]
<1>1. n \in Nat /\ DOMAIN h = 1..n
  BY ElementOfSeq
<1>2. /\ s \in Seq(Nat) /\ Len(s) = n + 1 /\ s[n + 1] = x
      /\ \A j \in 1..n : s[j] = h[j]
  BY AppendsNumber
<1>3. DOMAIN s = 1..(n + 1)
  BY <1>2, ElementOfSeq
<1> HIDE DEF s, n
<1>4. \A i \in 1..n : i \in FirstSeen(s) <=> i \in FirstSeen(h)
  <2>1. ASSUME NEW i \in 1..n PROVE i \in FirstSeen(s) <=> i \in FirstSeen(h)
    <3>1. s[i] = h[i] /\ i \in DOMAIN s /\ i \in DOMAIN h /\ \A j \in 1..(i - 1) : s[j] = h[j]
      BY <1>1, <1>2, <1>3
    <3> QED
      BY <3>1 DEF FirstSeen
  <2> QED
    BY <2>1
<1>5. \A i \in 1..n : OfferOf(v, s, i) = OfferOf(v, h, i)
  BY <1>2 DEF OfferOf
<1>6. FirstSeen(h) \subseteq 1..n /\ FirstSeen(s) \subseteq 1..n \cup {n + 1}
  <2>1. 1..(n + 1) \subseteq 1..n \cup {n + 1}
    BY <1>1
  <2> QED
    BY <1>1, <1>3, <2>1 DEF FirstSeen
<1>7. ASSUME h # <<>>, x = h[n] PROVE Offered(v, s) = Offered(v, h)
  <2>1. n \in 1..n /\ (n + 1) - 1 = n
    BY <1>1, <1>7, EmptySeq DEF n
  <2>2. s[n] = x
    BY <1>2, <1>7, <2>1
  <2>3. n + 1 \notin FirstSeen(s)
    BY <1>2, <2>1, <2>2 DEF FirstSeen
  <2>4. FirstSeen(s) = FirstSeen(h)
    BY <1>4, <1>6, <2>3
  <2> QED
    BY <1>5, <1>6, <2>4 DEF Offered
<1>8. ASSUME \A j \in 1..n : h[j] # x PROVE Offered(v, s) = Offered(v, h) \cup {new}
  <2>1. (n + 1) - 1 = n /\ n + 1 \in DOMAIN s
    BY <1>1, <1>3
  <2>2. n + 1 \in FirstSeen(s)
    BY <1>2, <1>8, <2>1 DEF FirstSeen
  <2>3. FirstSeen(s) = FirstSeen(h) \cup {n + 1}
    BY <1>4, <1>6, <2>2
  <2>4. OfferOf(v, s, n + 1) = new
    BY <1>2, <2>1 DEF OfferOf
  <2> HIDE DEF new
  <2> QED
    BY <1>5, <1>6, <2>3, <2>4 DEF Offered
<1> QED
  BY <1>7, <1>8 DEF s, n

(* What the keeper holds of what it was offered: as many as it may, and    *)
(* none that something it let go of would outrank.                         *)
Holds(kept, offers) ==
  /\ kept \subseteq offers /\ IsFiniteSet(kept) /\ Cardinality(kept) <= AnchorCandidates
  /\ \A c \in offers \ kept :
       /\ Cardinality(kept) = AnchorCandidates
       /\ \A d \in kept : Outranks(d, c)

(* Offer keeps it so.                                                      *)
LEMMA KeeperHolds ==
  ASSUME NEW offers \in SUBSET Candidates, NEW cand \in Candidates, cand \notin offers,
         Apart(offers \cup {cand}), NEW kept, Holds(kept, offers)
  PROVE  Holds((kept \cup {cand}) \ Dropped(kept, cand), offers \cup {cand})
<1> DEFINE all == offers \cup {cand}
           S == kept \cup {cand}
           w == Worst(S)
<1>1. /\ kept \subseteq offers /\ IsFiniteSet(kept) /\ Cardinality(kept) <= AnchorCandidates
      /\ \A c \in offers \ kept :
           Cardinality(kept) = AnchorCandidates /\ \A d \in kept : Outranks(d, c)
  BY DEF Holds
<1>2. Cardinality(kept) \in Nat /\ AnchorCandidates \in Nat \ {0}
  BY <1>1, FS_CardinalityType, SomeAnchors
<1>3. IsFiniteSet(S) /\ Cardinality(S) = Cardinality(kept) + 1
  <2>1. cand \notin kept
    BY <1>1
  <2> QED
    BY <1>1, <2>1, FS_AddElement
<1>4. CASE Cardinality(kept) < AnchorCandidates
  <2>1. S \ Dropped(kept, cand) = S
    BY <1>4 DEF Dropped
  <2>2. kept = offers
    BY <1>1, <1>2, <1>4
  <2>3. S = all /\ Cardinality(S) <= AnchorCandidates
    BY <1>2, <1>3, <1>4, <2>2
  <2> HIDE DEF S, all
  <2>4. Holds(S, all)
    BY <1>3, <2>3 DEF Holds
  <2> QED
    BY <2>1, <2>4 DEF S, all
<1>5. CASE ~ (Cardinality(kept) < AnchorCandidates)
  <2>1. Cardinality(kept) = AnchorCandidates
    BY <1>1, <1>2, <1>5
  <2>2. S \ Dropped(kept, cand) = S \ {w}
    BY <1>5 DEF Dropped
  <2>3. S \in SUBSET Candidates /\ S # {} /\ Apart(S)
    BY <1>1 DEF Apart
  <2>4. w \in S /\ \A d \in S \ {w} : Outranks(d, w)
    BY <1>3, <2>3, WorstIs
  <2> HIDE DEF w
  <2>5. IsFiniteSet(S \ {w}) /\ Cardinality(S \ {w}) = AnchorCandidates
    <3>1. IsFiniteSet(S \ {w}) /\ Cardinality(S \ {w}) = Cardinality(S) - 1
      BY <1>3, <2>4, FS_RemoveElement
    <3> QED
      BY <1>2, <1>3, <2>1, <3>1
  <2>6. ASSUME NEW c \in all \ (S \ {w}), NEW d \in S \ {w}
        PROVE  Outranks(d, c)
    <3>1. CASE c = w
      BY <2>4, <3>1
    <3>2. CASE c # w
      <4>1. c \in offers \ kept /\ c \in Candidates
        BY <3>2
      <4>2. CASE d \in kept
        BY <1>1, <4>1, <4>2
      <4>3. CASE d \notin kept
        <5>1. w \in kept /\ Outranks(d, w)
          BY <2>4, <4>3
        <5>2. Outranks(w, c)
          BY <1>1, <4>1, <5>1
        <5> QED
          BY <2>3, <2>4, <4>1, <5>1, <5>2, OutranksOrders
      <4> QED
        BY <4>2, <4>3
    <3> QED
      BY <3>1, <3>2
  <2>7. S \ {w} \subseteq all /\ Cardinality(S \ {w}) <= AnchorCandidates
    BY <1>1, <1>2, <2>5
  <2> HIDE DEF S, all
  <2>8. Holds(S \ {w}, all)
    BY <2>5, <2>6, <2>7 DEF Holds
  <2> QED
    BY <2>2, <2>8 DEF S, all
<1> QED
  BY <1>4, <1>5

Keeping(v, st) == Holds(st.kept, Offered(v, st.hashes))

(* A turn that is not disturbed keeps it so.                               *)
LEMMA KeepingStays ==
  ASSUME NEW v \in Recordings, ResolveFrameCount(v) # 0, NEW st, Shape(st), NEW i \in Slots,
         SampledTo(v, i, st), Keeping(v, st)
  PROVE  Keeping(v, ReduceTurn(v, st, i, VideoFrameSamples, NoFrame))
<1> DEFINE n == ResolveFrameCount(v)
           target == SampleFrame(n, i)
           t == ReduceTurn(v, st, i, VideoFrameSamples, NoFrame)
           h == st.hashes
<1>1. /\ target \in Nat
      /\ \/ Unchanged(st, t)
         \/ Cancelled(st, t)
         \/ Repeated(st, t, target)
         \/ Sampling(v, st, t, target, NoFrame)
         \/ Truncated(v, st, t, target)
  BY TurnEnds
<1>2. st \in Reducing /\ h \in Seq(Nat) /\ Len(h) \in Nat
  BY DEF Shape, Reducing
<1>3. n \in Nat \ {0} /\ Len(v.frames) \in Nat
  BY CountIs
<1>4. \A j \in 1..Len(h) : h[j] = SampleFrame(n, j - 1) /\ h[j] < Len(v.frames)
  BY DEF SampledTo
<1>5. st.end = "running" => Len(h) = i /\ (i # 0 => st.cursor = SampleFrame(n, i - 1))
  BY DEF SampledTo
<1>6. /\ Offered(v, h) \subseteq Candidates /\ Apart(Offered(v, h))
      /\ \A c \in Offered(v, h) : c.slot \in Nat /\ c.slot < Len(h)
  BY <1>2, <1>4, OfferedAreCandidates
<1> SUFFICES Holds(t.kept, Offered(v, t.hashes))
  BY DEF Keeping
<1>7. Holds(st.kept, Offered(v, h))
  BY DEF Keeping
<1>8. \A j \in 1..Len(h) : st.end = "running" /\ target # st.cursor => h[j] # target
  <2> SUFFICES ASSUME NEW j \in 1..Len(h), st.end = "running", target # st.cursor
               PROVE  h[j] # target
    OBVIOUS
  <2>1. j \in 1..i /\ i \in Nat /\ i # 0
    BY <1>5 DEF Slots
  <2>2. j - 1 \in Slots /\ i - 1 \in Slots /\ j - 1 <= i - 1 /\ i - 1 <= i
    BY <2>1, SomeSlots DEF Slots
  <2>3. SampleFrame(n, j - 1) <= SampleFrame(n, i - 1)
    <3>1. n <= n
      BY <1>3
    <3> QED
      BY <1>3, <2>2, <3>1, SamplesAscend
  <2>4. SampleFrame(n, i - 1) <= target
    <3>1. n <= n
      BY <1>3
    <3> QED
      BY <1>3, <2>2, <3>1, SamplesAscend
  <2>5. SampleFrame(n, i - 1) = st.cursor /\ SampleFrame(n, j - 1) = h[j]
    BY <1>4, <1>5, <2>1
  <2>6. SampleFrame(n, i - 1) \in Int /\ SampleFrame(n, j - 1) \in Int
    <3>1. SampleFrame(n, i - 1) \in 0..(n - 1) /\ SampleFrame(n, j - 1) \in 0..(n - 1)
      BY <1>3, <2>2, SampleIsNear
    <3> QED
      BY <3>1
  <2> HIDE DEF target, n, h
  <2> QED
    BY <1>1, <2>3, <2>4, <2>5, <2>6
<1> HIDE DEF n, target, t
<1>9. CASE Unchanged(st, t)
  BY <1>7, <1>9 DEF Unchanged
<1>10. CASE Cancelled(st, t)
  <2>1. t.kept = st.kept /\ t.hashes = h
    BY <1>2, <1>10 DEF Cancelled, Reducing
  <2> QED
    BY <1>7, <2>1
<1>11. CASE Truncated(v, st, t, target)
  <2>1. t.kept = st.kept /\ t.hashes = h
    BY <1>2, <1>11 DEF Truncated, Reducing
  <2> QED
    BY <1>7, <2>1
<1>12. CASE Repeated(st, t, target)
  <2>1. t.kept = st.kept /\ t.hashes = Append(h, h[Len(h)]) /\ h # <<>>
    BY <1>2, <1>12 DEF Repeated, Reducing
  <2>2. h[Len(h)] \in Nat
    BY <1>2, <2>1, LastIsNumber
  <2>3. Offered(v, t.hashes) = Offered(v, h)
    BY <1>2, <2>1, <2>2, OfferedAppends
  <2> QED
    BY <1>7, <2>1, <2>3
<1>13. CASE Sampling(v, st, t, target, NoFrame)
  <2> DEFINE cand == Offer(v, st, target)
             offers == Offered(v, h)
  <2>1. target # NoFrame
    BY <1>1 DEF NoFrame
  <2>2. /\ t.hashes = Append(h, target)
        /\ t.kept = (st.kept \cup {cand}) \ Dropped(st.kept, cand)
    BY <1>13, <2>1, KeepIs DEF Sampling
  <2>3. cand \in Candidates /\ cand.slot = Len(h)
    <3>1. cand \in Candidates
      BY <1>1, <1>2, <1>13, OffersAreCandidates DEF Sampling
    <3> QED
      BY <3>1 DEF Offer
  <2>4. Offered(v, t.hashes) = offers \cup {cand}
    <3>1. \A j \in 1..Len(h) : h[j] # target
      BY <1>8, <1>13 DEF Sampling
    <3>2. Offered(v, Append(h, target)) = Offered(v, h) \cup
            {[slot |-> Len(h), frame |-> target, sharp |-> Frame(v, target).sharp,
              orb |-> Frame(v, target).orb]}
      BY <1>1, <1>2, <3>1, OfferedAppends
    <3> QED
      BY <2>2, <3>2 DEF Offer
  <2> HIDE DEF cand
  <2>5. Apart(offers \cup {cand}) /\ cand \notin offers
    <3>1. \A c \in offers : c.slot # cand.slot
      BY <1>2, <1>6, <2>3
    <3> QED
      BY <1>6, <3>1 DEF Apart
  <2> HIDE DEF offers
  <2>6. Holds((st.kept \cup {cand}) \ Dropped(st.kept, cand), offers \cup {cand})
    BY <1>6, <1>7, <2>3, <2>5, KeeperHolds DEF offers
  <2> QED
    BY <2>2, <2>4, <2>6
<1> QED
  BY <1>1, <1>9, <1>10, <1>11, <1>12, <1>13

(* At the start nothing was offered.                                       *)
LEMMA KeepingStarts == \A v : Keeping(v, ReduceStart)
<1>1. \A v : Offered(v, <<>>) = {}
  BY DEF Offered, FirstSeen
<1>2. IsFiniteSet({}) /\ Cardinality({}) <= AnchorCandidates
  BY FS_EmptySet, SomeAnchors
<1> QED
  BY <1>1, <1>2 DEF Keeping, Holds, ReduceStart

(* What the keeper holds after the whole loop.                             *)
LEMMA LoopHolds ==
  ASSUME NEW v \in Recordings, ResolveFrameCount(v) # 0
  PROVE  Keeping(v, ReduceLoop(v, VideoFrameSamples, NoFrame))
<1>1. PICK g : /\ Turning(v, VideoFrameSamples, NoFrame, g)
               /\ ReduceLoop(v, VideoFrameSamples, NoFrame) = g[VideoFrameSamples]
  BY LoopTurns
<1>2. g[0] = ReduceStart
      /\ \A i \in Slots : g[i + 1] = ReduceTurn(v, g[i], i, VideoFrameSamples, NoFrame)
  BY <1>1, TurnByTurn
<1> DEFINE T == {i \in Nat : i <= VideoFrameSamples =>
                               Shape(g[i]) /\ SampledTo(v, i, g[i]) /\ Keeping(v, g[i])}
<1>3. VideoFrameSamples \in Nat \ {0}
  BY SomeSlots
<1>4. 0 \in T
  BY <1>2, ShapeStarts, SampledStarts, KeepingStarts
<1>5. ASSUME NEW i \in T PROVE i + 1 \in T
  <2>1. ASSUME i + 1 <= VideoFrameSamples
        PROVE  Shape(g[i + 1]) /\ SampledTo(v, i + 1, g[i + 1]) /\ Keeping(v, g[i + 1])
    <3>1. i \in Slots /\ Shape(g[i]) /\ SampledTo(v, i, g[i]) /\ Keeping(v, g[i])
      BY <1>3, <2>1 DEF Slots
    <3> QED
      BY <1>2, <3>1, ShapeStays, SampledStays, KeepingStays
  <2> QED
    BY <2>1
<1> HIDE DEF T
<1>6. VideoFrameSamples \in T
  BY <1>3, <1>4, <1>5, SetInduction DEF T
<1> QED
  BY <1>1, <1>3, <1>6 DEF T

(* The anchor among the frames some hashes stand for, as AnchorIsSharpest  *)
(* has it.                                                                 *)
AnchorAmong(v, hashes, anchor) ==
  LET All == {[slot |-> i - 1, sharp |-> Frame(v, hashes[i]).sharp, orb |-> Frame(v, hashes[i]).orb] :
                i \in FirstSeen(hashes)}
      Better(c) == {d \in All : Outranks(d, c)}
  IN  \E c \in All :
        /\ c.slot = anchor /\ c.orb
        /\ Cardinality(Better(c)) < AnchorCandidates
        /\ \A d \in Better(c) : ~ d.orb

(***************************************************************************)
(* selectAnchor: the anchor is a function of the decoded frames alone, the *)
(* sharpest of them at its first slot, or one of the next sharpest where   *)
(* ORB finds nothing in it; however many frames there are and however many *)
(* are kept in the running.                                                *)
(***************************************************************************)
THEOREM AnchorsAreSharpest == \A v \in Recordings : AnchorIsSharpest(v)
<1> SUFFICES ASSUME NEW v \in Recordings PROVE AnchorIsSharpest(v)
  OBVIOUS
<1> DEFINE r == Reduction(v, VideoFrameSamples, NoFrame)
           st == ReduceLoop(v, VideoFrameSamples, NoFrame)
           n == ResolveFrameCount(v)
           h == st.hashes
           Seen(i) == [slot |-> i - 1, sharp |-> Frame(v, h[i]).sharp, orb |-> Frame(v, h[i]).orb]
           All == {Seen(i) : i \in FirstSeen(h)}
           Better(c) == {d \in All : Outranks(d, c)}
<1> SUFFICES ASSUME r.error = "none"
             PROVE  \E c \in All : /\ c.slot = r.anchor /\ c.orb
                                   /\ Cardinality(Better(c)) < AnchorCandidates
                                   /\ \A d \in Better(c) : ~ d.orb
  <2>1. r.error = "none" => r.hashes = h
    BY DEF Reduction
  <2>2. (r.error = "none" => AnchorAmong(v, r.hashes, r.anchor)) => AnchorIsSharpest(v)
    BY DEF AnchorIsSharpest, AnchorAmong, FirstSeen
  <2>3. AnchorAmong(v, h, r.anchor) <=>
          \E c \in All : /\ c.slot = r.anchor /\ c.orb
                        /\ Cardinality(Better(c)) < AnchorCandidates
                        /\ \A d \in Better(c) : ~ d.orb
    BY DEF AnchorAmong
  <2> HIDE DEF r, h, All, Better
  <2> QED
    BY <2>1, <2>2, <2>3
<1>1. n # 0 /\ Usable(st) # {} /\ r.anchor = Best(Usable(st)).slot
  BY DEF Reduction, ReduceError, SelectAnchor
<1>2. Shape(st) /\ SampledTo(v, VideoFrameSamples, st) /\ Holds(st.kept, Offered(v, h))
  BY <1>1, LoopSamples, LoopHolds DEF Keeping
<1>3. h \in Seq(Nat) /\ \A j \in 1..Len(h) : h[j] < Len(v.frames)
  BY <1>2 DEF Shape, Reducing, SampledTo
<1>4. Offered(v, h) \subseteq Candidates /\ Apart(Offered(v, h))
  BY <1>3, OfferedAreCandidates
<1>5. st.kept \subseteq Offered(v, h) /\ IsFiniteSet(st.kept)
      /\ Cardinality(st.kept) <= AnchorCandidates
      /\ \A c \in Offered(v, h) \ st.kept : \A d \in st.kept : Outranks(d, c)
  BY <1>2 DEF Holds
<1> DEFINE b == Best(Usable(st))
<1>6. b \in Usable(st) /\ \A d \in Usable(st) \ {b} : Outranks(b, d)
  <2>1. Usable(st) \in SUBSET st.kept
    BY DEF Usable
  <2>2. IsFiniteSet(Usable(st))
    BY <1>5, <2>1, FS_Subset
  <2>3. Usable(st) \in SUBSET Candidates /\ Apart(Usable(st))
    BY <1>4, <1>5, <2>1 DEF Apart
  <2> QED
    BY <1>1, <2>2, <2>3, BestIs
<1>7. b \in st.kept /\ b.orb /\ r.anchor = b.slot
  BY <1>1, <1>6 DEF Usable
<1>8. /\ \A i \in FirstSeen(h) : OfferOf(v, h, i) \in Offered(v, h)
      /\ \A d \in Offered(v, h) : \E i \in FirstSeen(h) : d = OfferOf(v, h, i)
      /\ \A i \in FirstSeen(h) : /\ OfferOf(v, h, i).slot = Seen(i).slot
                                 /\ OfferOf(v, h, i).sharp = Seen(i).sharp
                                 /\ OfferOf(v, h, i).orb = Seen(i).orb
  BY DEF Offered, OfferOf
<1>9. PICK m \in FirstSeen(h) : b = OfferOf(v, h, m)
  BY <1>5, <1>7, <1>8
<1> DEFINE c == Seen(m)
           P == {d \in st.kept : Outranks(d, b)}
           f == [d \in P |-> [slot |-> d.slot, sharp |-> d.sharp, orb |-> d.orb]]
<1>10. c \in All /\ c.slot = b.slot /\ c.sharp = b.sharp /\ c.orb = b.orb
  BY <1>8, <1>9
<1>11. ASSUME NEW i \in FirstSeen(h), Outranks(Seen(i), c)
       PROVE  OfferOf(v, h, i) \in P
  <2>1. OfferOf(v, h, i) \in Offered(v, h) /\ Outranks(OfferOf(v, h, i), b)
    <3>1. OfferOf(v, h, i).slot = Seen(i).slot /\ OfferOf(v, h, i).sharp = Seen(i).sharp
      BY <1>8
    <3> HIDE DEF Seen, h
    <3> QED
      BY <1>8, <1>10, <1>11, <3>1 DEF Outranks
  <2>2. ~ Outranks(b, OfferOf(v, h, i))
    BY <1>4, <1>5, <1>7, <2>1, OutranksOrders
  <2> QED
    BY <1>5, <1>7, <2>1, <2>2
<1>12. ASSUME NEW d \in Better(c) PROVE ~ d.orb /\ \E e \in P : f[e] = d
  <2>1. PICK i \in FirstSeen(h) : d = Seen(i) /\ Outranks(d, c)
    OBVIOUS
  <2>2. OfferOf(v, h, i) \in P
    BY <1>11, <2>1
  <2>3. f[OfferOf(v, h, i)] = d
    BY <2>1, <2>2 DEF OfferOf
  <2>4. ~ OfferOf(v, h, i).orb
    <3>1. ASSUME OfferOf(v, h, i).orb PROVE FALSE
      <4>1. OfferOf(v, h, i) \in Usable(st) /\ Outranks(OfferOf(v, h, i), b)
        BY <2>2, <3>1 DEF Usable
      <4>2. OfferOf(v, h, i) \in Candidates /\ b \in Candidates
        BY <1>4, <1>5, <1>7, <2>2
      <4>3. OfferOf(v, h, i) # b
        BY <4>1, <4>2, OutranksOrders
      <4> QED
        BY <1>6, <4>1, <4>2, <4>3, OutranksOrders
    <3> QED
      BY <3>1
  <2>5. OfferOf(v, h, i).orb = d.orb
    BY <1>8, <2>1
  <2> QED
    BY <2>2, <2>3, <2>4, <2>5
<1>13. ASSUME NEW e \in P PROVE f[e] \in Better(c)
  <2>1. PICK i \in FirstSeen(h) : e = OfferOf(v, h, i)
    BY <1>5, <1>8
  <2>2. f[e] = Seen(i)
    BY <2>1 DEF OfferOf
  <2>3. Outranks(Seen(i), c)
    <3>1. Seen(i).slot = e.slot /\ Seen(i).sharp = e.sharp /\ Outranks(e, b)
      BY <1>8, <2>1
    <3> HIDE DEF Seen, h
    <3> QED
      BY <1>10, <3>1 DEF Outranks
  <2> QED
    BY <2>2, <2>3
<1>14. Cardinality(Better(c)) < AnchorCandidates
  <2>1. P \in SUBSET (st.kept \ {b})
    BY <1>4, <1>5, <1>7, OutranksOrders
  <2>2. IsFiniteSet(st.kept \ {b}) /\ Cardinality(st.kept \ {b}) = Cardinality(st.kept) - 1
    BY <1>5, <1>7, FS_RemoveElement
  <2>3. IsFiniteSet(P) /\ Cardinality(P) <= Cardinality(st.kept) - 1
    BY <2>1, <2>2, FS_Subset
  <2>4. f \in Surjection(P, Better(c))
    <3>1. f \in [P -> Better(c)]
      BY <1>13
    <3> HIDE DEF f, P, Better
    <3> QED
      BY <1>12, <3>1 DEF Surjection
  <2> HIDE DEF f, P, Better
  <2>5. IsFiniteSet(Better(c)) /\ Cardinality(Better(c)) <= Cardinality(P)
    BY <2>3, <2>4, FS_Surjection
  <2>6. Cardinality(P) \in Nat /\ Cardinality(st.kept) \in Nat /\ Cardinality(Better(c)) \in Nat
    BY <1>5, <2>3, <2>5, FS_CardinalityType
  <2> QED
    BY <1>5, <2>3, <2>5, <2>6, SomeAnchors
<1> QED
  BY <1>7, <1>10, <1>12, <1>14

(***************************************************************************)
(* Reduce, FrameSequenceScore, DurationWithinTolerance, FrameAt: a video   *)
(* that was admitted and certified passes the gates against itself, and    *)
(* its anchor frame is found again.                                        *)
(***************************************************************************)
THEOREM AdmittedAreFound == \A v \in Recordings : AdmittedMatchesItself(v)
<1> SUFFICES ASSUME NEW v \in Recordings, Validate(v),
                    Reduction(v, VideoFrameSamples, NoFrame).error = "none"
             PROVE  AdmittedMatchesItself(v)
  BY DEF AdmittedMatchesItself
<1> DEFINE r == Reduction(v, VideoFrameSamples, NoFrame)
           st == ReduceLoop(v, VideoFrameSamples, NoFrame)
           h == st.hashes
           near == {<<f, f>> : f \in Frames(v)}
<1>1. r.hashes = h /\ r.durationMs = DurationMs(v) /\ ResolveFrameCount(v) # 0
  BY DEF Reduction, ReduceError
<1>2. Shape(st) /\ SampledTo(v, VideoFrameSamples, st)
  BY <1>1, LoopSamples
<1>3. /\ h \in Seq(Nat) /\ Len(h) \in Nat /\ Len(h) <= VideoFrameSamples
      /\ \A i \in 1..Len(h) : h[i] \in Nat /\ h[i] < Len(v.frames)
  <2>1. h \in Seq(Nat) /\ Len(h) \in Nat
    BY <1>2 DEF Shape, Reducing
  <2>2. \A i \in 1..Len(h) : h[i] \in Nat
    BY <2>1, ElementOfSeq
  <2> QED
    BY <1>2, <2>1, <2>2 DEF SampledTo
<1>4. PICK m \in 1..Len(h) : r.anchor = m - 1
  <2>1. \E i \in DOMAIN r.hashes : r.anchor = i - 1
    <3>1. (r.error = "none" => AnchorAmong(v, r.hashes, r.anchor)) <=> AnchorIsSharpest(v)
      BY DEF AnchorIsSharpest, AnchorAmong, FirstSeen
    <3>2. AnchorAmong(v, r.hashes, r.anchor)
      BY <3>1, AnchorsAreSharpest
    <3> HIDE DEF r
    <3> QED
      BY <3>2 DEF AnchorAmong, FirstSeen
  <2> QED
    BY <1>1, <1>3, <2>1
<1> HIDE DEF r, h, st
<1>5. Len(h) \in Nat \ {0} /\ h # <<>>
  BY <1>3, <1>4
<1>6. Valid([frames |-> r.hashes, anchor |-> r.anchor])
  BY <1>1, <1>4, <1>5 DEF Valid
<1>7. SequencesAgree(r.hashes, r.hashes, near)
  <2>1. DOMAIN h = 1..Len(h)
    BY <1>3
  <2>2. ASSUME NEW i \in 1..Len(h) PROVE \E j \in Window(h, i) : <<h[i], h[j]>> \in near
    <3>1. i \in Window(h, i)
      BY <2>1, GatesAssumption DEF Window
    <3>2. h[i] \in Frames(v)
      BY <1>3, CountIs DEF Frames
    <3> QED
      BY <3>1, <3>2
  <2> HIDE DEF near
  <2>3. Matched(h, h, near) = 1..Len(h)
    BY <2>1, <2>2 DEF Matched
  <2>4. Cardinality(1..Len(h)) = IF 1 > Len(h) THEN 0 ELSE Len(h) - 1 + 1
    BY <1>5, FS_Interval
  <2>5. Cardinality(Matched(h, h, near)) = Len(h)
    BY <1>5, <2>3, <2>4
  <2>6. 100 * Len(h) >= Agreement * Len(h)
    BY <1>5, GatesAssumption
  <2> QED
    BY <1>1, <1>5, <2>5, <2>6 DEF SequencesAgree
<1>8. DurationWithinTolerance(r.durationMs, r.durationMs)
  <2>1. DurationMs(v) \in Nat \ {0}
    BY SomeDuration DEF Validate
  <2>2. ASSUME NEW d \in Nat \ {0} PROVE DurationWithinTolerance(d, d)
    <3>1. (d * DurationDrift) \div 100 \in Int /\ MinDurationDrift \in Nat
      BY GatesAssumption
    <3>2. d > 0 /\ d - d = 0
      OBVIOUS
    <3> QED
      BY <3>1, <3>2 DEF DurationWithinTolerance
  <2> QED
    BY <1>1, <2>1, <2>2
<1>9. FrameAt(v, r.anchor) = r.hashes[r.anchor + 1] /\ FrameAt(v, r.anchor) # NoFrame
  <2>1. r.anchor \in Slots /\ r.anchor < Len(r.hashes) /\ r.anchor + 1 = m
    BY <1>1, <1>3, <1>4, SomeSlots DEF Slots
  <2>2. FrameAt(v, r.anchor)
          = IF r.anchor < Len(r.hashes) THEN r.hashes[r.anchor + 1] ELSE NoFrame
    BY <2>1, FrameAtAlwaysAgrees DEF FrameAtAgrees, r
  <2>3. h[m] \in Nat
    BY <1>3, <1>4
  <2> QED
    BY <1>1, <2>1, <2>2, <2>3 DEF NoFrame
<1> QED
  BY <1>6, <1>7, <1>8, <1>9 DEF AdmittedMatchesItself, r, near

-----------------------------------------------------------------------------
(* The instance                                                            *)

(* The subject is what its kind says it is, and stays.                     *)
SubjectIsMedia ==
  /\ subject.kind = "video" => subject \in Videos
  /\ subject.kind = "lengths" => subject \in Lengths
  /\ subject.kind = "size" => subject \in Sizes
  /\ subject.kind = "video" => subject \in Videos
  /\ subject.kind = "lengths" => subject \in Lengths
  /\ subject.kind = "pair" => subject \in Comparisons
  /\ subject.kind = "exposure" => subject \in Exposures
  /\ subject.kind = "picture" => subject \in Pictures
  /\ subject.kind = "coefficients" => subject \in Coefficients
  /\ subject.kind = "canvas" => subject \in Canvases
  /\ subject.kind = "scaling" => subject \in Scalings
  /\ subject.kind = "hue" => subject \in Hues

(* It starts as one of what is tried.                                      *)
LEMMA InitMedia == AlgorithmsInit => SubjectIsMedia
<1> SUFFICES ASSUME AlgorithmsInit PROVE SubjectIsMedia
  OBVIOUS
<1>1. subject = NoSubject => subject.kind = "tree"
  BY DEF NoSubject
<1>2. /\ subject \in Videos => subject.kind = "video"
      /\ subject \in Lengths => subject.kind = "lengths"
      /\ subject \in Enrolments => subject.kind = "attestation"
      /\ subject \in IntegerBodies => subject.kind = "integer"
  BY DEF Videos, Lengths, Enrolments, IntegerBodies
<1>3. /\ subject \in Sizes => subject.kind = "size"
      /\ subject \in Comparisons => subject.kind = "pair"
      /\ subject \in Canvases => subject.kind = "canvas"
  BY DEF Sizes, Comparisons, Canvases
<1>4. /\ subject \in Lists => subject.kind = "list"
      /\ subject \in Transactions => subject.kind = "tx"
      /\ subject \in UploadsTried => subject.kind = "upload"
  <2>1. subject \in Lists => subject.kind = "list"
    BY DEF Lists
  <2>2. subject \in Transactions => subject.kind = "tx"
    BY DEF Transactions
  <2>3. subject \in UploadsTried => subject.kind = "upload"
    BY DEF UploadsTried
  <2> QED
    BY <2>1, <2>2, <2>3
<1>5. /\ subject \in Exposures => subject.kind = "exposure"
      /\ subject \in Pictures => subject.kind = "picture"
      /\ subject \in Coefficients => subject.kind = "coefficients"
      /\ subject \in Scalings => subject.kind = "scaling"
      /\ subject \in Hues => subject.kind = "hue"
      /\ subject \in Bundles => subject.kind = "bundle"
      /\ subject \in Keypoints => subject.kind = "keypoint"
      /\ subject \in Captured => subject.kind = "capture"
  BY DEF Exposures, Pictures, Coefficients, Scalings, Hues, Bundles, Keypoints, Captured
<1> QED
  BY <1>1, <1>2, <1>3, <1>4, <1>5 DEF AlgorithmsInit, SubjectIsMedia

(* No step changes it.                                                     *)
LEMMA MediaStays == AlgorithmsSpec => []SubjectIsMedia
<1>1. SubjectIsMedia /\ [AlgorithmsNext]_algorithmVars => SubjectIsMedia'
  BY DEF SubjectIsMedia, AlgorithmsNext, algorithmVars
<1> QED
  BY <1>1, InitMedia, PTL DEF AlgorithmsSpec

(* The pairs, hashes and sizes tried are of the kinds the theorems are     *)
(* about.                                                                  *)
LEMMA ComparisonsAreCompared == Comparisons \subseteq ComparedPairs
<1> SUFFICES ASSUME NEW m \in Comparisons PROVE m \in ComparedPairs
  OBVIOUS
<1>1. /\ m = [kind |-> m.kind, keypoints |-> m.keypoints, good |-> m.good, homography |-> m.homography,
              invertible |-> m.invertible, inliers |-> m.inliers, deltas |-> m.deltas, cells |-> m.cells]
      /\ m.kind = "pair" /\ m.keypoints \in {3, 4} /\ m.good \in {7, 8} /\ m.homography \in BOOLEAN
      /\ m.invertible \in BOOLEAN /\ m.inliers \in {MinInliers - 1, MinInliers} /\ m.deltas \in Deltas
      /\ m.cells \in {4}
  BY DEF Comparisons
<1>2. m.inliers \in Nat
  BY <1>1, SomeGates
<1>3. m.deltas \in Seq(Int)
  <2>1. PICK n \in 0..3 : m.deltas \in [1..n -> {DeltaStep * d : d \in -MaxDelta..MaxDelta}]
    BY <1>1 DEF Deltas
  <2>2. {DeltaStep * d : d \in -MaxDelta..MaxDelta} \subseteq Int
    BY BoundsAreNumbers
  <2>3. m.deltas \in [1..n -> Int] /\ n \in Nat
    BY <2>1, <2>2
  <2> QED
    BY <2>3, FunctionIsSeq
<1>4. /\ m.kind = "pair" /\ m.keypoints \in Nat /\ m.good \in Nat /\ m.homography \in BOOLEAN
      /\ m.invertible \in BOOLEAN /\ m.inliers \in Nat /\ m.deltas \in Seq(Int) /\ m.cells \in Nat
  <2>1. m.kind = "pair" /\ m.keypoints \in {3, 4} /\ m.good \in {7, 8} /\ m.cells \in {4}
        /\ m.homography \in BOOLEAN /\ m.invertible \in BOOLEAN
    BY <1>1
  <2>2. m.keypoints \in Nat /\ m.good \in Nat /\ m.cells \in Nat
    BY <2>1
  <2> QED
    BY <1>2, <1>3, <2>1, <2>2
<1>5. m = [kind |-> m.kind, keypoints |-> m.keypoints, good |-> m.good, homography |-> m.homography,
           invertible |-> m.invertible, inliers |-> m.inliers, deltas |-> m.deltas, cells |-> m.cells]
  BY <1>1
<1> QED
  BY <1>4, <1>5 DEF ComparedPairs

(* The picture every pixel of which is different is a picture.             *)
LEMMA DistinctIsPicture ==
  ASSUME NEW w \in Nat \ {0}, NEW h \in Nat \ {0}
  PROVE  IsPicture(AllDistinct(w, h))
<1> DEFINE f == [p \in Places(w, h) |-> p]
<1>1. AllDistinct(w, h) = Picture(w, h, f) /\ f = [p \in Places(w, h) |-> f[p]]
  BY DEF AllDistinct, Picture
<1> HIDE DEF f
<1> QED
  BY <1>1 DEF IsPicture

(***************************************************************************)
(* opencv_extractor.go and perceptual_hash.go: certify and verify see one  *)
(* picture, whatever the gates, the grid and the sizes; Enough is any side *)
(* whose square is the coverage asked for.                                 *)
(***************************************************************************)
THEOREM MatchingAlwaysSound == AlgorithmsSpec => []MatchingIsSound
<1>1. ASSUME SubjectIsMedia, subject.kind = "size"
      PROVE  subject.w \in Nat \ {0} /\ subject.h \in Nat \ {0}
  <2>1. subject.w \in 1..MaxSide /\ subject.h \in 1..MaxSide
    BY <1>1 DEF SubjectIsMedia, Sizes
  <2> QED
    BY <2>1, BoundsAreNumbers
<1>2. ASSUME SubjectIsMedia PROVE CellsPartition /\ SelfMatchPossible
  <2>1. CellsPartition
    BY <1>1, <1>2, CellsAlwaysTile DEF CellsPartition
  <2>2. ASSUME subject.kind = "size" PROVE CanMatchItself(subject.w, subject.h, Enough)
    BY <1>1, <1>2, <2>2, EnoughCovers, EnoughMatchesItself
  <2> QED
    BY <2>1, <2>2 DEF SelfMatchPossible
<1>3. ASSUME SubjectIsMedia PROVE ExposureIsNeutral /\ IncompleteIsNoMatch
  <2>1. subject.kind = "pair" => subject \in ComparedPairs
    BY <1>3, ComparisonsAreCompared DEF SubjectIsMedia
  <2>2. DeltaStep \in Int
    BY BoundsAreNumbers
  <2> QED
    BY <2>1, <2>2, BrightnessNeverShows, IncompleteNever DEF ExposureIsNeutral, IncompleteIsNoMatch
<1>4. ASSUME SubjectIsMedia PROVE OrientationsAreCovered /\ SamplesInside
  <2>1. subject.kind = "picture" => subject.w \in Nat \ {0} /\ subject.h \in Nat \ {0}
    BY <1>4 DEF SubjectIsMedia, Pictures
  <2> QED
    BY <2>1, DistinctIsPicture, EveryTurnIsUndone, SamplesAlwaysInside
       DEF OrientationsAreCovered, SamplesInside
<1>5. ASSUME SubjectIsMedia PROVE HashIsStable
  <2>1. ASSUME subject.kind = "coefficients" PROVE HashIgnoresBrightness(subject.values, subject.brighter)
    <3>1. subject.values \in [1..4 -> 0..4] /\ subject.brighter \in 0..6
      BY <1>5, <2>1 DEF SubjectIsMedia, Coefficients
    <3>2. subject.values \in [1..4 -> Int] /\ subject.brighter \in Int /\ 4 \in Nat
      BY <3>1
    <3>3. subject.values \in Seq(Int) /\ Len(subject.values) = 4
      BY <3>2, FunctionIsSeq
    <3>4. Len(subject.values) >= 3
      BY <3>3
    <3> QED
      BY <3>2, <3>3, <3>4, HashNeverBrightens
  <2> QED
    BY <2>1 DEF HashIsStable
<1>6. SubjectIsMedia => MatchingIsSound
  BY <1>2, <1>3, <1>4, <1>5 DEF MatchingIsSound
<1> QED
  BY <1>6, MediaStays, PTL

(***************************************************************************)
(* builders.go and registry.go: the labels agree with the gates, where the *)
(* gates have the values of the code or others near them; the pictures     *)
(* that are cut have 63 pixels a side at least.                            *)
(***************************************************************************)
THEOREM LabelsAlwaysRight ==
  ASSUME MinCoverage \in 40..49, MinDimension <= 64, MaxCellDist >= 26, MaxColorMean >= 7
  PROVE  AlgorithmsSpec => []LabelsAreRight
<1>1. ASSUME SubjectIsMedia PROVE RegionsInside /\ LabelsFollowGate
  <2>1. subject.kind = "canvas" => /\ subject.w \in Nat /\ subject.w >= 63
                                   /\ subject.h \in Nat /\ subject.h >= 63
    BY <1>1, SidesAreLarge DEF SubjectIsMedia, Canvases
  <2> QED
    BY <2>1, RegionsAlwaysInside, LabelsAlwaysFollow DEF RegionsInside, LabelsFollowGate
<1>2. ASSUME SubjectIsMedia PROVE ScalingKeepsFeatures
  <2>1. subject.kind = "scaling" => subject.w \in Nat \ {0} /\ subject.h \in Nat \ {0}
    BY <1>2, SidesAreLarge DEF SubjectIsMedia, Scalings
  <2> QED
    BY <2>1, ScalingAlwaysKeeps DEF ScalingKeepsFeatures
<1>3. ASSUME SubjectIsMedia PROVE HuesTurn
  BY <1>3, HuesAlwaysTurn DEF SubjectIsMedia, Hues, HuesTurn
<1>4. ASSUME SubjectIsMedia PROVE BrightnessRungsPass
  <2> SUFFICES ASSUME subject.kind = "exposure" PROVE BrightnessRungsPass
    BY DEF BrightnessRungsPass
  <2>1. PICK l \in [1..4 -> 0..255], pct \in BrightnessRungs : l = subject.cells /\ pct = subject.pct
    BY <1>4 DEF SubjectIsMedia, Exposures
  <2>2. PICK m : m = [keypoints |-> 4, good |-> 8, homography |-> TRUE, invertible |-> TRUE,
                      inliers |-> MinInliers, cells |-> 4,
                      deltas |-> [i \in 1..4 |-> l[i] - AdjustBrightness(l[i], pct)]]
    OBVIOUS
  <2>3. PICK clipped : clipped = {i \in 1..4 : AdjustBrightness(l[i], pct) \in {0, 255}}
    OBVIOUS
  <2>4. MatchPair(m).maxOK /\ (Cardinality(clipped) <= 1 => Decide(MatchPair(m)))
    BY <2>2, <2>3, BrightnessAlwaysPasses
  <2> QED
    BY <2>1, <2>2, <2>3, <2>4 DEF BrightnessRungsPass
<1>5. SubjectIsMedia => LabelsAreRight
  BY <1>1, <1>2, <1>3, <1>4 DEF LabelsAreRight
<1> QED
  BY <1>5, MediaStays, PTL

(***************************************************************************)
(* video_extractor.go: certify keeps the frames that verify compares, at   *)
(* the instants the slots stand for, whatever the header says; the anchor  *)
(* is the same for both; a container without a count is refused, and what  *)
(* is certified passes against itself; a shorter copy still agrees where a *)
(* frame may match a slot to either side; no frame is left open.           *)
(***************************************************************************)
THEOREM SamplingAlwaysFaithful ==
  ASSUME FrameAlignSlack >= 1
  PROVE  AlgorithmsSpec => []SamplingIsFaithful
<1> DEFINE video == Recording(subject.frames, subject.header, subject.fps)
<1>1. ASSUME SubjectIsMedia, subject.kind = "video" PROVE video \in Recordings
  <2>1. subject.frames \in FrameSeqs /\ subject.header \in 0..(MaxFrames + 2) /\ subject.fps \in Rates
    BY <1>1 DEF SubjectIsMedia, Videos
  <2>2. PICK n \in 0..MaxFrames : subject.frames \in [1..n -> Looks]
    BY <2>1 DEF FrameSeqs
  <2>3. n \in Nat /\ subject.header \in Nat /\ subject.fps \in Nat
    BY <2>1, <2>2, BoundsAreNumbers DEF Rates
  <2>4. Looks \subseteq Looked
    BY DEF Looks, Looked
  <2>5. subject.frames \in [1..n -> Looked]
    BY <2>2, <2>4
  <2>6. subject.frames \in Seq(Looked)
    BY <2>3, <2>5, FunctionIsSeq
  <2> QED
    BY <2>3, <2>6 DEF Recording, Recordings
<1> HIDE DEF video
<1>2. ASSUME SubjectIsMedia 
      PROVE  /\ FrameAtFindsSample /\ AnchorIsBest
             /\ CountingIsRefused /\ OriginalsAreFound
  <2>1. subject.kind = "video" =>
          /\ FrameAtAgrees(video) /\ AnchorIsSharpest(video)
          /\ CountedFailsClosed(video) /\ AdmittedMatchesItself(video)
    BY <1>1, <1>2, FrameAtAlwaysAgrees, AnchorsAreSharpest, CountingFailsClosed, AdmittedAreFound
  <2> QED
    BY <2>1 DEF video, Recorded, FrameAtFindsSample, AnchorIsBest, CountingIsRefused, OriginalsAreFound,
       OfVideo
<1>3. ASSUME SubjectIsMedia PROVE NoMatLeaks
  <2>1. \A i \in Interruptions : i[1] \in Int /\ i[2] \in Int
    BY SomeSlots DEF Interruptions, NoFrame
  <2>2. subject.kind = "video" => \A i \in Interruptions : MatsAreClosed(video, i[1], i[2])
    BY <1>1, <1>3, <2>1, MatsAlwaysClosed
  <2> QED
    BY <2>2 DEF video, Recorded, NoMatLeaks
<1>4. ASSUME SubjectIsMedia PROVE SamplesFollowTime /\ DroppedTailsAgree
  <2>1. subject.kind = "lengths" => subject.n \in Nat \ {0} /\ subject.m \in Nat \ {0}
    <3>1. subject.kind = "lengths" => subject.n \in 1..MaxLength /\ subject.m \in 1..MaxLength
      BY <1>4 DEF SubjectIsMedia, Lengths
    <3> QED
      BY <3>1, BoundsAreNumbers
  <2>2. SamplesFollowTime
    BY <2>1, SamplesAreAlwaysMidpoints, RatesAlwaysKeepSlots DEF SamplesFollowTime
  <2>3. DroppedTailsAgree
    BY <2>1, TailsMayAlwaysDrop DEF DroppedTailsAgree
  <2> QED
    BY <2>2, <2>3
<1>5. SubjectIsMedia => SamplingIsFaithful
  BY <1>2, <1>3, <1>4 DEF SamplingIsFaithful
<1> QED
  BY <1>5, MediaStays, PTL
=============================================================================
