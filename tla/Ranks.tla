------------------------------- MODULE Ranks --------------------------------
(***************************************************************************)
(* What sorting a sequence of numbers would put where: Go's sort.Float64s, *)
(* of which the medians of the repository read the middle.                 *)
(***************************************************************************)
EXTENDS Integers, Sequences, FiniteSets

Below(xs, v) == {i \in DOMAIN xs : xs[i] < v}
UpTo(xs, v)  == {i \in DOMAIN xs : xs[i] <= v}

(* The element at place k of what is sorted: fewer than k elements are     *)
(* less, and at least k are not greater.                                   *)
HasRank(xs, k, v) == Cardinality(Below(xs, v)) < k /\ k <= Cardinality(UpTo(xs, v))
Ranked(xs, k) == CHOOSE v \in {xs[i] : i \in DOMAIN xs} : HasRank(xs, k, v)
=============================================================================
