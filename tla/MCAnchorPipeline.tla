-------------------------- MODULE MCAnchorPipeline --------------------------
(* Model checking of AnchorPipeline: row ids, contents and workers are     *)
(* interchangeable, since the code only compares them.                     *)
EXTENDS AnchorPipeline, TLC

Symmetry == Permutations(CertIds) \cup Permutations(Contents) \cup Permutations(Workers)
=============================================================================
