---------------------------- MODULE FeatureMatch ----------------------------
(***************************************************************************)
(* When two pictures count as the same one                                 *)
(* (internal/feature/opencv_extractor.go, domain/feature_signature.go and  *)
(* DecideVideo of domain/video.go).                                        *)
(*                                                                         *)
(* What OpenCV computes (keypoints, matches, a homography, cell means) is  *)
(* input; the cells, the offset that is taken out of the luminance, the    *)
(* gates and the early returns are the code's.  Colours are compared in    *)
(* luminance alone: the chroma of reference and candidate agrees.          *)
(***************************************************************************)
EXTENDS Ranks, Functions

CONSTANTS
  GridSize,             \* cells along a side of the colour grid
  MinFeatureDimension,  \* smallest side ORB is run on
  ResizeMax,            \* longest side of the reference space
  MinAreaCoverage,      \* per cent of the cells
  MinInliers, MaxColorMean, MaxCellDist

ASSUME SomeGrid == GridSize \in Nat \ {0} /\ MinFeatureDimension \in Nat \ {0}
ASSUME SomeGates ==
  /\ ResizeMax \in Nat \ {0} /\ MinAreaCoverage \in 0..100 /\ MinInliers \in Nat \ {0}
  /\ MaxColorMean \in Nat /\ MaxCellDist \in Nat

-----------------------------------------------------------------------------
(* Dimensions and cells                                                    *)

Longest(w, h) == IF w > h THEN w ELSE h

(* resizeBGR: one side scaled with the longest, rounded down.              *)
Resized(side, w, h) ==
  IF Longest(w, h) <= ResizeMax THEN side ELSE (side * ResizeMax) \div Longest(w, h)

(* The guard of signatureFromResizedBGR.                                   *)
Extractable(w, h) == w >= MinFeatureDimension /\ h >= MinFeatureDimension

(* Mutated: both ends of a span are rounded up.                            *)
CellSpan_Outward(side, g) ==
  (side * g) \div GridSize .. (side * (g + 1) + GridSize - 1) \div GridSize - 1

(* The pixels of a side that fall into column (or row) g; none where the   *)
(* side has fewer pixels than the grid has cells.  colorGridOf and         *)
(* colorResidual cut alike.                                                *)
CellSpan(side, g) == (side * g) \div GridSize .. (side * (g + 1)) \div GridSize - 1

Columns == 0..(GridSize - 1)

(* Mutated: a cell a pixel wide counts as empty.                           *)
CoveredLines_Wide(side) == Cardinality({g \in Columns : Cardinality(CellSpan(side, g)) > 1})

(* The mask of an empty cell has mean 0, below MinCellMaskCoverage.        *)
CoveredLines(side) == Cardinality({g \in Columns : CellSpan(side, g) # {}})

(* The cells colorResidual finds covered when the candidate fills the      *)
(* whole frame.                                                            *)
FullFrameCells(w, h) == CoveredLines(w) * CoveredLines(h)

-----------------------------------------------------------------------------
(* colorResidual, over the deltas of the covered cells in luminance        *)

(* medianFloat, doubled so that it stays an integer.                       *)
TwiceMedian(xs) ==
  LET middle == Len(xs) \div 2
  IN  IF Len(xs) % 2 = 1 THEN 2 * Ranked(xs, middle + 1)
      ELSE Ranked(xs, middle) + Ranked(xs, middle + 1)

Mag(x) == IF x < 0 THEN -x ELSE x

(* Mutated: nothing is taken out.                                          *)
Offset_None(xs) == 0

Offset(xs) == TwiceMedian(xs)

(* Distances, doubled.                                                     *)
CellDists(xs) ==
  LET offset == Offset(xs) IN [i \in DOMAIN xs |-> Mag(2 * xs[i] - offset)]

(* mean <= bound, as sum <= bound * count.                                 *)
MeanWithin(dists, bound) == FoldFunction(+, 0, dists) <= 2 * bound * Len(dists)
MaxWithin(dists, bound) == \A i \in DOMAIN dists : dists[i] <= 2 * bound

-----------------------------------------------------------------------------
(* matchPair.  m: keypoints of both sides, matches that pass Lowe's ratio, *)
(* whether a homography was found and has an inverse, its inliers, and the *)
(* deltas of the cells it covers among cells cells.                        *)

(* A decision carries what both verdicts are computed from.                *)
Decision(inliers, meanOK, maxOK, covered) ==
  [inliers |-> inliers, meanOK |-> meanOK, maxOK |-> maxOK, covered |-> covered]

(* ColorMean and ColorMax start at infinity, everything else at zero.      *)
NoDecision == Decision(0, FALSE, FALSE, FALSE)

(* Mutated: the residual of a homography without inverse starts at zero.   *)
ResidualOf_ZeroStart(m) ==
  IF ~ m.invertible \/ m.deltas = <<>>
  THEN Decision(m.inliers, TRUE, TRUE, 100 * Len(m.deltas) >= MinAreaCoverage * m.cells)
  ELSE LET dists == CellDists(m.deltas) IN
       Decision(m.inliers, MeanWithin(dists, MaxColorMean), MaxWithin(dists, MaxCellDist),
                100 * Len(m.deltas) >= MinAreaCoverage * m.cells)

ResidualOf(m) ==
  IF ~ m.invertible \/ m.deltas = <<>> THEN Decision(m.inliers, FALSE, FALSE, FALSE)
  ELSE LET dists == CellDists(m.deltas) IN
       Decision(m.inliers, MeanWithin(dists, MaxColorMean), MaxWithin(dists, MaxCellDist),
                100 * Len(m.deltas) >= MinAreaCoverage * m.cells)

(* Fewer than 4 keypoints or 8 good matches, or no homography: no answer.  *)
MatchPair(m) ==
  IF m.keypoints < 4 \/ m.good < 8 \/ ~ m.homography THEN NoDecision ELSE ResidualOf(m)

(* Decide: the verdict on an image.                                        *)
Decide(d) == d.inliers >= MinInliers /\ d.meanOK /\ d.maxOK /\ d.covered

(* Mutated: the colour gate is dropped with the cell gate.                 *)
DecideAnchor_NoColour(d) == d.inliers >= MinInliers /\ d.covered

(* What DecideVideo asks of the anchor frame: it does not read Matched.    *)
DecideAnchor(d) == d.inliers >= MinInliers /\ d.meanOK /\ d.covered

-----------------------------------------------------------------------------
(* Properties                                                              *)

(* Certify and verify cut a side into the same cells, every pixel in       *)
(* exactly one: no part of a picture escapes the colour check.             *)
CellsTile(side) ==
  \A x \in 0..(side - 1) : Cardinality({g \in Columns : x \in CellSpan(side, g)}) = 1

(* An image of at least Enough pixels a side, however elongated, that is   *)
(* still large enough for ORB once resized, covers enough of the grid to   *)
(* match itself.  Between MinFeatureDimension and that a certificate is    *)
(* made that no copy of the image, not even itself, can match by eye.      *)
CanMatchItself(w, h, Enough) ==
  LET rw == Resized(w, w, h)
      rh == Resized(h, w, h)
  IN  rw >= Enough /\ rh >= Enough /\ Extractable(rw, rh) =>
        100 * FullFrameCells(rw, rh) >= MinAreaCoverage * GridSize * GridSize

(* A copy that is brighter or darker by the same amount everywhere gets    *)
(* the verdict of one that is not.                                         *)
BrightnessIsInvisible(m, shift) ==
  LET brighter == [m EXCEPT !.deltas = [i \in DOMAIN @ |-> @[i] - shift]]
  IN  MatchPair(brighter) = MatchPair(m)

(* A comparison that could not be completed is no match for either         *)
(* verdict, although they read different fields of what is left in the     *)
(* decision; and a video's is the weaker of the two by the cell gate only. *)
IncompleteNeverMatches(m) ==
  LET d == MatchPair(m) IN
  /\ DecideAnchor(d) =>
       /\ m.keypoints >= 4 /\ m.good >= 8 /\ m.homography /\ m.invertible /\ m.deltas # <<>>
       /\ MeanWithin(CellDists(m.deltas), MaxColorMean)
  /\ Decide(d) <=> DecideAnchor(d) /\ MaxWithin(CellDists(m.deltas), MaxCellDist)
=============================================================================
