---------------------------- MODULE PerceptualHash ----------------------------
(***************************************************************************)
(* The perceptual hash of a picture and of its four orientations           *)
(* (internal/domain/perceptual_hash.go), and the turns the test images are *)
(* given (rotateImage of internal/dataset/transform/builders.go).          *)
(*                                                                         *)
(* A picture is a width, a height and a pixel for every x and y.  The      *)
(* cosine transform is left out: the hash is over its coefficients, the    *)
(* first of which is the brightness of the picture.                        *)
(***************************************************************************)
EXTENDS Ranks, Functions

CONSTANTS HashSize  \* pixels along a side of what is transformed

ASSUME SomeHashSize == HashSize \in Nat \ {0}

Places(width, height) == (0..(width - 1)) \X (0..(height - 1))

-----------------------------------------------------------------------------
(* Orientations.  The loops send pixel (x, y) to a place in the turned     *)
(* picture; what stands at a place is read here.                           *)

Rotate90(img) ==
  [w |-> img.h, h |-> img.w,
   px |-> [p \in Places(img.h, img.w) |-> img.px[<<p[2], img.h - 1 - p[1]>>]]]

Rotate180(img) ==
  [w |-> img.w, h |-> img.h,
   px |-> [p \in Places(img.w, img.h) |-> img.px[<<img.w - 1 - p[1], img.h - 1 - p[2]>>]]]

(* Mutated: pixel (x, y) is sent to (y, x).                                *)
Rotate270_Mirrored(img) ==
  [w |-> img.h, h |-> img.w,
   px |-> [p \in Places(img.h, img.w) |-> img.px[<<p[2], p[1]>>]]]

(* Pixel (x, y) is sent to (y, w - 1 - x).                                 *)
Rotate270(img) ==
  [w |-> img.h, h |-> img.w,
   px |-> [p \in Places(img.h, img.w) |-> img.px[<<img.w - 1 - p[2], p[1]>>]]]

(* PHash256Variants, before hashing; PHash256 takes the first.             *)
Variants(img) == <<img, Rotate90(img), Rotate180(img), Rotate270(img)>>

-----------------------------------------------------------------------------
(* Turns of the test images, as OpenCV makes them                          *)

Transpose(img) ==
  [w |-> img.h, h |-> img.w,
   px |-> [p \in Places(img.h, img.w) |-> img.px[<<p[2], p[1]>>]]]
FlipColumns(img) ==
  [w |-> img.w, h |-> img.h,
   px |-> [p \in Places(img.w, img.h) |-> img.px[<<img.w - 1 - p[1], p[2]>>]]]
FlipRows(img) ==
  [w |-> img.w, h |-> img.h,
   px |-> [p \in Places(img.w, img.h) |-> img.px[<<p[1], img.h - 1 - p[2]>>]]]

(* rotateImage: by a quarter, a half or three quarters, clockwise.         *)
RotateImage(img, deg) ==
  CASE deg = 90  -> FlipColumns(Transpose(img))
    [] deg = 180 -> FlipRows(FlipColumns(img))
    [] deg = 270 -> FlipRows(Transpose(img))

-----------------------------------------------------------------------------
(* The hash                                                                *)

(* Mutated: the last sample is taken at the far edge.                      *)
SampleAt_Edge(i, side) == (i * side) \div (HashSize - 1)

(* Where the i-th sample of a side is taken.                               *)
SampleAt(i, side) == (i * side) \div HashSize

(* resizeAndGrayscale takes samples; it does not average.                  *)
Sampled(img) ==
  [w |-> HashSize, h |-> HashSize,
   px |-> [p \in Places(HashSize, HashSize) |->
             img.px[<<SampleAt(p[1], img.w), SampleAt(p[2], img.h)>>]]]

(* Mutated: the mean.                                                      *)
TwiceMedianFloat64_Mean(nums) == (2 * FoldFunction(+, 0, nums)) \div Len(nums)

(* medianFloat64, doubled so that it stays an integer.                     *)
TwiceMedianFloat64(nums) ==
  LET middle == Len(nums) \div 2
  IN  IF Len(nums) % 2 = 1 THEN 2 * Ranked(nums, middle + 1)
      ELSE Ranked(nums, middle) + Ranked(nums, middle + 1)

(* pHashFromImage: a bit for every coefficient above the median.           *)
HashBits(values) == {i \in DOMAIN values : 2 * values[i] > TwiceMedianFloat64(values)}

-----------------------------------------------------------------------------
(* Properties                                                              *)

(* However a picture is turned before it is uploaded, one of the variants  *)
(* the upload is looked up by is the picture that was certified, pixel for *)
(* pixel; and the four are all there is to try.                            *)
VariantsUndoTurns(img) ==
  \A deg \in {90, 180, 270} :
    /\ \E v \in 1..4 : Variants(RotateImage(img, deg))[v] = img
    /\ \A v \in 1..4 : \E u \in 1..4 :
         Variants(RotateImage(img, deg))[v] = Variants(img)[u]

(* Every sample lies in the picture, also in one with fewer pixels than    *)
(* samples, and samples that are apart in the hash are in order.           *)
SamplesLieInside(img) ==
  /\ \A i \in 0..(HashSize - 1) : SampleAt(i, img.w) < img.w /\ SampleAt(i, img.h) < img.h
  /\ \A p, q \in DOMAIN Sampled(img).px :
       p[1] <= q[1] /\ p[2] <= q[2] =>
         Sampled(img).px[p][1] <= Sampled(img).px[q][1] /\ Sampled(img).px[p][2] <= Sampled(img).px[q][2]

(* A picture made brighter or darker all over, which moves the first       *)
(* coefficient alone, keeps its hash as long as that coefficient stays the *)
(* largest; and no hash has more than half its bits set.                   *)
HashIgnoresBrightness(values, brighter) ==
  LET Largest(v) == \A i \in DOMAIN values : i > 1 => values[i] < v
  IN  /\ Largest(values[1]) /\ Largest(brighter) =>
           HashBits([values EXCEPT ![1] = brighter]) = HashBits(values)
      /\ 2 * Cardinality(HashBits(values)) <= Len(values)
=============================================================================
