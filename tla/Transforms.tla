----------------------------- MODULE Transforms -----------------------------
(***************************************************************************)
(* The transforms of the test images that change their geometry, and the   *)
(* labels the taxonomy gives them (internal/dataset/transform: builders.go *)
(* and registry.go).  A rectangle is the pixels x0..x1-1 by y0..y1-1.      *)
(* Fractions are per cent, and int() of a product rounds down; that a      *)
(* binary fraction may lie just below a decimal one is left out.           *)
(***************************************************************************)
EXTENDS Integers, FiniteSets

CONSTANTS
  MinCoverage,   \* MinAreaCoverage, per cent
  MinDimension   \* minFeatureDimension

ASSUME MinCoverageAssumption == MinCoverage \in 0..100
ASSUME MinDimensionAssumption == MinDimension \in Nat \ {0}

Part(side, percent) == (side * percent) \div 100
Rect(x0, y0, x1, y1) == [x0 |-> x0, y0 |-> y0, x1 |-> x1, y1 |-> y1]

-----------------------------------------------------------------------------
(* Builders *)

(* Mutated: the margin is taken from one side.                             *)
CropBorder_OneSide(w, h, margin) == Rect(Part(w, margin), Part(h, margin), w, h)

(* cropBorder: the margin is taken from both sides.                        *)
CropBorder(w, h, margin) ==
  Rect(Part(w, margin), Part(h, margin), w - Part(w, margin), h - Part(h, margin))

(* heavyCrop: keep is what is left of each side.                           *)
HeavyCrop(w, h, keep) ==
  LET x0 == (w - Part(w, keep)) \div 2
      y0 == (h - Part(h, keep)) \div 2
  IN  Rect(x0, y0, x0 + Part(w, keep), y0 + Part(h, keep))

(* The least side of a square of that area; a loop that counts up.         *)
SideOf(area) == CHOOSE s \in 1..(area + 1) : s * s >= area /\ (s = 1 \/ (s - 1) * (s - 1) < area)

(* Mutated: the square may be as large as the picture.                     *)
SquareSide_Uncapped(w, h, percent) == SideOf(Part(w * h, percent))

(* The square that overlayRectangle and localizedRecolor paint: of a share *)
(* of the area, but no more than half a side.                              *)
SquareSide(w, h, percent) ==
  LET wanted == SideOf(Part(w * h, percent))
      half == IF w < h THEN w \div 2 ELSE h \div 2
  IN  IF wanted > half THEN half ELSE wanted

SquareAt(w, h, percent, corner) ==
  LET s == SquareSide(w, h, percent)
      x0 == Part(w, corner)
      y0 == Part(h, corner)
  IN  Rect(x0, y0, x0 + s, y0 + s)

LocalizedRecolor(w, h) == SquareAt(w, h, 10, 30)
OverlayRectangle(w, h, percent) == SquareAt(w, h, percent, 5)

Floored(n, bound) == IF n < bound THEN bound ELSE n
Long(w, h) == IF h > w THEN h ELSE w
Sized(w, h) == [w |-> w, h |-> h]

(* Mutated: the long side is looked for among the columns.                 *)
Capped_Columns(w, h, cap) ==
  IF w <= cap THEN Sized(w, h) ELSE Sized((w * cap) \div w, (h * cap) \div w)

(* Both sides in the ratio that brings the long one down to the cap.       *)
Capped(w, h, cap) ==
  IF Long(w, h) <= cap THEN Sized(w, h)
  ELSE Sized((w * cap) \div Long(w, h), (h * cap) \div Long(w, h))

(* rescale: a negative scale is a cap; no side is left without a pixel.    *)
Rescale(w, h, scale) ==
  LET to == IF scale < 0 THEN Capped(w, h, -scale) ELSE Sized(Part(w, scale), Part(h, scale))
  IN  Sized(Floored(to.w, 1), Floored(to.h, 1))

(* whatsappLike: a cap, without that guard.                                *)
WhatsappLike(w, h, cap) == Capped(w, h, cap)

(* What 8 bits hold of a sum.                                              *)
Saturated(n) == IF n < 0 THEN 0 ELSE IF n > 255 THEN 255 ELSE n

(* Mutated: a share of the lightness itself is added.                      *)
AdjustBrightness_Gain(l, pct) == Saturated(l + (l * pct) \div 100)

(* adjustBrightness: a share of the range, to the nearest unit, is added   *)
(* to the lightness of every pixel; colour is left alone.                  *)
AdjustBrightness(l, pct) == Saturated(l + (2 * 255 * pct + 100) \div 200)

(* Mutated: a degree is a unit.                                            *)
HueShift_Degrees(hue, deg) == Saturated(hue + deg) % 180

(* hueShift: a unit is two degrees, and OpenCV takes what it gets modulo a *)
(* turn, but not before 8 bits have held it.                               *)
HueShift(hue, deg) == Saturated(hue + deg \div 2) % 180

-----------------------------------------------------------------------------
(* Registry *)

(* The label names what is removed of each side, Params what is kept.      *)
HeavyCropEntry(percent, expect) ==
  [family |-> "heavy_crop", percent |-> 100 - percent, expect |-> expect]

CropEntry(percent, expect) == [family |-> "crop_border", percent |-> percent, expect |-> expect]

(* The rungs of both families.                                             *)
CropRungs ==
  {CropEntry(5, TRUE), CropEntry(10, TRUE), CropEntry(15, TRUE), CropEntry(20, FALSE),
   HeavyCropEntry(40, FALSE), HeavyCropEntry(50, FALSE), HeavyCropEntry(60, FALSE)}

DownscaleEntry(scale, expect) == [family |-> "downscale", scale |-> scale, expect |-> expect]
UpscaleEntry(scale, expect) == [family |-> "upscale", scale |-> scale, expect |-> expect]
WhatsappEntry(cap, expect) == [family |-> "whatsapp_like", scale |-> -cap, expect |-> expect]

ScaleRungs ==
  {DownscaleEntry(75, TRUE), DownscaleEntry(50, TRUE), DownscaleEntry(33, TRUE),
   DownscaleEntry(-256, TRUE), DownscaleEntry(-160, TRUE),
   UpscaleEntry(150, TRUE), UpscaleEntry(200, TRUE), WhatsappEntry(960, TRUE)}

BrightnessRungs == {5, -5, 10, -10}
HueRungs == {30, 60, 120, 180}

Scaled(rung, w, h) ==
  IF rung.family = "whatsapp_like" THEN WhatsappLike(w, h, -rung.scale)
  ELSE Rescale(w, h, rung.scale)

(* BuilderFor.                                                             *)
Kept(rung, w, h) ==
  IF rung.family = "crop_border" THEN CropBorder(w, h, rung.percent)
  ELSE HeavyCrop(w, h, rung.percent)

-----------------------------------------------------------------------------
(* Properties *)

Area(r) == (r.x1 - r.x0) * (r.y1 - r.y0)
Inside(r, w, h) == 0 <= r.x0 /\ r.x0 < r.x1 /\ r.x1 <= w /\ 0 <= r.y0 /\ r.y0 < r.y1 /\ r.y1 <= h

(* Every region that is cut or painted has pixels and lies in the picture; *)
(* OpenCV aborts the generator otherwise.                                  *)
RegionsLieInside(w, h) ==
  /\ \A rung \in CropRungs : Inside(Kept(rung, w, h), w, h)
  /\ Inside(LocalizedRecolor(w, h), w, h)
  /\ \A percent \in {10, 15, 20, 30} : Inside(OverlayRectangle(w, h, percent), w, h)

(* A cropped picture is expected to match exactly where what is left of    *)
(* the original reaches the coverage gate, whatever its size: the labels   *)
(* by which the matcher is judged contradict none of its thresholds.       *)
LabelsFollowCoverage(w, h) ==
  \A rung \in CropRungs :
    rung.expect <=> 100 * Area(Kept(rung, w, h)) >= MinCoverage * w * h

(* A picture no longer than five to two that the smallest rung, a third    *)
(* less rounding (62 pixels of 190), leaves large enough for the extractor *)
(* is so after every change of size that is labelled a match; a cap leaves *)
(* no side above it; and nothing is scaled away, except by whatsappLike a  *)
(* picture whose long side is more than the cap times the other.           *)
ScaledStaysExtractable(w, h) ==
  \A rung \in ScaleRungs :
    LET to == Scaled(rung, w, h)
        short == IF w < h THEN w ELSE h
    IN
    /\ to.w > 0 /\ to.h > 0 <=>
         rung.family # "whatsapp_like" \/ Long(w, h) <= -rung.scale * short
    /\ rung.scale < 0 => Long(to.w, to.h) <= -rung.scale
    /\ /\ rung.expect /\ Part(w, 33) >= MinDimension /\ Part(h, 33) >= MinDimension
       /\ 2 * w <= 5 * h /\ 2 * h <= 5 * w
       => to.w >= MinDimension /\ to.h >= MinDimension

(* A shift of the hue turns every hue by the degrees of its label, and no  *)
(* two colours into one; by a half turn, only the hues that stay in 8 bits *)
(* when it is added.                                                       *)
HuesTurnAsLabelled(hue) ==
  \A deg \in HueRungs :
    LET turned == (HueShift(hue, deg) - hue - deg \div 2) % 180 = 0
    IN  turned <=> deg < 180 \/ hue <= 165
=============================================================================
