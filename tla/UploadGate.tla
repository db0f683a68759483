----------------------------- MODULE UploadGate -----------------------------
(***************************************************************************)
(* parseMediaUpload (internal/handler/upload.go): which file a route lets  *)
(* in, and to which pipeline.                                              *)
(*                                                                         *)
(* An upload: declared, the content type of its part; bytes, what its      *)
(* leading bytes are; size, of the file; overhead, of the multipart form   *)
(* around it.                                                              *)
(***************************************************************************)
EXTENDS Integers

CONSTANTS
  MaxImageUpload, MaxVideoUpload, MaxAnonymousVideoUpload  \* in any one unit

ASSUME CeilingsAssumption ==
  /\ MaxImageUpload \in Nat \ {0} /\ MaxVideoUpload \in Nat \ {0}
  /\ MaxAnonymousVideoUpload \in 1..MaxVideoUpload

ImageTypes == {"image/jpeg", "image/png", "image/gif", "image/webp", "image/bmp", "image/tiff"}
VideoTypes ==
  {"video/mp4", "video/quicktime", "video/webm", "video/x-matroska", "video/x-msvideo",
   "video/avi", "video/mpeg", "video/3gpp"}

Limits(image, video) == [image |-> image, video |-> video]
ImageOnlyLimits == Limits(MaxImageUpload, 0)
AttestedLimits == Limits(MaxImageUpload, MaxVideoUpload)

(* Mutated: the tiers are swapped.                                         *)
VerifyLimits_Swapped(authenticated) ==
  Limits(MaxImageUpload, IF authenticated THEN MaxAnonymousVideoUpload ELSE MaxVideoUpload)

VerifyLimits(authenticated) ==
  Limits(MaxImageUpload, IF authenticated THEN MaxVideoUpload ELSE MaxAnonymousVideoUpload)

Ceiling(limits) == IF limits.video > limits.image THEN limits.video ELSE limits.image

(* Mutated: the reader's ceiling is enough.                                *)
WithinLimit_Outer(size, limit) == TRUE

(* The reader's ceiling is the larger of the two; this one is the kind's.  *)
WithinLimit(size, limit) == limit <= 0 \/ size <= limit

(* looksLikeVideo: what DetectContentType knows for a video, or an ftyp    *)
(* box where ISO media have it.                                            *)
LooksLikeVideo(bytes) == bytes \in {"sniffed video", "ftyp"}

(* Rejected with a status, or accepted as a kind.                          *)
Parse(limits, u) ==
  IF u.size + u.overhead > Ceiling(limits) THEN "400"
  ELSE IF u.declared \in ImageTypes
       THEN IF WithinLimit(u.size, limits.image) THEN "image" ELSE "413"
  ELSE IF u.declared \notin VideoTypes \/ limits.video <= 0 THEN "415"
  ELSE IF ~ WithinLimit(u.size, limits.video) THEN "413"
  ELSE IF ~ LooksLikeVideo(u.bytes) THEN "415"
  ELSE "video"

-----------------------------------------------------------------------------
(* Properties *)

Accepted(answer) == answer \in {"image", "video"}

(***************************************************************************)
(* Each decoder gets what is meant for it and no more than its ceiling:    *)
(* libavcodec only what claims to be a video and looks like one, and only  *)
(* on routes that take videos; the image decoder never a file of the size  *)
(* that the same route admits for videos.                                  *)
(***************************************************************************)
DecodersAreGuarded(u) ==
  \A limits \in {ImageOnlyLimits, AttestedLimits, VerifyLimits(TRUE), VerifyLimits(FALSE)} :
    LET answer == Parse(limits, u) IN
    /\ answer = "video" =>
         /\ limits # ImageOnlyLimits
         /\ u.declared \in VideoTypes /\ LooksLikeVideo(u.bytes) /\ u.size <= limits.video
    /\ answer = "image" => u.size <= MaxImageUpload

(* Whatever is let in without a key is let in with one, to the same        *)
(* pipeline; what may be certified may be verified by whoever certified.   *)
KeysOnlyAdmit(u) ==
  /\ Accepted(Parse(VerifyLimits(FALSE), u)) =>
       Parse(VerifyLimits(TRUE), u) = Parse(VerifyLimits(FALSE), u)
  /\ Accepted(Parse(AttestedLimits, u)) =>
       Parse(VerifyLimits(TRUE), u) = Parse(AttestedLimits, u)
=============================================================================
