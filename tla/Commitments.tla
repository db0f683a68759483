----------------------------- MODULE Commitments -----------------------------
(***************************************************************************)
(* What a certificate and a capture bind: the digest a certificate anchors *)
(* (domain/feature_commitment.go, domain/video.go), the row it is rebuilt  *)
(* from (repository/postgres.go), the byte string a device signs           *)
(* (domain/capture.go) and the encodings stored inside them.               *)
(*                                                                         *)
(* SHA-256 is a free term.  A preimage is the sequence of what is written  *)
(* to the hash; every piece (a perceptual hash, a digest, the tag with its *)
(* header) is of fixed width, so that only the sequence matters.  Pieces   *)
(* of different kinds never fill the same place: the preimages of pictures *)
(* have 0, 32, 64 or 96 bytes, and those of videos 100.                    *)
(***************************************************************************)
EXTENDS Integers, Sequences

CONSTANTS
  HashBytes,   \* bytes of a perceptual hash
  IndexLimit,  \* 2^16: what a field of the video header holds
  WordLimit,   \* 2^32: what a word of a keypoint or the duration holds
  Nil          \* no value: a nil pointer, a NULL column

ASSUME WidthsAreRight ==
  /\ HashBytes \in Nat \ {0} /\ IndexLimit \in Nat \ {0}
  /\ WordLimit \in Nat \ {0} /\ WordLimit % 2 = 0

Sha256(x) == [digest |-> x]

-----------------------------------------------------------------------------
(* Encodings                                                               *)

(* The hashes one after another.                                           *)
EncodeFramePHashes(hashes) ==
  [i \in 1..(HashBytes * Len(hashes)) |->
     hashes[((i - 1) \div HashBytes) + 1][((i - 1) % HashBytes) + 1]]

(* A trailing part of a hash is dropped.                                   *)
DecodeFramePHashes(raw) ==
  [i \in 1..(Len(raw) \div HashBytes) |->
     [j \in 1..HashBytes |-> raw[(i - 1) * HashBytes + j]]]

(* A keypoint: the bits of its floats are kept, its integers are cut to a  *)
(* word; in OpenCV they are wider, and the class of an ORB keypoint is -1. *)
EncodeKeypoint(kp) ==
  <<kp.floats, kp.octave % WordLimit, kp.classID % WordLimit>>

(* Mutated: the word is not read as signed.                                *)
Signed_Never(word) == word

Signed(word) == IF 2 * word < WordLimit THEN word ELSE word - WordLimit

DecodeKeypoint(buf) ==
  [floats |-> buf[1], octave |-> Signed(buf[2]), classID |-> Signed(buf[3])]

-----------------------------------------------------------------------------
(* Commitments.  A signature has descriptors, keypoints and a grid.        *)

FeatureCommitment(phash, sig) ==
  Sha256((IF phash = Nil THEN <<>> ELSE <<[phash |-> phash]>>)
         \o (IF sig = Nil THEN <<>> ELSE <<Sha256(sig.descriptors), Sha256(sig.keypoints)>>))

(* The eight bytes after the tag; zero where there is no video.            *)
VideoHeader(v) ==
  IF v = Nil THEN <<0, 0, 0>>
  ELSE <<v.anchorIndex % IndexLimit, Len(v.framePHashes) % IndexLimit, v.durationMs % WordLimit>>

(* Mutated: the header is left out.                                        *)
VideoFeatureCommitment_NoHeader(phash, sig, v) ==
  Sha256(<<[video |-> 0], FeatureCommitment(phash, sig),
           Sha256(IF v = Nil THEN <<>> ELSE EncodeFramePHashes(v.framePHashes))>>)

VideoFeatureCommitment(phash, sig, v) ==
  Sha256(<<[video |-> VideoHeader(v)], FeatureCommitment(phash, sig),
           Sha256(IF v = Nil THEN <<>> ELSE EncodeFramePHashes(v.framePHashes))>>)

(* VideoSignature.Valid, of a signature whose fields fit their columns.    *)
ValidVideo(v) ==
  /\ v.anchorIndex \in 0..(Len(v.framePHashes) - 1) /\ Len(v.framePHashes) < IndexLimit
  /\ v.durationMs \in 0..(WordLimit - 1)

(* CertifyUseCase.Execute: an image that cannot be decoded has no          *)
(* perceptual hash, and then no signature either.                          *)
CertifyImage(phash, sig) ==
  LET signature == IF phash = Nil THEN Nil ELSE sig IN
  [kind |-> "image", phash |-> phash, signature |-> signature, video |-> Nil, durationMs |-> 0,
   commitment |-> FeatureCommitment(phash, signature)]

(* CertifyVideoUseCase.Execute: where the reduction failed (sig is Nil)    *)
(* nothing else about the video is kept.                                   *)
CertifyVideo(phash, sig, v) ==
  IF sig = Nil
  THEN [kind |-> "video", phash |-> Nil, signature |-> Nil, video |-> Nil, durationMs |-> 0,
        commitment |-> VideoFeatureCommitment(Nil, Nil, Nil)]
  ELSE [kind |-> "video", phash |-> phash, signature |-> sig, video |-> v,
        durationMs |-> v.durationMs, commitment |-> VideoFeatureCommitment(phash, sig, v)]

(* What anybody who holds the bundle recomputes.                           *)
Recommit(cert) ==
  IF cert.kind = "video" THEN VideoFeatureCommitment(cert.phash, cert.signature, cert.video)
  ELSE FeatureCommitment(cert.phash, cert.signature)

-----------------------------------------------------------------------------
(* The row                                                                 *)

(* Save; an empty byte string and NULL read back alike.                    *)
Row(cert) ==
  LET sig == IF cert.signature = Nil THEN [descriptors |-> <<>>, keypoints |-> <<>>, grid |-> <<>>]
             ELSE cert.signature
      hasFrames == cert.video # Nil
  IN  [mediaKind |-> cert.kind, phash |-> cert.phash, orbDescriptors |-> sig.descriptors,
       orbKeypoints |-> sig.keypoints, colorGrid |-> sig.grid,
       durationMs |-> IF cert.durationMs > 0 THEN cert.durationMs ELSE Nil,
       framePHashes |-> IF hasFrames THEN EncodeFramePHashes(cert.video.framePHashes) ELSE <<>>,
       anchorIndex |-> IF hasFrames THEN cert.video.anchorIndex ELSE Nil,
       commitment |-> cert.commitment]

OrZero(n) == IF n = Nil THEN 0 ELSE n

(* Mutated: the duration is read for the certificate only.                 *)
ScannedVideo_Timeless(row) ==
  LET frames == DecodeFramePHashes(row.framePHashes) IN
  IF frames = <<>> THEN Nil
  ELSE [framePHashes |-> frames, anchorIndex |-> OrZero(row.anchorIndex), durationMs |-> 0]

ScannedVideo(row) ==
  LET frames == DecodeFramePHashes(row.framePHashes) IN
  IF frames = <<>> THEN Nil
  ELSE [framePHashes |-> frames, anchorIndex |-> OrZero(row.anchorIndex),
        durationMs |-> OrZero(row.durationMs)]

(* scanCertificate                                                         *)
ScanCertificate(row) ==
  [kind |-> row.mediaKind, phash |-> row.phash,
   signature |-> IF row.orbDescriptors = <<>> /\ row.orbKeypoints = <<>> /\ row.colorGrid = <<>>
                 THEN Nil
                 ELSE [descriptors |-> row.orbDescriptors, keypoints |-> row.orbKeypoints,
                       grid |-> row.colorGrid],
   durationMs |-> OrZero(row.durationMs), commitment |-> row.commitment,
   video |-> ScannedVideo(row)]

-----------------------------------------------------------------------------
(* Signing.  A capture: the hash of the content and the nonce, the digits  *)
(* of the second's fraction, and three names the device chose.             *)

(* RFC3339Nano: zeros at the end of the fraction are not written.          *)
FormatTime(digits) ==
  LET last == CHOOSE n \in 0..Len(digits) :
                /\ \A i \in (n + 1)..Len(digits) : digits[i] = 0
                /\ n = 0 \/ digits[n] # 0
  IN  SubSeq(digits, 1, last)

(* Mutated: a separator stands between the fields instead.                 *)
Prefixed_Separated(field) == field \o <<0>>

(* A field and the length that comes before it.                            *)
Prefixed(field) == <<Len(field) % WordLimit>> \o field

CaptureSigningPayload(c) ==
  <<"aletheia-capture-v1">>
    \o Prefixed(c.contentHash) \o Prefixed(c.nonce) \o Prefixed(FormatTime(c.capturedAt))
    \o Prefixed(c.model) \o Prefixed(c.osVersion) \o Prefixed(c.appVersion)

(* SHA256withECDSA: a signature is valid for one key and one digest.       *)
Sign(key, payload) == [key |-> key, of |-> Sha256(payload)]
VerifyCaptureSignature(key, payload, sig) == sig = [key |-> key, of |-> Sha256(payload)]

-----------------------------------------------------------------------------
(* Properties                                                              *)

(* The part of a certificate that its commitment is about.                 *)
Bundle(cert) ==
  [phash |-> cert.phash, video |-> cert.video,
   signature |-> IF cert.signature = Nil THEN Nil
                 ELSE <<cert.signature.descriptors, cert.signature.keypoints>>]

(* Two bundles with one commitment are one bundle: no image passes for a   *)
(* video, no perceptual hash for a digest, and neither an anchor index nor *)
(* a duration nor the cut between two byte strings can be rewritten.       *)
CommitmentBinds(c, d) ==
  Recommit(c) = Recommit(d) => c.kind = d.kind /\ Bundle(c) = Bundle(d)

(* A certificate read back from its row still hashes to the commitment     *)
(* that was anchored for it.                                               *)
RowRecommits(cert) ==
  LET read == ScanCertificate(Row(cert)) IN
  /\ Recommit(read) = read.commitment
  /\ Bundle(read) = Bundle(cert) /\ read.durationMs = cert.durationMs

(* A keypoint comes back from the database as OpenCV made it.              *)
KeypointReadsBack(kp) == DecodeKeypoint(EncodeKeypoint(kp)) = kp

(* What one capture's signature verifies is that capture and no other,     *)
(* under no other key, whatever text the device put into its names.        *)
SignatureFixesCapture(c, d, keys) ==
  \A k, l \in keys :
    VerifyCaptureSignature(l, CaptureSigningPayload(d), Sign(k, CaptureSigningPayload(c)))
      => k = l /\ [d EXCEPT !.capturedAt = FormatTime(@)] = [c EXCEPT !.capturedAt = FormatTime(@)]
=============================================================================
