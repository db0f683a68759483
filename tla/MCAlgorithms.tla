---------------------------- MODULE MCAlgorithms ----------------------------
(***************************************************************************)
(* The parts of the service that only compute, each checked on every input *)
(* of an instance: the loop of MerkleBuild from every batch, or one        *)
(* subject of another algorithm while the loop rests.                      *)
(***************************************************************************)
EXTENDS MerkleBuild, VideoSampling, AttestationPolicy, FeatureMatch, Rlp, UploadGate, Transforms,
        Commitments, PerceptualHash

CONSTANTS
  MaxFrames,  \* bound: frames of a recording
  MaxLength,  \* bound: frames of a video whose samples are compared
  MaxSide,    \* bound: pixels of a side
  MaxDelta,   \* bound: steps of a cell's luminance
  DeltaStep,  \* what a step of luminance is worth
  ByteStrings,  \* byte strings that are encoded
  SidesTried,   \* sides of pictures that are transformed
  Enough        \* side from which a picture can match itself

ASSUME ByteStringsAssumption == ByteStrings \subseteq Seq(Byte)
ASSUME BoundsAreNumbers ==
  MaxFrames \in Nat /\ MaxLength \in Nat /\ MaxSide \in Nat /\ MaxDelta \in Nat /\ DeltaStep \in Nat
(* The rounding of the margins tells more in a smaller picture than the    *)
(* gates allow for; 63 is minFeatureDimension.                             *)
ASSUME SidesAreLarge == \A side \in SidesTried : side \in Nat /\ side >= 63
(* For MinAreaCoverage 42 of a grid of 8: 6 by 6 cells reach it, 5 by 5    *)
(* do not.  (83 of 128, where MinFeatureDimension is 63.)                  *)
ASSUME EnoughCovers ==
  Enough \in Nat \ {0} /\ 100 * Enough * Enough >= MinAreaCoverage * GridSize * GridSize

VARIABLE subject

NoSubject == [kind |-> "tree"]

-----------------------------------------------------------------------------
(* Videos *)

(* Sharp or not, and with nothing for ORB to find in a sharp one or not.   *)
Looks == {[sharp |-> 1, orb |-> TRUE], [sharp |-> 2, orb |-> TRUE], [sharp |-> 2, orb |-> FALSE]}
FrameSeqs == UNION {[1..n -> Looks] : n \in 0..MaxFrames}
Interruptions == {<<1, NoFrame>>, <<VideoFrameSamples, NoFrame>>, <<VideoFrameSamples, 1>>}
(* At 1500 frames a second one frame lasts no millisecond, and six last    *)
(* too long where MaxVideoDurationMs is 3.                                 *)
Rates == {0, 1500}
Videos == [kind : {"video"}, frames : FrameSeqs, header : 0..(MaxFrames + 2), fps : Rates]
Lengths == [kind : {"lengths"}, n : 1..MaxLength, m : 1..MaxLength]

Recorded == Recording(subject.frames, subject.header, subject.fps)
OfVideo(P(_)) == subject.kind = "video" => P(Recorded)

FrameAtFindsSample == OfVideo(FrameAtAgrees)
AnchorIsBest       == OfVideo(AnchorIsSharpest)
CountingIsRefused  == OfVideo(CountedFailsClosed)
OriginalsAreFound  == OfVideo(AdmittedMatchesItself)
NoMatLeaks ==
  subject.kind = "video" =>
    \A i \in Interruptions : MatsAreClosed(Recorded, i[1], i[2])
SamplesFollowTime ==
  subject.kind = "lengths" =>
    /\ SamplesAreMidpoints(subject.n)
    /\ RateChangeKeepsSlots(subject.n, subject.m)
DroppedTailsAgree ==
  subject.kind = "lengths" /\ VideoFrameSamples <= subject.m /\ subject.m <= subject.n =>
    DroppedTailAgrees(subject.n, subject.n - subject.m)

-----------------------------------------------------------------------------
(* Attestations *)

Element(tag, contents) == IF contents = Absent THEN <<>> ELSE <<[tag |-> tag, contents |-> contents]>>
SmallIntegers == {<<>>, <<0>>, <<1>>, <<2>>, <<0, 2>>, <<ByteBase - 1, 1>>, <<0, 0, 1>>}
AppIds == {Absent, Malformed,
           [packages |-> <<"other", "app">>, digests |-> {"mine"}],
           [packages |-> <<"lab">>, digests |-> {"mine"}],
           [packages |-> <<"app">>, digests |-> {"theirs"}]}
Boots == {Absent, Malformed} \cup [locked : {<<0>>, <<255>>, <<>>}, state : {<<0>>, <<1>>}]
TeeLists ==
  {Element("origin", o) \o Element("rootOfTrust", r) \o Element("application", i) :
     o \in {Absent, Malformed, <<0>>, <<1>>}, r \in Boots,
     i \in {Absent, [packages |-> <<"app">>, digests |-> {"mine"}]}}
TwoRoots ==
  {Element("origin", <<0>>) \o Element("rootOfTrust", r) \o Element("rootOfTrust", s) :
     r \in Boots \ {Absent}, s \in Boots \ {Absent}}

Genuine ==
  [chain |-> "pinned", ext |-> "present", challenge |-> "nonce", attestLevel |-> <<2>>,
   keyLevel |-> <<1>>, software |-> Element("application",
     [packages |-> <<"app">>, digests |-> {"mine"}]),
   tee |-> <<[tag |-> "origin", contents |-> <<0>>],
             [tag |-> "rootOfTrust", contents |-> [locked |-> <<255>>, state |-> <<0>>]]>>,
   key |-> "P-256"]

AtLevels ==
  {[Genuine EXCEPT !.attestLevel = l, !.keyLevel = k, !.key = e] :
     l \in SmallIntegers, k \in SmallIntegers, e \in {"P-256", "P-384", "RSA"}}
WithFields ==
  {[Genuine EXCEPT !.tee = t, !.software = Element("application", i)] :
     t \in TeeLists \cup TwoRoots, i \in AppIds}
FromChains ==
  {[Genuine EXCEPT !.chain = c, !.ext = e, !.challenge = n] :
     c \in {"pinned", "other", "empty"}, e \in {"present", "absent", "malformed"},
     n \in {"nonce", "another"}}
Attestations == AtLevels \cup WithFields \cup FromChains

Enrolments == [kind : {"attestation"}, by : Attestations]
IntegerBodies ==
  [kind : {"integer"}, bytes : UNION {[1..n -> 0..(ByteBase - 1)] : n \in 1..MaxWidth}]

Policies ==
  [packages : {{"app"}, {"app", "lab"}}, digests : {{"mine"}}, minLevel : {"tee", "strongbox"},
   allowUnverifiedBoot : BOOLEAN]
Environments ==
  [roots : {"", "pem", "unreadable"}, packages : {{}, {"app"}}, digests : {{}, {"mine"}, {"nothex"}},
   minLevel : {"", "software", "tee", "strongbox"},
   verifiedBoot : {"", "true", "yes", "FALSE", "0"}]
Enrolling == {env \in Environments :
                NewRegistryFromEnv(env).starts /\ NewRegistryFromEnv(env).platforms # {}}

IntegersReadRight == subject.kind = "integer" => IntegersAreTwosComplement(subject.bytes)
PolicyIsMonotone ==
  subject.kind = "attestation" =>
    \A p, q \in Policies : StricterAcceptsLess(p, q, subject.by, "nonce")
LevelsAreBorneOut ==
  subject.kind = "attestation" =>
    \A p \in Policies : LevelIsBorneOut(p, subject.by, "nonce")
NoPermissiveStart ==
  subject.kind = "attestation" =>
    \A env \in Enrolling : NeverPermissive(env, "android", subject.by, "nonce")

-----------------------------------------------------------------------------
(* Pictures *)

Sizes == [kind : {"size"}, w : 1..MaxSide, h : 1..MaxSide]
Deltas == UNION {[1..n -> {DeltaStep * d : d \in -MaxDelta..MaxDelta}] : n \in 0..3}
Comparisons ==
  [kind : {"pair"}, keypoints : {3, 4}, good : {7, 8}, homography : BOOLEAN,
   invertible : BOOLEAN, inliers : {MinInliers - 1, MinInliers}, deltas : Deltas, cells : {4}]

CellsPartition == subject.kind = "size" => CellsTile(subject.w)
SelfMatchPossible == subject.kind = "size" => CanMatchItself(subject.w, subject.h, Enough)
ExposureIsNeutral ==
  subject.kind = "pair" =>
    BrightnessIsInvisible(subject, DeltaStep)
(* Lightness of the cells of a picture that is brightened or darkened.     *)
Exposures ==
  [kind : {"exposure"}, cells : [1..4 -> {0, 20, 128, 230, 255}], pct : BrightnessRungs]

(* However much of it clips, a copy made brighter or darker by a rung that *)
(* is labelled a match stays below the gate against local edits, which is  *)
(* taken out of the same residual; and it matches as long as no more than  *)
(* a quarter of its cells clips.                                           *)
BrightnessRungsPass ==
  subject.kind = "exposure" =>
    LET l == subject.cells
        m == [keypoints |-> 4, good |-> 8, homography |-> TRUE, invertible |-> TRUE,
              inliers |-> MinInliers, cells |-> 4,
              deltas |-> [i \in 1..4 |-> l[i] - AdjustBrightness(l[i], subject.pct)]]
        clipped == {i \in 1..4 : AdjustBrightness(l[i], subject.pct) \in {0, 255}}
    IN  /\ MatchPair(m).maxOK
        /\ Cardinality(clipped) <= 1 => Decide(MatchPair(m))

Pictures == [kind : {"picture"}, w : 1..5, h : 1..5]
Coefficients == [kind : {"coefficients"}, values : [1..4 -> 0..4], brighter : 0..6]
AllDistinct(width, height) ==
  [w |-> width, h |-> height, px |-> [p \in Places(width, height) |-> p]]

OrientationsAreCovered ==
  subject.kind = "picture" => VariantsUndoTurns(AllDistinct(subject.w, subject.h))
SamplesInside == subject.kind = "picture" => SamplesLieInside(AllDistinct(subject.w, subject.h))
HashIsStable ==
  subject.kind = "coefficients" => HashIgnoresBrightness(subject.values, subject.brighter)

IncompleteIsNoMatch == subject.kind = "pair" => IncompleteNeverMatches(subject)

-----------------------------------------------------------------------------
(* Transactions, uploads and transforms *)

Strings(length, byte) == [i \in 1..length |-> byte]
AroundTheForms ==
  {Strings(l, b) : l \in {0, 1, 2, 55, 56, 57}, b \in {0, 1, 127, 128, 255}}
    \cup {Strings(255, 7), Strings(256, 7)}
Lists == [kind : {"list"}, strings : UNION {[1..k -> ByteStrings] : k \in 0..2}]
Integers256 == {0, 1, 127, 128, 255, 256, 65535, 65536, 16777216}
Transactions ==
  [kind : {"tx"}, nonce : Integers256, gasPrice : Integers256, gasLimit : {100000},
   to : {Strings(20, 9)}, data : {Strings(68, 0), Strings(68, 1)},
   chainID : {1, 46, 47, 137, 80002}, recovery : 0..1]

EncodingsReadBack ==
  /\ subject.kind = "list" => ReadsBack(subject.strings)
  /\ subject.kind = "tx" => TxReadsBack(subject, subject.recovery)

UploadsTried ==
  [kind : {"upload"}, declared : {"image/png", "video/mp4", "text/plain"},
   bytes : {"sniffed video", "ftyp", "other"}, size : 1..(MaxVideoUpload + 1), overhead : 0..1]

DecodersGuarded == subject.kind = "upload" => DecodersAreGuarded(subject)
KeysAdmitMore == subject.kind = "upload" => KeysOnlyAdmit(subject)

Canvases == [kind : {"canvas"}, w : SidesTried, h : SidesTried]

RegionsInside == subject.kind = "canvas" => RegionsLieInside(subject.w, subject.h)
LabelsFollowGate == subject.kind = "canvas" => LabelsFollowCoverage(subject.w, subject.h)

Scalings == [kind : {"scaling"}, w : SidesTried \cup {1, 192, 480}, h : SidesTried \cup {1, 192, 480}]
Hues == [kind : {"hue"}, hue : 0..179]

ScalingKeepsFeatures ==
  subject.kind = "scaling" => ScaledStaysExtractable(subject.w, subject.h)
HuesTurn == subject.kind = "hue" => HuesTurnAsLabelled(subject.hue)

-----------------------------------------------------------------------------
(* What is bound                                                           *)

TwoHashes == {[i \in 1..HashBytes |-> 0], [i \in 1..HashBytes |-> IF i = 1 THEN 0 ELSE 1]}
Signatures == [descriptors : {<<1>>, <<1, 1>>}, keypoints : {<<1>>, <<1, 1>>}, grid : {<<9>>}]
VideoSignatures ==
  {v \in [framePHashes : UNION {[1..n -> TwoHashes] : n \in 1..(IndexLimit - 1)},
          anchorIndex : 0..(IndexLimit - 2), durationMs : {1, WordLimit - 1}] : ValidVideo(v)}

Certificates ==
  {CertifyImage(p, s) : p \in TwoHashes \cup {Nil}, s \in Signatures \cup {Nil}}
    \cup {CertifyVideo(p, s, v) : p \in TwoHashes, s \in Signatures \cup {Nil}, v \in VideoSignatures}
Bundles == [kind : {"bundle"}, cert : Certificates]
Keypoints ==
  [kind : {"keypoint"},
   kp : [floats : {"floats"}, octave : 0..(WordLimit \div 2 - 1), classID : {-1, 0, 1}]]

Names == {<<>>, <<0>>, <<1>>, <<0, 0>>}
SignedCaptures ==
  [contentHash : {<<1, 1>>}, nonce : {<<1, 0>>, <<1, 1>>}, capturedAt : {<<0, 0>>, <<1, 0>>, <<1, 1>>},
   model : Names, osVersion : Names, appVersion : Names]
Captured == [kind : {"capture"}, capture : SignedCaptures]

CommitmentsBind ==
  subject.kind = "bundle" => \A d \in Certificates : CommitmentBinds(subject.cert, d)
RowsRecommit == subject.kind = "bundle" => RowRecommits(subject.cert)
KeypointsReadBack == subject.kind = "keypoint" => KeypointReadsBack(subject.kp)
SignaturesFixCaptures ==
  subject.kind = "capture" =>
    \A d \in SignedCaptures : SignatureFixesCapture(subject.capture, d, {"device", "other"})

-----------------------------------------------------------------------------
NoLoop == leaves = [i \in 1..2 |-> CHOOSE x \in Contents : TRUE] /\ tree = MerkleStart(leaves)
NoAlgorithm == NoLoop /\ subject = [kind |-> "none"]

AlgorithmsInit ==
  \/ BuildInit /\ subject = NoSubject
  \/ /\ NoLoop
     /\ \/ subject \in Videos \/ subject \in Lengths
        \/ subject \in Enrolments \/ subject \in IntegerBodies
        \/ subject \in Sizes \/ subject \in Comparisons
        \/ subject \in Lists \/ subject \in Transactions
        \/ subject \in UploadsTried \/ subject \in Canvases
        \/ subject \in Exposures \/ subject \in Pictures \/ subject \in Coefficients
        \/ subject \in Scalings \/ subject \in Hues
        \/ subject \in Bundles \/ subject \in Keypoints \/ subject \in Captured

algorithmVars == <<buildVars, subject>>
AlgorithmsNext == subject = NoSubject /\ Reduce /\ UNCHANGED subject
AlgorithmsSpec == AlgorithmsInit /\ [][AlgorithmsNext]_algorithmVars
AlgorithmsFairness == WF_algorithmVars(AlgorithmsNext)

(***************************************************************************)
(* The properties, by what they are about; their parts are stated where    *)
(* the operators are, or above.                                            *)
(***************************************************************************)

(* At every turn of the loop each proof reaches its node, no proof reaches *)
(* another leaf, and a root has one batch: a certificate is proved by its  *)
(* own leaf and by no other.                                               *)
MerkleIsRight == ProofsReachLevel /\ ProofsAreExclusive /\ RootFixesLeaves

(* The frames certify keeps are the ones verify compares, whatever the     *)
(* header says, at the instants the slots stand for; the anchor is the     *)
(* same for both; an admitted video is found again by itself, and one      *)
(* without a frame count is not admitted; a shorter copy still agrees; no  *)
(* picture is left open.                                                   *)
SamplingIsFaithful ==
  /\ FrameAtFindsSample /\ AnchorIsBest /\ CountingIsRefused /\ OriginalsAreFound
  /\ NoMatLeaks /\ SamplesFollowTime /\ DroppedTailsAgree

(* A device is enrolled at the level its hardware bore out, under the      *)
(* policy the operator meant, and no stricter policy would enrol more.     *)
AttestationIsSound ==
  /\ IntegersReadRight /\ PolicyIsMonotone /\ LevelsAreBorneOut /\ NoPermissiveStart

(* Certify and verify see one picture: cut into the same cells, turned     *)
(* back by one of four variants, indifferent to brightness, large enough   *)
(* to match itself; and what could not be compared is no match.            *)
MatchingIsSound ==
  /\ CellsPartition /\ SelfMatchPossible /\ ExposureIsNeutral /\ IncompleteIsNoMatch
  /\ OrientationsAreCovered /\ SamplesInside /\ HashIsStable

(* The labels by which the matcher is judged agree with its gates.         *)
LabelsAreRight ==
  /\ RegionsInside /\ LabelsFollowGate /\ ScalingKeepsFeatures /\ HuesTurn /\ BrightnessRungsPass

(* What is encoded reads back as it was, and what is signed or committed   *)
(* to is fixed by the signature or the commitment.                         *)
EncodingsBind ==
  /\ EncodingsReadBack /\ CommitmentsBind /\ RowsRecommit /\ KeypointsReadBack
  /\ SignaturesFixCaptures

(* No decoder is handed more than the ceiling of its kind of media, and a  *)
(* key admits at least what may be sent without one.                       *)
UploadsAreGuarded == DecodersGuarded /\ KeysAdmitMore

(* The loop of MerkleBuild ends, from every batch.                         *)
TreesAreBuilt == subject = NoSubject => LoopBuildsTree
=============================================================================
