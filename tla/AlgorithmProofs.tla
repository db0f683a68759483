-------------------------- MODULE AlgorithmProofs ---------------------------
(***************************************************************************)
(* What the computing parts do, for every value of the constants: a        *)
(* commitment binds what it covers and encodings read back, a policy       *)
(* enrols no more than a laxer one, no decoder is handed too much, and a   *)
(* Merkle root has one batch.                                              *)
(***************************************************************************)
EXTENDS MCAlgorithms, MerkleTheorems, FiniteSetTheorems, SequenceTheorems, TLAPS

Hashes == [1..HashBytes -> Nat]

-----------------------------------------------------------------------------
(* Arithmetic                                                              *)

LEMMA DivisionIsExact ==
  ASSUME NEW b \in Nat \ {0}, NEW q \in Nat, NEW r \in 0..(b - 1)
  PROVE  (b * q + r) \div b = q /\ (b * q + r) % b = r
OBVIOUS

LEMMA SmallRemainder ==
  ASSUME NEW b \in Nat \ {0}, NEW r \in 0..(b - 1)
  PROVE  r % b = r
OBVIOUS

LEMMA ByteIsInside ==
  ASSUME NEW b \in Nat \ {0}, NEW n \in Nat, NEW i \in 1..n, NEW j \in 1..b
  PROVE  (i - 1) * b + j \in 1..(b * n)
OBVIOUS

-----------------------------------------------------------------------------
(* Encodings                                                               *)

(* The hashes of a video come back from the column they are flattened to,  *)
(* whatever their number: no two lists are stored as one byte string.      *)
THEOREM FramePHashesReadBack ==
  \A hashes \in Seq(Hashes) : DecodeFramePHashes(EncodeFramePHashes(hashes)) = hashes
<1> SUFFICES ASSUME NEW hashes \in Seq(Hashes)
             PROVE  DecodeFramePHashes(EncodeFramePHashes(hashes)) = hashes
  OBVIOUS
<1> DEFINE n == Len(hashes)
           raw == EncodeFramePHashes(hashes)
<1>1. n \in Nat /\ hashes \in [1..n -> Hashes] /\ HashBytes \in Nat \ {0}
  BY WidthsAreRight
<1>2. HashBytes * n \in Nat
  BY <1>1
<1>3. raw = [i \in 1..(HashBytes * n) |->
               hashes[((i - 1) \div HashBytes) + 1][((i - 1) % HashBytes) + 1]]
  BY DEF EncodeFramePHashes
<1> HIDE DEF n, raw
<1>4. Len(raw) = HashBytes * n
  BY <1>2, <1>3
<1>5. Len(raw) \div HashBytes = n
  <2>1. (HashBytes * n + 0) \div HashBytes = n
    BY <1>1, DivisionIsExact
  <2> QED
    BY <1>2, <1>4, <2>1
<1>6. ASSUME NEW i \in 1..n, NEW j \in 1..HashBytes
      PROVE  raw[(i - 1) * HashBytes + j] = hashes[i][j]
  <2> DEFINE p == (i - 1) * HashBytes + j
  <2>1. p \in 1..(HashBytes * n)
    BY <1>1, ByteIsInside
  <2>2. p - 1 = HashBytes * (i - 1) + (j - 1)
    BY <1>1
  <2>3. i - 1 \in Nat /\ j - 1 \in 0..(HashBytes - 1)
    BY <1>1
  <2>4. (p - 1) \div HashBytes = i - 1 /\ (p - 1) % HashBytes = j - 1
    BY <1>1, <2>2, <2>3, DivisionIsExact
  <2> HIDE DEF p
  <2>5. raw[p] = hashes[((p - 1) \div HashBytes) + 1][((p - 1) % HashBytes) + 1]
    BY <1>3, <2>1
  <2>6. (i - 1) + 1 = i /\ (j - 1) + 1 = j
    BY <1>1
  <2>7. raw[p] = hashes[i][j]
    BY <2>4, <2>5, <2>6
  <2> QED
    BY <2>7 DEF p
<1>7. \A i \in 1..n : hashes[i] = [j \in 1..HashBytes |-> raw[(i - 1) * HashBytes + j]]
  BY <1>1, <1>6 DEF Hashes
<1>8. hashes = [i \in 1..n |-> hashes[i]]
  BY <1>1
<1>9. DecodeFramePHashes(raw)
        = [i \in 1..n |-> [j \in 1..HashBytes |-> raw[(i - 1) * HashBytes + j]]]
  BY <1>5 DEF DecodeFramePHashes
<1>10. DecodeFramePHashes(raw) = hashes
  BY <1>7, <1>8, <1>9
<1> QED
  BY <1>10 DEF raw

(* A keypoint's integers come back signed as they were.                    *)
THEOREM KeypointIntegersReadBack ==
  ASSUME NEW floats, NEW half \in Nat, WordLimit = 2 * half,
         NEW octave \in (-half)..(half - 1), NEW classID \in (-half)..(half - 1)
  PROVE  KeypointReadsBack([floats |-> floats, octave |-> octave, classID |-> classID])
<1>1. ASSUME NEW x \in (-half)..(half - 1) PROVE Signed(x % WordLimit) = x
  <2>1. CASE x >= 0
    <3>1. x % WordLimit = x
      BY <2>1, SmallRemainder, WidthsAreRight
    <3> QED
      BY <2>1, <3>1 DEF Signed
  <2>2. CASE x < 0
    <3>1. x % WordLimit = x + WordLimit
      BY <2>2, WidthsAreRight
    <3> QED
      BY <2>2, <3>1 DEF Signed
  <2> QED
    BY <2>1, <2>2
<1> QED
  BY <1>1 DEF KeypointReadsBack, EncodeKeypoint, DecodeKeypoint

-----------------------------------------------------------------------------
(* Commitments                                                             *)

(* A digest stands for what was hashed, and pieces of two kinds differ.    *)
LEMMA DigestsAreTerms ==
  ASSUME NEW x, NEW y
  PROVE  /\ Sha256(x) = Sha256(y) => x = y
         /\ [phash |-> x] = [phash |-> y] => x = y
         /\ [video |-> x] = [video |-> y] => x = y
         /\ [phash |-> x] # Sha256(y)
         /\ [video |-> x] # Sha256(y)
         /\ [video |-> x] # [phash |-> y]
<1>1. Sha256(x).digest = x /\ Sha256(y).digest = y
  BY DEF Sha256
<1>2. [phash |-> x].phash = x /\ [phash |-> y].phash = y
  OBVIOUS
<1>3. [video |-> x].video = x /\ [video |-> y].video = y
  OBVIOUS
<1>4. [phash |-> x] # Sha256(y)
  <2>1. DOMAIN [phash |-> x] = {"phash"} /\ DOMAIN Sha256(y) = {"digest"}
    BY DEF Sha256
  <2> QED
    BY <2>1
<1>5. [video |-> x] # Sha256(y)
  <2>1. DOMAIN [video |-> x] = {"video"} /\ DOMAIN Sha256(y) = {"digest"}
    BY DEF Sha256
  <2> QED
    BY <2>1
<1>6. [video |-> x] # [phash |-> y]
  <2>1. DOMAIN [video |-> x] = {"video"} /\ DOMAIN [phash |-> y] = {"phash"}
    OBVIOUS
  <2> QED
    BY <2>1
<1> QED
  BY <1>1, <1>2, <1>3, <1>4, <1>5, <1>6

(* What is written for a hash and a signature, by which of them there are. *)
Pieces(phash, sig) ==
  CASE phash = Nil /\ sig = Nil -> <<>>
    [] phash = Nil /\ sig # Nil -> <<Sha256(sig.descriptors), Sha256(sig.keypoints)>>
    [] phash # Nil /\ sig = Nil -> <<[phash |-> phash]>>
    [] phash # Nil /\ sig # Nil ->
         <<[phash |-> phash], Sha256(sig.descriptors), Sha256(sig.keypoints)>>

LEMMA PiecesOfCommitment ==
  ASSUME NEW phash, NEW sig
  PROVE  FeatureCommitment(phash, sig) = Sha256(Pieces(phash, sig))
<1>1. ASSUME NEW a, NEW b, NEW c PROVE <<a>> \o <<b, c>> = <<a, b, c>>
  <2> DEFINE T == {a, b, c}
  <2>1. <<a>> \in Seq(T) /\ <<b, c>> \in Seq(T)
    OBVIOUS
  <2>2. Len(<<a>>) = 1 /\ Len(<<b, c>>) = 2 /\ <<a>>[1] = a /\ <<b, c>>[1] = b /\ <<b, c>>[2] = c
    OBVIOUS
  <2> DEFINE s == <<a>> \o <<b, c>>
  <2>3. /\ s \in Seq(T) /\ Len(s) = 3
        /\ s[1] = a /\ s[2] = b /\ s[3] = c
    BY <2>1, <2>2, ConcatProperties
  <2> HIDE DEF s
  <2>4. s = <<a, b, c>>
    BY <2>3
  <2> QED
    BY <2>4 DEF s
<1>2. \A a : <<a>> \o <<>> = <<a>>
  OBVIOUS
<1>3. \A b, c : <<>> \o <<b, c>> = <<b, c>>
  OBVIOUS
<1>4. <<>> \o <<>> = <<>>
  OBVIOUS
<1> QED
  BY <1>1, <1>2, <1>3, <1>4 DEF FeatureCommitment, Pieces

(***************************************************************************)
(* A perceptual hash, descriptors and keypoints are fixed by the           *)
(* commitment to them, and so is which of them there are.                  *)
(***************************************************************************)
LEMMA FeaturesBind ==
  ASSUME NEW p, NEW q, NEW s, NEW t,
         FeatureCommitment(p, s) = FeatureCommitment(q, t)
  PROVE  /\ p = q
         /\ s = Nil <=> t = Nil
         /\ s # Nil => s.descriptors = t.descriptors /\ s.keypoints = t.keypoints
<1>1. Pieces(p, s) = Pieces(q, t)
  BY PiecesOfCommitment, DigestsAreTerms
<1>2. \A a, b, c, d, e, f : /\ <<a>> # <<>> /\ <<a, b>> # <<>> /\ <<a, b, c>> # <<>>
                            /\ <<a>> # <<d, e>> /\ <<a>> # <<d, e, f>> /\ <<a, b>> # <<d, e, f>>
  OBVIOUS
<1>3. \A a, b, c, d, e, f : /\ <<a>> = <<d>> => a = d
                            /\ <<a, b>> = <<d, e>> => a = d /\ b = e
                            /\ <<a, b, c>> = <<d, e, f>> => a = d /\ b = e /\ c = f
  OBVIOUS
<1>4. CASE p = Nil /\ s = Nil
  BY <1>1, <1>2, <1>4 DEF Pieces
<1>5. CASE p = Nil /\ s # Nil
  BY <1>1, <1>2, <1>3, <1>5, DigestsAreTerms DEF Pieces
<1>6. CASE p # Nil /\ s = Nil
  BY <1>1, <1>2, <1>3, <1>6, DigestsAreTerms DEF Pieces
<1>7. CASE p # Nil /\ s # Nil
  BY <1>1, <1>2, <1>3, <1>7, DigestsAreTerms DEF Pieces
<1> QED
  BY <1>4, <1>5, <1>6, <1>7

(* A commitment to a picture has pieces a commitment to a video has not.   *)
LEMMA KindsAreApart ==
  ASSUME NEW p, NEW s, NEW q, NEW t, NEW v
  PROVE  FeatureCommitment(p, s) # VideoFeatureCommitment(q, t, v)
<1> DEFINE third == Sha256(IF v = Nil THEN <<>> ELSE EncodeFramePHashes(v.framePHashes))
           written == <<[video |-> VideoHeader(v)], FeatureCommitment(q, t), third>>
<1>1. VideoFeatureCommitment(q, t, v) = Sha256(written)
  BY DEF VideoFeatureCommitment
<1> SUFFICES ASSUME Pieces(p, s) = written PROVE FALSE
  BY <1>1, PiecesOfCommitment, DigestsAreTerms
<1> HIDE DEF third
<1>2. Len(written) = 3 /\ written[1] = [video |-> VideoHeader(v)]
  OBVIOUS
<1>3. p # Nil /\ s # Nil
  BY <1>2 DEF Pieces
<1>4. Pieces(p, s)[1] = [phash |-> p]
  BY <1>3 DEF Pieces
<1> QED
  BY <1>2, <1>4, DigestsAreTerms

ValidVideos ==
  {v \in [framePHashes : Seq(Hashes), anchorIndex : Nat, durationMs : Nat] : ValidVideo(v)}

(* The header tells valid videos apart by number, anchor and duration; and *)
(* from no video at all.                                                   *)
LEMMA HeadersBind ==
  ASSUME Nil \notin ValidVideos, NEW v \in ValidVideos \cup {Nil}, NEW w \in ValidVideos \cup {Nil},
         VideoHeader(v) = VideoHeader(w)
  PROVE  /\ v = Nil <=> w = Nil
         /\ v # Nil => v.anchorIndex = w.anchorIndex /\ v.durationMs = w.durationMs
<1>1. ASSUME NEW x \in ValidVideos
      PROVE  /\ VideoHeader(x) = <<x.anchorIndex, Len(x.framePHashes), x.durationMs>>
             /\ Len(x.framePHashes) # 0
  <2>1. /\ Len(x.framePHashes) \in 0..(IndexLimit - 1) /\ x.anchorIndex \in 0..(IndexLimit - 1)
        /\ x.durationMs \in 0..(WordLimit - 1) /\ Len(x.framePHashes) # 0 /\ x # Nil
    BY WidthsAreRight DEF ValidVideos, ValidVideo
  <2> QED
    BY <2>1, SmallRemainder, WidthsAreRight DEF VideoHeader
<1>2. VideoHeader(Nil) = <<0, 0, 0>>
  BY DEF VideoHeader
<1>3. \A a, b, c, d, e, f : <<a, b, c>> = <<d, e, f>> => a = d /\ b = e /\ c = f
  OBVIOUS
<1> QED
  BY <1>1, <1>2, <1>3

-----------------------------------------------------------------------------
(* What the use cases certify: any hash, any features, any valid video.    *)
Features == [descriptors : Seq(Nat), keypoints : Seq(Nat), grid : Seq(Nat)]
Images == {CertifyImage(p, s) : p \in Hashes \cup {Nil}, s \in Features \cup {Nil}}
Clips ==
  {CertifyVideo(p, s, v) : p \in Hashes \cup {Nil}, s \in Features \cup {Nil}, v \in ValidVideos}

(***************************************************************************)
(* Two certificates with one commitment are of one kind and agree in all   *)
(* that the commitment covers.                                             *)
(***************************************************************************)
THEOREM CertificatesAreBound ==
  ASSUME Nil \notin ValidVideos, Nil \notin Features
  PROVE  \A c, d \in Images \cup Clips : CommitmentBinds(c, d)
<1> DEFINE Fields(c) == /\ c.phash \in Hashes \cup {Nil} /\ c.signature \in Features \cup {Nil}
                        /\ c.video \in ValidVideos \cup {Nil}
<1>1. ASSUME NEW c \in Images
      PROVE  /\ c.kind = "image" /\ Fields(c) /\ c.video = Nil
             /\ Recommit(c) = FeatureCommitment(c.phash, c.signature)
  BY DEF Images, CertifyImage, Recommit
<1>2. ASSUME NEW c \in Clips
      PROVE  /\ c.kind = "video" /\ Fields(c)
             /\ Recommit(c) = VideoFeatureCommitment(c.phash, c.signature, c.video)
  BY DEF Clips, CertifyVideo, Recommit
<1>3. ASSUME NEW c, NEW d, c.phash = d.phash, c.video = d.video,
             c.signature = Nil <=> d.signature = Nil,
             c.signature # Nil => /\ c.signature.descriptors = d.signature.descriptors
                                  /\ c.signature.keypoints = d.signature.keypoints
      PROVE  Bundle(c) = Bundle(d)
  BY <1>3 DEF Bundle
<1>4. ASSUME NEW c \in Images, NEW d \in Images, Recommit(c) = Recommit(d)
      PROVE  c.kind = d.kind /\ Bundle(c) = Bundle(d)
  BY <1>1, <1>3, <1>4, FeaturesBind
<1>5. ASSUME NEW c \in Images, NEW d \in Clips PROVE Recommit(c) # Recommit(d)
  BY <1>1, <1>2, KindsAreApart
<1>6. ASSUME NEW c \in Clips, NEW d \in Clips, Recommit(c) = Recommit(d)
      PROVE  c.kind = d.kind /\ Bundle(c) = Bundle(d)
  <2> DEFINE F(v) == IF v = Nil THEN <<>> ELSE EncodeFramePHashes(v.framePHashes)
             W(x) == <<[video |-> VideoHeader(x.video)],
                       FeatureCommitment(x.phash, x.signature), Sha256(F(x.video))>>
  <2>1. Recommit(c) = Sha256(W(c)) /\ Recommit(d) = Sha256(W(d))
    <3>1. ASSUME NEW x PROVE VideoFeatureCommitment(x.phash, x.signature, x.video) = Sha256(W(x))
      BY Zenon DEF VideoFeatureCommitment
    <3> HIDE DEF W
    <3> QED
      BY <1>2, <3>1
  <2> HIDE DEF F, W
  <2>2. W(c) = W(d)
    BY <1>6, <2>1, DigestsAreTerms
  <2>3. /\ [video |-> VideoHeader(c.video)] = [video |-> VideoHeader(d.video)]
        /\ FeatureCommitment(c.phash, c.signature) = FeatureCommitment(d.phash, d.signature)
        /\ Sha256(F(c.video)) = Sha256(F(d.video))
    BY <2>2 DEF W
  <2>4. /\ VideoHeader(c.video) = VideoHeader(d.video) /\ F(c.video) = F(d.video)
    BY <2>3, DigestsAreTerms
  <2>5. c.video = d.video
    <3>1. CASE c.video = Nil
      BY <1>2, <2>4, <3>1, HeadersBind
    <3>2. CASE c.video # Nil
      <4>1. c.video \in ValidVideos /\ d.video \in ValidVideos
        BY <1>2, <2>4, <3>2, HeadersBind
      <4>2. c.video.anchorIndex = d.video.anchorIndex /\ c.video.durationMs = d.video.durationMs
        BY <2>4, <3>2, <4>1, HeadersBind
      <4>3. EncodeFramePHashes(c.video.framePHashes) = EncodeFramePHashes(d.video.framePHashes)
        BY <2>4, <4>1 DEF F
      <4>4. c.video.framePHashes = d.video.framePHashes
        BY <4>1, <4>3, FramePHashesReadBack DEF ValidVideos
      <4> QED
        BY <4>1, <4>2, <4>4 DEF ValidVideos
    <3> QED
      BY <3>1, <3>2
  <2> QED
    BY <1>2, <1>3, <2>3, <2>5, FeaturesBind
<1> QED
  BY <1>4, <1>5, <1>6 DEF CommitmentBinds

-----------------------------------------------------------------------------
(* The row                                                                 *)

(* Features that were extracted have descriptors.                          *)
Described(c) == c.signature = Nil \/ c.signature.descriptors # <<>>

LEMMA NoFramesReadBack == DecodeFramePHashes(<<>>) = <<>>
<1>1. Len(<<>>) \div HashBytes = 0
  <2>1. (HashBytes * 0 + 0) \div HashBytes = 0
    BY WidthsAreRight, DivisionIsExact
  <2>2. HashBytes * 0 + 0 = 0 /\ Len(<<>>) = 0
    BY WidthsAreRight
  <2> QED
    BY <2>1, <2>2
<1> QED
  BY <1>1 DEF DecodeFramePHashes

(* A video comes back from its columns, and so does its absence.           *)
LEMMA VideosReadBack ==
  ASSUME Nil \notin ValidVideos, Nil \notin Nat, NEW row, NEW v \in ValidVideos \cup {Nil},
         row.framePHashes = (IF v = Nil THEN <<>> ELSE EncodeFramePHashes(v.framePHashes)),
         v # Nil => /\ row.anchorIndex = v.anchorIndex
                    /\ OrZero(row.durationMs) = v.durationMs
  PROVE  ScannedVideo(row) = v
<1>1. CASE v = Nil
  BY <1>1, NoFramesReadBack DEF ScannedVideo
<1>2. CASE v # Nil
  <2>1. v \in ValidVideos /\ v.framePHashes \in Seq(Hashes) /\ v.framePHashes # <<>>
    BY <1>2 DEF ValidVideos, ValidVideo
  <2>2. DecodeFramePHashes(row.framePHashes) = v.framePHashes
    BY <1>2, <2>1, FramePHashesReadBack
  <2>3. OrZero(row.anchorIndex) = v.anchorIndex
    BY <1>2, <2>1 DEF OrZero, ValidVideos
  <2>4. ScannedVideo(row) = [framePHashes |-> v.framePHashes, anchorIndex |-> v.anchorIndex,
                             durationMs |-> v.durationMs]
    BY <1>2, <2>1, <2>2, <2>3 DEF ScannedVideo
  <2> QED
    BY <2>1, <2>4 DEF ValidVideos
<1> QED
  BY <1>1, <1>2

(***************************************************************************)
(* A certificate read back from its row still hashes to its commitment.    *)
(***************************************************************************)
THEOREM RowsAreFaithful ==
  ASSUME Nil \notin ValidVideos, Nil \notin Features, Nil \notin Nat
  PROVE  \A c \in Images \cup Clips : Described(c) => RowRecommits(c)
<1> SUFFICES ASSUME NEW c \in Images \cup Clips, Described(c) PROVE RowRecommits(c)
  OBVIOUS
<1> DEFINE row == Row(c)
           read == ScanCertificate(row)
<1>1. /\ c.phash \in Hashes \cup {Nil} /\ c.signature \in Features \cup {Nil}
      /\ c.video \in ValidVideos \cup {Nil} /\ c.durationMs \in Nat
      /\ c.video # Nil => c.durationMs = c.video.durationMs
      /\ c.commitment = Recommit(c)
  <2>1. CASE c \in Images
    BY <2>1 DEF Images, CertifyImage, Recommit
  <2>2. CASE c \in Clips
    <3>1. PICK p \in Hashes \cup {Nil}, s \in Features \cup {Nil}, v \in ValidVideos :
            c = CertifyVideo(p, s, v)
      BY <2>2 DEF Clips
    <3>2. v.durationMs \in Nat
      BY DEF ValidVideos
    <3>3. CASE s = Nil
      BY <3>1, <3>3 DEF CertifyVideo, Recommit
    <3>4. CASE s # Nil
      BY <3>1, <3>2, <3>4 DEF CertifyVideo, Recommit
    <3> QED
      BY <3>3, <3>4
  <2> QED
    BY <2>1, <2>2
<1>2. /\ row.mediaKind = c.kind /\ row.phash = c.phash /\ row.commitment = c.commitment
      /\ row.framePHashes
           = (IF c.video = Nil THEN <<>> ELSE EncodeFramePHashes(c.video.framePHashes))
      /\ c.video # Nil => row.anchorIndex = c.video.anchorIndex
  BY DEF Row
<1>3. OrZero(row.durationMs) = c.durationMs
  BY <1>1 DEF Row, OrZero
<1>4. c.signature # Nil => /\ row.orbDescriptors = c.signature.descriptors
                           /\ row.orbKeypoints = c.signature.keypoints
                           /\ row.colorGrid = c.signature.grid
  BY DEF Row
<1>5. c.signature = Nil => row.orbDescriptors = <<>> /\ row.orbKeypoints = <<>> /\ row.colorGrid = <<>>
  BY DEF Row
<1> HIDE DEF row
<1>6. ScannedVideo(row) = c.video
  BY <1>1, <1>2, <1>3, VideosReadBack
<1>7. /\ read.kind = c.kind /\ read.phash = c.phash /\ read.video = c.video
      /\ read.durationMs = c.durationMs /\ read.commitment = c.commitment
  BY <1>2, <1>3, <1>6 DEF ScanCertificate
<1>8. read.signature = c.signature
  <2>1. CASE c.signature = Nil
    BY <1>5, <2>1 DEF ScanCertificate
  <2>2. CASE c.signature # Nil
    <3>1. row.orbDescriptors # <<>>
      BY <1>4, <2>2 DEF Described
    <3>2. read.signature = [descriptors |-> c.signature.descriptors,
                            keypoints |-> c.signature.keypoints, grid |-> c.signature.grid]
      BY <1>4, <2>2, <3>1 DEF ScanCertificate
    <3> QED
      BY <1>1, <2>2, <3>2 DEF Features
  <2> QED
    BY <2>1, <2>2
<1> HIDE DEF read
<1>9. Recommit(read) = Recommit(c) /\ Bundle(read) = Bundle(c)
  BY <1>7, <1>8 DEF Recommit, Bundle
<1> QED
  BY <1>1, <1>7, <1>9 DEF RowRecommits, read, row

-----------------------------------------------------------------------------
(* What a device signs                                                     *)

(* What a device can write in a field: what a word can count.              *)
Texts == {s \in Seq(Nat) : Len(s) < WordLimit}

(* The elements of a joined sequence are those of its two parts.           *)
LEMMA ElementsOfJoin ==
  ASSUME NEW a \in Seq(Nat), NEW b \in Seq(Nat)
  PROVE  /\ Len(a) \in Nat /\ Len(a \o b) = Len(a) + Len(b)
         /\ \A k \in 1..Len(a) : (a \o b)[k] = a[k]
         /\ \A k \in 1..Len(b) : (a \o b)[Len(a) + k] = b[k]
OBVIOUS

(* A field, its length before it, and what follows.                        *)
Before(field, rest) == Prefixed(field) \o rest

(* A field that is preceded by its length can be told from what follows.   *)
LEMMA FieldsSplit ==
  ASSUME NEW a \in Texts, NEW b \in Texts, NEW r \in Seq(Nat), NEW s \in Seq(Nat),
         Before(a, r) = Before(b, s)
  PROVE  a = b /\ r = s
<1>1. /\ a \in Seq(Nat) /\ Len(a) \in Nat /\ Len(a) < WordLimit
      /\ b \in Seq(Nat) /\ Len(b) \in Nat /\ Len(b) < WordLimit
      /\ WordLimit \in Nat \ {0} /\ Len(r) \in Nat /\ Len(s) \in Nat
  BY WidthsAreRight DEF Texts
<1>2. Prefixed(a) = <<Len(a)>> \o a /\ Prefixed(b) = <<Len(b)>> \o b
  <2>1. Len(a) % WordLimit = Len(a) /\ Len(b) % WordLimit = Len(b)
    BY <1>1, SmallRemainder
  <2> QED
    BY <2>1 DEF Prefixed
<1>3. PICK x : x = Prefixed(a) \o r /\ x = Prefixed(b) \o s
  BY DEF Before
<1>4. ASSUME NEW c \in Seq(Nat), NEW t \in Seq(Nat)
      PROVE  LET y == (<<Len(c)>> \o c) \o t IN
             /\ y[1] = Len(c) /\ Len(y) = 1 + Len(c) + Len(t)
             /\ \A k \in 1..Len(c) : y[1 + k] = c[k]
             /\ \A k \in 1..Len(t) : y[1 + Len(c) + k] = t[k]
  <2>1. PICK p : p = <<Len(c)>> \o c
    OBVIOUS
  <2>2. /\ p \in Seq(Nat) /\ Len(p) = 1 + Len(c) /\ p[1] = Len(c)
        /\ \A k \in 1..Len(c) : p[1 + k] = c[k]
    BY <2>1
  <2>3. PICK y : y = p \o t
    OBVIOUS
  <2>4. /\ Len(y) = Len(p) + Len(t) /\ \A k \in 1..Len(p) : y[k] = p[k]
        /\ \A k \in 1..Len(t) : y[Len(p) + k] = t[k]
    <3>1. /\ Len(p) \in Nat /\ Len(p \o t) = Len(p) + Len(t)
          /\ \A k \in 1..Len(p) : (p \o t)[k] = p[k]
          /\ \A k \in 1..Len(t) : (p \o t)[Len(p) + k] = t[k]
      BY <2>2, ElementsOfJoin
    <3> QED
      BY <2>3, <3>1
  <2>5. ASSUME NEW k \in 1..Len(c) PROVE y[1 + k] = c[k]
    <3>1. 1 + k \in 1..Len(p)
      BY <2>2
    <3> QED
      BY <2>2, <2>4, <3>1
  <2>6. y[1] = Len(c)
    <3>1. 1 \in 1..Len(p)
      BY <2>2
    <3> QED
      BY <2>2, <2>4, <3>1
  <2>7. Len(y) = 1 + Len(c) + Len(t) /\ \A k \in 1..Len(t) : y[1 + Len(c) + k] = t[k]
    BY <2>2, <2>4
  <2> QED
    BY <2>1, <2>3, <2>5, <2>6, <2>7
<1>5. /\ x[1] = Len(a) /\ Len(x) = 1 + Len(a) + Len(r)
      /\ \A k \in 1..Len(a) : x[1 + k] = a[k]
      /\ \A k \in 1..Len(r) : x[1 + Len(a) + k] = r[k]
  <2>1. x = (<<Len(a)>> \o a) \o r
    BY <1>2, <1>3
  <2> QED
    BY <1>1, <1>4, <2>1
<1>6. /\ x[1] = Len(b) /\ Len(x) = 1 + Len(b) + Len(s)
      /\ \A k \in 1..Len(b) : x[1 + k] = b[k]
      /\ \A k \in 1..Len(s) : x[1 + Len(b) + k] = s[k]
  <2>1. x = (<<Len(b)>> \o b) \o s
    BY <1>2, <1>3
  <2> QED
    BY <1>1, <1>4, <2>1
<1>7. Len(a) = Len(b) /\ Len(r) = Len(s)
  BY <1>1, <1>5, <1>6
<1>8. a = b
  <2>1. \A k \in 1..Len(a) : a[k] = b[k]
    BY <1>5, <1>6, <1>7
  <2> QED
    BY <1>1, <1>7, <2>1, SeqEqual
<1>9. r = s
  <2>1. \A k \in 1..Len(r) : r[k] = s[k]
    BY <1>5, <1>6, <1>7
  <2> QED
    BY <1>1, <1>7, <2>1, SeqEqual
<1> QED
  BY <1>8, <1>9

(* A field with its length before it is a sequence of numbers.             *)
LEMMA PrefixedIsSeq ==
  ASSUME NEW a \in Texts
  PROVE  Prefixed(a) \in Seq(Nat) /\ \A r \in Seq(Nat) : Before(a, r) \in Seq(Nat)
<1>1. a \in Seq(Nat) /\ Len(a) \in Nat /\ WordLimit \in Nat \ {0}
  BY WidthsAreRight DEF Texts
<1>2. PICK w \in Nat : w = Len(a) % WordLimit
  BY <1>1
<1>3. Prefixed(a) = <<w>> \o a
  BY <1>2 DEF Prefixed
<1>4. Prefixed(a) \in Seq(Nat)
  BY <1>1, <1>2, <1>3
<1>5. ASSUME NEW r \in Seq(Nat) PROVE Prefixed(a) \o r \in Seq(Nat)
  BY <1>4
<1> QED
  BY <1>4, <1>5 DEF Before

(* Trailing zeros are cut off, and nothing is added.                       *)
LEMMA TimesAreFields ==
  ASSUME NEW digits \in Texts
  PROVE  FormatTime(digits) \in Texts
<1> DEFINE n == Len(digits)
           CutAt(m) == /\ \A i \in (m + 1)..n : digits[i] = 0
                      /\ (m = 0 \/ digits[m] # 0)
           T == {k \in Nat : k <= n /\ (\A i \in (k + 1)..n : digits[i] = 0) => \E m \in 0..n : CutAt(m)}
<1>1. digits \in Seq(Nat) /\ n \in Nat /\ n < WordLimit
  BY DEF Texts
<1>2. 0 \in T
  BY <1>1
<1>3. ASSUME NEW k \in T PROVE k + 1 \in T
  <2> SUFFICES ASSUME k + 1 <= n, \A i \in ((k + 1) + 1)..n : digits[i] = 0
               PROVE  \E m \in 0..n : CutAt(m)
    OBVIOUS
  <2>1. CASE digits[k + 1] = 0
    <3>1. \A i \in (k + 1)..n : i = k + 1 \/ i \in ((k + 1) + 1)..n
      BY <1>1
    <3>2. \A i \in (k + 1)..n : digits[i] = 0
      BY <2>1, <3>1
    <3>3. k <= n
      BY <1>1
    <3> QED
      BY <3>2, <3>3
  <2>2. CASE digits[k + 1] # 0
    <3>1. k + 1 \in 0..n /\ CutAt(k + 1)
      BY <1>1, <2>2
    <3> QED
      BY <3>1
  <2> QED
    BY <2>1, <2>2
<1> HIDE DEF T
<1>4. T = Nat
  <2>1. T \subseteq Nat
    BY DEF T
  <2>2. \A k \in T : k + 1 \in T
    BY <1>3
  <2> QED
    BY <1>2, <2>1, <2>2, SetInduction
<1>5. \E m \in 0..n : CutAt(m)
  <2>1. n \in T /\ n <= n /\ \A i \in (n + 1)..n : digits[i] = 0
    BY <1>1, <1>4
  <2> QED
    BY <2>1 DEF T
<1>6. PICK last \in 0..n : FormatTime(digits) = SubSeq(digits, 1, last)
  <2>1. (CHOOSE m \in 0..n : CutAt(m)) \in 0..n
    BY <1>5
  <2>2. FormatTime(digits) = SubSeq(digits, 1, CHOOSE m \in 0..n : CutAt(m))
    BY DEF FormatTime
  <2> QED
    BY <2>1, <2>2
<1>7. PICK r : r = SubSeq(digits, 1, last)
  OBVIOUS
<1>8. r \in Seq(Nat) /\ Len(r) = (IF 1 <= last THEN last - 1 + 1 ELSE 0)
  BY <1>1, <1>7, SubSeqProperties
<1>9. Len(r) = last /\ last <= n
  BY <1>1, <1>8
<1>10. r \in Texts
  <2>1. Len(r) < WordLimit
    BY <1>1, <1>6, <1>9, WidthsAreRight
  <2> QED
    BY <1>8, <2>1 DEF Texts
<1> QED
  BY <1>6, <1>7, <1>10

(* What is written into the payload: the tag, then one part for each field. *)
Written == Nat \cup {"aletheia-capture-v1"}
Parts(t, a, b, c, d, e, f) == t \o a \o b \o c \o d \o e \o f
Nested(t, a, b, c, d, e, f) == t \o (a \o (b \o (c \o (d \o (e \o f)))))

JoinedFirst(a, b, c) == (a \o b) \o c
JoinedLast(a, b, c) == a \o (b \o c)

(* Joining sequences is associative.                                       *)
LEMMA Reassociates ==
  ASSUME NEW a \in Seq(Written), NEW b \in Seq(Written), NEW c \in Seq(Written)
  PROVE  JoinedFirst(a, b, c) = JoinedLast(a, b, c)
BY DEF JoinedFirst, JoinedLast

(* What is joined of written parts is a sequence of written things.        *)
LEMMA JoinsAreWritten ==
  ASSUME NEW a \in Seq(Written), NEW b \in Seq(Written)
  PROVE  a \o b \in Seq(Written)
OBVIOUS

(* The seven parts joined from the left are the seven nested to the right. *)
LEMMA PartsAreNested ==
  ASSUME NEW z \in [1..7 -> Seq(Written)]
  PROVE  Parts(z[1], z[2], z[3], z[4], z[5], z[6], z[7])
           = Nested(z[1], z[2], z[3], z[4], z[5], z[6], z[7])
<1> DEFINE x2 == z[1] \o z[2]
           x3 == x2 \o z[3]
           x4 == x3 \o z[4]
           x5 == x4 \o z[5]
           y5 == z[6] \o z[7]
           y4 == z[5] \o y5
           y3 == z[4] \o y4
           y2 == z[3] \o y3
<1>0. /\ z[1] \in Seq(Written) /\ z[2] \in Seq(Written) /\ z[3] \in Seq(Written)
      /\ z[4] \in Seq(Written) /\ z[5] \in Seq(Written) /\ z[6] \in Seq(Written)
      /\ z[7] \in Seq(Written)
  OBVIOUS
<1>1. x2 \in Seq(Written) /\ y5 \in Seq(Written)
  BY <1>0, JoinsAreWritten
<1>2. x3 \in Seq(Written) /\ y4 \in Seq(Written)
  BY <1>0, <1>1, JoinsAreWritten
<1>3. x4 \in Seq(Written) /\ y3 \in Seq(Written)
  BY <1>0, <1>2, JoinsAreWritten
<1>4. x5 \in Seq(Written) /\ y2 \in Seq(Written)
  BY <1>0, <1>3, JoinsAreWritten
<1> HIDE DEF x2, x3, x4, x5, y2, y3, y4, y5
<1>5. JoinedFirst(x5, z[6], z[7]) = JoinedLast(x5, z[6], z[7])
  BY <1>0, <1>4, Reassociates
<1>6. JoinedFirst(x4, z[5], y5) = JoinedLast(x4, z[5], y5)
  BY <1>0, <1>1, <1>3, Reassociates
<1>7. JoinedFirst(x3, z[4], y4) = JoinedLast(x3, z[4], y4)
  BY <1>0, <1>2, Reassociates
<1>8. JoinedFirst(x2, z[3], y3) = JoinedLast(x2, z[3], y3)
  BY <1>0, <1>1, <1>3, Reassociates
<1>9. JoinedFirst(z[1], z[2], y2) = JoinedLast(z[1], z[2], y2)
  BY <1>0, <1>4, Reassociates
<1>10. (x5 \o z[6]) \o z[7] = x5 \o y5
  BY <1>5, Zenon DEF JoinedFirst, JoinedLast, y5
<1>11. x5 \o y5 = x4 \o y4
  BY <1>6, Zenon DEF JoinedFirst, JoinedLast, x5, y4
<1>12. x4 \o y4 = x3 \o y3
  BY <1>7, Zenon DEF JoinedFirst, JoinedLast, x4, y3
<1>13. x3 \o y3 = x2 \o y2
  BY <1>8, Zenon DEF JoinedFirst, JoinedLast, x3, y2
<1>14. x2 \o y2 = z[1] \o (z[2] \o y2)
  BY <1>9, Zenon DEF JoinedFirst, JoinedLast, x2
<1>15. (x5 \o z[6]) \o z[7] = z[1] \o (z[2] \o y2)
  BY <1>10, <1>11, <1>12, <1>13, <1>14, Zenon
<1> QED
  BY <1>15, Zenon DEF Parts, Nested, x2, x3, x4, x5, y2, y3, y4, y5

(* Payloads that agree agree in what follows the tag.                      *)
LEMMA TagsAgree ==
  ASSUME NEW tag, NEW u \in Seq(Nat), NEW v \in Seq(Nat), <<tag>> \o u = <<tag>> \o v
  PROVE  u = v
<1>1. PICK x, y : x = <<tag>> \o u /\ y = <<tag>> \o v /\ x = y
  OBVIOUS
<1>2. ASSUME NEW w \in Seq(Nat)
      PROVE  /\ Len(<<tag>> \o w) = 1 + Len(w)
             /\ \A k \in 1..Len(w) : (<<tag>> \o w)[1 + k] = w[k]
  OBVIOUS
<1>3. /\ Len(x) = 1 + Len(u) /\ \A k \in 1..Len(u) : x[1 + k] = u[k]
      /\ Len(x) = 1 + Len(v) /\ \A k \in 1..Len(v) : x[1 + k] = v[k]
  BY <1>1, <1>2
<1>4. Len(u) \in Nat /\ Len(v) \in Nat
  OBVIOUS
<1>5. Len(u) = Len(v)
  BY <1>3, <1>4
<1>6. \A k \in 1..Len(u) : u[k] = v[k]
  BY <1>3, <1>5
<1> QED
  BY <1>5, <1>6, SeqEqual

(* What a device signs: fields of bytes, none as long as a word can count. *)
Captures ==
  [contentHash : Texts, nonce : Texts, capturedAt : Texts,
   model : Texts, osVersion : Texts, appVersion : Texts]

(* A payload that two captures share has the same fields for both.         *)
LEMMA PayloadsAreParsed ==
  ASSUME NEW c \in Captures, NEW d \in Captures,
         CaptureSigningPayload(c) = CaptureSigningPayload(d)
  PROVE  /\ c.contentHash = d.contentHash /\ c.nonce = d.nonce
         /\ FormatTime(c.capturedAt) = FormatTime(d.capturedAt)
         /\ c.model = d.model /\ c.osVersion = d.osVersion /\ c.appVersion = d.appVersion
<1> DEFINE After5(x) == Before(x.osVersion, Prefixed(x.appVersion))
           After4(x) == Before(x.model, After5(x))
           After3(x) == Before(FormatTime(x.capturedAt), After4(x))
           After2(x) == Before(x.nonce, After3(x))
           After1(x) == Before(x.contentHash, After2(x))
           tag == "aletheia-capture-v1"
<1>1. ASSUME NEW x \in Captures
      PROVE  /\ x.contentHash \in Texts /\ x.nonce \in Texts /\ FormatTime(x.capturedAt) \in Texts
             /\ x.model \in Texts /\ x.osVersion \in Texts /\ x.appVersion \in Texts
  BY TimesAreFields DEF Captures
<1>2. ASSUME NEW x \in Captures
      PROVE  /\ Prefixed(x.contentHash) \in Seq(Nat) /\ Prefixed(x.nonce) \in Seq(Nat)
             /\ Prefixed(FormatTime(x.capturedAt)) \in Seq(Nat) /\ Prefixed(x.model) \in Seq(Nat)
             /\ Prefixed(x.osVersion) \in Seq(Nat) /\ Prefixed(x.appVersion) \in Seq(Nat)
  BY <1>1, PrefixedIsSeq
<1>4. ASSUME NEW x \in Captures
      PROVE  /\ After5(x) \in Seq(Nat) /\ After4(x) \in Seq(Nat) /\ After3(x) \in Seq(Nat)
             /\ After2(x) \in Seq(Nat) /\ After1(x) \in Seq(Nat)
  <2>1. After5(x) \in Seq(Nat)
    BY <1>1, <1>2, PrefixedIsSeq
  <2> HIDE DEF After5
  <2>2. After4(x) \in Seq(Nat)
    BY <1>1, <2>1, PrefixedIsSeq
  <2> HIDE DEF After4
  <2>3. After3(x) \in Seq(Nat)
    BY <1>1, <2>2, PrefixedIsSeq
  <2> HIDE DEF After3
  <2>4. After2(x) \in Seq(Nat)
    BY <1>1, <2>3, PrefixedIsSeq
  <2> HIDE DEF After2
  <2>5. After1(x) \in Seq(Nat)
    BY <1>1, <2>4, PrefixedIsSeq
  <2> QED
    BY <2>1, <2>2, <2>3, <2>4, <2>5
<1>5. ASSUME NEW x \in Captures PROVE CaptureSigningPayload(x) = <<tag>> \o After1(x)
  <2>1. ASSUME NEW s \in Seq(Nat) PROVE s \in Seq(Written)
    <3>1. s \in [1..Len(s) -> Nat] /\ Len(s) \in Nat
      OBVIOUS
    <3>2. s \in [1..Len(s) -> Written]
      BY <3>1 DEF Written
    <3> QED
      BY <3>1, <3>2, FunctionIsSeq
  <2>2. <<tag>> \in Seq(Written)
    BY DEF Written
  <2>3. /\ Prefixed(x.contentHash) \in Seq(Written) /\ Prefixed(x.nonce) \in Seq(Written)
        /\ Prefixed(FormatTime(x.capturedAt)) \in Seq(Written)
        /\ Prefixed(x.model) \in Seq(Written) /\ Prefixed(x.osVersion) \in Seq(Written)
        /\ Prefixed(x.appVersion) \in Seq(Written)
    BY <1>2, <2>1
  <2>4. CaptureSigningPayload(x)
          = Parts(<<tag>>, Prefixed(x.contentHash), Prefixed(x.nonce),
                  Prefixed(FormatTime(x.capturedAt)), Prefixed(x.model), Prefixed(x.osVersion),
                  Prefixed(x.appVersion))
    BY Zenon DEF CaptureSigningPayload, Parts
  <2>5. PICK z : z = <<<<tag>>, Prefixed(x.contentHash), Prefixed(x.nonce),
                       Prefixed(FormatTime(x.capturedAt)), Prefixed(x.model),
                       Prefixed(x.osVersion), Prefixed(x.appVersion)>>
    OBVIOUS
  <2>6. /\ z[1] = <<tag>> /\ z[2] = Prefixed(x.contentHash) /\ z[3] = Prefixed(x.nonce)
        /\ z[4] = Prefixed(FormatTime(x.capturedAt)) /\ z[5] = Prefixed(x.model)
        /\ z[6] = Prefixed(x.osVersion) /\ z[7] = Prefixed(x.appVersion)
    BY <2>5
  <2>7. z \in [1..7 -> Seq(Written)]
    <3>1. z = [k \in 1..7 |-> z[k]]
      BY <2>5
    <3>2. ASSUME NEW k \in 1..7 PROVE z[k] \in Seq(Written)
      <4>1. k \in {1, 2, 3, 4, 5, 6, 7}
        OBVIOUS
      <4> QED
        BY <2>2, <2>3, <2>6, <4>1, Zenon
    <3> QED
      BY <3>1, <3>2, Zenon
  <2>8. Parts(z[1], z[2], z[3], z[4], z[5], z[6], z[7])
          = Nested(z[1], z[2], z[3], z[4], z[5], z[6], z[7])
    BY <2>7, PartsAreNested
  <2>9. CaptureSigningPayload(x) = Parts(z[1], z[2], z[3], z[4], z[5], z[6], z[7])
    BY <2>4, <2>6, Zenon
  <2>10. Nested(z[1], z[2], z[3], z[4], z[5], z[6], z[7]) = <<tag>> \o After1(x)
    BY <2>6, Zenon DEF Nested, Before
  <2> QED
    BY <2>8, <2>9, <2>10, Zenon
<1> HIDE DEF After1, After2, After3, After4, After5, tag
<1>6. After1(c) = After1(d)
  BY <1>4, <1>5, TagsAgree
<1>7. c.contentHash = d.contentHash /\ After2(c) = After2(d)
  BY <1>1, <1>4, <1>6, FieldsSplit DEF After1
<1>8. c.nonce = d.nonce /\ After3(c) = After3(d)
  BY <1>1, <1>4, <1>7, FieldsSplit DEF After2
<1>9. FormatTime(c.capturedAt) = FormatTime(d.capturedAt) /\ After4(c) = After4(d)
  BY <1>1, <1>4, <1>8, FieldsSplit DEF After3
<1>10. c.model = d.model /\ After5(c) = After5(d)
  BY <1>1, <1>4, <1>9, FieldsSplit DEF After4
<1>11. c.osVersion = d.osVersion /\ c.appVersion = d.appVersion
  <2>1. c.osVersion = d.osVersion /\ Prefixed(c.appVersion) = Prefixed(d.appVersion)
    BY <1>1, <1>2, <1>10, FieldsSplit DEF After5
  <2>2. ASSUME NEW x \in Seq(Nat) PROVE x \o <<>> = x
    BY ConcatEmptySeq
  <2>3. Before(c.appVersion, <<>>) = Before(d.appVersion, <<>>)
    BY <2>1 DEF Before
  <2>4. <<>> \in Seq(Nat)
    OBVIOUS
  <2>5. c.appVersion = d.appVersion
    BY <1>1, <2>3, <2>4, FieldsSplit
  <2> QED
    BY <2>1, <2>5
<1> QED
  BY <1>7, <1>8, <1>9, <1>10, <1>11

(***************************************************************************)
(* What a capture's signature verifies is that capture and no other, under *)
(* no other key, whatever the device wrote into its names.                 *)
(***************************************************************************)
THEOREM SignaturesFix == \A c, d \in Captures : \A keys : SignatureFixesCapture(c, d, keys)
<1> SUFFICES ASSUME NEW c \in Captures, NEW d \in Captures, NEW k, NEW l,
                    VerifyCaptureSignature(l, CaptureSigningPayload(d),
                                           Sign(k, CaptureSigningPayload(c)))
             PROVE  k = l /\ [d EXCEPT !.capturedAt = FormatTime(@)]
                               = [c EXCEPT !.capturedAt = FormatTime(@)]
  BY DEF SignatureFixesCapture
<1>1. k = l /\ Sha256(CaptureSigningPayload(c)) = Sha256(CaptureSigningPayload(d))
  <2>1. PICK x, y : x = Sha256(CaptureSigningPayload(c)) /\ y = Sha256(CaptureSigningPayload(d))
    OBVIOUS
  <2>2. [key |-> k, of |-> x] = [key |-> l, of |-> y]
    BY <2>1 DEF VerifyCaptureSignature, Sign
  <2>3. k = l /\ x = y
    BY <2>2
  <2> QED
    BY <2>1, <2>3
<1>2. CaptureSigningPayload(c) = CaptureSigningPayload(d)
  BY <1>1, DigestsAreTerms
<1>3. /\ c.contentHash = d.contentHash /\ c.nonce = d.nonce
      /\ FormatTime(c.capturedAt) = FormatTime(d.capturedAt)
      /\ c.model = d.model /\ c.osVersion = d.osVersion /\ c.appVersion = d.appVersion
  BY <1>2, PayloadsAreParsed
<1>4. ASSUME NEW x \in Captures
      PROVE  [x EXCEPT !.capturedAt = FormatTime(@)]
               = [contentHash |-> x.contentHash, nonce |-> x.nonce,
                  capturedAt |-> FormatTime(x.capturedAt), model |-> x.model,
                  osVersion |-> x.osVersion, appVersion |-> x.appVersion]
  BY DEF Captures
<1> QED
  BY <1>1, <1>3, <1>4

-----------------------------------------------------------------------------
(* Transactions                                                            *)

(* Numbers and their bytes.                                                *)

(* f[n] is the value of the first n bytes.                                 *)
ValueSteps(f, bytes, m) ==
  f = [n \in 0..m |-> IF n = 0 THEN 0 ELSE 256 * f[n - 1] + bytes[n]]

(* The partial values of some bytes are numbers that satisfy their         *)
(* equation.                                                               *)
LEMMA ValueExists ==
  ASSUME NEW bytes, NEW m \in Nat
  PROVE  \E f : ValueSteps(f, bytes, m)
<1> DEFINE T == {k \in Nat : \E f : ValueSteps(f, bytes, k)}
<1>1. 0 \in T
  <2> DEFINE f == [n \in 0..0 |-> 0]
  <2>1. ValueSteps(f, bytes, 0)
    BY DEF ValueSteps
  <2> QED
    BY <2>1
<1>2. ASSUME NEW k \in T PROVE k + 1 \in T
  <2>1. PICK f : ValueSteps(f, bytes, k)
    OBVIOUS
  <2> DEFINE h == [n \in 0..(k + 1) |-> IF n = k + 1 THEN 256 * f[k] + bytes[k + 1] ELSE f[n]]
  <2>2. h[k + 1] = 256 * f[k] + bytes[k + 1] /\ \A n \in 0..k : h[n] = f[n]
    OBVIOUS
  <2>3. k \in 0..k /\ k + 1 # 0 /\ (k + 1) - 1 = k
    OBVIOUS
  <2>4. \A n \in 0..k : f[n] = IF n = 0 THEN 0 ELSE 256 * f[n - 1] + bytes[n]
    BY <2>1 DEF ValueSteps
  <2>5. \A n \in 1..k : n - 1 \in 0..k
    OBVIOUS
  <2>6. h = [n \in 0..(k + 1) |-> h[n]]
    OBVIOUS
  <2> HIDE DEF h
  <2>7. ASSUME NEW n \in 0..(k + 1)
        PROVE  h[n] = IF n = 0 THEN 0 ELSE 256 * h[n - 1] + bytes[n]
    <3>1. CASE n = k + 1
      BY <2>2, <2>3, <3>1
    <3>2. CASE n = 0
      BY <2>2, <2>4, <3>2
    <3>3. CASE n \in 1..k
      BY <2>2, <2>4, <2>5, <3>3
    <3> QED
      BY <3>1, <3>2, <3>3
  <2>8. ValueSteps(h, bytes, k + 1)
    BY <2>6, <2>7 DEF ValueSteps
  <2> QED
    BY <2>8
<1> HIDE DEF T
<1>3. T \subseteq Nat
  BY DEF T
<1>4. \A k \in T : k + 1 \in T
  BY <1>2
<1>5. T = Nat
  BY <1>1, <1>3, <1>4, SetInduction
<1> QED
  BY <1>5 DEF T

(* The value of some bytes is the last of the partial values.              *)
LEMMA ValueDef ==
  ASSUME NEW bytes, Len(bytes) \in Nat
  PROVE  \E f : ValueSteps(f, bytes, Len(bytes)) /\ Value(bytes) = f[Len(bytes)]
<1> DEFINE F == CHOOSE f : ValueSteps(f, bytes, Len(bytes))
<1>1. ValueSteps(F, bytes, Len(bytes))
  BY ValueExists
<1>2. Value(bytes) = F[Len(bytes)]
  BY DEF Value, ValueSteps
<1> QED
  BY <1>1, <1>2

(* The value of some bytes and of their beginning are computed alike.      *)
LEMMA ValuesAgree ==
  ASSUME NEW m \in Nat, NEW n \in Nat, m <= n, NEW a, NEW b, \A k \in 1..m : a[k] = b[k],
         \A k \in 1..m : a[k] \in Nat,
         NEW f, ValueSteps(f, a, m), NEW g, ValueSteps(g, b, n)
  PROVE  f[m] = g[m] /\ f[m] \in Nat
<1> DEFINE T == {k \in Nat : k <= m => f[k] = g[k] /\ f[k] \in Nat}
<1>1. \A k \in 0..m : f[k] = IF k = 0 THEN 0 ELSE 256 * f[k - 1] + a[k]
  BY DEF ValueSteps
<1>2. \A k \in 0..n : g[k] = IF k = 0 THEN 0 ELSE 256 * g[k - 1] + b[k]
  BY DEF ValueSteps
<1>3. 0 \in T
  BY <1>1, <1>2
<1>4. ASSUME NEW k \in T PROVE k + 1 \in T
  <2> SUFFICES ASSUME k + 1 <= m PROVE f[k + 1] = g[k + 1] /\ f[k + 1] \in Nat
    OBVIOUS
  <2>1. k \in Nat /\ f[k] = g[k] /\ f[k] \in Nat
    OBVIOUS
  <2>2. k + 1 \in 1..m /\ k + 1 \in 0..m /\ k + 1 \in 0..n /\ k + 1 # 0 /\ (k + 1) - 1 = k
    BY <2>1
  <2>3. f[k + 1] = 256 * f[k] + a[k + 1] /\ g[k + 1] = 256 * g[k] + b[k + 1]
    BY <1>1, <1>2, <2>2
  <2> QED
    BY <2>1, <2>2, <2>3
<1> HIDE DEF T
<1>5. T \subseteq Nat
  BY DEF T
<1>6. \A k \in T : k + 1 \in T
  BY <1>4
<1>7. T = Nat
  BY <1>3, <1>5, <1>6, SetInduction
<1> QED
  BY <1>7 DEF T

(* No bytes at all read as zero.                                           *)
LEMMA ValueOfNothing == Value(<<>>) = 0
<1>1. Len(<<>>) = 0
  OBVIOUS
<1>2. PICK f : ValueSteps(f, <<>>, 0) /\ Value(<<>>) = f[0]
  BY <1>1, ValueDef
<1> QED
  BY <1>2 DEF ValueSteps

(* A further byte is worth itself, and makes the others worth 256 times    *)
(* more.                                                                   *)
LEMMA ValueAppends ==
  ASSUME NEW s \in Seq(Nat), NEW b \in Nat
  PROVE  Value(s) \in Nat /\ Value(Append(s, b)) = 256 * Value(s) + b
<1> DEFINE n == Len(s)
           t == Append(s, b)
<1>1. n \in Nat /\ Len(t) = n + 1 /\ t[n + 1] = b /\ \A k \in 1..n : t[k] = s[k] /\ s[k] \in Nat
  OBVIOUS
<1> HIDE DEF t
<1>2. PICK f : ValueSteps(f, s, n) /\ Value(s) = f[n]
  BY <1>1, ValueDef
<1>3. PICK g : ValueSteps(g, t, n + 1) /\ Value(t) = g[n + 1]
  BY <1>1, ValueDef
<1>4. f[n] = g[n] /\ f[n] \in Nat
  <2>1. n + 1 \in Nat /\ n <= n + 1 /\ \A k \in 1..n : s[k] = t[k]
    BY <1>1
  <2> QED
    BY <1>1, <1>2, <1>3, <2>1, ValuesAgree
<1>5. g[n + 1] = 256 * g[n] + b
  <2>1. n + 1 \in 0..(n + 1) /\ n + 1 # 0 /\ (n + 1) - 1 = n
    BY <1>1
  <2>2. g[n + 1] = 256 * g[(n + 1) - 1] + t[n + 1]
    BY <1>3, <2>1 DEF ValueSteps
  <2> QED
    BY <1>1, <2>1, <2>2
<1> QED
  BY <1>2, <1>3, <1>4, <1>5 DEF t

(* A number is 256 times its quotient and its remainder.                   *)
LEMMA Remainders ==
  ASSUME NEW n \in Nat
  PROVE  n \div 256 \in Nat /\ n % 256 \in 0..255 /\ n = 256 * (n \div 256) + (n % 256)
OBVIOUS

(* The bytes are the numbers up to 255.                                    *)
LEMMA ByteIsNumber == (\A x \in Byte : x \in Nat) /\ (\A x \in 0..255 : x \in Byte)
BY DEF Byte

(* A sequence of bytes is a sequence of numbers.                           *)
LEMMA BytesAreNumbers ==
  ASSUME NEW s \in Seq(Byte)
  PROVE  s \in Seq(Nat)
<1>1. s \in [1..Len(s) -> Byte] /\ Len(s) \in Nat
  OBVIOUS
<1>2. \A i \in 1..Len(s) : s[i] \in Nat
  <2> SUFFICES ASSUME NEW i \in 1..Len(s) PROVE s[i] \in Nat
    OBVIOUS
  <2>1. s[i] \in Byte
    BY <1>1
  <2> QED
    BY <2>1, ByteIsNumber, Zenon
<1>3. s = [i \in 1..Len(s) |-> s[i]]
  BY <1>1
<1>4. s \in [1..Len(s) -> Nat]
  BY <1>2, <1>3
<1> QED
  BY <1>1, <1>4, FunctionIsSeq

(* f[n] is the bytes of n.                                                 *)
DigitsSteps(f, m) ==
  f = [n \in 0..m |-> IF n = 0 THEN <<>> ELSE Append(f[n \div 256], n % 256)]

(* The bytes of the numbers up to m satisfy their equation.                *)
LEMMA DigitsExist ==
  ASSUME NEW m \in Nat
  PROVE  \E f : DigitsSteps(f, m)
<1> DEFINE T == {k \in Nat : \E f : DigitsSteps(f, k)}
<1>1. 0 \in T
  <2> DEFINE f == [n \in 0..0 |-> <<>>]
  <2>1. DigitsSteps(f, 0)
    BY DEF DigitsSteps
  <2> QED
    BY <2>1
<1>2. ASSUME NEW k \in T PROVE k + 1 \in T
  <2>1. PICK f : DigitsSteps(f, k)
    OBVIOUS
  <2> DEFINE last == Append(f[(k + 1) \div 256], (k + 1) % 256)
             h == [n \in 0..(k + 1) |-> IF n = k + 1 THEN last ELSE f[n]]
  <2>2. h[k + 1] = last /\ \A n \in 0..k : h[n] = f[n]
    OBVIOUS
  <2>3. \A n \in 1..(k + 1) : n \div 256 \in 0..(n - 1)
    OBVIOUS
  <2>4. \A n \in 0..k : f[n] = IF n = 0 THEN <<>> ELSE Append(f[n \div 256], n % 256)
    BY <2>1 DEF DigitsSteps
  <2>5. h = [n \in 0..(k + 1) |-> h[n]]
    OBVIOUS
  <2>6. \A n \in 1..(k + 1) : h[n \div 256] = f[n \div 256]
    BY <2>2, <2>3
  <2> HIDE DEF h
  <2>7. ASSUME NEW n \in 0..(k + 1)
        PROVE  h[n] = IF n = 0 THEN <<>> ELSE Append(h[n \div 256], n % 256)
    <3>1. CASE n = k + 1
      <4>1. n # 0 /\ n \in 1..(k + 1)
        BY <3>1
      <4> QED
        BY <2>2, <2>6, <3>1, <4>1
    <3>2. CASE n = 0
      BY <2>2, <2>4, <3>2
    <3>3. CASE n \in 1..k
      <4>1. n # 0 /\ n \in 1..(k + 1) /\ n \in 0..k
        BY <3>3
      <4>2. h[n] = f[n]
        BY <2>2, <4>1
      <4>3. f[n] = Append(f[n \div 256], n % 256)
        BY <2>4, <4>1
      <4>4. h[n \div 256] = f[n \div 256]
        BY <2>6, <4>1
      <4> QED
        BY <4>1, <4>2, <4>3, <4>4
    <3> QED
      BY <3>1, <3>2, <3>3
  <2>8. DigitsSteps(h, k + 1)
    BY <2>5, <2>7 DEF DigitsSteps
  <2> QED
    BY <2>8
<1> HIDE DEF T
<1>3. T \subseteq Nat
  BY DEF T
<1>4. \A k \in T : k + 1 \in T
  BY <1>2
<1>5. T = Nat
  BY <1>1, <1>3, <1>4, SetInduction
<1> QED
  BY <1>5 DEF T

(* A number is written in bytes that read as it, and none for zero.        *)
LEMMA BytesReadBack ==
  ASSUME NEW v \in Nat
  PROVE  /\ BigEndianBytes(v) \in Seq(Byte) /\ Value(BigEndianBytes(v)) = v
         /\ v > 0 => Len(BigEndianBytes(v)) > 0
<1> DEFINE F == CHOOSE f : DigitsSteps(f, v)
<1>1. DigitsSteps(F, v)
  BY DigitsExist
<1>2. BigEndianBytes(v) = F[v]
  BY DEF BigEndianBytes, DigitsSteps
<1> HIDE DEF F
<1>3. \A n \in 0..v : F[n] = IF n = 0 THEN <<>> ELSE Append(F[n \div 256], n % 256)
  BY <1>1 DEF DigitsSteps
<1> DEFINE Good(n) == /\ F[n] \in Seq(Byte) /\ Value(F[n]) = n
                      /\ n > 0 => Len(F[n]) > 0
           T == {k \in Nat : \A n \in 0..k : n <= v => Good(n)}
<1>4. Good(0)
  <2>1. F[0] = << >>
    BY <1>3
  <2> QED
    BY <2>1, ValueOfNothing
<1>5. ASSUME NEW n \in 1..v, Good(n \div 256) PROVE Good(n)
  <2>1. PICK q, r : q = n \div 256 /\ r = n % 256
    OBVIOUS
  <2>2. q \in Nat /\ r \in 0..255 /\ n = 256 * q + r
    <3>1. n \in Nat
      OBVIOUS
    <3>2. n \div 256 \in Nat /\ n % 256 \in 0..255 /\ n = 256 * (n \div 256) + (n % 256)
      BY <3>1, Remainders
    <3> QED
      BY <2>1, <3>2, Zenon
  <2>3. F[n] = Append(F[q], r)
    <3>1. n \in 0..v /\ n # 0
      OBVIOUS
    <3>2. F[n] = Append(F[n \div 256], n % 256)
      BY <1>3, <3>1
    <3> QED
      BY <2>1, <3>2, Zenon
  <2>4. F[q] \in Seq(Byte) /\ Value(F[q]) = q
    BY <1>5, <2>1
  <2>5. F[q] \in Seq(Nat) /\ r \in Nat
    BY <2>2, <2>4, BytesAreNumbers
  <2>6. r \in Byte
    BY <2>2, ByteIsNumber, Zenon
  <2>7. Value(F[n]) = n
    BY <2>2, <2>3, <2>4, <2>5, ValueAppends
  <2>8. F[n] \in Seq(Byte) /\ Len(F[n]) > 0
    BY <2>3, <2>4, <2>6
  <2> QED
    BY <2>7, <2>8
<1>6. \A n \in 1..v : n \div 256 \in 0..(n - 1)
  OBVIOUS
<1> HIDE DEF Good
<1>7. 0 \in T
  BY <1>4
<1>8. ASSUME NEW k \in T PROVE k + 1 \in T
  <2> SUFFICES ASSUME k + 1 <= v PROVE Good(k + 1)
    OBVIOUS
  <2>1. k + 1 \in 1..v
    OBVIOUS
  <2>2. (k + 1) \div 256 \in 0..k
    BY <1>6, <2>1
  <2> QED
    BY <1>5, <2>1, <2>2
<1> HIDE DEF T
<1>9. T \subseteq Nat
  BY DEF T
<1>10. \A k \in T : k + 1 \in T
  BY <1>8
<1>11. T = Nat
  BY <1>7, <1>9, <1>10, SetInduction
<1>12. Good(v)
  <2>1. v \in T /\ v \in 0..v
    BY <1>11
  <2> QED
    BY <2>1 DEF T
<1> QED
  BY <1>2, <1>12 DEF Good

(* s lies in bytes from i on.                                              *)
Occurs(s, bytes, i) ==
  /\ i + Len(s) - 1 <= Len(bytes)
  /\ \A k \in 1..Len(s) : bytes[i + k - 1] = s[k]

(* What lies from i on is what the decoder cuts out there.                 *)
LEMMA OccurringIsRead ==
  ASSUME NEW bytes \in Seq(Nat), NEW s \in Seq(Nat), NEW i \in Nat \ {0}, Occurs(s, bytes, i)
  PROVE  SubSeq(bytes, i, i + Len(s) - 1) = s
<1> DEFINE j == i + Len(s) - 1
           r == SubSeq(bytes, i, j)
<1>1. Len(s) \in Nat /\ i \in Nat /\ j \in Int /\ i >= 1 /\ j <= Len(bytes)
  BY DEF Occurs
<1>2. r \in Seq(Nat) /\ Len(r) = (IF i <= j THEN j - i + 1 ELSE 0)
        /\ \A k \in 1..(j - i + 1) : r[k] = bytes[i + k - 1]
  BY <1>1, SubSeqProperties
<1>3. Len(r) = Len(s)
  BY <1>1, <1>2
<1>4. \A k \in 1..Len(s) : r[k] = s[k]
  BY <1>1, <1>2 DEF Occurs
<1> HIDE DEF r
<1>5. r = s
  BY <1>2, <1>3, <1>4, SeqEqual
<1> QED
  BY <1>5 DEF r

(* Of two joined sequences the second lies right after the first.          *)
LEMMA OccurringSplits ==
  ASSUME NEW a \in Seq(Nat), NEW b \in Seq(Nat), NEW bytes \in Seq(Nat), NEW i \in Nat \ {0},
         Occurs(a \o b, bytes, i)
  PROVE  Occurs(a, bytes, i) /\ Occurs(b, bytes, i + Len(a))
<1>1. /\ Len(a) \in Nat /\ Len(b) \in Nat /\ Len(a \o b) = Len(a) + Len(b) /\ Len(bytes) \in Nat
      /\ \A k \in 1..Len(a) : (a \o b)[k] = a[k]
      /\ \A k \in 1..Len(b) : (a \o b)[Len(a) + k] = b[k]
  OBVIOUS
<1> DEFINE c == a \o b
<1> HIDE DEF c
<1>2. i + Len(c) - 1 <= Len(bytes) /\ \A k \in 1..Len(c) : bytes[i + k - 1] = c[k]
  BY DEF Occurs, c
<1>3. /\ Len(c) = Len(a) + Len(b)
      /\ \A k \in 1..Len(a) : c[k] = a[k]
      /\ \A k \in 1..Len(b) : c[Len(a) + k] = b[k]
  BY <1>1 DEF c
<1>4. Occurs(a, bytes, i)
  <2>1. i + Len(a) - 1 <= Len(bytes)
    BY <1>1, <1>2, <1>3
  <2>2. ASSUME NEW k \in 1..Len(a) PROVE bytes[i + k - 1] = a[k]
    <3>1. k \in 1..Len(c)
      BY <1>1, <1>3
    <3> QED
      BY <1>2, <1>3, <3>1
  <2> QED
    BY <2>1, <2>2 DEF Occurs
<1>5. Occurs(b, bytes, i + Len(a))
  <2>1. i + Len(a) + Len(b) - 1 <= Len(bytes)
    BY <1>1, <1>2, <1>3
  <2>2. ASSUME NEW k \in 1..Len(b) PROVE bytes[i + Len(a) + k - 1] = b[k]
    <3>1. Len(a) + k \in 1..Len(c) /\ i + (Len(a) + k) - 1 = i + Len(a) + k - 1
      BY <1>1, <1>3
    <3> QED
      BY <1>2, <1>3, <3>1
  <2> QED
    BY <2>1, <2>2 DEF Occurs
<1> QED
  BY <1>4, <1>5

(* A number's bytes, and the number read where they lie.                   *)
LEMMA PrefixIsSeq ==
  ASSUME NEW l \in Nat, NEW offset \in Nat
  PROVE  RlpLengthPrefix(l, offset) \in Seq(Nat) /\ Len(RlpLengthPrefix(l, offset)) >= 1
<1>1. CASE l <= 55
  <2>1. RlpLengthPrefix(l, offset) = <<offset + l>>
    BY <1>1 DEF RlpLengthPrefix
  <2> QED
    BY <2>1
<1>2. CASE l > 55
  <2>1. PICK size : size = BigEndianBytes(l) /\ size \in Seq(Nat)
    BY BytesReadBack, BytesAreNumbers
  <2>2. RlpLengthPrefix(l, offset) = <<offset + 55 + Len(size)>> \o size
    BY <1>2, <2>1 DEF RlpLengthPrefix
  <2> QED
    BY <2>1, <2>2
<1> QED
  BY <1>1, <1>2

(* The header that is written says where the payload lies.                 *)
LEMMA HeaderReads ==
  ASSUME NEW l \in Nat, NEW offset \in {128, 192}, NEW bytes \in Seq(Nat), NEW i \in Nat \ {0},
         Occurs(RlpLengthPrefix(l, offset), bytes, i)
  PROVE  LET n == Len(RlpLengthPrefix(l, offset)) IN
         Header(bytes, i, offset) = [from |-> i + n, to |-> i + n + l - 1]
<1> DEFINE p == RlpLengthPrefix(l, offset)
<1>0. offset \in Nat
  OBVIOUS
<1>1. p \in Seq(Nat) /\ Len(p) \in Nat /\ Len(p) >= 1
  <2>1. p \in Seq(Nat) /\ Len(p) >= 1
    BY <1>0, PrefixIsSeq, Zenon
  <2> QED
    BY <2>1
<1>2. bytes[i] = p[1]
  BY <1>1 DEF Occurs
<1>3. CASE l <= 55
  <2>1. p = <<offset + l>>
    BY <1>3 DEF RlpLengthPrefix
  <2>2. bytes[i] = offset + l /\ Len(p) = 1
    BY <1>2, <2>1
  <2>3. ~(offset = 128 /\ bytes[i] < 128) /\ bytes[i] <= offset + 55
    BY <1>3, <2>2
  <2>4. Header(bytes, i, offset) = [from |-> i + 1, to |-> i + bytes[i] - offset]
    BY <2>3 DEF Header
  <2>5. i + bytes[i] - offset = i + 1 + l - 1
    BY <2>2
  <2> HIDE DEF p
  <2>6. Header(bytes, i, offset) = [from |-> i + Len(p), to |-> i + Len(p) + l - 1]
    BY <2>2, <2>4, <2>5
  <2> QED
    BY <2>6 DEF p
<1>4. CASE l > 55
  <2>1. PICK size : size = BigEndianBytes(l)
    OBVIOUS
  <2>2. size \in Seq(Nat) /\ Len(size) \in Nat /\ Len(size) > 0 /\ Value(size) = l
    BY <1>4, <2>1, BytesReadBack, BytesAreNumbers
  <2> DEFINE k == Len(size)
             first == <<offset + 55 + k>>
  <2>3. p = first \o size
    BY <1>4, <2>1 DEF RlpLengthPrefix
  <2>4. Len(p) = 1 + k /\ p[1] = offset + 55 + k /\ first \in Seq(Nat) /\ Len(first) = 1
    BY <2>2, <2>3
  <2>5. Occurs(size, bytes, i + 1)
    <3>1. Occurs(first \o size, bytes, i)
      BY <2>3, Zenon
    <3> HIDE DEF first
    <3>2. Occurs(size, bytes, i + Len(first))
      BY <2>2, <2>4, <3>1, OccurringSplits
    <3> QED
      BY <2>4, <3>2
  <2>6. SubSeq(bytes, i + 1, i + k) = size
    <3>1. i + 1 \in Nat \ {0} /\ i + 1 + k - 1 = i + k
      BY <2>2
    <3>2. SubSeq(bytes, i + 1, i + 1 + k - 1) = size
      BY <2>2, <2>5, <3>1, OccurringIsRead
    <3> QED
      BY <3>1, <3>2
  <2> HIDE DEF p, k
  <2>7. k \in Nat /\ k > 0
    BY <2>2 DEF k
  <2>8. bytes[i] = offset + 55 + k
    BY <1>2, <2>4
  <2>9. bytes[i] \in Nat /\ bytes[i] - offset - 55 = k /\ ~(bytes[i] <= offset + 55)
          /\ ~(offset = 128 /\ bytes[i] < 128)
    BY <2>7, <2>8
  <2>10. Header(bytes, i, offset) = [from |-> i + 1 + k, to |-> i + k + l]
    BY <2>2, <2>6, <2>9 DEF Header
  <2>11. i + 1 + k = i + Len(p) /\ i + k + l = i + Len(p) + l - 1
    BY <2>4, <2>7
  <2>12. Header(bytes, i, offset) = [from |-> i + Len(p), to |-> i + Len(p) + l - 1]
    BY <2>10, <2>11
  <2> QED
    BY <2>12 DEF p
<1> QED
  BY <1>3, <1>4

(* The encoding of a byte string is a sequence of numbers, and is not      *)
(* empty.                                                                  *)
LEMMA StringIsSeq ==
  ASSUME NEW b \in Seq(Byte)
  PROVE  RlpString(b) \in Seq(Nat) /\ Len(RlpString(b)) \in Nat /\ Len(RlpString(b)) >= 1
<1>1. b \in Seq(Nat) /\ Len(b) \in Nat
  BY BytesAreNumbers
<1>2. CASE Len(b) = 1 /\ b[1] < 128
  BY <1>1, <1>2 DEF RlpString
<1>3. CASE ~(Len(b) = 1 /\ b[1] < 128)
  <2>1. PICK p : p = RlpLengthPrefix(Len(b), 128)
    OBVIOUS
  <2>2. p \in Seq(Nat) /\ Len(p) >= 1
    BY <1>1, <2>1, PrefixIsSeq
  <2>3. RlpString(b) = p \o b
    BY <1>3, <2>1 DEF RlpString
  <2> QED
    BY <1>1, <2>2, <2>3
<1> QED
  BY <1>2, <1>3

(* A byte string is read where it was written, and the next one starts     *)
(* after it.                                                               *)
LEMMA StringReads ==
  ASSUME NEW b \in Seq(Byte), NEW bytes \in Seq(Nat), NEW i \in Nat \ {0},
         Occurs(RlpString(b), bytes, i)
  PROVE  LET h == Header(bytes, i, 128) IN
         SubSeq(bytes, h.from, h.to) = b /\ h.to + 1 = i + Len(RlpString(b))
<1>1. b \in Seq(Nat) /\ Len(b) \in Nat
  BY BytesAreNumbers
<1>2. CASE Len(b) = 1 /\ b[1] < 128
  <2>1. RlpString(b) = b
    BY <1>2 DEF RlpString
  <2>2. Occurs(b, bytes, i)
    BY <2>1
  <2>3. bytes[i] = b[1]
    BY <1>2, <2>2 DEF Occurs
  <2>4. Header(bytes, i, 128) = [from |-> i, to |-> i]
    BY <1>2, <2>3 DEF Header
  <2>5. SubSeq(bytes, i, i + Len(b) - 1) = b
    BY <1>1, <2>2, OccurringIsRead
  <2>6. i + Len(b) - 1 = i
    BY <1>2
  <2>7. SubSeq(bytes, i, i) = b
    BY <2>5, <2>6
  <2>8. Header(bytes, i, 128).from = i /\ Header(bytes, i, 128).to = i
    BY <2>4
  <2>9. Header(bytes, i, 128).to + 1 = i + Len(RlpString(b))
    BY <1>2, <2>1, <2>8
  <2> QED
    BY <2>7, <2>8, <2>9
<1>3. CASE ~(Len(b) = 1 /\ b[1] < 128)
  <2>1. PICK p : p = RlpLengthPrefix(Len(b), 128)
    OBVIOUS
  <2>2. p \in Seq(Nat) /\ Len(p) >= 1 /\ Len(p) \in Nat
    <3>1. p \in Seq(Nat) /\ Len(p) >= 1
      BY <1>1, <2>1, PrefixIsSeq
    <3> QED
      BY <3>1
  <2>3. RlpString(b) = p \o b
    BY <1>3, <2>1 DEF RlpString
  <2>4. Occurs(p, bytes, i) /\ Occurs(b, bytes, i + Len(p))
    <3>1. Occurs(p \o b, bytes, i)
      BY <2>3
    <3> QED
      BY <1>1, <2>2, <3>1, OccurringSplits
  <2>5. Header(bytes, i, 128) = [from |-> i + Len(p), to |-> i + Len(p) + Len(b) - 1]
    BY <1>1, <2>1, <2>4, HeaderReads
  <2>6. SubSeq(bytes, i + Len(p), i + Len(p) + Len(b) - 1) = b
    <3>1. i + Len(p) \in Nat \ {0}
      BY <2>2
    <3> QED
      BY <1>1, <2>4, <3>1, OccurringIsRead
  <2>7. Len(RlpString(b)) = Len(p) + Len(b)
    BY <1>1, <2>2, <2>3
  <2>8. /\ Header(bytes, i, 128).from = i + Len(p)
        /\ Header(bytes, i, 128).to = i + Len(p) + Len(b) - 1
    BY <2>5
  <2>9. Header(bytes, i, 128).to + 1 = i + Len(RlpString(b))
    BY <1>1, <2>2, <2>7, <2>8
  <2> QED
    BY <2>6, <2>8, <2>9
<1> QED
  BY <1>2, <1>3

(* f[i] joins the first i sequences.                                       *)
FlatSteps(f, seqs, n) ==
  f = [i \in 1..n |-> IF i = 1 THEN seqs[i] ELSE f[i - 1] \o seqs[i]]

(* The joined beginnings of some sequences satisfy their equation.         *)
LEMMA FlatExists ==
  ASSUME NEW seqs, NEW n \in Nat
  PROVE  \E f : FlatSteps(f, seqs, n)
<1> DEFINE T == {k \in Nat : \E f : FlatSteps(f, seqs, k)}
<1>1. 0 \in T
  <2> DEFINE f == [i \in 1..0 |-> 0]
  <2>1. FlatSteps(f, seqs, 0)
    BY DEF FlatSteps
  <2> QED
    BY <2>1
<1>2. ASSUME NEW k \in T PROVE k + 1 \in T
  <2>1. PICK f : FlatSteps(f, seqs, k)
    OBVIOUS
  <2>2. PICK last : last = IF k = 0 THEN seqs[1] ELSE f[k] \o seqs[k + 1]
    OBVIOUS
  <2> DEFINE h == [i \in 1..(k + 1) |-> IF i = k + 1 THEN last ELSE f[i]]
  <2>3. h[k + 1] = last /\ \A i \in 1..k : h[i] = f[i]
    OBVIOUS
  <2>4. \A i \in 1..k : f[i] = IF i = 1 THEN seqs[i] ELSE f[i - 1] \o seqs[i]
    BY <2>1 DEF FlatSteps
  <2>5. h = [i \in 1..(k + 1) |-> h[i]]
    OBVIOUS
  <2> HIDE DEF h
  <2>6. ASSUME NEW i \in 1..(k + 1)
        PROVE  h[i] = IF i = 1 THEN seqs[i] ELSE h[i - 1] \o seqs[i]
    <3>1. CASE i = k + 1 /\ k = 0
      BY <2>3, <2>2, <3>1
    <3>2. CASE i = k + 1 /\ k # 0
      <4>1. i # 1 /\ i - 1 = k /\ k \in 1..k
        BY <3>2
      <4> QED
        BY <2>3, <2>2, <3>2, <4>1
    <3>3. CASE i \in 1..k /\ i = 1
      BY <2>3, <2>4, <3>3
    <3>4. CASE i \in 1..k /\ i # 1
      <4>1. i - 1 \in 1..k
        BY <3>4
      <4>2. h[i] = f[i] /\ h[i - 1] = f[i - 1]
        BY <2>3, <3>4, <4>1
      <4>3. f[i] = f[i - 1] \o seqs[i]
        BY <2>4, <3>4
      <4> QED
        BY <3>4, <4>2, <4>3
    <3> QED
      BY <3>1, <3>2, <3>3, <3>4
  <2>7. FlatSteps(h, seqs, k + 1)
    BY <2>5, <2>6 DEF FlatSteps
  <2> QED
    BY <2>7
<1> HIDE DEF T
<1>3. T \subseteq Nat
  BY DEF T
<1>4. \A k \in T : k + 1 \in T
  BY <1>2
<1>5. T = Nat
  BY <1>1, <1>3, <1>4, SetInduction
<1> QED
  BY <1>5 DEF T

(* FlattenSeq is the last of the joined beginnings.                        *)
LEMMA FlatDef ==
  ASSUME NEW seqs, Len(seqs) \in Nat \ {0}
  PROVE  \E f : FlatSteps(f, seqs, Len(seqs)) /\ FlattenSeq(seqs) = f[Len(seqs)]
<1> DEFINE F == CHOOSE f : FlatSteps(f, seqs, Len(seqs))
<1>1. FlatSteps(F, seqs, Len(seqs))
  BY FlatExists
<1>2. FlattenSeq(seqs) = F[Len(seqs)]
  BY DEF FlattenSeq, FlatSteps
<1> QED
  BY <1>1, <1>2

(* The joined beginnings are sequences of numbers.                         *)
LEMMA FlatIsSeq ==
  ASSUME NEW n \in Nat, NEW seqs, \A i \in 1..n : seqs[i] \in Seq(Nat), NEW f, FlatSteps(f, seqs, n)
  PROVE  \A i \in 1..n : f[i] \in Seq(Nat)
<1> DEFINE T == {k \in Nat : k + 1 <= n => f[k + 1] \in Seq(Nat)}
<1>1. \A i \in 1..n : f[i] = IF i = 1 THEN seqs[i] ELSE f[i - 1] \o seqs[i]
  BY DEF FlatSteps
<1>2. 0 \in T
  BY <1>1
<1>3. ASSUME NEW k \in T PROVE k + 1 \in T
  <2> SUFFICES ASSUME k + 2 <= n PROVE f[k + 2] \in Seq(Nat)
    BY (k + 1) + 1 = k + 2
  <2>1. k \in Nat /\ k + 2 \in 1..n /\ k + 2 # 1 /\ (k + 2) - 1 = k + 1 /\ k + 1 <= n
    OBVIOUS
  <2>2. f[k + 2] = f[k + 1] \o seqs[k + 2]
    BY <1>1, <2>1
  <2>3. f[k + 1] \in Seq(Nat) /\ seqs[k + 2] \in Seq(Nat)
    BY <2>1
  <2> QED
    BY <2>2, <2>3
<1> HIDE DEF T
<1>4. T \subseteq Nat
  BY DEF T
<1>5. \A k \in T : k + 1 \in T
  BY <1>3
<1>6. T = Nat
  BY <1>2, <1>4, <1>5, SetInduction
<1>7. ASSUME NEW i \in 1..n PROVE f[i] \in Seq(Nat)
  <2>1. i - 1 \in T /\ (i - 1) + 1 = i /\ i <= n
    BY <1>6
  <2> QED
    BY <2>1 DEF T
<1> QED
  BY <1>7

(* The places where sequences lie one after another, from i on.            *)
LaidOut(pos, seqs, bytes, i) ==
  LET n == Len(seqs) IN
  /\ pos[1] = i /\ pos[n + 1] = i + Len(FlattenSeq(seqs))
  /\ \A k \in 1..(n + 1) : pos[k] \in Nat /\ pos[k] >= i /\ pos[k] <= i + Len(FlattenSeq(seqs))
  /\ \A k \in 1..n : Occurs(seqs[k], bytes, pos[k]) /\ pos[k + 1] = pos[k] + Len(seqs[k])

(* A list's payload holds its items one after another.                     *)
LEMMA ItemsLie ==
  ASSUME NEW n \in Nat \ {0}, NEW seqs, Len(seqs) = n, \A k \in 1..n : seqs[k] \in Seq(Nat),
         NEW bytes \in Seq(Nat), NEW i \in Nat \ {0}, Occurs(FlattenSeq(seqs), bytes, i)
  PROVE  \E pos : LaidOut(pos, seqs, bytes, i)
<1>1. PICK f : FlatSteps(f, seqs, n) /\ FlattenSeq(seqs) = f[n]
  BY FlatDef
<1>2. \A k \in 1..n : f[k] \in Seq(Nat)
  BY <1>1, FlatIsSeq
<1>3. \A k \in 1..n : f[k] = IF k = 1 THEN seqs[k] ELSE f[k - 1] \o seqs[k]
  BY <1>1 DEF FlatSteps
<1> DEFINE T == {m \in Nat : m < n => Occurs(f[n - m], bytes, i) /\ Len(f[n - m]) <= Len(f[n])}
<1>4. 0 \in T
  <2>1. n - 0 = n /\ n \in 1..n
    OBVIOUS
  <2>2. Occurs(f[n], bytes, i) /\ Len(f[n]) \in Nat
    BY <1>1, <1>2, <2>1
  <2> QED
    BY <2>1, <2>2
<1>5. ASSUME NEW m \in T PROVE m + 1 \in T
  <2> SUFFICES ASSUME m + 1 < n
               PROVE  Occurs(f[n - (m + 1)], bytes, i) /\ Len(f[n - (m + 1)]) <= Len(f[n])
    OBVIOUS
  <2>1. PICK k : k = n - m
    OBVIOUS
  <2>2. /\ k \in 1..n /\ k # 1 /\ k - 1 \in 1..n /\ n - (m + 1) = k - 1
        /\ Occurs(f[k], bytes, i) /\ Len(f[k]) <= Len(f[n]) /\ n \in 1..n
    BY <2>1
  <2>3. /\ f[k] = f[k - 1] \o seqs[k] /\ f[k - 1] \in Seq(Nat)
        /\ seqs[k] \in Seq(Nat) /\ f[n] \in Seq(Nat)
    BY <1>2, <1>3, <2>2
  <2>4. Len(f[k]) = Len(f[k - 1]) + Len(seqs[k]) /\ Len(f[n]) \in Nat
    BY <2>3
  <2>5. Occurs(f[k - 1] \o seqs[k], bytes, i)
    BY <2>2, <2>3
  <2>6. Occurs(f[k - 1], bytes, i)
    BY <2>3, <2>5, OccurringSplits
  <2>7. Len(f[k - 1]) <= Len(f[n])
    <3>1. Len(f[k - 1]) \in Nat /\ Len(seqs[k]) \in Nat
      BY <2>3
    <3> QED
      BY <2>2, <2>4, <3>1
  <2> QED
    BY <2>2, <2>6, <2>7
<1> HIDE DEF T
<1>6. T = Nat
  <2>1. T \subseteq Nat
    BY DEF T
  <2>2. \A m \in T : m + 1 \in T
    BY <1>5
  <2> QED
    BY <1>4, <2>1, <2>2, SetInduction
<1>7. ASSUME NEW k \in 1..n PROVE Occurs(f[k], bytes, i) /\ Len(f[k]) <= Len(f[n])
  <2>1. n - k \in Nat /\ n - k < n /\ n - (n - k) = k
    OBVIOUS
  <2> QED
    BY <1>6, <2>1 DEF T
<1> DEFINE pos == [k \in 1..(n + 1) |-> IF k = 1 THEN i ELSE i + Len(f[k - 1])]
<1>8. pos[1] = i /\ pos[n + 1] = i + Len(f[n])
  <2>1. 1 \in 1..(n + 1) /\ n + 1 \in 1..(n + 1) /\ n + 1 # 1 /\ (n + 1) - 1 = n
    OBVIOUS
  <2> QED
    BY <2>1
<1>9. ASSUME NEW k \in 1..n PROVE pos[k + 1] = i + Len(f[k])
  <2>1. k + 1 \in 1..(n + 1) /\ k + 1 # 1 /\ (k + 1) - 1 = k
    OBVIOUS
  <2> QED
    BY <2>1
<1> HIDE DEF pos
<1>10. ASSUME NEW k \in 1..n PROVE Len(f[k]) \in Nat
  BY <1>2
<1>11. ASSUME NEW k \in 1..(n + 1)
       PROVE  pos[k] \in Nat /\ pos[k] >= i /\ pos[k] <= i + Len(f[n])
  <2>1. n \in 1..n
    OBVIOUS
  <2>2. CASE k = 1
    BY <1>8, <1>10, <2>1, <2>2
  <2>3. CASE k # 1
    <3>1. PICK j \in 1..n : k = j + 1
      <4>1. k - 1 \in 1..n /\ k = (k - 1) + 1
        BY <2>3
      <4> QED
        BY <4>1
    <3>2. pos[k] = i + Len(f[j]) /\ Len(f[j]) \in Nat /\ Len(f[n]) \in Nat /\ Len(f[j]) <= Len(f[n])
      BY <1>7, <1>9, <1>10, <2>1, <3>1
    <3> QED
      BY <3>2
  <2> QED
    BY <2>2, <2>3
<1>12. ASSUME NEW k \in 1..n
       PROVE  Occurs(seqs[k], bytes, pos[k]) /\ pos[k + 1] = pos[k] + Len(seqs[k])
  <2>1. Len(seqs[k]) \in Nat /\ seqs[k] \in Seq(Nat)
    OBVIOUS
  <2>2. CASE k = 1
    <3>1. f[k] = seqs[k]
      BY <1>3, <2>2
    <3>2. pos[k] = i /\ pos[k + 1] = i + Len(f[k]) /\ Occurs(f[k], bytes, i)
      BY <1>7, <1>8, <1>9, <2>2
    <3> QED
      BY <3>1, <3>2
  <2>3. CASE k # 1
    <3>1. PICK j \in 1..n : k = j + 1 /\ j = k - 1
      <4>1. k - 1 \in 1..n /\ k = (k - 1) + 1
        BY <2>3
      <4> QED
        BY <4>1
    <3>2. f[k] = f[j] \o seqs[k] /\ f[j] \in Seq(Nat) /\ Len(f[j]) \in Nat
      BY <1>2, <1>3, <1>10, <2>3, <3>1
    <3>3. pos[k] = i + Len(f[j]) /\ pos[k + 1] = i + Len(f[k])
      BY <1>9, <3>1
    <3>4. Occurs(f[j] \o seqs[k], bytes, i)
      BY <1>7, <3>2
    <3>5. Occurs(seqs[k], bytes, i + Len(f[j]))
      BY <2>1, <3>2, <3>4, OccurringSplits
    <3>6. Len(f[k]) = Len(f[j]) + Len(seqs[k])
      BY <2>1, <3>2
    <3> QED
      BY <2>1, <3>2, <3>3, <3>5, <3>6
  <2> QED
    BY <2>2, <2>3
<1>13. FlattenSeq(seqs) = f[n]
  BY <1>1
<1> QED
  BY <1>8, <1>11, <1>12, <1>13 DEF LaidOut

(* The decoder's items, from any place to the end.                         *)
ItemsSteps(f, bytes, from, end) ==
  f = [i \in from..end |->
         IF i = end THEN <<>>
         ELSE LET h == Header(bytes, i, 128)
              IN  <<SubSeq(bytes, h.from, h.to)>>
                    \o (IF h.to + 1 \in (i + 1)..end THEN f[h.to + 1] ELSE <<>>)]

(* What is decoded from each place on satisfies the decoder's equation.    *)
LEMMA ItemsExist ==
  ASSUME NEW bytes, NEW end \in Nat, NEW d \in Nat
  PROVE  \E f : ItemsSteps(f, bytes, end - d, end)
<1> DEFINE Item(f, i) ==
             IF i = end THEN <<>>
             ELSE LET h == Header(bytes, i, 128)
                  IN  <<SubSeq(bytes, h.from, h.to)>>
                        \o (IF h.to + 1 \in (i + 1)..end THEN f[h.to + 1] ELSE <<>>)
           T == {k \in Nat : \E f : ItemsSteps(f, bytes, end - k, end)}
<1>1. ASSUME NEW f, NEW from
      PROVE  ItemsSteps(f, bytes, from, end) <=> f = [i \in from..end |-> Item(f, i)]
  BY DEF ItemsSteps
<1>2. ASSUME NEW f, NEW g, NEW i, \A j \in (i + 1)..end : f[j] = g[j]
      PROVE  Item(f, i) = Item(g, i)
  BY <1>2
<1>3. ASSUME NEW f PROVE Item(f, end) = <<>>
  OBVIOUS
<1> HIDE DEF Item
<1>4. 0 \in T
  <2> DEFINE f == [i \in (end - 0)..end |-> <<>>]
  <2>1. \A i \in (end - 0)..end : i = end
    OBVIOUS
  <2>2. f = [i \in (end - 0)..end |-> Item(f, i)]
    BY <1>3, <2>1
  <2>3. ItemsSteps(f, bytes, end - 0, end)
    BY <1>1, <2>2
  <2> QED
    BY <2>3
<1>5. ASSUME NEW k \in T PROVE k + 1 \in T
  <2>1. PICK f : ItemsSteps(f, bytes, end - k, end)
    OBVIOUS
  <2>2. PICK lo \in Int : lo = end - (k + 1) /\ end - k = lo + 1 /\ lo < end
    OBVIOUS
  <2>3. \A i \in (lo + 1)..end : f[i] = Item(f, i)
    BY <1>1, <2>1, <2>2
  <2>4. PICK first : first = Item(f, lo)
    OBVIOUS
  <2> DEFINE h == [i \in lo..end |-> IF i = lo THEN first ELSE f[i]]
  <2>5. h[lo] = first /\ \A i \in (lo + 1)..end : h[i] = f[i]
    BY <2>2
  <2>6. h = [i \in lo..end |-> h[i]]
    OBVIOUS
  <2> HIDE DEF h
  <2>7. ASSUME NEW i \in lo..end PROVE h[i] = Item(h, i)
    <3>1. \A j \in (i + 1)..end : h[j] = f[j]
      <4>1. \A j \in (i + 1)..end : j \in (lo + 1)..end
        BY <2>2
      <4> QED
        BY <2>5, <4>1
    <3>2. Item(h, i) = Item(f, i)
      BY <1>2, <3>1
    <3>3. CASE i = lo
      BY <2>4, <2>5, <3>2, <3>3
    <3>4. CASE i # lo
      <4>1. i \in (lo + 1)..end
        BY <2>2, <3>4
      <4> QED
        BY <2>3, <2>5, <3>2, <4>1
    <3> QED
      BY <3>3, <3>4
  <2>8. h = [i \in lo..end |-> Item(h, i)]
    BY <2>6, <2>7
  <2>9. ItemsSteps(h, bytes, end - (k + 1), end)
    BY <1>1, <2>2, <2>8
  <2> QED
    BY <2>9
<1> HIDE DEF T
<1>6. T = Nat
  <2>1. T \subseteq Nat
    BY DEF T
  <2>2. \A k \in T : k + 1 \in T
    BY <1>5
  <2> QED
    BY <1>4, <2>1, <2>2, SetInduction
<1> QED
  BY <1>6 DEF T

(* DecodeList reads the items from where the header says.                  *)
LEMMA DecodingStarts ==
  ASSUME NEW bytes, NEW from \in Nat, NEW end \in Nat, from <= end,
         Header(bytes, 1, 192) = [from |-> from, to |-> end - 1], Len(bytes) = end - 1
  PROVE  \E f : ItemsSteps(f, bytes, from, end) /\ DecodeList(bytes) = f[from]
<1>1. /\ Header(bytes, 1, 192).from = from /\ Header(bytes, 1, 192).to = Len(bytes)
      /\ Header(bytes, 1, 192).to + 1 = end
  OBVIOUS
<1> DEFINE b == Header(bytes, 1, 192)
           F == CHOOSE f : ItemsSteps(f, bytes, b.from, b.to + 1)
<1>2. \E f : ItemsSteps(f, bytes, from, end)
  <2>1. PICK d \in Nat : end - d = from
    <3>1. end - from \in Nat /\ end - (end - from) = from
      OBVIOUS
    <3> QED
      BY <3>1
  <2> QED
    BY <2>1, ItemsExist
<1>3. \E f : ItemsSteps(f, bytes, b.from, b.to + 1)
  BY <1>1, <1>2
<1>4. ItemsSteps(F, bytes, b.from, b.to + 1)
  BY <1>3, Zenon
<1>5. DecodeList(bytes) = IF b.to = Len(bytes) THEN F[b.from] ELSE <<>>
  BY DEF DecodeList, ItemsSteps
<1> HIDE DEF F
<1>6. ItemsSteps(F, bytes, from, end) /\ DecodeList(bytes) = F[from]
  BY <1>1, <1>4, <1>5
<1> QED
  BY <1>6

(* The rest from k on is element k and the rest from k + 1 on.             *)
LEMMA TailsGrow ==
  ASSUME NEW S, NEW s \in Seq(S), NEW k \in 1..Len(s)
  PROVE  <<s[k]>> \o SubSeq(s, k + 1, Len(s)) = SubSeq(s, k, Len(s))
<1> DEFINE n == Len(s)
           t == SubSeq(s, k + 1, n)
           r == SubSeq(s, k, n)
<1>1. n \in Nat /\ k \in Nat /\ k >= 1 /\ k <= n /\ s[k] \in S
  OBVIOUS
<1>2. t \in Seq(S) /\ Len(t) = n - k /\ \A j \in 1..(n - k) : t[j] = s[k + j]
  <2>1. /\ t \in Seq(S) /\ Len(t) = (IF k + 1 <= n THEN n - (k + 1) + 1 ELSE 0)
        /\ \A j \in 1..(n - (k + 1) + 1) : t[j] = s[(k + 1) + j - 1]
    BY <1>1, SubSeqProperties
  <2>2. n - (k + 1) + 1 = n - k
    BY <1>1
  <2> HIDE DEF t, n
  <2>3. ASSUME NEW j \in 1..(n - k) PROVE t[j] = s[k + j]
    <3>1. j \in 1..(n - (k + 1) + 1) /\ (k + 1) + j - 1 = k + j
      BY <1>1, <2>2
    <3>2. t[j] = s[(k + 1) + j - 1]
      BY <2>1, <3>1
    <3> QED
      BY <3>1, <3>2
  <2>4. Len(t) = n - k
    BY <1>1, <2>1
  <2> QED
    BY <2>1, <2>3, <2>4
<1>3. r \in Seq(S) /\ Len(r) = n - k + 1 /\ \A j \in 1..(n - k + 1) : r[j] = s[k + j - 1]
  BY <1>1, SubSeqProperties
<1> HIDE DEF t, r, n
<1>4. PICK u : u = <<s[k]>> \o t
  OBVIOUS
<1>5. /\ u \in Seq(S) /\ Len(u) = n - k + 1 /\ u[1] = s[k]
      /\ \A j \in 1..(n - k) : u[1 + j] = t[j]
  <2>1. <<s[k]>> \in Seq(S) /\ Len(<<s[k]>>) = 1 /\ <<s[k]>>[1] = s[k]
    BY <1>1
  <2>2. u \in Seq(S) /\ Len(u) = 1 + Len(t)
    BY <1>2, <1>4, <2>1
  <2>3. u[1] = s[k] /\ \A j \in 1..Len(t) : u[1 + j] = t[j]
    BY <1>2, <1>4, <2>1
  <2> QED
    BY <1>1, <1>2, <2>2, <2>3
<1>6. ASSUME NEW j \in 1..(n - k + 1) PROVE u[j] = r[j]
  <2>1. CASE j = 1
    <3>1. k + 1 - 1 = k
      BY <1>1
    <3> QED
      BY <1>1, <1>3, <1>5, <2>1, <3>1
  <2>2. CASE j # 1
    <3>1. j - 1 \in 1..(n - k) /\ 1 + (j - 1) = j /\ k + (j - 1) = k + j - 1
      BY <1>1, <2>2
    <3>2. u[j] = t[j - 1] /\ t[j - 1] = s[k + (j - 1)]
      BY <1>2, <1>5, <3>1
    <3> QED
      BY <1>3, <3>1, <3>2
  <2> QED
    BY <2>1, <2>2
<1>7. u = r
  BY <1>3, <1>5, <1>6, SeqEqual
<1> QED
  BY <1>4, <1>7 DEF t, r, n

(* The rest from the first element on is everything.                       *)
LEMMA WholeIsSubSeq ==
  ASSUME NEW S, NEW s \in Seq(S)
  PROVE  SubSeq(s, 1, Len(s)) = s /\ SubSeq(s, Len(s) + 1, Len(s)) = <<>>
<1>1. Len(s) \in Nat
  OBVIOUS
<1> DEFINE r == SubSeq(s, 1, Len(s))
           e == SubSeq(s, Len(s) + 1, Len(s))
<1>2. r \in Seq(S) /\ Len(r) = Len(s) /\ \A j \in 1..Len(s) : r[j] = s[j]
  <2>1. /\ r \in Seq(S) /\ Len(r) = (IF 1 <= Len(s) THEN Len(s) - 1 + 1 ELSE 0)
        /\ \A j \in 1..(Len(s) - 1 + 1) : r[j] = s[1 + j - 1]
    BY <1>1, SubSeqProperties
  <2>2. Len(s) - 1 + 1 = Len(s) /\ \A j \in 1..Len(s) : 1 + j - 1 = j
    BY <1>1
  <2> QED
    BY <1>1, <2>1, <2>2
<1>3. e \in Seq(S) /\ Len(e) = 0
  BY <1>1, SubSeqProperties
<1> HIDE DEF r, e
<1>4. r = s
  BY <1>2, SeqEqual
<1>5. e = <<>>
  BY <1>3
<1> QED
  BY <1>4, <1>5 DEF r, e

(* What FlattenSeq makes of sequences of numbers.                          *)
LEMMA FlatIsBytes ==
  ASSUME NEW seqs \in Seq(Seq(Nat))
  PROVE  FlattenSeq(seqs) \in Seq(Nat)
<1>1. Len(seqs) \in Nat /\ \A k \in 1..Len(seqs) : seqs[k] \in Seq(Nat)
  OBVIOUS
<1>2. CASE Len(seqs) = 0
  <2>1. FlattenSeq(seqs) = seqs /\ seqs = <<>>
    BY <1>2 DEF FlattenSeq
  <2> QED
    BY <2>1
<1>3. CASE Len(seqs) # 0
  <2>1. PICK f : FlatSteps(f, seqs, Len(seqs)) /\ FlattenSeq(seqs) = f[Len(seqs)]
    BY <1>1, <1>3, FlatDef
  <2>2. Len(seqs) \in 1..Len(seqs)
    BY <1>1, <1>3
  <2>3. \A k \in 1..Len(seqs) : f[k] \in Seq(Nat)
    BY <1>1, <2>1, FlatIsSeq
  <2> QED
    BY <2>1, <2>2, <2>3
<1> QED
  BY <1>2, <1>3

(* Items that lie one after another are read one after another.            *)
EncodedAt(pos, strings, items, bytes, from) ==
  /\ Len(items) = Len(strings)
  /\ \A k \in 1..Len(strings) : items[k] = RlpString(strings[k])
  /\ LaidOut(pos, items, bytes, from)

LEMMA ItemsAreRead ==
  ASSUME NEW strings \in Seq(Seq(Byte)), Len(strings) # 0, NEW items, NEW bytes \in Seq(Nat),
         NEW from \in Nat \ {0}, NEW pos, EncodedAt(pos, strings, items, bytes, from),
         NEW end \in Nat, end = from + Len(FlattenSeq(items)),
         NEW f, ItemsSteps(f, bytes, from, end)
  PROVE  f[from] = strings
<1>1. PICK n \in Nat \ {0} : n = Len(strings)
  OBVIOUS
<1>2. /\ pos[1] = from /\ pos[n + 1] = end
      /\ \A k \in 1..(n + 1) : pos[k] \in Nat /\ pos[k] >= pos[1] /\ pos[k] <= end
      /\ \A k \in 1..n : /\ Occurs(RlpString(strings[k]), bytes, pos[k])
                          /\ pos[k + 1] = pos[k] + Len(RlpString(strings[k]))
  BY <1>1 DEF LaidOut, EncodedAt
<1>3. \A i \in pos[1]..end :
        f[i] = IF i = end THEN <<>>
               ELSE LET h == Header(bytes, i, 128)
                    IN  <<SubSeq(bytes, h.from, h.to)>>
                          \o (IF h.to + 1 \in (i + 1)..end THEN f[h.to + 1] ELSE <<>>)
  BY <1>2 DEF ItemsSteps
<1> DEFINE T == {m \in Nat : m <= n => f[pos[n + 1 - m]] = SubSeq(strings, n + 1 - m, n)}
<1>4. 0 \in T
  <2>1. n + 1 - 0 = n + 1 /\ n + 1 \in 1..(n + 1) /\ 1 \in 1..(n + 1)
    OBVIOUS
  <2>2. end \in pos[1]..end
    BY <1>2, <2>1
  <2>3. f[end] = <<>>
    BY <1>3, <2>2
  <2>4. SubSeq(strings, n + 1, n) = <<>>
    BY <1>1, WholeIsSubSeq
  <2> QED
    BY <1>2, <2>1, <2>3, <2>4
<1>5. ASSUME NEW m \in T PROVE m + 1 \in T
  <2> SUFFICES ASSUME m + 1 <= n
               PROVE  f[pos[n + 1 - (m + 1)]] = SubSeq(strings, n + 1 - (m + 1), n)
    OBVIOUS
  <2>1. PICK k : k = n - m
    OBVIOUS
  <2>2. /\ k \in 1..n /\ k \in 1..(n + 1) /\ k + 1 \in 1..(n + 1) /\ 1 \in 1..(n + 1)
        /\ n + 1 - (m + 1) = k /\ n + 1 - m = k + 1
    BY <2>1
  <2>3. f[pos[k + 1]] = SubSeq(strings, k + 1, n)
    <3>1. f[pos[n + 1 - m]] = SubSeq(strings, n + 1 - m, n)
      OBVIOUS
    <3> HIDE DEF T
    <3> QED
      BY <2>2, <3>1
  <2>4. PICK i : i = pos[k]
    OBVIOUS
  <2>5. PICK l : l = Len(RlpString(strings[k]))
    OBVIOUS
  <2>6. strings[k] \in Seq(Byte)
    BY <1>1, <2>2
  <2>7. l \in Nat /\ l >= 1
    BY <2>5, <2>6, StringIsSeq
  <2>8. pos[k + 1] = i + l /\ i \in Nat \ {0} /\ i + l <= end /\ pos[1] \in Nat /\ pos[1] <= i
    <3>1. /\ pos[k + 1] = i + l /\ i \in Nat /\ pos[k + 1] <= end /\ pos[1] \in Nat /\ i >= pos[1]
      BY <1>2, <2>2, <2>4, <2>5
    <3>2. pos[k + 1] = i + l
      BY <3>1
    <3>3. i \in Nat /\ pos[1] \in Nat /\ pos[1] # 0 /\ i >= pos[1]
      BY <1>2, <3>1
    <3>4. i \in Nat \ {0} /\ pos[1] <= i
      BY <3>3
    <3> QED
      BY <3>1, <3>2, <3>3, <3>4
  <2>9. /\ SubSeq(bytes, Header(bytes, i, 128).from, Header(bytes, i, 128).to) = strings[k]
        /\ Header(bytes, i, 128).to + 1 = i + l
    <3>1. Occurs(RlpString(strings[k]), bytes, i)
      BY <1>2, <2>2, <2>4
    <3>2. LET h == Header(bytes, i, 128) IN
          SubSeq(bytes, h.from, h.to) = strings[k] /\ h.to + 1 = i + Len(RlpString(strings[k]))
      <4>1. PICK s : s = strings[k]
        OBVIOUS
      <4>2. s \in Seq(Byte) /\ i \in Nat \ {0} /\ Occurs(RlpString(s), bytes, i)
        BY <2>6, <2>8, <3>1, <4>1
      <4>3. LET h == Header(bytes, i, 128) IN
            SubSeq(bytes, h.from, h.to) = s /\ h.to + 1 = i + Len(RlpString(s))
        BY <4>2, StringReads
      <4> QED
        BY <4>1, <4>3
    <3> QED
      BY <2>5, <3>2, Zenon
  <2>10. i \in pos[1]..end /\ i # end /\ i + l \in (i + 1)..end
    BY <2>7, <2>8
  <2>11. f[i] = <<strings[k]>> \o f[i + l]
    BY <1>3, <2>9, <2>10
  <2>12. f[i] = <<strings[k]>> \o SubSeq(strings, k + 1, n)
    BY <2>3, <2>8, <2>11
  <2>13. f[i] = SubSeq(strings, k, n)
    BY <1>1, <2>2, <2>12, TailsGrow
  <2> QED
    BY <2>2, <2>4, <2>13
<1> HIDE DEF T
<1>6. T = Nat
  <2>1. T \subseteq Nat
    BY DEF T
  <2>2. \A m \in T : m + 1 \in T
    BY <1>5
  <2> QED
    BY <1>4, <2>1, <2>2, SetInduction
<1>7. f[from] = SubSeq(strings, 1, n)
  <2>1. n \in T /\ n <= n /\ n + 1 - n = 1
    BY <1>6
  <2> QED
    BY <1>2, <2>1 DEF T
<1>8. SubSeq(strings, 1, n) = strings
  BY <1>1, WholeIsSubSeq
<1> QED
  BY <1>7, <1>8

(* What is decoded from a list is what was encoded into it.                *)
LEMMA DecodesToItself ==
  ASSUME NEW strings \in Seq(Seq(Byte)), NEW items, items \in Seq(Seq(Nat)),
         Len(items) = Len(strings), \A k \in 1..Len(strings) : items[k] = RlpString(strings[k])
  PROVE  DecodeList(RlpList(items)) = strings
<1>1. PICK n \in Nat : n = Len(strings) /\ n = Len(items)
  OBVIOUS
<1>2. PICK payload : payload = FlattenSeq(items)
  OBVIOUS
<1>3. payload \in Seq(Nat) /\ Len(payload) \in Nat
  BY <1>2, FlatIsBytes
<1>4. PICK p : p = RlpLengthPrefix(Len(payload), 192)
  OBVIOUS
<1>5. p \in Seq(Nat) /\ Len(p) >= 1
  BY <1>3, <1>4, PrefixIsSeq
<1>6. PICK bytes : bytes = p \o payload
  OBVIOUS
<1>7. RlpList(items) = bytes
  BY <1>2, <1>4, <1>6 DEF RlpList
<1>8. bytes \in Seq(Nat) /\ Len(bytes) = Len(p) + Len(payload) /\ Len(p) \in Nat
  BY <1>3, <1>5, <1>6
<1>9. PICK from \in Nat \ {0}, end \in Nat :
        from = 1 + Len(p) /\ end = from + Len(payload) /\ Len(bytes) = end - 1
  <2>1. 1 + Len(p) \in Nat \ {0} /\ 1 + Len(p) + Len(payload) \in Nat
          /\ Len(bytes) = 1 + Len(p) + Len(payload) - 1
    BY <1>3, <1>8
  <2> QED
    BY <2>1
<1>10. Occurs(p, bytes, 1) /\ Occurs(payload, bytes, from)
  <2>1. Occurs(bytes, bytes, 1)
    BY <1>8 DEF Occurs
  <2>2. Occurs(p \o payload, bytes, 1)
    BY <1>6, <2>1
  <2>3. Occurs(p, bytes, 1) /\ Occurs(payload, bytes, 1 + Len(p))
    BY <1>3, <1>5, <1>8, <2>2, OccurringSplits
  <2> QED
    BY <1>9, <2>3
<1>11. Header(bytes, 1, 192) = [from |-> from, to |-> end - 1]
  <2>1. Header(bytes, 1, 192) = [from |-> 1 + Len(p), to |-> 1 + Len(p) + Len(payload) - 1]
    BY <1>3, <1>4, <1>8, <1>10, HeaderReads
  <2> QED
    BY <1>9, <2>1
<1>12. from <= end
  BY <1>3, <1>9
<1>13. PICK f : ItemsSteps(f, bytes, from, end) /\ DecodeList(bytes) = f[from]
  BY <1>9, <1>11, <1>12, DecodingStarts
<1>14. CASE n = 0
  <2>1. payload = <<>> /\ strings = <<>>
    <3>1. items = <<>> /\ strings = <<>> /\ Len(items) = 0
      BY <1>1, <1>14, EmptySeq
    <3>2. payload = items
      BY <1>2, <3>1 DEF FlattenSeq
    <3> QED
      BY <3>1, <3>2
  <2>2. from = end
    BY <1>9, <2>1
  <2>3. f[from] = <<>>
    BY <1>13, <2>2 DEF ItemsSteps
  <2> QED
    BY <1>7, <1>13, <2>1, <2>3
<1>15. CASE n # 0
  <2>1. n \in Nat \ {0} /\ Len(items) = n /\ Len(strings) = n
    BY <1>1, <1>15
  <2>2. \A k \in 1..n : items[k] \in Seq(Nat) /\ items[k] = RlpString(strings[k])
    BY <1>1
  <2>3. Occurs(FlattenSeq(items), bytes, from) /\ from \in Nat \ {0} /\ bytes \in Seq(Nat)
    BY <1>2, <1>8, <1>9, <1>10
  <2>4. PICK pos : LaidOut(pos, items, bytes, from)
    BY <2>1, <2>2, <2>3, ItemsLie
  <2>5. end \in Nat /\ end = from + Len(FlattenSeq(items)) /\ ItemsSteps(f, bytes, from, end)
    BY <1>2, <1>9, <1>13
  <2>6. EncodedAt(pos, strings, items, bytes, from) /\ Len(strings) # 0
    BY <2>1, <2>2, <2>4 DEF EncodedAt
  <2>7. f[from] = strings
    BY <2>3, <2>5, <2>6, ItemsAreRead
  <2> QED
    BY <1>7, <1>13, <2>7
<1> QED
  BY <1>14, <1>15

(***************************************************************************)
(* A node reads the byte strings that were encoded, whatever and however   *)
(* many they are.                                                          *)
(***************************************************************************)
THEOREM StringsReadBack == \A strings \in Seq(Seq(Byte)) : ReadsBack(strings)
<1> SUFFICES ASSUME NEW strings \in Seq(Seq(Byte)) PROVE ReadsBack(strings)
  OBVIOUS
<1>1. PICK n \in Nat : n = Len(strings) /\ DOMAIN strings = 1..n
  OBVIOUS
<1>2. PICK items : items = [i \in DOMAIN strings |-> RlpString(strings[i])]
  OBVIOUS
<1>3. \A k \in 1..n : strings[k] \in Seq(Byte)
  BY <1>1
<1>4. \A k \in 1..n : items[k] = RlpString(strings[k])
  BY <1>1, <1>2
<1>5. \A k \in 1..n : items[k] \in Seq(Nat)
  BY <1>3, <1>4, StringIsSeq
<1>6. items \in [1..n -> Seq(Nat)]
  BY <1>1, <1>2, <1>4, <1>5
<1>7. items \in Seq(Seq(Nat)) /\ Len(items) = n
  BY <1>1, <1>6, FunctionIsSeq
<1>8. DecodeList(RlpList(items)) = strings
  BY <1>1, <1>4, <1>7, DecodesToItself
<1> QED
  BY <1>2, <1>8 DEF ReadsBack

(* Sequences that agree up to m begin alike.                               *)
LEMMA BeginningsAgree ==
  ASSUME NEW S, NEW s \in Seq(S), NEW t \in Seq(S), NEW m \in Nat, m <= Len(s), m <= Len(t),
         \A j \in 1..m : s[j] = t[j]
  PROVE  SubSeq(s, 1, m) = SubSeq(t, 1, m)
<1>1. ASSUME NEW u \in Seq(S), m <= Len(u)
      PROVE  /\ SubSeq(u, 1, m) \in Seq(S) /\ Len(SubSeq(u, 1, m)) = m
             /\ \A j \in 1..m : SubSeq(u, 1, m)[j] = u[j]
  <2>1. PICK r : r = SubSeq(u, 1, m)
    OBVIOUS
  <2>2. /\ r \in Seq(S) /\ Len(r) = (IF 1 <= m THEN m - 1 + 1 ELSE 0)
        /\ \A j \in 1..(m - 1 + 1) : r[j] = u[1 + j - 1]
    BY <1>1, <2>1, SubSeqProperties
  <2>3. m - 1 + 1 = m /\ \A j \in 1..m : 1 + j - 1 = j
    OBVIOUS
  <2>4. Len(r) = m /\ \A j \in 1..m : r[j] = u[j]
    BY <2>2, <2>3
  <2> QED
    BY <2>1, <2>2, <2>4
<1>2. PICK x, y : x = SubSeq(s, 1, m) /\ y = SubSeq(t, 1, m)
  OBVIOUS
<1>3. x \in Seq(S) /\ Len(x) = m /\ \A j \in 1..m : x[j] = s[j]
  BY <1>1, <1>2
<1>4. y \in Seq(S) /\ Len(y) = m /\ \A j \in 1..m : y[j] = t[j]
  BY <1>1, <1>2
<1>5. x = y
  BY <1>3, <1>4, SeqEqual
<1> QED
  BY <1>2, <1>5

(* The chain id is read back from V, which is no V of old transactions.    *)
LEMMA HalvesOfV ==
  ASSUME NEW c \in Nat, NEW r \in 0..1
  PROVE  V(c, r) \in Nat /\ V(c, r) \notin {27, 28} /\ (V(c, r) - 35) \div 2 = c
<1>1. PICK v \in Nat : v = c * 2 + 35 + r /\ v = V(c, r)
  BY DEF V
<1>2. v - 35 = c * 2 + r /\ v >= 35
  BY <1>1
<1>3. CASE r = 0
  <2>1. (c * 2) \div 2 = c
    OBVIOUS
  <2> QED
    BY <1>1, <1>2, <1>3, <2>1
<1>4. CASE r = 1
  <2>1. (c * 2 + 1) \div 2 = c
    OBVIOUS
  <2> QED
    BY <1>1, <1>2, <1>4, <2>1
<1> QED
  BY <1>3, <1>4

(* A list of nine strings is decoded to them.                              *)
LEMMA NineAreDecoded ==
  ASSUME NEW s \in Seq(Seq(Byte)), Len(s) = 9
  PROVE  DecodeList(RlpList(<<RlpString(s[1]), RlpString(s[2]), RlpString(s[3]), RlpString(s[4]),
                              RlpString(s[5]), RlpString(s[6]), RlpString(s[7]), RlpString(s[8]),
                              RlpString(s[9])>>)) = s
<1> DEFINE items == <<RlpString(s[1]), RlpString(s[2]), RlpString(s[3]), RlpString(s[4]),
                      RlpString(s[5]), RlpString(s[6]), RlpString(s[7]), RlpString(s[8]),
                      RlpString(s[9])>>
<1>1. \A k \in 1..9 : s[k] \in Seq(Byte)
  <2>1. \A k \in 1..Len(s) : s[k] \in Seq(Byte)
    BY ElementOfSeq
  <2> QED
    BY <2>1
<1>2. \A k \in 1..9 : RlpString(s[k]) \in Seq(Nat)
  BY <1>1, StringIsSeq
<1>3. items \in Seq(Seq(Nat)) /\ Len(items) = 9
  BY <1>2
<1>4. ASSUME NEW k \in 1..9 PROVE items[k] = RlpString(s[k])
  <2>1. k \in {1, 2, 3, 4, 5, 6, 7, 8, 9}
    OBVIOUS
  <2> QED
    BY <2>1
<1> HIDE DEF items
<1>5. DecodeList(RlpList(items)) = s
  BY <1>3, <1>4, DecodesToItself
<1> QED
  BY <1>5 DEF items

(***************************************************************************)
(* Every field of every transaction comes back from what is sent, the      *)
(* chain it is signed for among them.                                      *)
(***************************************************************************)
THEOREM TransactionsReadBack ==
  ASSUME NEW tx, tx.nonce \in Nat, tx.gasPrice \in Nat, tx.gasLimit \in Nat, tx.chainID \in Nat,
         tx.to \in Seq(Byte), tx.data \in Seq(Byte), NEW recovery \in 0..1
  PROVE  TxReadsBack(tx, recovery)
<1> DEFINE v == V(tx.chainID, recovery)
           sent == DecodeList(SignedTx(tx, recovery, 1, 1))
           signed == DecodeList(SigningPayload(tx))
<1>1. v \in Nat /\ v \notin {27, 28} /\ (v - 35) \div 2 = tx.chainID
  <2>1. PICK c \in Nat : c = tx.chainID
    OBVIOUS
  <2>2. V(c, recovery) \in Nat /\ V(c, recovery) \notin {27, 28} /\ (V(c, recovery) - 35) \div 2 = c
    BY HalvesOfV
  <2> QED
    BY <2>1, <2>2
<1> HIDE DEF v
<1>2. ASSUME NEW n \in Nat
      PROVE  BigEndianBytes(n) \in Seq(Byte) /\ Value(BigEndianBytes(n)) = n
  BY BytesReadBack
<1>3. <<>> \in Seq(Byte)
  OBVIOUS
<1> DEFINE N == BigEndianBytes(tx.nonce)
           P == BigEndianBytes(tx.gasPrice)
           L == BigEndianBytes(tx.gasLimit)
           C == BigEndianBytes(tx.chainID)
           W == BigEndianBytes(v)
           One == BigEndianBytes(1)
<1>4. /\ N \in Seq(Byte) /\ P \in Seq(Byte) /\ L \in Seq(Byte) /\ C \in Seq(Byte)
      /\ W \in Seq(Byte) /\ One \in Seq(Byte)
      /\ Value(N) = tx.nonce /\ Value(P) = tx.gasPrice /\ Value(L) = tx.gasLimit
      /\ Value(C) = tx.chainID /\ Value(W) = v
  BY <1>1, <1>2
<1>5. sent = <<N, P, L, tx.to, <<>>, tx.data, W, One, One>>
  <2>1. SignedTx(tx, recovery, 1, 1)
          = RlpList(<<RlpString(N), RlpString(P), RlpString(L), RlpString(tx.to), RlpString(<<>>),
                      RlpString(tx.data), RlpString(W), RlpString(One), RlpString(One)>>)
    BY DEF SignedTx, RlpUint, v
  <2> HIDE DEF N, P, L, C, W, One
  <2>2. DecodeList(RlpList(<<RlpString(N), RlpString(P), RlpString(L), RlpString(tx.to),
                             RlpString(<<>>), RlpString(tx.data), RlpString(W), RlpString(One),
                             RlpString(One)>>))
          = <<N, P, L, tx.to, <<>>, tx.data, W, One, One>>
    <3>1. PICK s : s = <<N, P, L, tx.to, <<>>, tx.data, W, One, One>>
      OBVIOUS
    <3>2. s \in Seq(Seq(Byte)) /\ Len(s) = 9
      BY <1>3, <1>4, <3>1
    <3>3. s[1] = N /\ s[2] = P /\ s[3] = L /\ s[4] = tx.to /\ s[5] = <<>>
            /\ s[6] = tx.data /\ s[7] = W /\ s[8] = One /\ s[9] = One
      BY <3>1
    <3>4. DecodeList(RlpList(<<RlpString(s[1]), RlpString(s[2]), RlpString(s[3]), RlpString(s[4]),
                               RlpString(s[5]), RlpString(s[6]), RlpString(s[7]), RlpString(s[8]),
                               RlpString(s[9])>>)) = s
      BY <3>2, NineAreDecoded
    <3> QED
      BY <3>1, <3>3, <3>4
  <2> QED
    BY <2>1, <2>2
<1>6. signed = <<N, P, L, tx.to, <<>>, tx.data, C, <<>>, <<>>>>
  <2>1. SigningPayload(tx)
          = RlpList(<<RlpString(N), RlpString(P), RlpString(L), RlpString(tx.to), RlpString(<<>>),
                      RlpString(tx.data), RlpString(C), RlpString(<<>>), RlpString(<<>>)>>)
    BY DEF SigningPayload, RlpUint
  <2> HIDE DEF N, P, L, C, W, One
  <2>2. DecodeList(RlpList(<<RlpString(N), RlpString(P), RlpString(L), RlpString(tx.to),
                             RlpString(<<>>), RlpString(tx.data), RlpString(C), RlpString(<<>>),
                             RlpString(<<>>)>>))
          = <<N, P, L, tx.to, <<>>, tx.data, C, <<>>, <<>>>>
    <3>1. PICK s : s = <<N, P, L, tx.to, <<>>, tx.data, C, <<>>, <<>>>>
      OBVIOUS
    <3>2. s \in Seq(Seq(Byte)) /\ Len(s) = 9
      BY <1>3, <1>4, <3>1
    <3>3. s[1] = N /\ s[2] = P /\ s[3] = L /\ s[4] = tx.to /\ s[5] = <<>>
            /\ s[6] = tx.data /\ s[7] = C /\ s[8] = <<>> /\ s[9] = <<>>
      BY <3>1
    <3>4. DecodeList(RlpList(<<RlpString(s[1]), RlpString(s[2]), RlpString(s[3]), RlpString(s[4]),
                               RlpString(s[5]), RlpString(s[6]), RlpString(s[7]), RlpString(s[8]),
                               RlpString(s[9])>>)) = s
      BY <3>2, NineAreDecoded
    <3> QED
      BY <3>1, <3>3, <3>4
  <2> QED
    BY <2>1, <2>2
<1> HIDE DEF sent, signed, N, P, L, C, W, One
<1>7. /\ Value(sent[1]) = tx.nonce /\ Value(sent[2]) = tx.gasPrice /\ Value(sent[3]) = tx.gasLimit
      /\ sent[4] = tx.to /\ sent[6] = tx.data /\ Value(sent[7]) = v
      /\ Value(signed[7]) = tx.chainID
  BY <1>4, <1>5, <1>6
<1>8. SubSeq(sent, 1, 6) = SubSeq(signed, 1, 6)
  <2>1. /\ sent \in Seq(Seq(Byte)) /\ Len(sent) = 9
        /\ signed \in Seq(Seq(Byte)) /\ Len(signed) = 9
    BY <1>3, <1>4, <1>5, <1>6
  <2>2. /\ sent[1] = signed[1] /\ sent[2] = signed[2] /\ sent[3] = signed[3]
        /\ sent[4] = signed[4] /\ sent[5] = signed[5] /\ sent[6] = signed[6]
    BY <1>5, <1>6
  <2>3. ASSUME NEW j \in 1..6 PROVE sent[j] = signed[j]
    <3>1. j \in {1, 2, 3, 4, 5, 6}
      OBVIOUS
    <3> QED
      BY <2>2, <3>1
  <2> QED
    BY <2>1, <2>3, BeginningsAgree
<1> QED
  BY <1>1, <1>7, <1>8 DEF TxReadsBack, sent, signed

-----------------------------------------------------------------------------
(* Integers of an attestation                                              *)

ByteSeqs(n) == [1..n -> 0..(ByteBase - 1)]

(* The fold that reads bytes, from a.                                      *)
Reading(g, a, bytes, n) ==
  g = [i \in 0..n |-> IF i = 0 THEN a ELSE g[i - 1] * ByteBase + bytes[i]]

LEMMA BasesAreEven == ByteBase \in Nat /\ \E b \in Nat \ {0} : ByteBase = 2 * b /\ ByteBase \div 2 = b
<1>1. PICK b \in 1..128 : ByteBase = 2 * b
  BY EvenBytes
<1>2. ByteBase \div 2 = b
  BY <1>1
<1> QED
  BY <1>1, <1>2

LEMMA ReadingExists ==
  ASSUME NEW a, NEW bytes, NEW n \in Nat
  PROVE  \E g : Reading(g, a, bytes, n)
<1> DEFINE T == {m \in Nat : \E g : Reading(g, a, bytes, m)}
<1>1. 0 \in T
  <2> DEFINE g == [i \in 0..0 |-> a]
  <2>1. Reading(g, a, bytes, 0)
    BY DEF Reading
  <2> QED
    BY <2>1
<1>2. ASSUME NEW m \in T PROVE m + 1 \in T
  <2>1. PICK g : Reading(g, a, bytes, m)
    OBVIOUS
  <2> DEFINE h == [i \in 0..(m + 1) |->
                     IF i = m + 1 THEN g[m] * ByteBase + bytes[m + 1] ELSE g[i]]
  <2>2. ASSUME NEW i \in 0..(m + 1)
        PROVE  h[i] = IF i = 0 THEN a ELSE h[i - 1] * ByteBase + bytes[i]
    <3>1. CASE i = m + 1
      BY <3>1
    <3>2. CASE i \in 0..m
      <4>1. g[i] = IF i = 0 THEN a ELSE g[i - 1] * ByteBase + bytes[i]
        BY <2>1, <3>2 DEF Reading
      <4>2. h[i] = g[i] /\ (i # 0 => h[i - 1] = g[i - 1])
        BY <3>2
      <4> HIDE DEF h
      <4> QED
        BY <4>1, <4>2
    <3> QED
      BY <3>1, <3>2
  <2>3. Reading(h, a, bytes, m + 1)
    <3>1. h = [i \in 0..(m + 1) |-> h[i]]
      OBVIOUS
    <3> HIDE DEF h
    <3> QED
      BY <2>2, <3>1 DEF Reading
  <2> QED
    BY <2>3
<1> HIDE DEF T
<1>3. T = Nat
  BY <1>1, <1>2, SetInduction DEF T
<1> QED
  BY <1>3 DEF T

(* From a number the fold runs through numbers.                            *)
LEMMA ReadingIsInteger ==
  ASSUME NEW n \in Nat, NEW bytes \in [1..n -> Int], NEW a \in Int,
         NEW g, Reading(g, a, bytes, n)
  PROVE  \A i \in 0..n : g[i] \in Int
<1> DEFINE T == {i \in Nat : i <= n => g[i] \in Int}
<1>1. 0 \in T
  BY DEF Reading
<1>2. ASSUME NEW i \in T PROVE i + 1 \in T
  <2>1. ASSUME i + 1 <= n PROVE g[i + 1] \in Int
    <3>1. g[i] \in Int /\ bytes[i + 1] \in Int
      BY <2>1
    <3>2. g[i + 1] = g[i] * ByteBase + bytes[i + 1]
      BY <2>1 DEF Reading
    <3> QED
      BY <3>1, <3>2, BasesAreEven
  <2> QED
    BY <2>1
<1> HIDE DEF T
<1>3. T = Nat
  BY <1>1, <1>2, SetInduction DEF T
<1> QED
  BY <1>3 DEF T

LEMMA UnsignedReads ==
  ASSUME NEW bytes, Len(bytes) \in Nat
  PROVE  \E g : Reading(g, 0, bytes, Len(bytes)) /\ Unsigned(bytes) = g[Len(bytes)]
<1>1. \E g : Reading(g, 0, bytes, Len(bytes))
  BY ReadingExists
<1> QED
  BY <1>1 DEF Reading, Unsigned

(* The shift register of asInt starts from the sign.                       *)
LEMMA AsIntReads ==
  ASSUME NEW bytes, Len(bytes) \in 1..MaxWidth
  PROVE  \E g : /\ Reading(g, IF bytes[1] >= ByteBase \div 2 THEN -1 ELSE 0, bytes, Len(bytes))
                /\ AsInt(bytes) = g[Len(bytes)]
<1> DEFINE a == IF bytes[1] >= ByteBase \div 2 THEN -1 ELSE 0
<1>1. MaxWidth \in Nat
  BY EvenBytes
<1>2. Len(bytes) \in Nat
  BY <1>1
<1> HIDE DEF a
<1>3. \E g : Reading(g, a, bytes, Len(bytes))
  BY <1>2, ReadingExists
<1> QED
  BY <1>3 DEF Reading, AsInt, a

(* The widths of the prefixes, each ByteBase times the one before.         *)
Widening(g, n) == g = [i \in 0..n |-> IF i = 0 THEN 1 ELSE g[i - 1] * ByteBase]

LEMMA WidthReads ==
  ASSUME NEW bytes, Len(bytes) \in Nat
  PROVE  \E g : /\ g[0] = 1 /\ Width(bytes) = g[Len(bytes)]
                /\ \A i \in 0..Len(bytes) : g[i] \in Int
                /\ \A i \in 1..Len(bytes) : g[i] = g[i - 1] * ByteBase
<1> DEFINE n == Len(bytes)
           zeros == [i \in 1..n |-> 0]
<1>1. \E g : Widening(g, n)
  <2>1. PICK g : Reading(g, 1, zeros, n)
    BY ReadingExists
  <2>2. \A i \in 0..n : g[i] \in Int
    BY <2>1, ReadingIsInteger
  <2>3. \A i \in 1..n : g[i - 1] * ByteBase + zeros[i] = g[i - 1] * ByteBase
    <3>1. \A i \in 1..n : zeros[i] = 0 /\ g[i - 1] \in Int
      BY <2>2
    <3> HIDE DEF zeros
    <3> QED
      BY <3>1, BasesAreEven
  <2> HIDE DEF zeros
  <2> QED
    BY <2>1, <2>3 DEF Reading, Widening
<1>2. PICK g : Widening(g, n) /\ Width(bytes) = g[n]
  BY <1>1 DEF Widening, Width
<1>3. g[0] = 1 /\ \A i \in 1..n : g[i] = g[i - 1] * ByteBase
  BY <1>2 DEF Widening
<1> DEFINE T == {i \in Nat : i <= n => g[i] \in Int}
<1>4. 0 \in T
  BY <1>3
<1>5. ASSUME NEW i \in T PROVE i + 1 \in T
  <2>1. ASSUME i + 1 <= n PROVE g[i + 1] \in Int
    <3>1. g[i] \in Int /\ i + 1 \in 1..n /\ (i + 1) - 1 = i
      BY <2>1
    <3>2. g[i + 1] = g[i] * ByteBase
      BY <1>3, <3>1
    <3> QED
      BY <3>1, <3>2, BasesAreEven
  <2> QED
    BY <2>1
<1> HIDE DEF T
<1>6. T = Nat
  BY <1>4, <1>5, SetInduction DEF T
<1>7. \A i \in 0..n : g[i] \in Int
  BY <1>6 DEF T
<1> QED
  BY <1>2, <1>3, <1>7

LEMMA ScaledOrder ==
  ASSUME NEW b \in Nat \ {0}, NEW x \in Int, NEW h \in Int, NEW d \in 0..(b - 1)
  PROVE  /\ x >= h => x * b + d >= h * b
         /\ x <= h - 1 => x * b + d <= h * b - 1
         /\ x * b \in Int /\ h * b \in Int /\ (2 * h) * b = 2 * (h * b)
         /\ (x - h) * b = x * b - h * b
<1>1. /\ x * b \in Int /\ h * b \in Int /\ (2 * h) * b = 2 * (h * b)
      /\ (x - h) * b = x * b - h * b /\ (h - 1) * b = h * b - b
  OBVIOUS
<1>2. x >= h => x * b >= h * b
  OBVIOUS
<1>3. x <= h - 1 => x * b <= (h - 1) * b
  OBVIOUS
<1> QED
  BY <1>1, <1>2, <1>3

(***************************************************************************)
(* asn1.go: asInt reads every INTEGER it accepts as the two's complement   *)
(* of its bytes, at any width.                                             *)
(***************************************************************************)
THEOREM IntegersAreRead ==
  ASSUME NEW n \in Nat, NEW bytes \in ByteSeqs(n)
  PROVE  IntegersAreTwosComplement(bytes)
<1>1. Len(bytes) = n /\ bytes \in [1..n -> Int]
  BY BasesAreEven DEF ByteSeqs
<1> SUFFICES ASSUME n \in 1..MaxWidth
             PROVE  AsInt(bytes) = IF 2 * Unsigned(bytes) >= Width(bytes)
                                   THEN Unsigned(bytes) - Width(bytes) ELSE Unsigned(bytes)
  BY <1>1 DEF IntegersAreTwosComplement
<1> DEFINE neg == bytes[1] >= ByteBase \div 2
           a == IF neg THEN -1 ELSE 0
<1>2. PICK v : Reading(v, a, bytes, n) /\ AsInt(bytes) = v[n]
  BY <1>1, AsIntReads
<1>3. PICK u : Reading(u, 0, bytes, n) /\ Unsigned(bytes) = u[n]
  BY <1>1, UnsignedReads
<1>4. PICK w : /\ w[0] = 1 /\ Width(bytes) = w[n]
               /\ \A i \in 0..n : w[i] \in Int
               /\ \A i \in 1..n : w[i] = w[i - 1] * ByteBase
  BY <1>1, WidthReads
<1>5. \A i \in 0..n : v[i] \in Int /\ u[i] \in Int /\ w[i] \in Int
  <2>1. a \in Int /\ 0 \in Int
    OBVIOUS
  <2> HIDE DEF a
  <2>2. \A i \in 0..n : v[i] \in Int
    BY <1>1, <1>2, <2>1, ReadingIsInteger
  <2>3. \A i \in 0..n : u[i] \in Int
    BY <1>1, <1>3, <2>1, ReadingIsInteger
  <2> QED
    BY <1>4, <2>2, <2>3
<1>6. PICK b \in Nat \ {0} : ByteBase = 2 * b /\ ByteBase \div 2 = b
  BY BasesAreEven
<1>7. ASSUME NEW i \in 1..n
      PROVE  /\ v[i] = v[i - 1] * ByteBase + bytes[i] /\ u[i] = u[i - 1] * ByteBase + bytes[i]
             /\ w[i] = w[i - 1] * ByteBase
             /\ bytes[i] \in 0..(ByteBase - 1)
  BY <1>2, <1>3, <1>4 DEF Reading, ByteSeqs
<1>8. v[0] = a /\ u[0] = 0 /\ w[0] = 1
  BY <1>2, <1>3, <1>4 DEF Reading
<1> HIDE DEF neg
(* After i bytes: the registers differ by the width when the sign is set,  *)
(* and the first byte has decided on which side of half of it they are.    *)
<1> DEFINE Half(i) == \E h \in Int : /\ w[i] = 2 * h
                                     /\ neg => u[i] >= h
                                     /\ ~ neg => u[i] <= h - 1
           Fits(i) == v[i] = u[i] - (IF neg THEN w[i] ELSE 0)
           T == {i \in Nat : i + 1 <= n => Fits(i + 1) /\ Half(i + 1)}
<1>9. 0 \in T
  <2>1. /\ v[1] = a * ByteBase + bytes[1] /\ u[1] = bytes[1] /\ w[1] = ByteBase
        /\ bytes[1] \in Int
    <3>1. /\ v[1] = v[1 - 1] * ByteBase + bytes[1] /\ u[1] = u[1 - 1] * ByteBase + bytes[1]
          /\ w[1] = w[1 - 1] * ByteBase /\ bytes[1] \in Int
      BY <1>1, <1>7
    <3>2. ByteBase \in Nat
      BY BasesAreEven
    <3> HIDE DEF a
    <3> QED
      BY <1>8, <3>1, <3>2
  <2>2. Fits(1)
    BY <2>1, BasesAreEven
  <2>3. Half(1)
    BY <1>6, <2>1 DEF neg
  <2> QED
    BY <2>2, <2>3
<1>10. ASSUME NEW i \in T PROVE i + 1 \in T
  <2> SUFFICES ASSUME i + 2 <= n PROVE Fits(i + 2) /\ Half(i + 2)
    OBVIOUS
  <2> DEFINE j == i + 1
             k == i + 2
  <2>1. /\ Fits(j) /\ Half(j) /\ j \in 0..n /\ k \in 1..n /\ k - 1 = j
    OBVIOUS
  <2>2. /\ v[k] = v[j] * ByteBase + bytes[k] /\ u[k] = u[j] * ByteBase + bytes[k]
        /\ w[k] = w[j] * ByteBase
        /\ bytes[k] \in 0..(ByteBase - 1) /\ ByteBase \in Nat \ {0}
    BY <1>6, <1>7, <2>1
  <2>3. v[j] \in Int /\ u[j] \in Int /\ w[j] \in Int
    BY <1>5, <2>1
  <2> HIDE DEF j, k
  <2>4. Fits(k)
    <3>1. (u[j] - w[j]) * ByteBase = u[j] * ByteBase - w[j] * ByteBase
          /\ u[j] * ByteBase \in Int /\ w[j] * ByteBase \in Int
      <4>1. 0 \in 0..(ByteBase - 1)
        BY <2>2
      <4> QED
        BY <2>2, <2>3, <4>1, ScaledOrder
    <3>2. bytes[k] \in Int
      BY <2>2
    <3>3. CASE neg
      <4>1. v[j] = u[j] - w[j]
        BY <2>1, <3>3
      <4> QED
        BY <2>2, <3>1, <3>2, <3>3, <4>1
    <3>4. CASE ~ neg
      <4>1. v[j] = u[j]
        BY <2>1, <2>3, <3>4
      <4> QED
        BY <2>2, <3>1, <3>2, <3>4, <4>1
    <3> QED
      BY <3>3, <3>4
  <2>5. Half(k)
    <3>1. PICK h \in Int : w[j] = 2 * h /\ (neg => u[j] >= h) /\ (~ neg => u[j] <= h - 1)
      BY <2>1
    <3> DEFINE half == h * ByteBase
               more == u[j] * ByteBase + bytes[k]
    <3>2. /\ u[j] >= h => more >= half
          /\ u[j] <= h - 1 => more <= half - 1
          /\ half \in Int /\ (2 * h) * ByteBase = 2 * half
      BY <2>2, <2>3, ScaledOrder
    <3>3. u[k] = more /\ w[k] = (2 * h) * ByteBase
      BY <2>2, <3>1
    <3> HIDE DEF half, more
    <3> QED
      BY <3>1, <3>2, <3>3
  <2> QED
    BY <2>4, <2>5 DEF k
<1> HIDE DEF T
<1>11. T = Nat
  BY <1>9, <1>10, SetInduction DEF T
<1>12. Fits(n) /\ Half(n)
  <2>1. n - 1 \in T
    BY <1>11
  <2> QED
    BY <2>1 DEF T
<1>13. v[n] \in Int /\ u[n] \in Int /\ w[n] \in Int
  BY <1>5
<1> QED
  BY <1>2, <1>3, <1>4, <1>12, <1>13
-----------------------------------------------------------------------------
(* Policies of an attestation                                              *)

(* What a policy is, and how the lists of an attestation are made: the     *)
(* names of the packages are not the word the model rejects with.          *)
Policy(p) == p.minLevel \in DOMAIN Rank /\ p.allowUnverifiedBoot \in BOOLEAN
                                        /\ "rejected" \notin p.packages
Listed(a) ==
  /\ \E S : a.tee \in Seq(S)
  /\ ApplicationId(a) \notin {Absent, Malformed} => \E S : ApplicationId(a).packages \in Seq(S)

LEMMA FirstExists ==
  ASSUME NEW S, NEW list \in Seq(S), NEW at \in SUBSET DOMAIN list, at # {}
  PROVE  \E i \in at : \A j \in at : i <= j
<1>1. at \subseteq Nat
  OBVIOUS
<1>2. PICK i \in at : \A j \in at : ~ (<<j, i>> \in OpToRel(<, Nat))
  BY <1>1, NatLessThanWellFounded, WFMin
<1>3. \A j \in at : i \in Nat /\ j \in Nat /\ ~ (j < i)
  BY <1>1, <1>2 DEF OpToRel
<1>4. \A j \in at : i <= j
  BY <1>3
<1> QED
  BY <1>4

LEMMA ContextTagFinds ==
  ASSUME NEW S, NEW list \in Seq(S), NEW tag, ContextTag(list, tag) # Absent
  PROVE  \E i \in DOMAIN list : list[i].tag = tag /\ list[i].contents = ContextTag(list, tag)
<1> DEFINE at == {i \in DOMAIN list : list[i].tag = tag}
           first == CHOOSE i \in at : \A j \in at : i <= j
<1>1. at # {} /\ ContextTag(list, tag) = list[first].contents
  BY DEF ContextTag
<1>2. first \in at
  <2>1. \E i \in at : \A j \in at : i <= j
    BY <1>1, FirstExists
  <2> HIDE DEF at
  <2> QED
    BY <2>1
<1> QED
  BY <1>1, <1>2

(* An accepted attestation has passed every check.                         *)
Passes(p, a, challenge) ==
  /\ a.chain = "pinned" /\ a.ext = "present" /\ Wellformed(a) /\ a.challenge = challenge
  /\ AtLeast(Level(a), p.minLevel) /\ Origin(a)
  /\ RootOfTrust(p, a) # "rejected" /\ Application(p, a) # "rejected" /\ EncodesCaptureKey(a)

LEMMA VerifyAccepts ==
  ASSUME NEW p, NEW a, NEW challenge
  PROVE  /\ Verify(p, a, challenge).accepted <=> Passes(p, a, challenge)
         /\ Passes(p, a, challenge) =>
              /\ Verify(p, a, challenge).level = Level(a)
              /\ Verify(p, a, challenge).boot = RootOfTrust(p, a)
              /\ Verify(p, a, challenge).key = a.key
              /\ Verify(p, a, challenge).package = Application(p, a)
<1>1. \A why : Rejected(why).accepted = FALSE
  BY DEF Rejected
<1>2. CASE Passes(p, a, challenge)
  BY <1>2 DEF Verify, Passes
<1>3. CASE ~ Passes(p, a, challenge)
  <2>1. \E why : Verify(p, a, challenge) = Rejected(why)
    BY <1>3, Zenon DEF Verify, Passes
  <2> QED
    BY <1>1, <1>3, <2>1
<1> QED
  BY <1>2, <1>3

LEMMA LevelsHaveRanks ==
  ASSUME NEW a
  PROVE  /\ Level(a) \in DOMAIN Rank
         /\ Rank[Level(a)] <= Rank[MapSecurityLevel(AsInt(a.attestLevel))]
         /\ Rank[Level(a)] <= Rank[MapSecurityLevel(AsInt(a.keyLevel))]
<1>1. \A v : MapSecurityLevel(v) \in {"software", "tee", "strongbox"}
  BY DEF MapSecurityLevel
<1> QED
  BY <1>1 DEF Level, AtLeast, Rank

(* android.go: the weaker of what says so and where the key lives is at    *)
(* least what the policy asks for.                                         *)
THEOREM LevelsBorneOut ==
  ASSUME NEW p, Policy(p), NEW a, NEW challenge
  PROVE  LevelIsBorneOut(p, a, challenge)
<1> SUFFICES ASSUME Passes(p, a, challenge)
             PROVE  Rank[p.minLevel] <= Rank[Level(a)]
  BY VerifyAccepts, LevelsHaveRanks DEF LevelIsBorneOut
<1>1. p.minLevel \in DOMAIN Rank /\ Rank[Level(a)] >= Rank[p.minLevel] /\ Level(a) \in DOMAIN Rank
  BY LevelsHaveRanks DEF Passes, AtLeast, Policy
<1>2. \A l \in DOMAIN Rank : Rank[l] \in Nat
  BY DEF Rank
<1> QED
  BY <1>1, <1>2

LEMMA BootIsKept ==
  ASSUME NEW p, NEW q, Policy(p), Policy(q), p.allowUnverifiedBoot => q.allowUnverifiedBoot,
         NEW a, RootOfTrust(p, a) # "rejected"
  PROVE  RootOfTrust(q, a) = RootOfTrust(p, a)
BY DEF RootOfTrust, TrustedBoot, Policy

LEMMA ApplicationIsKept ==
  ASSUME NEW p, NEW q, Policy(q), p.packages \subseteq q.packages, p.digests \subseteq q.digests,
         NEW a, Listed(a), Application(p, a) # "rejected"
  PROVE  Application(q, a) # "rejected"
<1> DEFINE id == ApplicationId(a)
           known == {i \in DOMAIN id.packages : id.packages[i] \in q.packages}
           first == CHOOSE i \in known : \A j \in known : i <= j
<1>1. /\ id \notin {Absent, Malformed}
      /\ {i \in DOMAIN id.packages : id.packages[i] \in p.packages} # {}
      /\ id.digests \cap p.digests # {}
  BY DEF Application, KnownDigest
<1>2. known # {} /\ id.digests \cap q.digests # {}
  BY <1>1
<1>3. PICK S : id.packages \in Seq(S)
  BY <1>1 DEF Listed
<1>4. \E i \in known : \A j \in known : i <= j
  <2>1. known \in SUBSET DOMAIN id.packages
    OBVIOUS
  <2> HIDE DEF known, id
  <2> QED
    BY <1>2, <1>3, <2>1, FirstExists
<1>5. first \in known
  <2> HIDE DEF known
  <2> QED
    BY <1>4
<1>6. Application(q, a) = id.packages[first]
  BY <1>1, <1>2 DEF Application, KnownDigest
<1>7. id.packages[first] \in q.packages
  BY <1>5
<1> HIDE DEF first, known, id
<1> QED
  BY <1>6, <1>7 DEF Policy

(* android.go: a stricter policy accepts no attestation a looser one       *)
(* refuses, and reports the same level and boot state.                     *)
THEOREM StricterPolicies ==
  ASSUME NEW p, Policy(p), NEW q, Policy(q), NEW a, Listed(a), NEW challenge
  PROVE  StricterAcceptsLess(p, q, a, challenge)
<1> SUFFICES ASSUME Stricter(p, q), Passes(p, a, challenge)
             PROVE  Passes(q, a, challenge) /\ RootOfTrust(q, a) = RootOfTrust(p, a)
  BY VerifyAccepts DEF StricterAcceptsLess
<1>1. AtLeast(Level(a), q.minLevel)
  <2>1. \A l \in DOMAIN Rank : Rank[l] \in Nat
    BY DEF Rank
  <2> QED
    BY <2>1, LevelsHaveRanks DEF Passes, AtLeast, Stricter, Policy
<1>2. RootOfTrust(q, a) = RootOfTrust(p, a)
  BY BootIsKept DEF Passes, Stricter
<1>3. Application(q, a) # "rejected"
  BY ApplicationIsKept DEF Passes, Stricter
<1> QED
  BY <1>1, <1>2, <1>3 DEF Passes

(***************************************************************************)
(* factory.go and android.go: whatever the environment, an enrolled device *)
(* has a key made in hardware for this challenge and runs a configured app *)
(* signed by a configured certificate; and, unless "false" or "0" waives   *)
(* it, the root of trust says that it is locked and its system verified.   *)
(***************************************************************************)
THEOREM NoPermissivePolicy ==
  ASSUME NEW env, NEW platform, NEW a, Listed(a), NEW challenge
  PROVE  NeverPermissive(env, platform, a, challenge)
<1> DEFINE r == NewRegistryFromEnv(env)
           e == RegistryVerify(env, platform, a, challenge)
           root == ContextTag(a.tee, "rootOfTrust")
           id == ApplicationId(a)
<1> SUFFICES ASSUME e.accepted
             PROVE  /\ env.verifiedBoot \notin {"false", "FALSE", "0"} =>
                         /\ e.boot = "verified" /\ root \notin {Absent, Malformed}
                         /\ AsBool(root.locked) = TRUE /\ AsInt(root.state) = 0
                    /\ id \notin {Absent, Malformed} /\ id.digests \cap env.digests # {}
                    /\ e.package \in env.packages
                    /\ \E i \in DOMAIN id.packages : id.packages[i] = e.package
                    /\ CanSign(e.key) /\ e.level \in {"tee", "strongbox"}
                    /\ a.challenge = challenge /\ a.chain = "pinned"
                    /\ \E i \in DOMAIN a.tee : /\ a.tee[i].tag = "origin"
                                              /\ a.tee[i].contents # Malformed
                                              /\ AsInt(a.tee[i].contents) = 0
  BY DEF NeverPermissive
<1>1. r.starts /\ platform \in r.platforms /\ e = Verify(r.policy, a, challenge)
  <2>1. Rejected("platform").accepted = FALSE
    BY DEF Rejected
  <2> QED
    BY <2>1 DEF RegistryVerify
<1>2. /\ r.policy.minLevel \in {"tee", "strongbox"}
      /\ r.policy.packages = env.packages /\ r.policy.digests = env.digests
      /\ r.policy.allowUnverifiedBoot = AllowUnverifiedBoot(env)
  <2>1. CASE Unset(env)
    BY <1>1, <2>1 DEF NewRegistryFromEnv
  <2>2. CASE ~ Unset(env)
    BY <1>1, <2>2 DEF NewRegistryFromEnv
  <2> QED
    BY <2>1, <2>2
<1> HIDE DEF r
<1>3. /\ Passes(r.policy, a, challenge)
      /\ e.level = Level(a) /\ e.boot = RootOfTrust(r.policy, a) /\ e.key = a.key
      /\ e.package = Application(r.policy, a)
  BY <1>1, VerifyAccepts
<1>4. ASSUME env.verifiedBoot \notin {"false", "FALSE", "0"}
      PROVE  /\ e.boot = "verified" /\ root \notin {Absent, Malformed}
             /\ AsBool(root.locked) = TRUE /\ AsInt(root.state) = 0
  <2>1. BootStateName(BootVerified) = "verified" /\ BootVerified = 0
    BY DEF BootStateName, BootVerified
  <2>2. ~ AllowUnverifiedBoot(env)
    BY <1>4 DEF AllowUnverifiedBoot
  <2>3. /\ root \notin {Absent, Malformed} /\ AsBool(root.locked) # Malformed
        /\ AsBool(root.locked) /\ AsInt(root.state) = BootVerified
        /\ RootOfTrust(r.policy, a) = BootStateName(AsInt(root.state))
    BY <1>2, <1>3, <2>2 DEF Passes, RootOfTrust, TrustedBoot
  <2>4. AsBool(root.locked) = (root.locked[1] # 0)
    BY <2>3 DEF AsBool
  <2> QED
    BY <1>3, <2>1, <2>3, <2>4
<1>5. /\ id \notin {Absent, Malformed} /\ id.digests \cap env.digests # {}
      /\ e.package \in env.packages
      /\ \E i \in DOMAIN id.packages : id.packages[i] = e.package
  <2> DEFINE known == {i \in DOMAIN id.packages : id.packages[i] \in env.packages}
             first == CHOOSE i \in known : \A j \in known : i <= j
  <2>1. /\ id \notin {Absent, Malformed} /\ id.digests \cap env.digests # {}
        /\ known # {} /\ Application(r.policy, a) = id.packages[first]
    BY <1>2, <1>3 DEF Passes, Application, KnownDigest
  <2>2. PICK S : id.packages \in Seq(S)
    BY <2>1 DEF Listed
  <2>3. \E i \in known : \A j \in known : i <= j
    <3>1. known \in SUBSET DOMAIN id.packages
      OBVIOUS
    <3> HIDE DEF known, id
    <3> QED
      BY <2>1, <2>2, <3>1, FirstExists
  <2>4. first \in known
    <3> HIDE DEF known
    <3> QED
      BY <2>3
  <2>5. first \in DOMAIN id.packages /\ id.packages[first] \in env.packages
    BY <2>4
  <2> HIDE DEF first, known, id
  <2> QED
    BY <1>3, <2>1, <2>5
<1>6. CanSign(e.key)
  BY <1>3 DEF Passes, EncodesCaptureKey, CanSign
<1>7. e.level \in {"tee", "strongbox"}
  BY <1>2, <1>3 DEF Passes, AtLeast, Rank
<1>8. \E i \in DOMAIN a.tee : /\ a.tee[i].tag = "origin" /\ a.tee[i].contents # Malformed
                             /\ AsInt(a.tee[i].contents) = 0
  <2>1. PICK S : a.tee \in Seq(S)
    BY DEF Listed
  <2>2. /\ ContextTag(a.tee, "origin") \notin {Absent, Malformed}
        /\ AsInt(ContextTag(a.tee, "origin")) = 0
    BY <1>3 DEF Passes, Origin, OriginGenerated
  <2>3. PICK i \in DOMAIN a.tee : a.tee[i].tag = "origin"
                                /\ a.tee[i].contents = ContextTag(a.tee, "origin")
    BY <2>1, <2>2, ContextTagFinds
  <2> QED
    BY <2>2, <2>3
<1> HIDE DEF root, id
<1> QED
  BY <1>3, <1>4, <1>5, <1>6, <1>7, <1>8 DEF Passes

-----------------------------------------------------------------------------
(* Uploads                                                                 *)

(* upload.go: no decoder is handed more than the ceiling of its kind.      *)
THEOREM DecodersGuardedAlways ==
  ASSUME NEW u, u.size \in Nat, u.overhead \in Nat
  PROVE  DecodersAreGuarded(u)
<1> USE CeilingsAssumption DEF Parse, WithinLimit, Limits
<1>1. ASSUME NEW limits \in {ImageOnlyLimits, AttestedLimits, VerifyLimits(TRUE), VerifyLimits(FALSE)}
      PROVE  /\ Parse(limits, u) = "video" =>
                  /\ limits # ImageOnlyLimits
                  /\ u.declared \in VideoTypes /\ LooksLikeVideo(u.bytes) /\ u.size <= limits.video
             /\ Parse(limits, u) = "image" => u.size <= MaxImageUpload
  <2>1. limits.image = MaxImageUpload /\ limits.video \in Nat
    BY DEF ImageOnlyLimits, AttestedLimits, VerifyLimits
  <2>2. Parse(limits, u) = "video" => limits.video > 0
    BY <2>1
  <2>3. ImageOnlyLimits.video = 0
    BY DEF ImageOnlyLimits
  <2> QED
    BY <2>1, <2>2, <2>3
<1> QED
  BY <1>1 DEF DecodersAreGuarded

(* upload.go: a key opens no less than what is open without one.           *)
THEOREM KeysOpenMore ==
  ASSUME NEW u, u.size \in Nat, u.overhead \in Nat
  PROVE  KeysOnlyAdmit(u)
BY CeilingsAssumption DEF KeysOnlyAdmit, Accepted, Parse, WithinLimit, Limits, Ceiling,
   VerifyLimits, AttestedLimits

-----------------------------------------------------------------------------
(* What is checked of the algorithms, for every value of the constants.    *)

(* The lists of the attestations tried.                                    *)
GoodApp(id) == id \in {Absent, Malformed} \/ \E S : id.packages \in Seq(S)
GoodList(list) ==
  \E S : list \in Seq(S) /\ \A x \in S : x.tag = "application" => GoodApp(x.contents)

LEMMA ElementsAreGood ==
  ASSUME NEW tag, NEW contents, tag = "application" => GoodApp(contents)
  PROVE  GoodList(Element(tag, contents))
<1> DEFINE x == [tag |-> tag, contents |-> contents]
<1>1. Element(tag, contents) \in Seq({x})
  <2>1. ASSUME NEW y PROVE <<>> \in Seq({y}) /\ <<y>> \in Seq({y})
    OBVIOUS
  <2>2. Element(tag, contents) = <<>> \/ Element(tag, contents) = <<x>>
    BY Zenon DEF Element
  <2> HIDE DEF x
  <2> QED
    BY <2>1, <2>2, Zenon
<1>2. \A y \in {x} : y.tag = "application" => GoodApp(y.contents)
  OBVIOUS
<1> QED
  BY <1>1, <1>2 DEF GoodList

LEMMA ListsJoin ==
  ASSUME NEW s, NEW t, GoodList(s), GoodList(t)
  PROVE  GoodList(s \o t)
<1>1. PICK S : s \in Seq(S) /\ \A x \in S : x.tag = "application" => GoodApp(x.contents)
  BY DEF GoodList
<1>2. PICK T : t \in Seq(T) /\ \A x \in T : x.tag = "application" => GoodApp(x.contents)
  BY DEF GoodList
<1>3. s \o t \in Seq(S \cup T)
  <2>1. s \in Seq(S \cup T) /\ t \in Seq(S \cup T)
    BY <1>1, <1>2
  <2> QED
    BY <2>1
<1> QED
  BY <1>1, <1>2, <1>3 DEF GoodList

LEMMA GoodListsAreListed ==
  ASSUME NEW a, GoodList(a.tee), GoodList(a.software)
  PROVE  Listed(a)
<1>1. ASSUME NEW list, GoodList(list), ContextTag(list, "application") # Absent
      PROVE  GoodApp(ContextTag(list, "application"))
  <2>1. PICK S : list \in Seq(S) /\ \A x \in S : x.tag = "application" => GoodApp(x.contents)
    BY <1>1 DEF GoodList
  <2>2. PICK i \in DOMAIN list : list[i].tag = "application"
                               /\ list[i].contents = ContextTag(list, "application")
    BY <1>1, <2>1, ContextTagFinds
  <2>3. list[i] \in S
    BY <2>1
  <2> QED
    BY <2>1, <2>2, <2>3
<1>2. GoodApp(ApplicationId(a)) \/ ApplicationId(a) = Absent
  BY <1>1 DEF ApplicationId
<1> QED
  BY <1>2 DEF Listed, GoodApp, GoodList

LEMMA AttestationsAreListed ==
  ASSUME NEW a \in Attestations
  PROVE  Listed(a)
<1> DEFINE app == [packages |-> <<"app">>, digests |-> {"mine"}]
<1>1. \A i \in AppIds \cup {Absent, app} : GoodApp(i)
  <2>1. ASSUME NEW name, NEW digests
        PROVE  GoodApp([packages |-> <<name>>, digests |-> digests])
    <3>1. <<name>> \in Seq({name})
      OBVIOUS
    <3> QED
      BY <3>1 DEF GoodApp
  <2>2. ASSUME NEW name, NEW other, NEW digests
        PROVE  GoodApp([packages |-> <<other, name>>, digests |-> digests])
    <3>1. <<other, name>> \in Seq({name, other})
      OBVIOUS
    <3> QED
      BY <3>1 DEF GoodApp
  <2>3. GoodApp(Absent) /\ GoodApp(Malformed)
    BY DEF GoodApp
  <2> QED
    BY <2>1, <2>2, <2>3 DEF AppIds
<1>2. \A i \in AppIds \cup {Absent, app} : GoodList(Element("application", i))
  BY <1>1, ElementsAreGood
<1>3. \A t \in TeeLists : GoodList(t)
  <2>1. ASSUME NEW o, NEW r, NEW i \in {Absent, app}
        PROVE  GoodList(Element("origin", o) \o Element("rootOfTrust", r) \o Element("application", i))
    <3>1. GoodList(Element("origin", o)) /\ GoodList(Element("rootOfTrust", r))
      BY ElementsAreGood
    <3> QED
      BY <1>2, <3>1, ListsJoin
  <2> DEFINE origins == {Absent, Malformed, <<0>>, <<1>>}
             apps == {Absent, app}
             list(o, r, i) ==
               Element("origin", o) \o Element("rootOfTrust", r) \o Element("application", i)
  <2>2. TeeLists = {list(o, r, i) : o \in origins, r \in Boots, i \in apps}
    BY DEF TeeLists
  <2>3. \A o \in origins, r \in Boots, i \in apps : GoodList(list(o, r, i))
    BY <2>1
  <2> HIDE DEF origins, apps, list
  <2> QED
    BY <2>2, <2>3
<1>4. \A t \in TwoRoots : GoodList(t)
  <2> DEFINE list(r, s) ==
               Element("origin", <<0>>) \o Element("rootOfTrust", r) \o Element("rootOfTrust", s)
  <2>1. ASSUME NEW r, NEW s PROVE GoodList(list(r, s))
    <3>1. /\ GoodList(Element("origin", <<0>>)) /\ GoodList(Element("rootOfTrust", r))
          /\ GoodList(Element("rootOfTrust", s))
      BY ElementsAreGood
    <3> QED
      BY <3>1, ListsJoin
  <2>2. TwoRoots = {list(r, s) : r \in Boots \ {Absent}, s \in Boots \ {Absent}}
    BY DEF TwoRoots
  <2> HIDE DEF list
  <2> QED
    BY <2>1, <2>2
<1> DEFINE tees == TeeLists \cup TwoRoots
<1>5. GoodList(Genuine.tee) /\ GoodList(Genuine.software)
  <2> DEFINE x == [tag |-> "origin", contents |-> <<0>>]
             y == [tag |-> "rootOfTrust", contents |-> [locked |-> <<255>>, state |-> <<0>>]]
  <2>1. Genuine.tee = <<x, y>> /\ Genuine.software = Element("application", app)
    BY DEF Genuine
  <2>2. <<x, y>> \in Seq({x, y}) /\ \A z \in {x, y} : z.tag # "application"
    <3>1. x.tag = "origin" /\ y.tag = "rootOfTrust"
      OBVIOUS
    <3> HIDE DEF x, y
    <3> QED
      BY <3>1
  <2> HIDE DEF x, y
  <2> QED
    BY <1>2, <2>1, <2>2 DEF GoodList
<1>6. GoodList(a.tee) /\ GoodList(a.software)
  <2>1. \/ a.tee = Genuine.tee /\ a.software = Genuine.software
        \/ a.tee \in tees /\ \E i \in AppIds : a.software = Element("application", i)
    <3> DEFINE level(l, k, e) == [Genuine EXCEPT !.attestLevel = l, !.keyLevel = k, !.key = e]
               field(t, i) == [Genuine EXCEPT !.tee = t, !.software = Element("application", i)]
               chain(c, e, n) == [Genuine EXCEPT !.chain = c, !.ext = e, !.challenge = n]
               keys == {"P-256", "P-384", "RSA"}
               chains == {"pinned", "other", "empty"}
               exts == {"present", "absent", "malformed"}
               nonces == {"nonce", "another"}
    <3>1. /\ AtLevels = {level(l, k, e) : l \in SmallIntegers, k \in SmallIntegers, e \in keys}
          /\ WithFields = {field(t, i) : t \in tees, i \in AppIds}
          /\ FromChains = {chain(c, e, n) : c \in chains, e \in exts, n \in nonces}
      BY DEF AtLevels, WithFields, FromChains
    <3>2. \A l, k, e : level(l, k, e).tee = Genuine.tee /\ level(l, k, e).software = Genuine.software
      BY DEF Genuine
    <3>3. \A t, i : field(t, i).tee = t /\ field(t, i).software = Element("application", i)
      BY DEF Genuine
    <3>4. \A c, e, n : chain(c, e, n).tee = Genuine.tee /\ chain(c, e, n).software = Genuine.software
      BY DEF Genuine
    <3> HIDE DEF level, field, chain, keys, chains, exts, nonces, tees
    <3>5. \/ \E l, k, e : a = level(l, k, e)
          \/ \E t \in tees, i \in AppIds : a = field(t, i)
          \/ \E c, e, n : a = chain(c, e, n)
      BY <3>1 DEF Attestations
    <3> QED
      BY <3>2, <3>3, <3>4, <3>5
  <2> QED
    BY <1>2, <1>3, <1>4, <1>5, <2>1
<1> QED
  BY <1>6, GoodListsAreListed

(* The subject is what its kind says it is, and stays.                     *)
SubjectFits ==
  /\ subject.kind = "attestation" => subject.by \in Attestations
  /\ subject.kind = "integer" => subject.bytes \in UNION {ByteSeqs(n) : n \in 1..MaxWidth}
  /\ subject.kind = "upload" => subject.size \in Nat /\ subject.overhead \in Nat

LEMMA InitSubject == AlgorithmsInit => SubjectFits
<1> SUFFICES ASSUME AlgorithmsInit PROVE SubjectFits
  OBVIOUS
<1>1. subject \in Enrolments => subject.kind = "attestation" /\ subject.by \in Attestations
  BY DEF Enrolments
<1>2. subject \in IntegerBodies =>
        subject.kind = "integer" /\ subject.bytes \in UNION {ByteSeqs(n) : n \in 1..MaxWidth}
  BY DEF IntegerBodies, ByteSeqs
<1>3. subject \in UploadsTried =>
        subject.kind = "upload" /\ subject.size \in Nat /\ subject.overhead \in Nat
  <2>1. 1..(MaxVideoUpload + 1) \subseteq Nat /\ 0..1 \subseteq Nat
    BY CeilingsAssumption
  <2>2. subject \in UploadsTried => /\ subject.kind = "upload" /\ subject.size \in 1..(MaxVideoUpload + 1)
                                    /\ subject.overhead \in 0..1
    BY DEF UploadsTried
  <2> QED
    BY <2>1, <2>2
<1>4. subject = NoSubject => subject.kind = "tree"
  BY DEF NoSubject
<1>5. /\ subject \in Videos => subject.kind = "video"
      /\ subject \in Lengths => subject.kind = "lengths"
      /\ subject \in Sizes => subject.kind = "size"
      /\ subject \in Comparisons => subject.kind = "pair"
      /\ subject \in Lists => subject.kind = "list"
      /\ subject \in Transactions => subject.kind = "tx"
      /\ subject \in Canvases => subject.kind = "canvas"
      /\ subject \in Exposures => subject.kind = "exposure"
      /\ subject \in Pictures => subject.kind = "picture"
      /\ subject \in Coefficients => subject.kind = "coefficients"
      /\ subject \in Scalings => subject.kind = "scaling"
      /\ subject \in Hues => subject.kind = "hue"
      /\ subject \in Bundles => subject.kind = "bundle"
      /\ subject \in Keypoints => subject.kind = "keypoint"
      /\ subject \in Captured => subject.kind = "capture"
  BY DEF Videos, Lengths, Sizes, Comparisons, Lists, Transactions, Canvases, Exposures, Pictures,
     Coefficients, Scalings, Hues, Bundles, Keypoints, Captured
<1> QED
  BY <1>1, <1>2, <1>3, <1>4, <1>5 DEF AlgorithmsInit, SubjectFits

LEMMA SubjectStays == AlgorithmsSpec => []SubjectFits
<1>1. SubjectFits /\ [AlgorithmsNext]_algorithmVars => SubjectFits'
  BY DEF SubjectFits, AlgorithmsNext, algorithmVars
<1> QED
  BY <1>1, InitSubject, PTL DEF AlgorithmsSpec

(***************************************************************************)
(* The enrolment of android.go, asn1.go and factory.go is sound for every  *)
(* attestation tried, whatever the width and the base of its integers.     *)
(***************************************************************************)
THEOREM AttestationSound == AlgorithmsSpec => []AttestationIsSound
<1>1. ASSUME SubjectFits PROVE IntegersReadRight
  <2>1. ASSUME subject.kind = "integer" PROVE IntegersAreTwosComplement(subject.bytes)
    <3>1. PICK n \in 1..MaxWidth : subject.bytes \in ByteSeqs(n)
      BY <1>1, <2>1 DEF SubjectFits
    <3>2. n \in Nat
      BY <3>1
    <3> QED
      BY <3>1, <3>2, IntegersAreRead
  <2> QED
    BY <2>1 DEF IntegersReadRight
<1>2. ASSUME SubjectFits PROVE PolicyIsMonotone /\ LevelsAreBorneOut /\ NoPermissiveStart
  <2>1. subject.kind = "attestation" => Listed(subject.by)
    BY <1>2, AttestationsAreListed DEF SubjectFits
  <2>2. \A p \in Policies : Policy(p)
    BY DEF Policies, Policy, Rank
  <2>3. PolicyIsMonotone
    BY <2>1, <2>2, StricterPolicies DEF PolicyIsMonotone
  <2>4. LevelsAreBorneOut
    BY <2>2, LevelsBorneOut DEF LevelsAreBorneOut
  <2>5. NoPermissiveStart
    BY <2>1, NoPermissivePolicy DEF NoPermissiveStart
  <2> QED
    BY <2>3, <2>4, <2>5
<1>3. SubjectFits => AttestationIsSound
  BY <1>1, <1>2 DEF AttestationIsSound
<1> QED
  BY <1>3, SubjectStays, PTL

(* The gate of upload.go holds at any ceilings.                            *)
THEOREM UploadsGuarded == AlgorithmsSpec => []UploadsAreGuarded
<1>1. SubjectFits => UploadsAreGuarded
  BY DecodersGuardedAlways, KeysOpenMore
     DEF SubjectFits, UploadsAreGuarded, DecodersGuarded, KeysAdmitMore
<1> QED
  BY <1>1, SubjectStays, PTL

(* What is encoded, certified or signed is what the instance tries.        *)
SubjectEncodes ==
  /\ subject.kind = "list" => subject.strings \in Seq(Seq(Byte))
  /\ subject.kind = "tx" => subject \in Transactions
  /\ subject.kind = "bundle" => subject.cert \in Certificates
  /\ subject.kind = "keypoint" => subject \in Keypoints
  /\ subject.kind = "capture" => subject.capture \in SignedCaptures

(* It holds when the instance has chosen its subject.                      *)
LEMMA InitEncodes == AlgorithmsInit => SubjectEncodes
<1> SUFFICES ASSUME AlgorithmsInit PROVE SubjectEncodes
  OBVIOUS
<1>1. subject \in Lists => subject.kind = "list" /\ subject.strings \in Seq(Seq(Byte))
  <2>1. ASSUME NEW k \in 0..2, NEW s \in [1..k -> ByteStrings] PROVE s \in Seq(Seq(Byte))
    <3>1. s \in [1..k -> Seq(Byte)] /\ k \in Nat
      BY ByteStringsAssumption
    <3> QED
      BY <3>1, FunctionIsSeq
  <2>2. subject \in Lists => /\ subject.kind = "list"
                             /\ \E k \in 0..2 : subject.strings \in [1..k -> ByteStrings]
    BY DEF Lists
  <2> QED
    BY <2>1, <2>2
<1>2. /\ subject \in Transactions => subject.kind = "tx"
      /\ subject \in Bundles => subject.kind = "bundle" /\ subject.cert \in Certificates
      /\ subject \in Keypoints => subject.kind = "keypoint"
      /\ subject \in Captured => subject.kind = "capture" /\ subject.capture \in SignedCaptures
  BY DEF Transactions, Bundles, Keypoints, Captured
<1>3. subject = NoSubject => subject.kind = "tree"
  BY DEF NoSubject
<1>4. /\ subject \in Videos => subject.kind = "video"
      /\ subject \in Lengths => subject.kind = "lengths"
      /\ subject \in Enrolments => subject.kind = "attestation"
      /\ subject \in IntegerBodies => subject.kind = "integer"
      /\ subject \in Sizes => subject.kind = "size"
      /\ subject \in Comparisons => subject.kind = "pair"
      /\ subject \in UploadsTried => subject.kind = "upload"
      /\ subject \in Canvases => subject.kind = "canvas"
      /\ subject \in Exposures => subject.kind = "exposure"
      /\ subject \in Pictures => subject.kind = "picture"
      /\ subject \in Coefficients => subject.kind = "coefficients"
      /\ subject \in Scalings => subject.kind = "scaling"
      /\ subject \in Hues => subject.kind = "hue"
  BY DEF Videos, Lengths, Enrolments, IntegerBodies, Sizes, Comparisons, UploadsTried, Canvases,
     Exposures, Pictures, Coefficients, Scalings, Hues
<1> QED
  BY <1>1, <1>2, <1>3, <1>4 DEF AlgorithmsInit, SubjectEncodes

(* No step of the instance changes the subject.                            *)
LEMMA SubjectEncodesStays == AlgorithmsSpec => []SubjectEncodes
<1>1. SubjectEncodes /\ [AlgorithmsNext]_algorithmVars => SubjectEncodes'
  BY DEF SubjectEncodes, AlgorithmsNext, algorithmVars
<1> QED
  BY <1>1, InitEncodes, PTL DEF AlgorithmsSpec

(* The transactions tried have fields of the kinds a transaction has.      *)
LEMMA TransactionsTriedRead ==
  ASSUME NEW tx \in Transactions
  PROVE  TxReadsBack(tx, tx.recovery)
<1>1. ASSUME NEW n \in Nat, NEW b \in Byte PROVE Strings(n, b) \in Seq(Byte)
  <2>1. Strings(n, b) \in [1..n -> Byte]
    BY DEF Strings
  <2> QED
    BY <2>1, FunctionIsSeq
<1>2. 0 \in Byte /\ 1 \in Byte /\ 9 \in Byte
  BY DEF Byte
<1>3. tx.to \in Seq(Byte) /\ tx.data \in Seq(Byte)
  <2>1. tx.to = Strings(20, 9) /\ tx.data \in {Strings(68, 0), Strings(68, 1)}
    BY DEF Transactions
  <2>2. Strings(20, 9) \in Seq(Byte) /\ Strings(68, 0) \in Seq(Byte) /\ Strings(68, 1) \in Seq(Byte)
    BY <1>1, <1>2
  <2> QED
    BY <2>1, <2>2
<1>4. /\ tx.nonce \in Nat /\ tx.gasPrice \in Nat /\ tx.gasLimit \in Nat /\ tx.chainID \in Nat
      /\ tx.recovery \in 0..1
  BY DEF Transactions, Integers256
<1> QED
  BY <1>3, <1>4, TransactionsReadBack

(* The certificates tried are among those the theorems speak of.           *)
LEMMA CertificatesTried ==
  ASSUME NEW c \in Certificates
  PROVE  c \in Images \cup Clips /\ (Nil \notin Features => Described(c))
<1>1. TwoHashes \subseteq Hashes
  BY DEF TwoHashes, Hashes
<1>2. Signatures \subseteq Features /\ \A s \in Signatures : s.descriptors # <<>>
  <2>1. <<1>> \in Seq(Nat) /\ <<1, 1>> \in Seq(Nat) /\ <<9>> \in Seq(Nat)
          /\ <<1>> # <<>> /\ <<1, 1>> # <<>>
    OBVIOUS
  <2> QED
    BY <2>1 DEF Signatures, Features
<1>3. VideoSignatures \subseteq ValidVideos
  <2>1. ASSUME NEW n \in 1..(IndexLimit - 1), NEW f \in [1..n -> TwoHashes] PROVE f \in Seq(Hashes)
    <3>1. f \in [1..n -> Hashes] /\ n \in Nat
      BY <1>1, WidthsAreRight
    <3> QED
      BY <3>1, FunctionIsSeq
  <2>2. 0..(IndexLimit - 2) \subseteq Nat /\ {1, WordLimit - 1} \subseteq Nat
    BY WidthsAreRight
  <2>3. ASSUME NEW v \in VideoSignatures PROVE v \in ValidVideos
    <3>1. /\ v \in [framePHashes : UNION {[1..n -> TwoHashes] : n \in 1..(IndexLimit - 1)},
                    anchorIndex : 0..(IndexLimit - 2), durationMs : {1, WordLimit - 1}]
          /\ ValidVideo(v)
      BY DEF VideoSignatures
    <3>2. v.framePHashes \in Seq(Hashes)
      BY <2>1, <3>1
    <3>3. v \in [framePHashes : Seq(Hashes), anchorIndex : Nat, durationMs : Nat]
      BY <2>2, <3>1, <3>2
    <3> QED
      BY <3>1, <3>3 DEF ValidVideos
  <2> QED
    BY <2>3
<1>4. \/ \E p \in TwoHashes \cup {Nil}, s \in Signatures \cup {Nil} : c = CertifyImage(p, s)
      \/ \E p \in TwoHashes, s \in Signatures \cup {Nil}, v \in VideoSignatures :
           c = CertifyVideo(p, s, v)
  BY DEF Certificates
<1>5. CASE \E p \in TwoHashes \cup {Nil}, s \in Signatures \cup {Nil} : c = CertifyImage(p, s)
  <2>1. PICK p \in TwoHashes \cup {Nil}, s \in Signatures \cup {Nil} : c = CertifyImage(p, s)
    BY <1>5
  <2>2. p \in Hashes \cup {Nil} /\ s \in Features \cup {Nil}
    BY <1>1, <1>2
  <2>3. c.signature \in {s, Nil}
    BY <2>1 DEF CertifyImage
  <2> QED
    BY <1>2, <2>1, <2>2, <2>3 DEF Images, Described
<1>6. CASE \E p \in TwoHashes, s \in Signatures \cup {Nil}, v \in VideoSignatures :
             c = CertifyVideo(p, s, v)
  <2>1. PICK p \in TwoHashes, s \in Signatures \cup {Nil}, v \in VideoSignatures :
               c = CertifyVideo(p, s, v)
    BY <1>6
  <2>2. p \in Hashes \cup {Nil} /\ s \in Features \cup {Nil} /\ v \in ValidVideos
    BY <1>1, <1>2, <1>3
  <2>3. c.signature \in {s, Nil}
    BY <2>1 DEF CertifyVideo
  <2>4. c \in Clips
    BY <2>1, <2>2 DEF Clips
  <2>5. c.signature = Nil \/ c.signature \in Signatures
    BY <2>3
  <2> QED
    BY <1>2, <2>4, <2>5 DEF Described
<1> QED
  BY <1>4, <1>5, <1>6

(* The fields the instance signs are short enough for a word to count.     *)
NamesTried == Names \cup {<<1, 1>>, <<1, 0>>}

LEMMA NamesAreTexts ==
  ASSUME WordLimit > 2
  PROVE  NamesTried \subseteq Texts
<1> SUFFICES ASSUME NEW s \in NamesTried PROVE s \in Texts
  OBVIOUS
<1>1. \/ s = <<>> \/ s = <<0>> \/ s = <<1>>
      \/ s = <<0, 0>> \/ s = <<1, 1>> \/ s = <<1, 0>>
  BY DEF NamesTried, Names
<1>2. s \in Seq(Nat) /\ Len(s) <= 2
  <2>1. CASE s = <<>>
    BY <2>1
  <2>2. CASE s = <<0>>
    BY <2>2
  <2>3. CASE s = <<1>>
    BY <2>3
  <2>4. CASE s = <<0, 0>>
    BY <2>4
  <2>5. CASE s = <<1, 1>>
    BY <2>5
  <2>6. CASE s = <<1, 0>>
    BY <2>6
  <2> QED
    BY <1>1, <2>1, <2>2, <2>3, <2>4, <2>5, <2>6
<1>3. Len(s) < WordLimit
  BY <1>2, WidthsAreRight
<1> QED
  BY <1>2, <1>3 DEF Texts

(***************************************************************************)
(* rlp.go, evm_anchor.go, feature_commitment.go, video.go, postgres.go and *)
(* capture.go: what is encoded reads back, and a commitment or a signature *)
(* fixes what it is about.  Nil is the database's NULL, no number and no   *)
(* record; a word counts more than the two bytes of the longest name.      *)
(***************************************************************************)
THEOREM EncodingsAlwaysBind ==
  ASSUME Nil \notin ValidVideos, Nil \notin Features, Nil \notin Nat, WordLimit > 2
  PROVE  AlgorithmsSpec => []EncodingsBind
<1>1. ASSUME SubjectEncodes PROVE EncodingsReadBack
  <2>1. subject.kind = "list" => ReadsBack(subject.strings)
    BY <1>1, StringsReadBack DEF SubjectEncodes
  <2>2. subject.kind = "tx" => TxReadsBack(subject, subject.recovery)
    BY <1>1, TransactionsTriedRead DEF SubjectEncodes
  <2> QED
    BY <2>1, <2>2 DEF EncodingsReadBack
<1>2. ASSUME SubjectEncodes PROVE CommitmentsBind
  BY <1>2, CertificatesTried, CertificatesAreBound DEF SubjectEncodes, CommitmentsBind
<1>3. ASSUME SubjectEncodes PROVE RowsRecommit
  BY <1>3, CertificatesTried, RowsAreFaithful DEF SubjectEncodes, RowsRecommit
<1>4. ASSUME SubjectEncodes PROVE KeypointsReadBack
  <2>1. PICK half \in Nat : WordLimit = 2 * half /\ half > 1
    <3>1. WordLimit \div 2 \in Nat /\ WordLimit = 2 * (WordLimit \div 2)
      BY WidthsAreRight
    <3> QED
      BY <3>1
  <2>2. ASSUME NEW x \in Keypoints PROVE KeypointReadsBack(x.kp)
    <3>1. /\ x.kp = [floats |-> "floats", octave |-> x.kp.octave, classID |-> x.kp.classID]
          /\ x.kp.octave \in 0..(WordLimit \div 2 - 1) /\ x.kp.classID \in {-1, 0, 1}
      BY DEF Keypoints
    <3>2. WordLimit \div 2 = half
      BY <2>1
    <3>3. x.kp.octave \in (-half)..(half - 1) /\ x.kp.classID \in (-half)..(half - 1)
      BY <2>1, <3>1, <3>2
    <3>4. KeypointReadsBack([floats |-> "floats", octave |-> x.kp.octave, classID |-> x.kp.classID])
      BY <2>1, <3>3, KeypointIntegersReadBack
    <3> QED
      BY <3>1, <3>4, Zenon
  <2> QED
    BY <1>4, <2>2 DEF SubjectEncodes, KeypointsReadBack
<1>5. ASSUME SubjectEncodes PROVE SignaturesFixCaptures
  <2>1. ASSUME NEW c \in SignedCaptures PROVE c \in Captures
    <3>1. /\ c.contentHash \in NamesTried /\ c.nonce \in NamesTried
          /\ c.capturedAt \in NamesTried /\ c.model \in NamesTried
          /\ c.osVersion \in NamesTried /\ c.appVersion \in NamesTried
      BY DEF SignedCaptures, NamesTried, Names
    <3>2. c = [contentHash |-> c.contentHash, nonce |-> c.nonce, capturedAt |-> c.capturedAt,
               model |-> c.model, osVersion |-> c.osVersion, appVersion |-> c.appVersion]
      BY DEF SignedCaptures
    <3> QED
      BY <3>1, <3>2, NamesAreTexts DEF Captures
  <2> QED
    BY <1>5, <2>1, SignaturesFix DEF SubjectEncodes, SignaturesFixCaptures
<1>6. SubjectEncodes => EncodingsBind
  BY <1>1, <1>2, <1>3, <1>4, <1>5 DEF EncodingsBind
<1> QED
  BY <1>6, SubjectEncodesStays, PTL

-----------------------------------------------------------------------------
(* Merkle trees                                                            *)

(* Hashing a leaf twice keeps leaves and nodes apart.                      *)
LeavesAreNoPairs == \A y \in Contents : \A a, b : y # HashPair(a, b)

(* W counts the occurrences of leaf x under each node of N, where R is the *)
(* height that makes a node higher than its children.                      *)
Weighs(N, W, R, x) ==
  /\ W \in [N -> Nat] /\ R \in [N -> Nat]
  /\ \A y \in N :
       \/ y \in Contents /\ W[y] = IF y = x THEN 1 ELSE 0
       \/ \E a, b \in N : /\ y = HashPair(a, b)
                          /\ W[y] = W[a] + W[b] /\ R[a] < R[y] /\ R[b] < R[y]

(* What the first nodes of a level weigh.                                  *)
PrefixSums(S, level, W) ==
  /\ S \in [0..Len(level) -> Nat]
  /\ S[0] = 0
  /\ \A j \in 1..Len(level) : S[j] = S[j - 1] + W[level[j]]

(* The nodes of a level hold the leaf x as often as the batch does.        *)
LevelWeighs(batch, level, x) ==
  \E N, W, R, S :
    /\ Weighs(N, W, R, x) /\ level \in Seq(N)
    /\ PrefixSums(S, level, W) /\ S[Len(level)] = Occurrences(batch, x)

(* Two pairs are one only if they have the same members.                   *)
LEMMA PairMembers ==
  ASSUME NEW a, NEW b, NEW c, NEW d, HashPair(a, b) = HashPair(c, d)
  PROVE  (a = c /\ b = d) \/ (a = d /\ b = c)
<1>1. {a, b} = {c, d}
  BY DEF HashPair
<1>2. (a = c \/ a = d) /\ (b = c \/ b = d) /\ (c = a \/ c = b) /\ (d = a \/ d = b)
  BY <1>1, Zenon
<1> QED
  BY <1>2

(* Two counts agree wherever both are defined.                             *)
LEMMA WeightsAgree ==
  ASSUME LeavesAreNoPairs, NEW x,
         NEW N, NEW W, NEW R, Weighs(N, W, R, x),
         NEW M, NEW U, NEW Q, Weighs(M, U, Q, x),
         NEW node \in N \cap M
  PROVE  W[node] = U[node]
<1> DEFINE T == {k \in Nat : \A y \in N \cap M : R[y] < k => W[y] = U[y]}
<1>0. W \in [N -> Nat] /\ R \in [N -> Nat] /\ U \in [M -> Nat]
  BY DEF Weighs
<1>1. 0 \in T
  <2>1. \A y \in N \cap M : R[y] \in Nat /\ ~ (R[y] < 0)
    BY <1>0
  <2> QED
    BY <2>1
<1>2. ASSUME NEW k \in T PROVE k + 1 \in T
  <2> SUFFICES ASSUME NEW y \in N \cap M, R[y] < k + 1 PROVE W[y] = U[y]
    OBVIOUS
  <2>0. k \in Nat /\ \A z \in N \cap M : R[z] < k => W[z] = U[z]
    OBVIOUS
  <2> HIDE DEF T
  <2>1. \/ y \in Contents /\ W[y] = IF y = x THEN 1 ELSE 0
        \/ \E a, b \in N : /\ y = HashPair(a, b)
                           /\ W[y] = W[a] + W[b] /\ R[a] < R[y] /\ R[b] < R[y]
    BY DEF Weighs
  <2>2. \/ y \in Contents /\ U[y] = IF y = x THEN 1 ELSE 0
        \/ \E a, b \in M : y = HashPair(a, b) /\ U[y] = U[a] + U[b]
    BY DEF Weighs
  <2>3. CASE y \in Contents
    <3>1. \A a, b : y # HashPair(a, b)
      BY <2>3 DEF LeavesAreNoPairs
    <3> QED
      BY <2>1, <2>2, <3>1
  <2>4. CASE y \notin Contents
    <3>1. PICK a \in N, b \in N : /\ y = HashPair(a, b)
                                  /\ W[y] = W[a] + W[b] /\ R[a] < R[y] /\ R[b] < R[y]
      BY <2>1, <2>4
    <3>2. PICK c \in M, d \in M : y = HashPair(c, d) /\ U[y] = U[c] + U[d]
      BY <2>2, <2>4
    <3>3. (a = c /\ b = d) \/ (a = d /\ b = c)
      <4>1. HashPair(a, b) = HashPair(c, d)
        BY <3>1, <3>2
      <4> QED
        BY <4>1, PairMembers
    <3>4. a \in N \cap M /\ b \in N \cap M
      BY <3>3
    <3>5. R[y] \in Nat /\ R[a] \in Nat /\ R[b] \in Nat
      BY <1>0
    <3>6. R[a] < k /\ R[b] < k
      BY <2>0, <3>1, <3>5
    <3>7. W[a] = U[a] /\ W[b] = U[b]
      BY <2>0, <3>4, <3>6
    <3>8. U[c] + U[d] = U[a] + U[b]
      <4>1. U[c] \in Nat /\ U[d] \in Nat
        BY <1>0
      <4> QED
        BY <3>3, <4>1
    <3> QED
      BY <3>1, <3>2, <3>7, <3>8
  <2> QED
    BY <2>3, <2>4
<1> HIDE DEF T
<1>3. T = Nat
  BY <1>1, <1>2, SetInduction DEF T
<1>4. R[node] \in Nat
  BY <1>0
<1>5. R[node] + 1 \in T
  BY <1>3, <1>4
<1> QED
  BY <1>4, <1>5 DEF T

(* The weight of a pair.                                                   *)
LEMMA PairWeighs ==
  ASSUME LeavesAreNoPairs, NEW x, NEW N, NEW W, NEW R, Weighs(N, W, R, x),
         NEW a, NEW b, HashPair(a, b) \in N
  PROVE  a \in N /\ b \in N /\ W[HashPair(a, b)] = W[a] + W[b]
<1> DEFINE y == HashPair(a, b)
<1>1. y \notin Contents
  BY DEF LeavesAreNoPairs
<1>2. y \in N
  OBVIOUS
<1>3. PICK c \in N, d \in N : y = HashPair(c, d) /\ W[y] = W[c] + W[d]
  BY <1>1, <1>2 DEF Weighs
<1>4. (a = c /\ b = d) \/ (a = d /\ b = c)
  BY <1>3, PairMembers
<1>5. W[c] \in Nat /\ W[d] \in Nat
  BY DEF Weighs
<1> HIDE DEF y
<1> QED
  BY <1>3, <1>4, <1>5 DEF y

(* The nodes of N and every pair of them.                                  *)
WithPairs(N) == N \cup {HashPair(a, b) : a \in N, b \in N}

LEMMA WithPairsHolds ==
  ASSUME NEW N, NEW y
  PROVE  y \in WithPairs(N) <=> y \in N \/ \E a, b \in N : y = HashPair(a, b)
<1> DEFINE Pairs == {HashPair(a, b) : a \in N, b \in N}
<1>1. y \in Pairs <=> \E a, b \in N : y = HashPair(a, b)
  OBVIOUS
<1> QED
  BY <1>1 DEF WithPairs

(* A count extends to every pair of the nodes it counts under.             *)
LEMMA WeightsExtend ==
  ASSUME NEW x, NEW N, NEW W, NEW R, Weighs(N, W, R, x)
  PROVE  \E U, Q :
           /\ Weighs(WithPairs(N), U, Q, x)
           /\ \A y \in N : U[y] = W[y]
<1> DEFINE M == WithPairs(N)
           Left(y) == CHOOSE a \in N : \E b \in N : y = HashPair(a, b)
           Right(y) == CHOOSE b \in N : y = HashPair(Left(y), b)
           U == [y \in M |-> IF y \in N THEN W[y] ELSE W[Left(y)] + W[Right(y)]]
           Q == [y \in M |-> IF y \in N THEN R[y] ELSE R[Left(y)] + R[Right(y)] + 1]
<1>0. W \in [N -> Nat] /\ R \in [N -> Nat]
  BY DEF Weighs
<1>1. ASSUME NEW y \in M, y \notin N
      PROVE  Left(y) \in N /\ Right(y) \in N /\ y = HashPair(Left(y), Right(y))
  <2>1. \E a \in N : \E b \in N : y = HashPair(a, b)
    BY <1>1, WithPairsHolds
  <2>2. Left(y) \in N /\ \E b \in N : y = HashPair(Left(y), b)
    BY <2>1
  <2> HIDE DEF Left
  <2>3. Right(y) \in N /\ y = HashPair(Left(y), Right(y))
    BY <2>2
  <2> QED
    BY <2>2, <2>3
<1> HIDE DEF Left, Right
<1>2. \A y \in N : y \in M /\ U[y] = W[y] /\ Q[y] = R[y]
  BY WithPairsHolds
<1>3. ASSUME NEW y \in M, y \notin N
      PROVE  U[y] = W[Left(y)] + W[Right(y)] /\ Q[y] = R[Left(y)] + R[Right(y)] + 1
  BY <1>3
<1>4. U \in [M -> Nat] /\ Q \in [M -> Nat]
  <2>1. ASSUME NEW y \in M PROVE U[y] \in Nat /\ Q[y] \in Nat
    <3>1. CASE y \in N
      BY <1>0, <1>2, <3>1
    <3>2. CASE y \notin N
      <4>1. W[Left(y)] \in Nat /\ W[Right(y)] \in Nat /\ R[Left(y)] \in Nat /\ R[Right(y)] \in Nat
        BY <1>0, <1>1, <3>2
      <4> HIDE DEF U, Q
      <4> QED
        BY <1>3, <3>2, <4>1
    <3> QED
      BY <3>1, <3>2
  <2>2. U = [y \in M |-> U[y]] /\ Q = [y \in M |-> Q[y]]
    OBVIOUS
  <2> HIDE DEF U, Q, M
  <2> QED
    BY <2>1, <2>2
<1> HIDE DEF U, Q
<1>5. ASSUME NEW y \in M
      PROVE  \/ y \in Contents /\ U[y] = IF y = x THEN 1 ELSE 0
             \/ \E a, b \in M : /\ y = HashPair(a, b)
                                /\ U[y] = U[a] + U[b] /\ Q[a] < Q[y] /\ Q[b] < Q[y]
  <2>1. CASE y \in N
    <3>1. \/ y \in Contents /\ W[y] = IF y = x THEN 1 ELSE 0
          \/ \E a, b \in N : /\ y = HashPair(a, b)
                             /\ W[y] = W[a] + W[b] /\ R[a] < R[y] /\ R[b] < R[y]
      BY <2>1 DEF Weighs
    <3> HIDE DEF M
    <3> QED
      BY <1>2, <2>1, <3>1
  <2>2. CASE y \notin N
    <3> DEFINE a == Left(y)
               b == Right(y)
    <3>1. a \in N /\ b \in N /\ y = HashPair(a, b)
      BY <1>1, <2>2
    <3>2. U[y] = W[a] + W[b] /\ Q[y] = R[a] + R[b] + 1
      BY <1>3, <2>2
    <3> HIDE DEF a, b, M
    <3>3. a \in M /\ b \in M /\ U[a] = W[a] /\ U[b] = W[b] /\ Q[a] = R[a] /\ Q[b] = R[b]
      BY <1>2, <3>1
    <3>4. R[a] \in Nat /\ R[b] \in Nat
      BY <1>0, <3>1
    <3>5. Q[a] < Q[y] /\ Q[b] < Q[y]
      BY <3>2, <3>3, <3>4
    <3>6. U[y] = U[a] + U[b]
      BY <3>2, <3>3
    <3> QED
      BY <3>1, <3>3, <3>5, <3>6
  <2> QED
    BY <2>1, <2>2
<1>6. Weighs(M, U, Q, x)
  BY <1>4, <1>5 DEF Weighs
<1> QED
  BY <1>2, <1>6

(* One more turn of the loop loses no leaf and repeats none.               *)
LEMMA ParentWeighs ==
  ASSUME LeavesAreNoPairs, NEW batch, NEW x, NEW level, LevelWeighs(batch, level, x)
  PROVE  LevelWeighs(batch, ParentLevel(level), x)
<1>1. PICK N, W, R, S :
        /\ Weighs(N, W, R, x) /\ level \in Seq(N)
        /\ PrefixSums(S, level, W) /\ S[Len(level)] = Occurrences(batch, x)
  BY DEF LevelWeighs
<1> DEFINE M == WithPairs(N)
           n == Len(level)
           m == (n + 1) \div 2
           parent == ParentLevel(level)
           End(j) == IF 2 * j > n THEN n ELSE 2 * j
           P == [j \in 0..m |-> S[End(j)]]
<1>2. PICK U, Q : Weighs(M, U, Q, x) /\ \A y \in N : U[y] = W[y]
  BY <1>1, WeightsExtend
<1>3. n \in Nat /\ \A j \in 1..n : level[j] \in N
  BY <1>1
<1>4. m \in Nat /\ 2 * m >= n /\ n >= 2 * m - 1
  BY <1>3
<1>5. parent = [j \in 1..m |-> IF 2 * j > n THEN level[n]
                               ELSE HashPair(level[2 * j - 1], level[2 * j])]
  BY DEF ParentLevel
<1> HIDE DEF m
<1>6. ASSUME NEW j \in 1..m
      PROVE  /\ 2 * j > n => parent[j] = level[n] /\ 2 * j = n + 1 /\ n \in 1..n
             /\ ~ (2 * j > n) => /\ parent[j] = HashPair(level[2 * j - 1], level[2 * j])
                                 /\ 2 * j - 1 \in 1..n /\ 2 * j \in 1..n
  <2>1. 2 * j > n => 2 * j = n + 1 /\ n \in 1..n
    BY <1>3, <1>4
  <2>2. ~ (2 * j > n) => 2 * j - 1 \in 1..n /\ 2 * j \in 1..n
    BY <1>3, <1>4
  <2>3. parent[j] = IF 2 * j > n THEN level[n] ELSE HashPair(level[2 * j - 1], level[2 * j])
    BY <1>5
  <2> HIDE DEF n, parent
  <2> QED
    BY <2>1, <2>2, <2>3
<1>7. \A j \in 1..m : parent[j] \in M
  <2> SUFFICES ASSUME NEW j \in 1..m PROVE parent[j] \in M
    OBVIOUS
  <2> HIDE DEF parent, n
  <2>1. CASE 2 * j > n
    BY <1>3, <1>6, <2>1, WithPairsHolds
  <2>2. CASE ~ (2 * j > n)
    BY <1>3, <1>6, <2>2, WithPairsHolds
  <2> QED
    BY <2>1, <2>2
<1>8. parent \in Seq(M) /\ Len(parent) = m
  <2>1. parent \in [1..m -> M]
    BY <1>5, <1>7
  <2> HIDE DEF parent, M
  <2> QED
    BY <1>4, <2>1, FunctionIsSeq
<1>9. S \in [0..n -> Nat] /\ S[0] = 0 /\ \A j \in 1..n : S[j] = S[j - 1] + W[level[j]]
  BY <1>1 DEF PrefixSums
<1> HIDE DEF parent, n, M
<1>10. \A j \in 0..m : End(j) \in 0..n
  BY <1>3, <1>4
<1>11. P \in [0..m -> Nat] /\ P[0] = 0 /\ P[m] = S[n]
  <2>1. P \in [0..m -> Nat]
    BY <1>9, <1>10
  <2>2. End(0) = 0 /\ End(m) = n
    BY <1>3, <1>4
  <2>3. P[0] = S[End(0)] /\ P[m] = S[End(m)]
    BY <1>4
  <2> HIDE DEF P, End
  <2> QED
    BY <1>9, <2>1, <2>2, <2>3
<1>12. ASSUME NEW j \in 1..m PROVE P[j] = P[j - 1] + U[parent[j]]
  <2>1. P[j] = S[End(j)] /\ P[j - 1] = S[End(j - 1)]
    BY <1>4
  <2> HIDE DEF P
  <2>2. CASE 2 * j > n
    <3>1. parent[j] = level[n] /\ 2 * j = n + 1 /\ n \in 1..n
      BY <1>6, <2>2
    <3>2. End(j) = n /\ End(j - 1) = n - 1
      BY <2>2, <3>1, <1>3
    <3>3. U[parent[j]] = W[level[n]]
      BY <1>2, <1>3, <3>1
    <3> HIDE DEF End
    <3> QED
      BY <1>9, <2>1, <3>1, <3>2, <3>3
  <2>3. CASE ~ (2 * j > n)
    <3> DEFINE a == level[2 * j - 1]
               b == level[2 * j]
    <3>1. parent[j] = HashPair(a, b) /\ 2 * j - 1 \in 1..n /\ 2 * j \in 1..n
      BY <1>6, <2>3
    <3>2. End(j) = 2 * j /\ End(j - 1) = 2 * j - 2
      BY <2>3, <1>3
    <3>3. a \in N /\ b \in N
      BY <1>3, <3>1
    <3>5. /\ S[2 * j] = S[2 * j - 1] + W[b]
          /\ S[2 * j - 1] = S[2 * j - 2] + W[a]
      <4>1. (2 * j - 1) - 1 = 2 * j - 2
        BY <1>4
      <4>2. /\ S[2 * j] = S[2 * j - 1] + W[level[2 * j]]
            /\ S[2 * j - 1] = S[(2 * j - 1) - 1] + W[level[2 * j - 1]]
        BY <1>9, <3>1
      <4> QED
        BY <4>1, <4>2 DEF a, b
    <3>6. S[2 * j - 2] \in Nat
      <4>1. 2 * j - 2 \in 0..n
        BY <3>1, <1>3, <1>4
      <4> QED
        BY <4>1, <1>9
    <3> HIDE DEF a, b, End
    <3>4. U[parent[j]] = W[a] + W[b]
      <4>1. HashPair(a, b) \in M
        BY <1>7, <3>1
      <4>2. U[HashPair(a, b)] = U[a] + U[b]
        BY <1>2, <4>1, PairWeighs
      <4> QED
        BY <1>2, <3>1, <3>3, <4>2
    <3>7. W[a] \in Nat /\ W[b] \in Nat
      BY <1>1, <3>3 DEF Weighs
    <3> QED
      BY <2>1, <3>2, <3>4, <3>5, <3>6, <3>7
  <2> QED
    BY <2>2, <2>3
<1> HIDE DEF P, End
<1>13. PrefixSums(P, parent, U)
  BY <1>8, <1>11, <1>12 DEF PrefixSums
<1>14. P[Len(parent)] = Occurrences(batch, x)
  BY <1>1, <1>8, <1>11 DEF n
<1>15. LevelWeighs(batch, parent, x)
  BY <1>2, <1>8, <1>13, <1>14 DEF LevelWeighs
<1> QED
  BY <1>15 DEF parent

(* A batch holds a leaf as often as it occurs in it.                       *)
LEMMA BatchWeighs ==
  ASSUME NEW batch \in Seq(Contents), NEW x
  PROVE  LevelWeighs(batch, batch, x)
<1> DEFINE n == Len(batch)
           At(j) == {i \in 1..j : batch[i] = x}
           W == [y \in Contents |-> IF y = x THEN 1 ELSE 0]
           R == [y \in Contents |-> 0]
           S == [j \in 0..n |-> Cardinality(At(j))]
<1>1. n \in Nat /\ DOMAIN batch = 1..n /\ \A j \in 1..n : batch[j] \in Contents
  OBVIOUS
<1>2. Weighs(Contents, W, R, x)
  BY DEF Weighs
<1>3. ASSUME NEW j \in 0..n PROVE IsFiniteSet(At(j)) /\ Cardinality(At(j)) \in Nat
  <2>1. j \in Nat
    BY <1>1
  <2>2. IsFiniteSet(1..j)
    BY <2>1, FS_Interval
  <2>3. At(j) \subseteq 1..j
    OBVIOUS
  <2>4. IsFiniteSet(At(j))
    BY <2>2, <2>3, FS_Subset
  <2> QED
    BY <2>4, FS_CardinalityType
<1>4. S \in [0..n -> Nat]
  BY <1>3
<1>5. S[0] = 0
  <2>1. At(0) = {}
    OBVIOUS
  <2>2. 0 \in 0..n
    BY <1>1
  <2> QED
    BY <2>1, <2>2, FS_EmptySet
<1>6. ASSUME NEW j \in 1..n PROVE S[j] = S[j - 1] + W[batch[j]]
  <2>1. j \in 0..n /\ j - 1 \in 0..n
    BY <1>1
  <2>2. S[j] = Cardinality(At(j)) /\ S[j - 1] = Cardinality(At(j - 1))
    BY <2>1
  <2>3. IsFiniteSet(At(j - 1)) /\ Cardinality(At(j - 1)) \in Nat
    BY <1>3, <2>1
  <2>4. CASE batch[j] = x
    <3>1. At(j) = At(j - 1) \cup {j} /\ j \notin At(j - 1)
      <4>1. 1..j = 1..(j - 1) \cup {j} /\ j \notin 1..(j - 1)
        BY <1>1
      <4> QED
        BY <2>4, <4>1
    <3>2. W[batch[j]] = 1
      BY <1>1, <2>4
    <3> HIDE DEF At, S, W
    <3>3. Cardinality(At(j)) = Cardinality(At(j - 1)) + 1
      BY <2>3, <3>1, FS_AddElement
    <3> QED
      BY <2>2, <3>2, <3>3
  <2>5. CASE batch[j] # x
    <3>1. At(j) = At(j - 1)
      <4>1. 1..j = 1..(j - 1) \cup {j}
        BY <1>1
      <4> QED
        BY <2>5, <4>1
    <3>2. W[batch[j]] = 0
      BY <1>1, <2>5
    <3> HIDE DEF At, S, W
    <3> QED
      BY <2>2, <2>3, <3>1, <3>2
  <2> QED
    BY <2>4, <2>5
<1>7. S[n] = Occurrences(batch, x)
  <2>1. S[n] = Cardinality(At(n))
    BY <1>1
  <2> QED
    BY <2>1, <1>1 DEF Occurrences
<1> HIDE DEF S, W, R, At
<1>8. PrefixSums(S, batch, W)
  BY <1>4, <1>5, <1>6 DEF PrefixSums
<1> QED
  BY <1>2, <1>7, <1>8 DEF LevelWeighs

(* So does the level the loop ends on.                                     *)
LEMMA RootWeighs ==
  ASSUME LeavesAreNoPairs, NEW batch \in Seq(Contents), batch # << >>, NEW x
  PROVE  LevelWeighs(batch, BuildMerkleTree(batch).level, x)
<1> DEFINE n == Len(batch)
           g == MerkleLoop(batch)
           T == {k \in Nat : k <= n => LevelWeighs(batch, g[k].level, x)}
<1>1. n \in Nat
  OBVIOUS
<1>2. LoopSteps(g, batch, n) /\ BuildMerkleTree(batch) = g[n]
  BY <1>1, LoopDef DEF BuildMerkleTree
<1> HIDE DEF g
<1>3. 0 \in T
  <2>1. g[0] = MerkleStart(batch)
    BY <1>1, <1>2 DEF LoopSteps
  <2>2. g[0].level = batch
    BY <2>1 DEF MerkleStart
  <2> QED
    BY <2>2, BatchWeighs
<1>4. ASSUME NEW k \in T PROVE k + 1 \in T
  <2> SUFFICES ASSUME k + 1 <= n PROVE LevelWeighs(batch, g[k + 1].level, x)
    OBVIOUS
  <2>1. LevelWeighs(batch, g[k].level, x)
    BY <1>1
  <2>2. g[k + 1] = IF Len(g[k].level) > 1 THEN MerkleStep(g[k]) ELSE g[k]
    BY <1>1, <1>2 DEF LoopSteps
  <2>3. g[k + 1].level = ParentLevel(g[k].level) \/ g[k + 1].level = g[k].level
    BY <2>2 DEF MerkleStep
  <2> QED
    BY <2>1, <2>3, ParentWeighs
<1> HIDE DEF T
<1>5. T = Nat
  BY <1>3, <1>4, SetInduction DEF T
<1> QED
  BY <1>1, <1>2, <1>5 DEF T

(* What is left of a level of one node.                                    *)
LEMMA SingleWeighs ==
  ASSUME NEW batch, NEW x, NEW level, LevelWeighs(batch, level, x), Len(level) = 1
  PROVE  \E N, W, R : Weighs(N, W, R, x) /\ level[1] \in N /\ W[level[1]] = Occurrences(batch, x)
<1>1. PICK N, W, R, S :
        /\ Weighs(N, W, R, x) /\ level \in Seq(N)
        /\ PrefixSums(S, level, W) /\ S[Len(level)] = Occurrences(batch, x)
  BY DEF LevelWeighs
<1>2. level[1] \in N
  BY <1>1
<1>3. S[0] = 0 /\ S[1] = S[1 - 1] + W[level[1]]
  BY <1>1 DEF PrefixSums
<1>4. W[level[1]] \in Nat
  BY <1>1, <1>2 DEF Weighs
<1>5. S[1] = W[level[1]]
  BY <1>3, <1>4
<1> QED
  BY <1>1, <1>2, <1>5

(* merkle.go: two batches with one root hold the same leaves, each as      *)
(* often, whatever their lengths.                                          *)
THEOREM RootFixesBatch ==
  ASSUME LeavesAreNoPairs,
         NEW batch, NEW level, Len(level) = 1, NEW x, LevelWeighs(batch, level, x),
         NEW other \in Seq(Contents), other # << >>, MerkleRoot(other) = level[1]
  PROVE  Occurrences(other, x) = Occurrences(batch, x)
<1> DEFINE top == BuildMerkleTree(other).level
<1>1. Len(top) = 1 /\ top[1] = level[1]
  BY BuiltTree DEF MerkleRoot
<1>2. LevelWeighs(other, top, x)
  BY RootWeighs
<1> HIDE DEF top
<1>3. PICK N, W, R :
        Weighs(N, W, R, x) /\ level[1] \in N /\ W[level[1]] = Occurrences(batch, x)
  BY SingleWeighs
<1>4. PICK M, U, Q :
        Weighs(M, U, Q, x) /\ top[1] \in M /\ U[top[1]] = Occurrences(other, x)
  BY <1>1, <1>2, SingleWeighs
<1> QED
  BY <1>1, <1>3, <1>4, WeightsAgree

(* A climb from another leaf along the same proof ends elsewhere.          *)
LEMMA ClimbFixesLeaf ==
  ASSUME NEW p, NEW S, p \in Seq(S), NEW a, NEW b, NEW top,
         VerifyMerkleProof(a, top, p), VerifyMerkleProof(b, top, p)
  PROVE  a = b
<1> DEFINE n == Len(p)
           g == Climb(a, p)
           h == Climb(b, p)
           T == {k \in Nat : k <= n => g[n - k] = h[n - k]}
<1>1. n \in Nat
  OBVIOUS
<1>2. ClimbSteps(g, a, p, n) /\ ClimbSteps(h, b, p, n)
  BY <1>1, ClimbDef
<1>3. g[n] = top /\ h[n] = top
  BY DEF VerifyMerkleProof
<1> HIDE DEF g, h
<1>4. 0 \in T
  BY <1>1, <1>3
<1>5. ASSUME NEW k \in T PROVE k + 1 \in T
  <2> SUFFICES ASSUME k + 1 <= n PROVE g[n - (k + 1)] = h[n - (k + 1)]
    OBVIOUS
  <2> DEFINE i == n - k
  <2>1. i \in 0..n /\ i - 1 \in 0..n /\ i # 0 /\ n - (k + 1) = i - 1
    BY <1>1
  <2>2. g[i] = h[i]
    BY <1>1
  <2> HIDE DEF i
  <2>3. g[i] = HashPair(g[i - 1], p[i]) /\ h[i] = HashPair(h[i - 1], p[i])
    BY <1>2, <2>1 DEF ClimbSteps
  <2>4. HashPair(g[i - 1], p[i]) = HashPair(h[i - 1], p[i])
    BY <2>2, <2>3
  <2>5. g[i - 1] = h[i - 1]
    BY <2>4, PairMembers
  <2> QED
    BY <2>1, <2>5
<1> HIDE DEF T
<1>6. T = Nat
  BY <1>4, <1>5, SetInduction DEF T
<1>7. g[n - n] = h[n - n] /\ n - n = 0
  BY <1>1, <1>6 DEF T
<1>8. g[0] = a /\ h[0] = b
  BY <1>1, <1>2 DEF ClimbSteps
<1> QED
  BY <1>7, <1>8

-----------------------------------------------------------------------------
(* The loop of MerkleBuild                                                 *)

(* Of the batch and of the level the loop has got to.                      *)
LoopInv ==
  /\ TreeInv(leaves, tree)
  /\ \A x \in Contents : LevelWeighs(leaves, tree.level, x)

(* The loop starts from a batch.                                           *)
LEMMA StartIsRight ==
  ASSUME NEW batch, NEW S, batch \in Seq(S)
  PROVE  TreeInv(batch, MerkleStart(batch))
<1> DEFINE t == MerkleStart(batch)
<1>1. /\ t.level = batch
      /\ t.positions = [i \in DOMAIN batch |-> i - 1]
      /\ t.proofs = [i \in DOMAIN batch |-> << >>]
  BY DEF MerkleStart
<1> HIDE DEF t
<1>2. DOMAIN batch = 1..Len(batch) /\ Len(batch) \in Nat
  OBVIOUS
<1>3. t.positions \in [DOMAIN batch -> 0..(Len(batch) - 1)]
  BY <1>1, <1>2
<1>4. ASSUME NEW i \in DOMAIN batch
      PROVE  /\ \E Z : t.proofs[i] \in Seq(Z)
             /\ VerifyMerkleProof(batch[i], batch[t.positions[i] + 1], t.proofs[i])
  <2>1. t.proofs[i] = << >> /\ t.positions[i] + 1 = i
    BY <1>1, <1>2
  <2>2. << >> \in Seq(S)
    OBVIOUS
  <2> QED
    BY <2>1, <2>2, ClimbNothing
<1>5. TreeInv(batch, t)
  BY <1>1, <1>3, <1>4 DEF TreeInv
<1> QED
  BY <1>5 DEF t

LEMMA LoopInit == AlgorithmsInit => LoopInv
<1> SUFFICES ASSUME AlgorithmsInit PROVE LoopInv
  OBVIOUS
<1>1. tree = MerkleStart(leaves)
  BY DEF AlgorithmsInit, NoLoop, BuildInit
<1>2. tree.level = leaves
  BY <1>1 DEF MerkleStart
<1>3. CASE leaves \in Batches
  <2>1. PICK n \in 1..MaxLeaves : leaves \in [1..n -> Contents]
    BY <1>3 DEF Batches
  <2>2. n \in Nat
    BY <2>1
  <2>3. leaves \in Seq(Contents)
    BY <2>1, <2>2, FunctionIsSeq
  <2> QED
    BY <1>1, <1>2, <2>3, StartIsRight, BatchWeighs DEF LoopInv
<1>4. CASE NoLoop
  <2> DEFINE c == CHOOSE x \in Contents : TRUE
  <2>1. leaves = [i \in 1..2 |-> c]
    BY <1>4 DEF NoLoop
  <2>2. Contents # {} => c \in Contents
    OBVIOUS
  <2> HIDE DEF c
  <2>3. leaves \in [1..2 -> {c}]
    BY <2>1
  <2>4. leaves \in Seq({c})
    BY <2>3, FunctionIsSeq
  <2>5. ASSUME NEW x \in Contents PROVE LevelWeighs(leaves, tree.level, x)
    <3>1. leaves \in [1..2 -> Contents]
      BY <2>1, <2>2
    <3>2. leaves \in Seq(Contents)
      BY <3>1, FunctionIsSeq
    <3> QED
      BY <1>2, <3>2, BatchWeighs
  <2> QED
    BY <1>1, <2>4, <2>5, StartIsRight DEF LoopInv
<1> QED
  BY <1>3, <1>4 DEF AlgorithmsInit, BuildInit

LEMMA LoopStep ==
  ASSUME LeavesAreNoPairs, LoopInv, [AlgorithmsNext]_algorithmVars
  PROVE  LoopInv'
<1>1. CASE AlgorithmsNext
  <2>1. tree' = MerkleStep(tree) /\ leaves' = leaves
    BY <1>1 DEF AlgorithmsNext, Reduce
  <2>2. TreeInv(leaves, MerkleStep(tree))
    BY StepPreservesTreeInv DEF LoopInv
  <2>3. MerkleStep(tree).level = ParentLevel(tree.level)
    BY DEF MerkleStep
  <2>4. \A x \in Contents : LevelWeighs(leaves, MerkleStep(tree).level, x)
    BY <2>3, ParentWeighs DEF LoopInv
  <2>5. TreeInv(leaves', tree') /\ \A x \in Contents : LevelWeighs(leaves', tree'.level, x)
    BY <2>1, <2>2, <2>4
  <2> QED
    BY <2>5 DEF LoopInv
<1>2. CASE UNCHANGED algorithmVars
  BY <1>2 DEF LoopInv, algorithmVars, buildVars
<1> QED
  BY <1>1, <1>2

LEMMA LoopInvIsRight ==
  ASSUME LeavesAreNoPairs, LoopInv
  PROVE  MerkleIsRight
<1>1. TreeInv(leaves, tree)
  BY DEF LoopInv
<1>2. ProofsReachLevel
  BY <1>1 DEF ProofsReachLevel, TreeInv
<1>3. ProofsAreExclusive
  <2> SUFFICES ASSUME Built, NEW i \in DOMAIN leaves, NEW x \in Contents
               PROVE  VerifyMerkleProof(x, tree.level[1], tree.proofs[i]) <=> x = leaves[i]
    BY DEF ProofsAreExclusive
  <2>1. tree.positions[i] = 0
    BY <1>1 DEF TreeInv, Built
  <2>2. VerifyMerkleProof(leaves[i], tree.level[1], tree.proofs[i])
    BY <1>1, <2>1 DEF TreeInv
  <2>3. PICK S : tree.proofs[i] \in Seq(S)
    BY <1>1 DEF TreeInv
  <2> QED
    BY <2>2, <2>3, ClimbFixesLeaf
<1>4. RootFixesLeaves
  <2> SUFFICES ASSUME Built, NEW other \in Batches, MerkleRoot(other) = tree.level[1],
                      NEW x \in Contents
               PROVE  Occurrences(other, x) = Occurrences(leaves, x)
    BY DEF RootFixesLeaves
  <2>1. PICK n \in 1..MaxLeaves : other \in [1..n -> Contents]
    BY DEF Batches
  <2>2. n \in Nat /\ n # 0
    BY <2>1
  <2>3. other \in Seq(Contents) /\ Len(other) = n
    BY <2>1, <2>2, FunctionIsSeq
  <2>4. other # << >>
    BY <2>2, <2>3
  <2>5. LevelWeighs(leaves, tree.level, x) /\ Len(tree.level) = 1
    BY DEF LoopInv, Built
  <2> QED
    BY <2>3, <2>4, <2>5, RootFixesBatch
<1> QED
  BY <1>2, <1>3, <1>4 DEF MerkleIsRight

(***************************************************************************)
(* merkle.go: on the way each proof climbs to the node its leaf has got    *)
(* to; at the end it vouches for its own leaf and no other, and the root   *)
(* has one batch up to order.  For every MaxLeaves and every Contents of   *)
(* which no member is a pair.                                              *)
(***************************************************************************)
THEOREM MerkleRight ==
  ASSUME LeavesAreNoPairs
  PROVE  AlgorithmsSpec => []MerkleIsRight
<1>1. LoopInv /\ [AlgorithmsNext]_algorithmVars => LoopInv'
  BY LoopStep
<1>2. LoopInv => MerkleIsRight
  BY LoopInvIsRight
<1> QED
  BY <1>1, <1>2, LoopInit, PTL DEF AlgorithmsSpec
=============================================================================
