--------------------------- MODULE VideoSampling ----------------------------
(***************************************************************************)
(* How a spilled video becomes a signature, and how one of its frames is   *)
(* found again (internal/feature/video_extractor.go and SampleFrameIndexes *)
(* of internal/domain/video.go).                                           *)
(*                                                                         *)
(* A recording is what the decoder finds in the file, frame by frame, and  *)
(* what its header claims.  A frame is its number in the file: two frames  *)
(* have the same perceptual hash when they are the same frame.  Slots and  *)
(* frame numbers count from 0, as in the code.                             *)
(***************************************************************************)
EXTENDS VideoGates

CONSTANTS
  VideoFrameSamples,  \* K, the slots of a signature
  AnchorCandidates,   \* frames kept in the running for anchor
  MaxDecodeFrames,    \* budget of the counting pass
  MaxVideoDurationMs  \* the longest video that is accepted

ASSUME SomeSlots     == VideoFrameSamples \in Nat \ {0}
ASSUME SomeAnchors   == AnchorCandidates \in Nat \ {0}
ASSUME SomeBudget    == MaxDecodeFrames \in Nat
ASSUME SomeDuration  == MaxVideoDurationMs \in Nat

Slots == 0..(VideoFrameSamples - 1)

(* Mutated: the start of a slot rounds past the last frame.                *)
SampleFrame_NoClamp(n, i) ==
  (n * (2 * i + 1) + VideoFrameSamples) \div (2 * VideoFrameSamples)

(* Mutated: every slot is sampled where it ends.                           *)
SampleFrame_SlotEnd(n, i) == (n * (i + 1) - 1) \div VideoFrameSamples

(* SampleFrameIndexes: the frame of slot i among n, half rounded up.       *)
SampleFrame(n, i) ==
  LET idx == (n * (2 * i + 1) + VideoFrameSamples) \div (2 * VideoFrameSamples)
  IN  IF idx >= n THEN n - 1 ELSE idx

-----------------------------------------------------------------------------
(* Recordings                                                              *)

(* frames: what decodes, each with its sharpness and whether ORB finds     *)
(* structure in it; header: the frame count the container claims, 0 when   *)
(* it claims none; fps: the frames a second it claims, 0 likewise.         *)
Recording(frames, header, fps) == [frames |-> frames, header |-> header, fps |-> fps]

Frames(v) == 0..(Len(v.frames) - 1)
Frame(v, f) == v.frames[f + 1]

(* Mutated: the count stops at the last frame that can be grabbed.         *)
ResolveFrameCount_OneShort(v) ==
  IF v.header > 0 THEN v.header
  ELSE IF Len(v.frames) > MaxDecodeFrames \/ v.frames = <<>> THEN 0 ELSE Len(v.frames) - 1

(* resolveFrameCount and measureFrameCount; 0 stands for their errors.     *)
ResolveFrameCount(v) ==
  IF v.header > 0 THEN v.header
  ELSE IF Len(v.frames) > MaxDecodeFrames THEN 0 ELSE Len(v.frames)

(* Mutated: a container without a count is given the duration it turns out *)
(* to have.                                                                *)
DurationMs_Counted(v) == IF v.fps > 0 THEN (1000 * ResolveFrameCount(v)) \div v.fps ELSE 0

(* probeVideo, which knows the header and no more.                         *)
DurationMs(v) == IF v.fps > 0 /\ v.header > 0 THEN (1000 * v.header) \div v.fps ELSE 0

(* Mutated: only the ceiling is looked at.                                 *)
Validate_Ceiling(v) == DurationMs(v) <= MaxVideoDurationMs

(* VideoProbe.Validate, before Reduce in capture and in verification.      *)
(* (Its limits on width and height stand apart from the frames.)           *)
Validate(v) == DurationMs(v) \in 1..MaxVideoDurationMs

(* A capture is the number of frames consumed so far.  Grab skips frames,  *)
(* and gives no error at the end of the file; Read then finds nothing.     *)
Grab(v, at, skip) == IF at + skip > Len(v.frames) THEN Len(v.frames) ELSE at + skip
Readable(v, at) == at < Len(v.frames)

-----------------------------------------------------------------------------
(* anchorKeeper                                                            *)

(* Sharper, and of two as sharp the earlier.                               *)
Outranks(a, b) == a.sharp > b.sharp \/ (a.sharp = b.sharp /\ a.slot < b.slot)

Best(cands) == CHOOSE c \in cands : \A d \in cands \ {c} : Outranks(c, d)
Worst(cands) == CHOOSE c \in cands : \A d \in cands \ {c} : Outranks(d, c)

(* Mutated: the newcomer is dropped once the keeper is full.               *)
Dropped_Newest(kept, c) == IF Cardinality(kept) < AnchorCandidates THEN {} ELSE {c}

(* offer: what the keeper lets go of (and closes) when it is handed c.     *)
Dropped(kept, c) ==
  IF Cardinality(kept) < AnchorCandidates THEN {} ELSE {Worst(kept \cup {c})}

-----------------------------------------------------------------------------
(* Reduce                                                                  *)

(* The loop's state: the capture, the frame it decoded last (cursor, and   *)
(* previous, its hash), the hashes, the candidates, and the slots whose    *)
(* Mat is open.                                                            *)
ReduceStart ==
  [at |-> 0, cursor |-> -1, hashes |-> <<>>, kept |-> {}, open |-> {}, end |-> "running"]

SkipTo_Inclusive(v, st, target) == Grab(v, st.at, target - st.cursor)

(* Only what lies between the frame read last and the target is skipped.   *)
SkipTo(v, st, target) == Grab(v, st.at, target - st.cursor - 1)

(* A frame was read and resized into a Mat of its own; conversion fails    *)
(* for the frame called broken.                                            *)
Keep(v, st, target, at, broken) ==
  LET slot == Len(st.hashes)
      cand == [slot |-> slot, frame |-> target, sharp |-> Frame(v, at).sharp,
               orb |-> Frame(v, at).orb]
      gone == Dropped(st.kept, cand)
  IN  IF at = broken THEN [st EXCEPT !.end = "unconvertible", !.at = at + 1]
      ELSE [at |-> at + 1, cursor |-> target, hashes |-> Append(st.hashes, at),
            kept |-> (st.kept \cup {cand}) \ gone,
            open |-> (st.open \cup {slot}) \ {c.slot : c \in gone}, end |-> "running"]

(* One turn: the context is cancelled from slot cancelAt on.               *)
ReduceTurn(v, st, i, cancelAt, broken) ==
  LET target == SampleFrame(ResolveFrameCount(v), i)
      at     == SkipTo(v, st, target)
  IN  IF st.end # "running" THEN st
      ELSE IF i >= cancelAt THEN [st EXCEPT !.end = "cancelled"]
      ELSE IF target = st.cursor
        THEN [st EXCEPT !.hashes = Append(@, @[Len(@)])]
      ELSE IF Readable(v, at) THEN Keep(v, st, target, at, broken)
      ELSE [st EXCEPT !.end = "truncated", !.at = at]

ReduceLoop(v, cancelAt, broken) ==
  LET turn[i \in 0..VideoFrameSamples] ==
        IF i = 0 THEN ReduceStart ELSE ReduceTurn(v, turn[i - 1], i - 1, cancelAt, broken)
  IN  IF ResolveFrameCount(v) = 0 THEN ReduceStart ELSE turn[VideoFrameSamples]

Usable(st) == {c \in st.kept : c.orb}

ReduceError(v, st) ==
  IF ResolveFrameCount(v) = 0 THEN "nocount"
  ELSE IF st.end \in {"cancelled", "unconvertible"} THEN st.end
  ELSE IF st.hashes = <<>> THEN "undecodable"
  ELSE IF Usable(st) = {} THEN "noanchor" ELSE "none"

(* The Mats the deferred keeper.Close releases, whatever the outcome.      *)
DeferredClose_OnSuccess(v, st) ==
  IF ReduceError(v, st) = "none" THEN {c.slot : c \in st.kept} ELSE {}

DeferredClose(v, st) == {c.slot : c \in st.kept}

(* selectAnchor walks the candidates from the sharpest down.               *)
SelectAnchor(st) == Best(Usable(st)).slot

Reduction(v, cancelAt, broken) ==
  LET st  == ReduceLoop(v, cancelAt, broken)
      err == ReduceError(v, st)
  IN  [error |-> err,
       leaked |-> st.open \ DeferredClose(v, st),
       hashes |-> IF err = "none" THEN st.hashes ELSE <<>>,
       anchor |-> IF err = "none" THEN SelectAnchor(st) ELSE 0,
       durationMs |-> IF err = "none" THEN DurationMs(v) ELSE 0]

NoFrame == -1

(* FrameAt: the frame of a slot, from a new capture in one skip.           *)
FrameAt(v, slot) ==
  LET n  == ResolveFrameCount(v)
      at == Grab(v, 0, SampleFrame(n, slot))
  IN  IF n = 0 \/ slot \notin Slots THEN NoFrame
      ELSE IF Readable(v, at) THEN at ELSE NoFrame

-----------------------------------------------------------------------------
(* Properties, of a recording v and an interruption of its reduction.      *)

(* The two sides of a comparison find the same frame in a slot: FrameAt    *)
(* skips once from the start, Reduce from each sample to the next, and     *)
(* where the header promised more frames than there are both find none.    *)
FrameAtAgrees(v) ==
  LET r == Reduction(v, VideoFrameSamples, NoFrame) IN
  r.error = "none" =>
    \A slot \in Slots :
      FrameAt(v, slot) = IF slot < Len(r.hashes) THEN r.hashes[slot + 1] ELSE NoFrame

(* The anchor is a function of the decoded frames alone: the sharpest of   *)
(* them, at its first slot, or one of the next sharpest where ORB finds    *)
(* nothing in it; never worse than the AnchorCandidates-th.                *)
AnchorIsSharpest(v) ==
  LET r == Reduction(v, VideoFrameSamples, NoFrame)
      First == {i \in DOMAIN r.hashes : \A j \in 1..(i - 1) : r.hashes[j] # r.hashes[i]}
      All == {[slot |-> i - 1, sharp |-> Frame(v, r.hashes[i]).sharp,
               orb |-> Frame(v, r.hashes[i]).orb] : i \in First}
      Better(c) == {d \in All : Outranks(d, c)}
  IN  r.error = "none" =>
        \E c \in All :
          /\ c.slot = r.anchor /\ c.orb
          /\ Cardinality(Better(c)) < AnchorCandidates
          /\ \A d \in Better(c) : ~ d.orb

(* No frame outlives the request, whichever way the reduction ends.        *)
MatsAreClosed(v, cancelAt, broken) == Reduction(v, cancelAt, broken).leaked = {}

(* A container whose frames have to be counted is sampled like one that    *)
(* reports as many, unless counting runs into its budget.  It has no       *)
(* duration for all that: it is refused before anything is counted, and    *)
(* were it certified, or compared, no duration would be near enough.       *)
CountedFailsClosed(v) ==
  LET sampled(r) == <<r.error, r.hashes, r.anchor>>
      counted  == Recording(v.frames, 0, v.fps)
      reported == Recording(v.frames, Len(v.frames), v.fps)
      c == Reduction(counted, VideoFrameSamples, NoFrame)
      r == Reduction(reported, VideoFrameSamples, NoFrame)
      own == Reduction(v, VideoFrameSamples, NoFrame).durationMs
  IN  /\ Len(v.frames) \in 1..MaxDecodeFrames => sampled(c) = sampled(r)
      /\ ~ Validate(counted)
      /\ ~ DurationWithinTolerance(c.durationMs, own)
      /\ ~ DurationWithinTolerance(own, c.durationMs)

(* A video that is admitted and certified passes, when it is verified, the *)
(* gates of the frame sequence and the duration against itself, and its    *)
(* anchor is found again, however wrong its header is about the frames.    *)
AdmittedMatchesItself(v) ==
  LET r == Reduction(v, VideoFrameSamples, NoFrame) IN
  Validate(v) /\ r.error = "none" =>
    /\ Valid([frames |-> r.hashes, anchor |-> r.anchor])
    /\ SequencesAgree(r.hashes, r.hashes, {<<f, f>> : f \in Frames(v)})
    /\ DurationWithinTolerance(r.durationMs, r.durationMs)
    /\ FrameAt(v, r.anchor) = r.hashes[r.anchor + 1] /\ FrameAt(v, r.anchor) # NoFrame

(* The samples stay in the file and in order, and each is within a frame   *)
(* of the middle of its slot, the first and the last slot included.        *)
SamplesAreMidpoints(n) ==
  \A i \in Slots :
    LET f == SampleFrame(n, i) IN
    /\ f \in 0..(n - 1)
    /\ \A j \in Slots : i <= j => f <= SampleFrame(n, j)
    /\ 2 * VideoFrameSamples * f - n * (2 * i + 1)
         \in -(2 * VideoFrameSamples)..VideoFrameSamples

(* domain/video.go: a slot lands at the same instant whatever the frame    *)
(* rate.  Re-encoding n frames as m moves it by less than a frame of each. *)
RateChangeKeepsSlots(n, m) ==
  \A i \in Slots :
    SampleFrame(n, i) * m - SampleFrame(m, i) * n \in -(n + m)..(n + m)

(* A transcode that drops its last frames, a slot of them at most, moves   *)
(* every sample and still passes the sequence gate, as long as frames half *)
(* a slot apart look alike.                                                *)
DroppedTailAgrees(n, dropped) ==
  LET sampled(k) == [i \in 1..VideoFrameSamples |-> SampleFrame(k, i - 1)]
      half == (n + 2 * VideoFrameSamples - 1) \div (2 * VideoFrameSamples)
      near == {p \in (0..(n - 1)) \X (0..(n - 1)) : p[1] - p[2] \in -half..half}
  IN  VideoFrameSamples * dropped <= n =>
        SequencesAgree(sampled(n), sampled(n - dropped), near)
=============================================================================
