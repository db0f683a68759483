----------------------------- MODULE VideoGates -----------------------------
(***************************************************************************)
(* The gates two videos pass before their anchor frames are compared       *)
(* (internal/domain/video.go).                                             *)
(***************************************************************************)
EXTENDS Integers, Sequences, FiniteSets

CONSTANTS
  FrameAlignSlack,   \* slots either side a frame may match
  Agreement,         \* MinFrameAgreement, per cent
  DurationDrift,     \* MaxDurationDriftRatio, per cent
  MinDurationDrift   \* the least drift that is allowed

ASSUME GatesAssumption ==
  /\ FrameAlignSlack \in Nat /\ Agreement \in 0..100
  /\ DurationDrift \in 0..100 /\ MinDurationDrift \in Nat

Valid(video) == video.frames # <<>> /\ video.anchor \in 0..(Len(video.frames) - 1)

Window_Ahead(ref, i) == {j \in i..(i + FrameAlignSlack) : j \in DOMAIN ref}

Window(ref, i) == {j \in (i - FrameAlignSlack)..(i + FrameAlignSlack) : j \in DOMAIN ref}

(* near: the pairs of hashes within MaxFramePHashDistance of each other.   *)
Matched(ref, cand, near) ==
  {i \in DOMAIN cand : \E j \in Window(ref, i) : <<cand[i], ref[j]>> \in near}

(* FrameSequenceScore and the bound on it.                                 *)
SequencesAgree(ref, cand, near) ==
  /\ ref # <<>> /\ cand # <<>>
  /\ 100 * Cardinality(Matched(ref, cand, near)) >= Agreement * Len(cand)

(* An unknown duration fails closed.                                       *)
DurationWithinTolerance(ref, cand) ==
  LET ratio == (ref * DurationDrift) \div 100
      drift == IF ratio > MinDurationDrift THEN ratio ELSE MinDurationDrift
  IN  ref > 0 /\ cand > 0 /\ ref - cand \in -drift..drift
=============================================================================
