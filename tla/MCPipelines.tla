---------------------------- MODULE MCPipelines -----------------------------
(***************************************************************************)
(* Model checking of the algorithms, of Verification over hashes of four   *)
(* bits in two bands, of the collector its requests report to, and of the  *)
(* generator of the images it is measured with.  They share no state, so   *)
(* that each is checked on its own: part says which, and the rest stand    *)
(* still.                                                                  *)
(***************************************************************************)
EXTENDS MCAlgorithms, Verification, TraceCollector, DatasetGenerator

Pairs == {{1, 2}, {3, 4}}
Ceilings == [image |-> 2, video |-> 1]

Image(content, hash, grid) ==
  [content |-> content, kind |-> "image", hash |-> {hash}, grid |-> grid,
   frames |-> <<>>, anchor |-> 0, duration |-> 0]
Video(content, frames, anchor, duration) ==
  [content |-> content, kind |-> "video", hash |-> {frames[anchor + 1]}, grid |-> TRUE,
   frames |-> frames, anchor |-> anchor, duration |-> duration]

(* A picture, one it resembles without being it, two as near, one of which *)
(* has no colour grid, and a video with the picture in it.                 *)
Certifiable ==
  {Image("photo", {1, 2}, TRUE), Image("retouched", {1, 2, 3}, TRUE), Image("poster", {1, 4}, TRUE),
   Image("sketch", {}, FALSE), Video("film", <<{1}, {1, 2}, {4}>>, 1, 20)}

Upload(kind, content, hashes, frames, duration) ==
  [kind |-> kind, content |-> content, hashes |-> hashes, features |-> TRUE, accepted |-> TRUE,
   frames |-> frames, duration |-> duration]

Questions ==
  {Upload("hash", "photo", {}, <<>>, 0),
   Upload("image", "photo", {{1, 2}, {3}}, <<>>, 0),
   Upload("image", "recoded", {{3}, {1, 2, 4}}, <<>>, 0),
   [Upload("image", "blur", {{1}}, <<>>, 0) EXCEPT !.features = FALSE],
   Upload("video", "trailer", {{1}, {1, 2}}, <<{1}, {1, 2}, {1, 2}>>, 19),
   [Upload("video", "endless", {}, <<>>, 0) EXCEPT !.accepted = FALSE]}

LooksLike(u, a) ==
  <<u.content, a.content>> \in
    {<<"recoded", "photo">>, <<"recoded", "film">>, <<"trailer", "film">>,
     <<"recoded", "sketch">>}

-----------------------------------------------------------------------------
Orders == {<<"b1", "b2">>, <<"b2">>}
Transformations == <<"jpeg_recompress_q70", "different_image">>

VARIABLE part

(* Which of the parts runs; the others keep their initial state.           *)
PipelinesInit ==
  /\ Init /\ CollectorInit /\ GeneratorInit
  /\ \/ part = "algorithms" /\ AlgorithmsInit
     \/ part \in {"verification", "collector", "generator"} /\ NoAlgorithm

PipelinesNext ==
  /\ UNCHANGED part
  /\ \/ /\ part = "algorithms" /\ AlgorithmsNext
        /\ UNCHANGED <<vars, collectorVars, generatorVars>>
     \/ /\ part = "verification" /\ Next
        /\ UNCHANGED <<algorithmVars, collectorVars, generatorVars>>
     \/ /\ part = "collector" /\ CollectorNext
        /\ UNCHANGED <<algorithmVars, vars, generatorVars>>
     \/ /\ part = "generator" /\ GeneratorNext
        /\ UNCHANGED <<algorithmVars, vars, collectorVars>>

PipelinesSpec ==
  /\ PipelinesInit /\ [][PipelinesNext]_<<algorithmVars, vars, collectorVars, generatorVars, part>>
  /\ AlgorithmsFairness /\ CollectorFairness /\ GeneratorFairness

(* What only computes comes to an end: the loop of MerkleBuild from every  *)
(* batch, and a run of the generator whatever its workers.                 *)
ComputationsEnd == TreesAreBuilt /\ GeneratorEnds
=============================================================================
