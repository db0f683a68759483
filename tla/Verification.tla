---------------------------- MODULE Verification ----------------------------
(***************************************************************************)
(* Is this file certified?  internal/usecase/verify.go, verify_video.go    *)
(* and the queries of internal/repository/postgres.go they make, while     *)
(* certificates are saved and deleted.                                     *)
(*                                                                         *)
(* A perceptual hash is the set of its one-bits.  The pre-filter indexes   *)
(* it by bands; what two files look like to ORB and the colour grid is     *)
(* given (Similar), see FeatureMatch for how that is decided.              *)
(***************************************************************************)
EXTENDS VideoGates, FiniteSetsExt

CONSTANTS
  Bits,              \* positions of a perceptual hash
  Bands,             \* PHashBands: the positions of each band
  MaxPHashDistance,
  MaxFramePHashDistance,
  TopK,              \* verifyTopK and videoVerifyTopK, by media kind
  Assets,            \* what can be certified
  Uploads,           \* what can be asked about
  Similar(_, _),     \* whether matching an upload with an asset succeeds
  Clients,
  Faults,            \* subset of {"storage", "features"}
  MaxRows            \* bound on the rows ever inserted

ASSUME BandsAssumption ==
  /\ IsFiniteSet(Bits) /\ IsFiniteSet(Bands)
  /\ \A b \in Bands : b \subseteq Bits /\ b # {}
  /\ \A b, c \in Bands : b # c => b \cap c = {}
ASSUME DistancesAssumption ==
  MaxPHashDistance \in Nat /\ MaxFramePHashDistance \in Nat /\ MaxRows \in Nat
ASSUME TopKAssumption == TopK \in [{"image", "video"} -> Nat \ {0}]
(* hash holds the perceptual hash, or nothing.                             *)
ASSUME AssetsAssumption ==
  \A a \in Assets : a.kind \in {"image", "video"} /\ a.hash \in SUBSET SUBSET Bits
                    /\ Cardinality(a.hash) <= 1
(* hashes holds the four rotations of an image, or the frames of a video;  *)
(* nothing when the upload does not decode.                                *)
ASSUME UploadsAssumption ==
  /\ Uploads # {}
  /\ \A u \in Uploads : u.kind \in {"hash", "image", "video"} /\ u.hashes \in SUBSET SUBSET Bits

VARIABLES
  certs,    \* every row ever inserted; its index is its id
  live,     \* the ids not deleted since
  pc,       \* how far each client's request is
  asked,    \* what it is about
  ids,      \* candidateIDsByBands: ids of rows that share a band with it
  rows,     \* the candidates still to be compared, nearest first
  outcome,  \* of the last request: "match", "no_match" or "error"
  answer,   \* the certificate it was answered with
  seen,     \* history: ids live at some moment of the request
  kept,     \* history: ids live at every moment of the request
  lapsed    \* history: ids whose comparison failed

table == <<certs, live>>
history == <<seen, kept, lapsed>>
vars == <<certs, live, pc, asked, ids, rows, outcome, answer, seen, kept, lapsed>>

-----------------------------------------------------------------------------
(* Hashes and bands                                                        *)

Hamming(g, h) == Cardinality((g \ h) \cup (h \ g))

Collide(g, h) == \E b \in Bands : g \cap b = h \cap b

(* The distance of a row that has a hash: the least over the variants.     *)
Distance(u, a) == Min({Hamming(g, h) : g \in u.hashes, h \in a.hash})

-----------------------------------------------------------------------------
(* Candidates                                                              *)

(* Mutated: only the upright image is looked up.                           *)
Colliding_OneVariant(u) ==
  {i \in live : \E h \in certs[i].hash : Collide(CHOOSE g \in u.hashes : TRUE, h)}

(* candidateIDsByBands: one query on the bands of every row.               *)
Colliding(u) == {i \in live : \E g \in u.hashes, h \in certs[i].hash : Collide(g, h)}

(* Mutated: rows of the other media kind stay in.                          *)
Hits_AnyKind(u, found) ==
  {i \in found \cap live : certs[i].hash # {} /\ Distance(u, certs[i]) <= MaxPHashDistance}

(* FindCandidatesByPHashes, once the ids are known: the rows that are      *)
(* still there, of the media kind, within the distance.                    *)
Hits(u, found) ==
  {i \in found \cap live : /\ certs[i].hash # {} /\ certs[i].kind = u.kind
                           /\ Distance(u, certs[i]) <= MaxPHashDistance}

(* Mutated: truncated first and sorted after.                              *)
TopOf_Unsorted(u, hits) ==
  {s \in [1..Min({Cardinality(hits), TopK[u.kind]}) -> hits] : IsInjective(s)}

(* Sorted by distance and truncated.  Rows arrive in any order and the     *)
(* sort is not stable, so rows as near as each other come in any order.    *)
TopOf(u, hits) ==
  {s \in [1..Min({Cardinality(hits), TopK[u.kind]}) -> hits] :
     /\ IsInjective(s)
     /\ \A i, j \in DOMAIN s :
          i < j => Distance(u, certs[s[i]]) <= Distance(u, certs[s[j]])
     /\ \A i \in DOMAIN s, h \in hits \ {s[k] : k \in DOMAIN s} :
          Distance(u, certs[s[i]]) <= Distance(u, certs[h])}

Near ==
  {p \in (SUBSET Bits) \X (SUBSET Bits) : Hamming(p[1], p[2]) <= MaxFramePHashDistance}

(* What a candidate has to bring before it is matched at all.              *)
PassesGates(u, a) ==
  /\ a.grid
  /\ u.kind = "video" =>
       /\ Valid(a)
       /\ DurationWithinTolerance(a.duration, u.duration)
       /\ SequencesAgree(a.frames, u.frames, Near)

-----------------------------------------------------------------------------
(* The table.  Save is one transaction: row and bands appear at once.      *)

Pending(c) == pc[c] \in {"lookup", "probe", "fetch", "match"}

(* Mutated: without the constraint on content_hash.                        *)
Stored_Never(a) == FALSE

Stored(a) == \E i \in live : certs[i].content = a.content

(* content_hash is UNIQUE.                                                 *)
Save(a) ==
  LET new == Len(certs) + 1 IN
  /\ Len(certs) < MaxRows
  /\ ~ Stored(a)
  /\ certs' = Append(certs, a)
  /\ live' = live \cup {new}
  /\ seen' = [c \in Clients |-> IF Pending(c) THEN seen[c] \cup {new} ELSE seen[c]]
  /\ UNCHANGED <<pc, asked, ids, rows, outcome, answer, kept, lapsed>>

(* Delete: the bands go with the row (ON DELETE CASCADE).                  *)
Delete(i) ==
  /\ i \in live
  /\ live' = live \ {i}
  /\ kept' = [c \in Clients |-> kept[c] \ {i}]
  /\ UNCHANGED <<certs, pc, asked, ids, rows, outcome, answer, seen, lapsed>>

-----------------------------------------------------------------------------
(* A request                                                               *)

Answer(c, how, i) ==
  /\ pc' = [pc EXCEPT ![c] = "answered"]
  /\ outcome' = [outcome EXCEPT ![c] = how]
  /\ answer' = [answer EXCEPT ![c] = i]
  /\ ids' = [ids EXCEPT ![c] = {}]
  /\ rows' = [rows EXCEPT ![c] = <<>>]

Proceed(c, to) ==
  /\ pc' = [pc EXCEPT ![c] = to]
  /\ UNCHANGED <<outcome, answer>>

(* A video whose ingestion fails, or whose probe does not validate, is     *)
(* refused before anything is looked up.                                   *)
Ask(c, u) ==
  /\ ~ Pending(c)
  /\ asked' = [asked EXCEPT ![c] = u]
  /\ seen' = [seen EXCEPT ![c] = live]
  /\ kept' = [kept EXCEPT ![c] = live]
  /\ lapsed' = [lapsed EXCEPT ![c] = {}]
  /\ outcome' = [outcome EXCEPT ![c] = IF u.accepted THEN "none" ELSE "error"]
  /\ answer' = [answer EXCEPT ![c] = 0]
  /\ pc' = [pc EXCEPT ![c] = IF u.accepted THEN "lookup" ELSE "answered"]
  /\ UNCHANGED <<table, ids, rows>>

(* FindByHash.  Only a file can be looked for by what it looks like, and   *)
(* only one with hashes and features.                                      *)
Lookup(c) ==
  LET u == asked[c]
      same == {i \in live : certs[i].content = u.content}
  IN  /\ pc[c] = "lookup"
      /\ \/ \E i \in same : Answer(c, "match", i)
         \/ same = {} /\ (u.kind = "hash" \/ u.hashes = {} \/ ~ u.features)
              /\ Answer(c, "no_match", 0)
         \/ same = {} /\ u.kind # "hash" /\ u.hashes # {} /\ u.features
              /\ Proceed(c, "probe") /\ UNCHANGED <<ids, rows>>
      /\ UNCHANGED <<table, asked, history>>

Probe(c) ==
  LET found == Colliding(asked[c]) IN
  /\ pc[c] = "probe"
  /\ \/ found = {} /\ Answer(c, "no_match", 0)
     \/ found # {} /\ Proceed(c, "fetch") /\ ids' = [ids EXCEPT ![c] = found] /\ UNCHANGED rows
  /\ UNCHANGED <<table, asked, history>>

Fetch(c) ==
  /\ pc[c] = "fetch"
  /\ \E s \in TopOf(asked[c], Hits(asked[c], ids[c])) : rows' = [rows EXCEPT ![c] = s]
  /\ ids' = [ids EXCEPT ![c] = {}]
  /\ Proceed(c, "match")
  /\ UNCHANGED <<table, asked, history>>

(* Mutated: an error ends the search.                                      *)
Rest_None(c, how) == IF how = "failed" THEN <<>> ELSE Tail(rows[c])

(* The candidates left after this one: a rejection, a candidate without    *)
(* features and an error all lead to the next.                             *)
Rest(c, how) == Tail(rows[c])

(* How the comparison with a candidate may end.                            *)
Verdicts(u, a) ==
  IF ~ PassesGates(u, a) THEN {"rejected"}
  ELSE {IF Similar(u, a) THEN "matched" ELSE "rejected"}
         \cup (IF "features" \in Faults THEN {"failed"} ELSE {})

Compare(c) ==
  /\ pc[c] = "match" /\ rows[c] # <<>>
  /\ \E how \in Verdicts(asked[c], certs[Head(rows[c])]) :
       \/ how = "matched" /\ Answer(c, "match", Head(rows[c])) /\ UNCHANGED lapsed
       \/ /\ how # "matched"
          /\ rows' = [rows EXCEPT ![c] = Rest(c, how)]
          /\ lapsed' = [lapsed EXCEPT ![c] =
                        IF how = "failed" THEN @ \cup {Head(rows[c])} ELSE @]
          /\ UNCHANGED <<pc, ids, outcome, answer>>
  /\ UNCHANGED <<table, asked, seen, kept>>

Exhaust(c) ==
  /\ pc[c] = "match" /\ rows[c] = <<>>
  /\ Answer(c, "no_match", 0)
  /\ UNCHANGED <<table, asked, history>>

(* A query fails, and with it the request.                                 *)
Fail(c) ==
  /\ "storage" \in Faults
  /\ pc[c] \in {"lookup", "probe", "fetch"}
  /\ Answer(c, "error", 0)
  /\ UNCHANGED <<table, asked, history>>

Step(c) == Lookup(c) \/ Probe(c) \/ Fetch(c) \/ Compare(c) \/ Exhaust(c)

Next ==
  \/ \E a \in Assets : Save(a)
  \/ \E i \in live : Delete(i)
  \/ \E c \in Clients : \/ \E u \in Uploads : Ask(c, u)
                        \/ Step(c)
                        \/ Fail(c)

Init ==
  /\ certs = <<>> /\ live = {}
  /\ pc = [c \in Clients |-> "idle"]
  /\ asked \in [Clients -> {CHOOSE u \in Uploads : TRUE}]
  /\ ids = [c \in Clients |-> {}] /\ rows = [c \in Clients |-> <<>>]
  /\ outcome = [c \in Clients |-> "none"] /\ answer = [c \in Clients |-> 0]
  /\ seen = [c \in Clients |-> {}] /\ kept = [c \in Clients |-> {}]
  /\ lapsed = [c \in Clients |-> {}]

Spec == Init /\ [][Next]_vars

-----------------------------------------------------------------------------
(* Properties                                                              *)

(* No two rows have the same content, a request is answered when it has an *)
(* outcome, and candidates are held only while they are looked at.         *)
TypeOK ==
  /\ certs \in Seq(Assets) /\ live \subseteq DOMAIN certs
  /\ pc \in [Clients -> {"idle", "lookup", "probe", "fetch", "match", "answered"}]
  /\ asked \in [Clients -> Uploads]
  /\ ids \in [Clients -> SUBSET DOMAIN certs]
  /\ rows \in [Clients -> Seq(DOMAIN certs)]
  /\ outcome \in [Clients -> {"none", "match", "no_match", "error"}]
  /\ answer \in [Clients -> {0} \cup DOMAIN certs]
  /\ seen \in [Clients -> SUBSET DOMAIN certs] /\ kept \in [Clients -> SUBSET DOMAIN certs]
  /\ lapsed \in [Clients -> SUBSET DOMAIN certs]
  /\ \A i, j \in live : certs[i].content = certs[j].content => i = j
  /\ \A c \in Clients : /\ pc[c] = "answered" <=> outcome[c] # "none"
                        /\ ids[c] # {} => pc[c] = "fetch"
                        /\ rows[c] # <<>> => pc[c] = "match"

(* Whether an upload may be answered with an asset.                        *)
Vouches(u, a) ==
  \/ a.content = u.content
  \/ a.kind = u.kind /\ PassesGates(u, a) /\ Similar(u, a)

(***************************************************************************)
(* Whoever is told that a file is certified is shown a certificate that    *)
(* existed while they asked, deleted as it may be by now, and that is of   *)
(* this very file or of one of the same kind that looks like it: nobody    *)
(* who asks about an image is shown a video they cannot reproduce.  The    *)
(* rows are fetched two queries after the look-up and compared one by one, *)
(* with saves and deletions between.                                       *)
(***************************************************************************)
AnswersExisted ==
  \A c \in Clients :
    outcome[c] = "match" =>
      /\ answer[c] \in seen[c]
      /\ Vouches(asked[c], certs[answer[c]])

(* An asset the pre-filter is certain to find, and the matcher to accept,  *)
(* unless TopK others are at least as near.                                *)
MustFind(u, i, present) ==
  LET a == certs[i]
      rivals == {j \in present \ {i} :
                   /\ certs[j].kind = u.kind /\ certs[j].hash # {}
                   /\ Distance(u, certs[j]) <= Distance(u, a)}
  IN  \/ a.content = u.content
      \/ /\ a.kind = u.kind /\ u.features /\ u.hashes # {} /\ a.hash # {}
         /\ Distance(u, a) < Cardinality(Bands) /\ Distance(u, a) <= MaxPHashDistance
         /\ PassesGates(u, a) /\ Similar(u, a)
         /\ Cardinality(rivals) < TopK[u.kind]

(***************************************************************************)
(* Whoever is told that a file is not certified was not owed another       *)
(* answer: of the certificates that stood during the whole request, and    *)
(* whose own comparison did not fail, none was near enough to collide in a *)
(* band, would have matched, and had fewer than TopK rivals.  From as many *)
(* bits as there are bands up to MaxPHashDistance the pre-filter may miss  *)
(* a certificate, and so may a search that TopK nearer ones crowd.         *)
(***************************************************************************)
NothingMissed ==
  \A c \in Clients :
    outcome[c] = "no_match" =>
      ~ \E i \in kept[c] \ lapsed[c] : MustFind(asked[c], i, seen[c])

(* Both answers are true, of rows and requests that are as they should be. *)
VerificationSafety == TypeOK /\ AnswersExisted /\ NothingMissed
=============================================================================
