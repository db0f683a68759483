# Aletheia: TLA+ models of the certification service

Aletheia certifies media. A tenant enrols devices whose hardware keys are
attested, a device signs what it captures over a fresh challenge, the service
stores a certificate for it, and a background worker commits batches of
certificates to a contract on an EVM chain, so that a certificate can later be
shown to anyone together with a Merkle proof.

This directory models the parts of the service whose correctness depends on
order, failure or concurrency, and the algorithms both sides of a verification
must agree on. It checks them with TLC on small instances and, for the central
results, proves them with TLAPS for every value of the constants.
Paths below are relative to the repository; `anchor.go:65` names a file and a
line. `PROJECT.json` maps every definition to the lines it stands for.

1. [The system](#1-the-system)
2. [The modules](#2-the-modules)
3. [What the runs show](#3-what-the-runs-show)
4. [What is proved](#4-what-is-proved)
5. [Where code and documents disagree](#5-where-code-and-documents-disagree)
6. [What is not modelled](#6-what-is-not-modelled)
7. [Plan](#7-plan)

## 1. The system

One Go process serves HTTP and runs the anchor worker as a goroutine. Postgres
holds everything that survives it. Several processes may run against one
database. The chain is reached over JSON-RPC.

| Component | State it keeps | Operations |
|---|---|---|
| Certificate store (`repository/postgres.go`) | rows of `certificates`, `content_hash` unique | save, delete, find by hash, find by perceptual bands |
| Anchor worker (`usecase/anchor.go`, `repository/postgres_anchor.go`) | the batch of a pass; rows of `anchors`; `anchor_id`, leaf index and proof of each certificate | one pass per tick: read pending, commit root, await receipt, save |
| EVM client (`repository/evm_anchor.go`, `rlp.go`) | none between calls | nonce, gas, sign, send, poll for the receipt |
| Contract (`contracts/AnchorRegistry.sol`) | anchored roots with leaf counts, pause flag | anchor, pause, unpause, verify |
| Merkle construction (`domain/merkle.go`) | none | build tree, verify proof |
| Challenges (`domain/nonce.go`, `repository/postgres_nonce.go`) | rows of `capture_nonces` | issue, consume, delete expired |
| Devices (`usecase/capture.go`, `repository/postgres_device.go`) | rows of `devices`, `public_key` unique | enrol, look up, revoke |
| Gated capture (`handler/capture.go`, `usecase/capture.go`, `certify.go`, `certify_video.go`) | a request in flight | check quota, consume challenge, load device, verify signature, check duplicate, save, record usage |
| Metering (`usecase/usage.go`, `repository/postgres_usage.go`) | `usage_counters` per tenant, operation, month | check, record |
| Rate limiter (`handler/ratelimit.go`) | a map of token buckets, time of the last sweep | allow, sweep |
| Video intake (`feature/video_source.go`) | a semaphore, spill files, open handles | ingest, close, sweep at start |
| Video sampling and verdict (`feature/video_extractor.go`, `domain/video.go`) | decoded frames, during a reduction | reduce, frame at a slot, decide |
| Verification (`usecase/verify.go`, `verify_video.go`, the searches of `repository/postgres.go`) | a request in flight | exact look-up, band probe, candidate fetch, match |
| Image features (`feature/opencv_extractor.go`, `domain/perceptual_hash.go`) | none | extract, colour grid, hash and its four orientations, match |
| Commitments (`domain/feature_commitment.go`, `video.go`, `capture.go`) | none | commit to features, build and verify a signing payload, encode to a row and back |
| Transaction encoding (`repository/rlp.go`, `evm_anchor.go`) | none | RLP, EIP-155 payload |
| Attestation (`internal/attestation`) | the policy of the environment | verify a certificate chain against a policy |
| Tenancy (`usecase/org.go`, `handler/apikey.go`, `admin.go`, `repository/postgres_org.go`) | `orgs`, `api_keys` | create, issue, authenticate, revoke |
| Concurrency cap (`handler/ratelimit.go`) | a channel of slots | take, return |
| Upload gate (`handler/upload.go`) | none | pick the pipeline, enforce ceilings |
| Observability (`observability/collector.go`, `handler/observability.go`) | ring of recent traces, subscribers | start, stage, verdict, subscribe, cancel |
| Dataset generator (`cmd/datasetgen`, `internal/dataset`) | cached bases, variants and a manifest on disk | fetch, derive, list; resume |

How they interact: handlers and the worker share nothing but the database.
Between two statements of a handler any other handler, another process or the
worker may run; the only atomic units are single SQL statements and the one
explicit transaction in `SaveAnchor`. Uniqueness constraints are what decides
races. Inside a process, the rate limiter's mutex, the slots of
`ConcurrencyLimit` and the channel `sem` of the video decoder are shared memory.

### What is hard, and what makes each part correct

* **Anchoring** takes minutes: the batch is read, a transaction is sent, its
  receipt is awaited, and only then is anything written back. Meanwhile
  certificates arrive and are deleted, the process may die, the node may drop
  the transaction, mine it late, revert it, or accept it and lose the answer,
  and another process may do the same with the same rows. *Correct* means: no
  certificate ever claims an anchor that the chain does not bear out; nothing on
  chain is unknown to the database; everything is anchored in the end.
* **The Merkle tree** carries an odd node up unchanged, so proofs have different
  lengths in one tree. *Correct*: each proof verifies, and for its own leaf only;
  a root fixes its batch.
* **Capture** spends a challenge, reads a device and an allowance, works for up
  to minutes, and writes. *Correct*: a challenge backs one thing; a certificate's
  provenance holds; revocation is final and stops later captures; overshoot of
  an allowance is bounded and what is billed was certified.
* **The rate limiter** forgets idle clients and identifies clients by a header
  they can write to. *Correct*: forgetting is invisible, forging is useless, the
  map stays small.
* **Video intake** holds a slot and a file per request across every error path
  and across crashes. *Correct*: slots and files stay with their owners, nothing
  is forgotten, waiters are served.
* **Verification** makes three queries and then compares candidates one by one,
  while certificates are saved and deleted, and loses candidates on purpose: to
  the pre-filter, to the top K, to a comparison that fails. *Correct*: a match
  is a certificate that existed and looks like the file; a "no match" missed
  nothing that the pre-filter guarantees to find.
* **Video sampling** happens twice, by relative skips when certifying and by one
  absolute skip when verifying, over files whose header may be wrong or silent.
  *Correct*: both see the same frames and choose the same anchor, what was
  admitted passes the gates against itself, a header that is silent lets nothing
  in, and no decoded picture is left open.
* **The attestation policy** combines two security levels, two authorisation
  lists that may repeat a tag, and a boot state. *Correct*: the level recorded
  is borne out by hardware, a stricter policy never accepts more, and however
  the process is configured, who is enrolled runs a configured app on a locked
  and verified device, unless the operator waived that.
* **Tenancy** looks a key up twice on a tenant's route, each time in two round
  trips (read the key, write `last_used_at`), with revocations between any two of
  them; the answer to a committed write can be lost; metering and the concurrency
  slot must be right on every path. *Correct*: a handler runs only for a tenant
  whose key was good while it was looked up, a revoked key opens no more handlers
  than had read it as good, what succeeded is counted or logged as not counted,
  every slot comes back.
* **The collector** stores a trace and announces it in two steps, under a lock
  that a publisher holds while it sends. *Correct*: no send to a closed channel,
  an announced trace can be looked up, a stored one no longer changes, and a
  browser that stops reading holds up nobody.
* **Commitments and encodings** are what a proof, a signature or a node sees of
  a certificate, a capture or a transaction. *Correct*: two different ones never
  look the same, and what is stored reads back as what was committed to.
* **The dataset generator** resumes from what files exist. *Correct*: its
  manifest describes the files that are there, and its labels agree with the
  gates of the matcher it measures.

The full list of hazards, each at its line and with the properties that watch
over it, is in `PROJECT.json`. Three more that the models cannot show are in
section 6: reorganisations, overwritten revocations and overlapping enrolments.

## 2. The modules

| Module | Models | Used by |
|---|---|---|
| `Merkle` | `domain/merkle.go` as operators | `MerkleBuild`, `AnchorPipeline` |
| `MerkleBuild` | the loop of `BuildMerkleTree`, an iteration a step | run |
| `AnchorPipeline` | worker, its queries, client, node, contract | runs |
| `AnchorLedger` | abstract: what anchoring promises a holder | `AnchorPipeline` |
| `CaptureFlow` | challenges, devices, certification, metering, uploads | runs |
| `RateLimiter` | limiter and address resolution | run |
| `TokenBucket` | abstract: one ideal bucket per client | `RateLimiter` |
| `VideoIngest` | decode slots, spill files, start, crash | runs |
| `VideoGates`, `VideoSampling` | the gates and the sampling of videos | `Verification`, run |
| `Ranks` | external: sorting, as the number at a rank | `FeatureMatch`, `PerceptualHash` |
| `FeatureMatch`, `PerceptualHash` | what certify and verify compute from a picture, and how they compare | run |
| `Verification` | a verification query by query, against saves and deletes | run |
| `AttestationPolicy` | a key attestation against a policy, and the policy of an environment | run |
| `Commitments`, `Rlp` | what a certificate and a signature bind; what is sent to a node | run |
| `UploadGate` | ceilings and media kinds | run |
| `Tenancy` | the middleware: slots, keys, administration, metering of verification | run |
| `TraceCollector` | lock, ring, subscribers, stream handler | run |
| `DatasetGenerator`, `Transforms` | a run of the generator, resumed; geometry and labels | run |
| `MCAnchorPipeline`, `MCCaptureFlow` | symmetry sets and plans | runs |
| `MCAlgorithms` | an algorithm's every input in an instance, as `subject` | `MCPipelines` |
| `MCPipelines`, `MCGateway` | several modules that share no state, one at a time (`part`) | runs |
| `MerkleTheorems`, `AnchorPipelineProofs`, `CaptureFlowProofs`, `VideoIngestProofs`, `GatewayProofs`, `PipelinesProofs`, `AlgorithmProofs`, `MediaProofs` | theorems and proofs | |

An operator whose name has a suffix, such as `Waiting_All`, is a variant of the
definition it precedes with a plausible mistake in it. It is not part of any
specification: it is put in place of the original to confirm that the property
it is paired with in `PROJECT.json` would notice.

### Merkle and MerkleBuild

Hashes are free terms: a leaf is an atom, an inner node is the *set* of its two
children, because `hashPair` sorts them (`merkle.go:102`). Collisions and the
confusion of a leaf with an inner node are thereby excluded, as the code's
double hash of leaves is meant to do. `MerkleStart` and `MerkleStep` are the
loop's state and body; positions are 0-based as in the code. The loop is a
recursive function, not a `RECURSIVE` operator, so that it can be reasoned about.

### AnchorPipeline

Each database or node round trip of `RunOnce` is an action:

| Action | Code |
|---|---|
| `ReadPending`, `NothingPending` | `PendingLeaves`, the early return on an empty batch |
| `Broadcast`, `BroadcastLost`, `BroadcastRejected` | the three ends of `eth_sendRawTransaction` as the caller sees them |
| `ReceiptSuccess`, `ReceiptReverted`, `GiveUp` | `waitForReceipt`: status 1, status 0, deadline or cancellation |
| `RecordUnconfirmed`, `RecordUnconfirmedFails` | `recordUnconfirmed`, which files the hash under a `pending` row, best effort |
| `SaveAnchor`, `SaveAnchorFails` | the SQL transaction that writes the anchor and the proofs |
| `Crash` | process death, or exit without joining the worker |
| `Certify`, `Delete` | what the request handlers do to the table |
| `MineAnchors`, `MineReverts`, `Drop`, `Pause`, `Unpause` | node and contract |

`certs` is the table: a row's anchor, index and proof are written together.
`anchors` is a set of records, so rows equal in root, count and status are one
element; their hashes are not told apart. `mempool` is in account-nonce order
and only its head is mined; that a nonce gap could block it is not modelled, so
the chain does more than the real one, never less. The watcher of a transaction
is the worker that polls for it; `receipt` is what that worker will be told.
`created_at` is taken before the insert, so `Certify` takes it as an input: the
batch is "oldest first", not "first inserted first". A save that commits and
whose answer is lost leaves the same state as one that succeeds, since the pass
ends either way.

`Admits` switches faults on, so that a run can ask a question with all of them
or show which one matters. `CertIds` is finite and a row id is used once: the
table's history is bounded, and a run ends when it is used up.

### CaptureFlow

A slot of `ConcurrencyLimit` takes a request (`Arrive`), and its handler moves
through `pc`, one database statement per action; the names of the steps are in
`Steps`, the possible answers in `Answers`. A capture goes

`arrived → allowed → consumed → loaded → verified → unique → saved → certified`

with an answer at every early return in the order of the code: the quota first,
then the challenge (spent even if it belongs to another tenant), the device and
its status, the signature, the duplicate check, the insert, the count. An upload
(`ALLOW_UNATTESTED_CERTIFY`) joins at the duplicate check; an enrolment spends a
challenge and goes `attested → newKey → enrolled`; a revocation is a read and a
write. Images and videos differ in what they compute, not in their statements,
and are metered apart (`Media`).

Whether a request's signature or attestation chain is genuine is an input
(`proven`). Parsing, hashing and feature extraction only show as failures.
`nonce` and `proven` in a certificate row, `nonce` in a device row, and `late`
are history. Instants: `Consume` compares with a clock value read somewhere
between arrival and the statement; `arrived` bounds it from below.

### RateLimiter

`Allow` runs under the mutex, so a call is one action: sweep, refill, spend.
`ClientIP` reads the entry `Hops` from the right of `X-Forwarded-For`; a request
carries what the client wrote into the header (up to `MaxForged` entries) and
what `Hops` proxies append. Several header lines of that name are not modelled.
Tokens are integers in units of `Cost`; the rounding of the code's `float64` is
left out. `RefillsWithinTTL` (burst ≤ rate × TTL) holds of the defaults, is not
enforced by the configuration, and is necessary: without it a client gains by
being forgotten.

### VideoIngest

| Action | Code |
|---|---|
| `Start`, `Crash` | `NewVideoExtractor` with its sweep; `SIGKILL` or a fault in OpenCV |
| `Ingest`, `Acquire`, `Abandon` | the `select` of `acquire`; a channel serves blocked senders in order of arrival |
| `CreateTemp`, `Spilled`, `IngestFails` | the rest of `Ingest`, with the deferred `Close` on every error |
| `Finish`, `CloseAgain` | the use case's deferred `Close`, and a second one |
| `Close`, `Remove` | the two halves of `Close`: the slot goes back before the file is removed |

File names are few and recur, so that a file removed twice would be somebody
else's. The channel's elements are anonymous, as in Go: `tokens` is a number.

### Verification, VideoSampling, VideoGates, FeatureMatch, PerceptualHash

`Verification` has an action per query: `Lookup` (`FindByHash`), `Probe` (which
rows collide in a band), `Fetch` (of those, the nearest `TopK` within
`MaxPHashDistance`, ties in any order), then `Compare` candidate by candidate and
`Exhaust`. `Save` and `Delete` fall between any two. A perceptual hash is the set
of its one-bits and a band a set of positions, so `Collide` is agreement on a
band. An image asks with its four rotations, a video with its frames. A query
that fails ends the request; a comparison that fails goes to the next candidate,
as in the code. Whether two files resemble each other (`Similar`) is given: how
that is decided is `FeatureMatch`. `seen`, `kept` and `lapsed` are history: the
rows that existed at some time, or all the time, since the question, and those
whose own comparison failed.

`VideoSampling` takes a recording as a sequence of frames with a sharpness and a
header that may disagree with it. `Reduce` is the reduction, the anchor keeper
and its paths of closing included; `FrameAt` is the other side. `VideoGates`
holds the sequence and duration gates, which both modules need.

`FeatureMatch` keeps the guards, the colour cells, the residual and every early
return of `Match`; keypoints, homographies and inliers are inputs.
What `sort.Float64s` leaves at an index is, in `Ranks`, the number of that rank:
one that fewer numbers are below than the rank says, and at least as many are
below or equal to. That is all the medians of the two modules ask of it.
`PerceptualHash` keeps the rotations as index arithmetic and the hash as a
function of its coefficients, the cosine transform being left out.

### AttestationPolicy, Commitments, Rlp, UploadGate

An attestation is a record of parsed extensions; authorisation lists are
sequences of tagged elements, because a tag may occur twice and the code takes
the first. `NewRegistryFromEnv` builds the policy from an environment. Paths of
X.509 and the framing of DER are an input (`chain`, `ext`, `Malformed`), but
integers are read byte by byte.

In `Commitments` SHA-256 is a free term over the sequence of what is written to
it, so that "same digest" is "same preimage": what could go wrong is the
preimage. A row is written by `Row` and read by the scan, with the code's
defaults for NULL. `Rlp` encodes byte by byte and is read back by a decoder
written from the definition of RLP, not from this repository.

### Tenancy

A request goes `none → optional (→ first) → routed (→ second) → serving
(→ issuing | metering) → none` and holds a slot of `ConcurrencyLimit` from the
first arrow to the last. `FirstLookUp` and `OptionalAuth` are the look-up every
route is wrapped in, `SecondLookUp` and `TenantAuth` the second one of a tenant's
route, `OtherAuth` the administrator's guard. A look-up is two steps because
`FindOrgByAPIKeyHash` is two statements: it reads key and tenant, then writes
`last_used_at` (`postgres_org.go:95`), and only then does its caller act on what
was read. The value written is not kept; nothing reads it.

`CreateOrg`, `FindOrg` and `SaveAPIKey` (two statements of one handler),
`RevokeAPIKey`, `Verify` and `RecordVerify` are the handlers. Each write ends in
one of three ways: done and answered; not done, answered 500 or logged; or done
with the database's answer lost, answered 500 or logged all the same
(`Committed`). A key whose insert was answered 500 has a row, but nobody was
given its plaintext (`issued`). A tenant is suspended in the database
(`SetStatus`), since no route does it.

The histories: `entitled`, whom the credential was good for since the look-up its
handler relies on could begin (on a tenant's route, the second); `late`, handlers
entered with a key after it was revoked; `withdrawn` and `alarmed`, revocations
answered 204 and 500; `unmetered`, verifications logged as not recorded. The model
is of one process, as the cap is per process: several share the tables, and each
has its own `MaxInFlight`.

### TraceCollector

The read-write lock of Go is modelled with its preference for writers: `Lock`
announces a writer (and keeps new readers out), `Exclusive` is when it may go on.
`Store` and the announcement of the end are separate critical sections, `Send`
reaches one subscriber at a time under the read lock and drops an event where
the channel is full. A dashboard connects, receives, reads the ring, leaves and
cancels.

### DatasetGenerator, Transforms

`Start` also is a resumption: the files on disk outlive a run, killed or not.
A worker takes a job, reuses the file that is there or builds and writes one,
and reports. `Transforms` has the geometry, lightness and hue of the transforms
that have any, with the labels of the registry.

### MCAlgorithms, MCPipelines, MCGateway

An algorithm without steps is checked on each input of an instance: `subject` is
one input, chosen initially, and an invariant states the property of it. The
modules joined in `MCPipelines` and `MCGateway` do not interact in the code
either; `part` picks the one that moves, so that the state space is their sum and
not their product.

## 3. What the runs show

| Run | Module, configuration | Shows |
|---|---|---|
| `anchor_safety` | `MCAnchorPipeline`, `AnchorSafety.cfg` | with every fault admitted: `IInv`, `AnchoredIsProvable`, `ConfirmedIsOnChain`, `AnchorIsFinal`, and that the pipeline implements `AnchorLedger` |
| `anchor_workers` | `AnchorWorkers.cfg` | two processes over the same rows: `OneWinnerPerRoot`, `EveryRootAccounted` |
| `anchor_stuck` | `AnchorStuck.cfg` | liveness: the only thing that can hold a certificate back for ever is a root already on chain that no worker will save |
| `anchor_reanchor`, `anchor_lost` | `AnchorReanchor.cfg`, `AnchorLost.cfg` | two disagreements, section 5 |
| `capture_safety` | `MCCaptureFlow`, `CaptureSafety.cfg` | all four routes, two tenants, all faults: `ChallengeBacksOneThing`, `CertificateProvenance`, `RevokedNeverCaptures`, `RevocationIsFinal` |
| `capture_billing` | `CaptureBilling.cfg` | captures across the turn of a month: `BillingFollowsCertificates`, `OvershootIsBounded` |
| `capture_resubmitted` | `CaptureResubmitted.cfg` | a disagreement, section 5 |
| `gateway` | `MCGateway`, `Gateway.cfg` | limiter and tenancy: `NothingForFree`, `IdleBucketsGo`, that the limiter implements `TokenBucket`, `TenancySafety`, `RevocationTakesEffect` |
| `pipelines` | `MCPipelines`, `Pipelines.cfg` | everything else, property by property below |
| `video_intake` | `VideoIngest.cfg` | `TokensAreHeld`, `OwnFile`, `NothingLeftBehind`, `WaitersAreServed` |
| `video_budget` | `VideoBudget.cfg` | a disagreement, section 5 |

(Run names here are those of `PROJECT.json`.)

What the grouped properties of `pipelines` and `gateway` consist of:

| Property | Its parts, and what they say |
|---|---|
| `MerkleIsRight` | `ProofsReachLevel`, the invariant of the loop; `ProofsAreExclusive`, a proof is for its own leaf; `RootFixesLeaves`, a root has one batch |
| `SamplingIsFaithful` | `FrameAtFindsSample`; `AnchorIsBest`, the keeper holds the sharpest usable candidates; `CountingIsRefused`, a container without a frame count is sampled like one that has it, but is refused by `Validate` and near no duration; `OriginalsAreFound`, what was admitted and certified passes the sequence and duration gates against itself and its anchor is found again; `NoMatLeaks`, on no path, cancellation included; `SamplesFollowTime`, slots are midpoints and survive a change of frame rate; `DroppedTailsAgree`, losing a short tail keeps the sequence score |
| `AttestationIsSound` | `IntegersReadRight`, two's complement; `PolicyIsMonotone`; `LevelsAreBorneOut`; `NoPermissiveStart`: however a process is configured, who is enrolled runs a configured package signed by a configured certificate, with a key made in hardware for this challenge, on a device whose first root of trust says locked and verified, unless `ANDROID_REQUIRE_VERIFIED_BOOT` waives it |
| `MatchingIsSound` | `CellsPartition`, no pixel is in two cells or in none; `SelfMatchPossible`, a picture can reach the coverage gate against itself; `ExposureIsNeutral`; `IncompleteIsNoMatch`, a comparison abandoned half way is no match; `OrientationsAreCovered`, each right-angle turn is undone by a variant; `SamplesInside`; `HashIsStable`, under brightness |
| `LabelsAreRight` | `RegionsInside`, crops and overlays stay in the picture; `LabelsFollowGate`; `ScalingKeepsFeatures`; `HuesTurn`; `BrightnessRungsPass` |
| `EncodingsBind` | `EncodingsReadBack`; `CommitmentsBind`; `RowsRecommit`, a row that is read still hashes to its commitment; `KeypointsReadBack`; `SignaturesFixCaptures`, no two captures share a payload and no other key passes |
| `UploadsAreGuarded` | no decoder gets more than its kind's ceiling; a key admits at least what may be sent without one |
| `VerificationSafety` | `AnswersExisted` and `NothingMissed`, with the limits of the pre-filter and of the top K stated in `MustFind` |
| `CollectorSafety` | `SendsFindOpenChannels`, `EndedIsFound`, capacities |
| `StoredIsFrozen` | a trace others may read under the lock is no longer written without it |
| `RequestsFinish` | dashboards that never read hold up no request; one that leaves is released |
| `GeneratorSafety` | `ManifestDescribesFiles`, `CleanManifestIsComplete`, `NegativesNameTheirPeer` |
| `ComputationsEnd` | the Merkle loop ends, and so does a run of the generator, `--workers 0` included |
| `TenancySafety` | `TenantWasEntitled`, since its look-up could begin; `OneIsToldOfRevocation`: no two are told that they revoked a key, and one that is revoked without anybody told was answered 500 to somebody; `VerificationsAreCounted`: once, or logged as not counted, in which case it may be counted all the same; `SlotsAreReturned` |
| `RevocationTakesEffect` | with a revoked key fewer than `MaxInFlight` handlers are ever entered: requests that had read it as good |

Each of these parts has a mutant of its own in `PROJECT.json`.

### Bounds

* *Anchoring.* Three row ids with batches of two make full, partial and second
  batches. Two contents for three rows let a content be certified again after
  its deletion, which is how a batch comes to have the root of an earlier one.
  Two mempool entries let an abandoned transaction race its successor. Two
  values of `created_at` make ties and inversions. With two workers two rows
  are enough to give the workers equal, overlapping and disjoint batches.
* *Merkle.* Up to five leaves: levels of 5, 3, 2, 1 carry a node at two
  successive levels and at the top; three contents allow repetition.
* *Capture.* Every property is about two requests at once at most, or about one
  request and an administrator, so two slots suffice; `OvershootIsBounded`
  depends on the number of slots and is stated in it. Two challenges, two
  tenants, one key, one file is where they contend; `MaxTime` of two passes a
  challenge's expiry. The billing run trades tenants for three files and a month
  of one tick, so that a capture can be checked in one month and counted in the
  next.
* *Sampling.* Four slots, two anchor candidates, up to six frames of three
  looks under headers of up to eight: more, fewer and as many frames as slots,
  and headers that lie either way. A rate of 0 (none claimed) and one of 1500 with
  a ceiling of 3 ms give no duration, one of 0 ms when the header claims one
  frame, and durations at and above the ceiling. The arithmetic of samples is checked for
  lengths up to 60, with a slack of one and an agreement of 70 %.
* *Attestation.* Bytes of eight values and integers of one and two bytes reach
  every sign and padding case; each list has each tag absent, malformed, right
  or wrong, in both lists, and a root of trust locked or not may follow another
  (`TwoRoots`), of which the first counts.
* *Matching.* A grid of 8 cells and sides up to 20 stand for 128 and the real
  sizes; 42 % is the real coverage gate, and 6 of 8 cells a side reach it, as 83
  of 128 do (`Enough`). Labels are checked on real sides (63 and 64 at the least
  dimension, 99, 128, 333, 1024, and 190, a third of which is 63 only when it is
  rounded up).
* *Encodings.* Strings around the lengths where the form changes (55/56,
  255/256) and around the byte that is its own encoding (127/128). Hashes of two
  bytes, indexes to 4 and words to 8 wrap where the real ones do, with
  signatures of one and two elements.
* *Verification.* Hashes of four bits in two bands and a distance of three: the
  pre-filter is certain to find up to distance 1 and may miss from 2 on, below
  the threshold. Top K of two images and one video, five assets, six questions,
  three rows ever inserted, one client: clients only read, so that what one
  sees of another is nothing.
* *Collector.* Two traces, one dashboard, a ring and a channel of one: each is
  full and overtaken.
* *Generator.* Two bases, two transforms, workers 0 and 3 of 2 cores, two runs,
  and every fault at every point.
* *Tenancy.* Three requests on two slots make one that finds the cap reached, and
  a cap of two is the least at which a key can be revoked while it is looked up:
  one such request is then let in late, and the bound of `RevocationTakesEffect`
  is reached. Two tenants and one key let the key be issued to either while the
  other exists. That keys of different tenants, or more requests, do not disturb
  one another is `GatewayProofs`, for any number of each.
* *Limiter.* A burst of one and a half requests, a TTL of three ticks and nine
  ticks of time: a client is forgotten and comes back, twice. One forged entry is
  enough to shift a count from the left.
* *Video.* Three requests on two slots make two holders and a waiter that others
  may overtake; three names recur; one tick is the age at which a file is stale.

Symmetry is used in safety runs only, over sets whose members the code merely
compares for equality.

### Fairness

* *Worker.* The ticker keeps starting passes while the process lives and each
  round trip has a deadline (`rpcTimeout`, the receipt budget, the write
  timeout): weak fairness of reading, of leaving the polling state, of recording
  and of saving-or-failing. That the node answers again after refusing, and that
  a transaction resent for ever is mined some day, is the operator's part:
  strong fairness of `Broadcast` and `MineAnchors`. Deletions, faults and pauses
  get none. `StuckOnlyBehindOrphan` supposes that the contract is not paused
  over and over.
* *Merkle loop.* Weak fairness of its only step.
* *Collector.* Weak fairness of what a request's goroutine and a stream's
  goroutine do next; none of a browser's reading or leaving. The lock's
  preference for writers is the runtime's and is modelled, not assumed.
* *Generator.* Weak fairness of its steps, as long as it is not killed.
* *Video.* Weak fairness of a holder's next step and of the queue. The upload
  has been received by the multipart parser under `videoReadDeadline` before
  `Ingest` reads it, a decode is bounded by what the probe was checked against,
  and `Close` is deferred. Arrivals get no fairness.

No fairness is needed elsewhere: the other properties are safety.

## 4. What is proved

TLAPS checks these for every value of the constants, under the modules' named
assumptions only.

**`MerkleProofsVerify`** (`MerkleTheorems`): for every non-empty sequence of
leaves, every leaf's proof verifies against the root. The invariant is
`TreeInv`: at each level a leaf's proof so far climbs from the leaf to the node
it sits under. The loop and the fold are recursive functions; that they exist
and satisfy their recursion is derived from an induction over sets of naturals
in the module itself (`SetInduction`), without a second-order induction rule.

**`PipelineInvariant`** (`AnchorPipelineProofs`): `Spec => []IInv`, for any
number of workers, certificates, batch size and any faults. `AnchoredIsProvable`
is not inductive: to know that the row a worker saves is on chain one must know
that its receipt is about *its* batch. `IInv` therefore adds that a transaction
somebody polls for commits that worker's current batch and nobody polls for two
(`WatchedCommitsBatch`), that a success told to a worker means the contract
holds its root (`ReceiptsAreTrue`), that no two workers are told success for one
root (`OneReceiptPerRoot`), and that a batch still names the rows it was read
from as long as they exist (`BatchesAreCurrent`, which is why row ids must not be
reused). `MerkleProofsVerify` closes the step in which proofs are attached.
From it follow, by name, `PipelineTypeCorrect`, `PipelineAnchoredIsProvable`,
`PipelineConfirmedIsOnChain` and `PipelineOneWinnerPerRoot`.

`PipelineImplementsLedger` is the refinement of `AnchorLedger`, for any number of
workers and any faults: `SaveAnchor` maps to the promise being made, mining to a
root appearing, a deletion to the row going, everything else to a stutter. Two
properties need more than the code's shape guarantees, and say so in a
hypothesis. `PipelineAnchorIsFinal` supposes a single worker (`OneWorker`, what
`cmd/api` starts), and adds to `IInv` that no row of the batch in hand is
anchored yet (`BatchIsUnanchored`). `PipelineRootsAccounted` supposes that no
answer, write or process is lost (`NothingIsLost`): with any of them lost
the property is false, which `anchor_lost` shows. It adds that a transaction on
its way is known to a worker or a row as well (`BroadcastsAreAccounted`).

**`SlotsAreSafe`, `FilesAreOwn`, `NoSpillIsForgotten`, `IntakeTypeCorrect`**
(`VideoIngestProofs`): the three safety properties and the type invariant of the
video intake for any number of requests, names and slots. The invariant ties
`isClosed` to the released slot (`ClosedIsReleased`), a file to its single owner
(`KeepsItsFile`, through the owner recorded with the file, so two requests never
share a name), and accounts for each file on disk (`FilesAccounted`). Types need
`Bounded` beside it, for the clock, the queue and the files nobody could remove.

**`CaptureFlowProofs`**: `CaptureTypeCorrect`, `ChallengesBackOneThing`,
`CertificatesHaveProvenance`, `RevocationIsImmediate`, `RevokedForGood` and
`OvershootBounded`, for any number of tenants, keys, challenges, files, slots
and any plan. None of the safety properties is inductive: a handler acts on what
it read some statements ago. The invariant says what a handler at each step has
in hand (`HandlersFit`), to whom a spent challenge belongs and that no two of
handlers, devices and certificates spent the same one (`HandlersSpent`,
`DevicesSpent`, `CertificatesSpent`, `OneBacking`), and that what is counted in
the running month and what is on its way to be counted never exceed the
allowance by as much as the number of slots (`CountsAreBounded`). The last is
where the cap on concurrent requests enters: it is proved with cardinalities of
the sets of handlers past the check.

`BillingIsRight` is about a sum over the months, which the module unfolds with
lemmas of its own: the sum of a tenant's counters grows by one when one of them
does and stays when none does. The invariant adds that there are finitely many
certificates (`FewCertified`). Its hypothesis is that certificates are not
deleted: a deletion is not refunded, and the counter then exceeds them.

**`GatewayProofs`**, the limiter: `ForgeriesAreIgnored` (whatever a client
prepends, it is charged to its own address), `NothingIsFree`,
`LeaversAreForgotten`, and `LimiterIsTokenBucket`, the refinement of
`TokenBucket`. The invariant `SweptInTime` relates a bucket's last use to the last
sweep; the crux is `SweepIsInvisible`: a bucket that is dropped had refilled,
which is what `RefillsWithinTTL` is needed for. The middleware:
`TenancyTypeCorrect`, `TenancyIsSafe`, `RevocationIsEffective`.
`TenantWasEntitled` is not inductive: it needs that whoever a look-up found had
been entitled when it was read (`FoundWasEntitled`), that a key's owner exists
(`OwnersExist`), that a credential is one that was minted (`TokensAreMinted`) and
that whoever is entitled now has been noted as such (`EntitledIsNoted`).
`RevocationIsEffective` counts: of a revoked key, the handlers entered late and
the requests that still hold a good reading of it are together fewer than
`MaxInFlight` (`FewAreLate`). The step that revokes the key has a slot itself,
which is where the strict bound comes from; later steps only move requests from
the one set to the other, as no look-up finds the key good again.
`GatewayTypeCorrect` is the type invariant of the two side by side, as
`MCGateway` runs them.

**`PipelinesProofs`**, verification: `NearHashesCollide`, `VerificationTypeCorrect`,
`VerificationAnswersExisted`, `VerificationMissesNothing` and, of the three
together, `VerificationIsSafe`, for any table, bands, clients, uploads and faults.
`NearHashesCollide` is the pigeonhole behind the pre-filter: hashes that differ in
fewer bits than there are bands agree on a band, because each band that separates
them takes a bit that no other can. It is why a distance below the number of bands
is certain to be found. `SearchInv` says what a search has in hand between
two queries: that what is live lies between what the history noted as always and
as ever there (`HistoriesBracket`), that the identifiers found include every
certain match that has been there all along (`IdsAreComplete`) and are of the kind
asked for (`RowsAreOfKind`), that rows fetched are complete for them
(`RowsAreComplete`), and, per pending candidate, that neither truncation nor a
failed comparison has dropped a match that was owed.

The same module, the collector: `CollectorIsSafe`, `StoredStaysFrozen`. A send
finds an open channel because a publisher holds the read lock
(`ReadersAreCounted`), only the table's members are left to send to
(`TodoIsSubscribed`) and a channel is closed exactly when its dashboard has left
the table (`TableIsCurrent`); `EndedIsFound` needs that the ring is the end of
what was stored (`RingIsRecent`) and that an end is announced after the trace is
stored (`AnnouncedAreStored`). The generator: `GeneratorIsSafe`, for any bases,
transforms, workers, faults and number of runs. That a manifest stays true needs
that a listed file is there and that nobody is writing it (`SamplesStand`), which
holds because a base is with one worker at a time (`PoolIsApart`) and occurs once
among the bases (`BasesAreApart`); that it is complete and in order, that what a
worker reports is its base's part whatever the schedule (`ResultsAreParts`, joined
by `JoinedParts`); that a negative holds its peer, that all files were made in one
cyclic order (`OneOrder`). It assumes that `List` names no base twice.

**`AlgorithmProofs`**: `FramePHashesReadBack` (any number of hashes of any width),
`KeypointIntegersReadBack`, `CertificatesAreBound` (two certificates with one
commitment agree in everything it covers) and `RowsAreFaithful`; `IntegersAreRead`,
`StricterPolicies`, `NoPermissivePolicy` (which follows each field of the first
root of trust and of the application id through the order of checks to what is
accepted) and, with them, `AttestationSound`, for
any base and width of integers and any tried attestations; `UploadsGuarded`, for any
ceilings; and `MerkleRight`: each turn of `BuildMerkleTree` leaves proofs that
reach their nodes, the finished proofs vouch for nothing but their own leaf, and a
root has one batch. The last, `RootFixesBatch`, counts: every node weighs the
occurrences of a given leaf below it (`LevelWeighs`), a pair weighs as much as its
halves, and two trees that share a node agree about its weight
(`WeightsAgree`), so that equal roots mean equal counts of every leaf. This
supposes `LeavesAreNoPairs`: no leaf is the hash of two nodes. In the code a leaf is
the hash of 32 bytes and a node that of 64 (`merkle.go:30-34`), so that it holds as long as the hash
has no collision; in the run leaves are model values.

`EncodingsAlwaysBind` rests on three more. `StringsReadBack`: a list of byte
strings is decoded to what was encoded, whatever their number and lengths. Its
induction goes backwards over the items: a header says where its payload lies
(`HeaderReads`), items that were joined lie one after another (`ItemsLie`), and so
what is decoded from an item's place on is that item and what is decoded from the
next place on (`ItemsAreRead`). `TransactionsReadBack`: all fields of any
transaction, the chain through EIP-155's `V`, from the two lists of nine the client
encodes; a number's bytes read as the number (`BytesReadBack`) and the decoder
refuses none of them. `SignaturesFix`: a field that is preceded by its length can be
told from what follows it (`FieldsSplit`), so that payloads are parsed one field at
a time (`PayloadsAreParsed`). Digests are terms here, two of which are equal
only if they are of one thing: what is shown is that nothing *but* a collision
could confuse two captures or two certificates. The hypotheses say what `Nil` is:
no number, no features, no video, as the database's NULL is none; and that
a word counts beyond 2, the length of the longest name the instance signs (in the
code a word is 32 bits wide).

**`MediaProofs`**: the three invariants about pictures and videos, each from a
theorem per part, which says more than the run: the run's invariant is about the
subjects of its instance, the theorem about every one.

* `MatchingAlwaysSound`. Cells tile a side of any length (`CellsAlwaysTile`). The
  median is a rank, and a rank of shifted numbers is shifted as much
  (`BrightnessNeverShows`), for any number of cells. A turn of a picture is index
  arithmetic, and every one of the four is undone by one of the four variants
  (`EveryTurnIsUndone`). A hash does not tell how large its first coefficient is
  once that is the largest (`HashNeverBrightens`: of three numbers or more the
  median lies below the largest). A picture with sides of `Enough` covers the
  gate (`EnoughMatchesItself`), where the square of `Enough` does.
* `LabelsAlwaysRight`, for crops by linear bounds on each rung's margins
  (`LabelsAlwaysFollow`, `RegionsAlwaysInside`), for scales by the rung's smallest
  side (`ScalingAlwaysKeeps`), for lightness by the largest rung
  (`BrightnessAlwaysPasses`).
* `SamplingAlwaysFaithful`. `Reduce` is a loop over the slots, and none of what it
  promises follows from one turn. Its invariant says which frame the decoder
  stands at and which have been hashed (`SampledTo`); that every open frame is one
  the keeper holds (`Shape`, from which `MatsAlwaysClosed`); and that the keeper
  holds the best `AnchorCandidates` of those seen so far (`Keeping`). `FrameAtAlwaysAgrees` and
  `AnchorsAreSharpest` are its last turn, for recordings of any length, and
  `AdmittedAreFound` follows from the two. `CountingFailsClosed`: the loop turns
  alike whether a count was counted or claimed, and `probeVideo`, which does not
  count, leaves such a recording without a duration.
  `TailsMayAlwaysDrop`: with at most a slot's worth of frames missing, a sample of
  what is left is within half a slot of its own slot's or of the one's before it,
  so that each slot has a partner one step away at most.

The hypotheses are bounds on constants of the code, which the code's values meet:

| Theorem | Supposes | The code |
|---|---|---|
| `LabelsAlwaysRight` | `MinCoverage` from 40 to 49 | 42 % (`feature_signature.go:32`) |
| | `MinDimension` at most 64 | 63 (`opencv_extractor.go:31`) |
| | `MaxCellDist` at least 26, `MaxColorMean` at least 7 | 38 and 8 |
| `SamplingAlwaysFaithful` | `FrameAlignSlack` at least 1 | 1 (`video.go:82`) |
| `MatchingAlwaysSound` | `Enough` squared is `MinAreaCoverage` of the cells (`EnoughCovers`) | 83 of 128 a side |
| both of pictures | cut pictures have 63 pixels a side (`SidesAreLarge`) | nothing smaller is extracted |

Bounds of this kind are needed. Of 34 by 29 pixels the crop by 20 %, labelled no
match, leaves more than 42 %, its margins being rounded down. Without slack, 93 of
96 frames agree with all of them in 21 of 32 slots, fewer than 70 %.

The assumptions are the modules' named ones, and TLC evaluates them on the runs.

Where a proof goes over data of any length, it goes over a set of naturals
instead (`SetInduction`), and a recursive function is shown to exist before its
equation is used. Model-checked only:

* liveness under fairness, which is beyond the prover as installed:
  `StuckOnlyBehindOrphan`, `WaitersAreServed`, `RequestsFinish`, `ComputationsEnd`;
* `EveryRootAccounted` where an answer can be lost, as it is false there, and
  `AnchorIsFinal` with several workers, for the same reason.

Every other property of a passing run is stated by a theorem: 36 of the 40.

## 5. Where code and documents disagree

* **A re-anchored batch need not be anchored** (`anchor_reanchor`).
  `anchor.go:65` leaves the batch pending after an unconfirmed transaction, to
  be committed again. If that transaction is mined after all, the contract
  refuses the root from then on, and the batch is retried for ever. If new
  certificates can change the batch (it is not full), the root changes and the
  queue moves again; a full batch does not.
* **A root can be on chain that the database does not know** (`anchor_lost`).
  `evm_anchor.go:128` returns no hash when the node took the transaction but the
  answer was lost, and `recordUnconfirmed` has nothing to record; `ports.go`
  rules this out.
* **A resubmission is not always answered 409** (`capture_resubmitted`). When
  two submissions of one file both pass the duplicate check, the loser of the
  unique index is answered 422; `docs/USAGE_FLOW.md` says 409.
* **The spill directory can exceed its budget** (`video_budget`). `Close` frees
  the slot before it removes the file, and what a crash leaves stays for an
  hour; `docs/OPERATIONS.md:167` sizes the disk by the number of slots.

### Observations

Noted while modelling. Each was read in the source; no run checks them.

* `MaxDurationDriftRatio`'s comment (`video.go:85`) says that the frame sequence
  rejects a trim. A trim below about 4.5 % moves the sample points by no more
  than the slack and passes both gates.
* A side of 63 to 82 pixels passes `minFeatureDimension` (`opencv_extractor.go:31`)
  but such a picture cannot reach `MinAreaCoverage` against itself: features are
  at least 31 pixels from a border.
* The comment on the ladder of crops (`feature_signature.go:29`) says that
  `crop_border_20%` and `heavy_crop_40%`, one rectangle, have opposite labels;
  the registry labels both as no match.
* `docs/USAGE_FLOW.md:84` lists flips among the modifications that are found.
  `PHash256Variants` only rotates.
* The commitment covers the perceptual hash, the descriptors and the keypoints
  (`feature_commitment.go:9`). The colour grid and the reference dimensions, by
  which a candidate is judged as well, are stored beside them uncommitted.
* The comment on `maxDecodeFrames` (`video_extractor.go:22`) says that for a
  container without a frame count the budget of the counting pass is the only
  bound. Such a probe has `DurationMs` 0 (`video_source.go:253`), which `Validate`
  refuses (`domain/video.go:122`) before either caller reduces it
  (`capture.go:393`, `verify_video.go:88`): the service never counts.
* `ANDROID_REQUIRE_VERIFIED_BOOT` is documented with `true` and `false`
  (`factory.go:27`); `0` waives verified boot as well (`factory.go:72`), while
  `no` or `off` keep it.
* A key revoked while a request writes `last_used_at` (`postgres_org.go:95`) still
  opens that request's handler; `RevocationTakesEffect` bounds how many there are.
* A revocation or a count that was committed is reported as an error when the
  answer of the database is lost: the administrator is told 500 and, on trying
  again, 404 (`admin.go:132-139`); a metered verification is logged as not recorded
  (`certificate.go:162`). A key inserted so is a row whose plaintext nobody has.
* A stream of events is wrapped in `ConcurrencyLimit` (`cmd/api/main.go:173`) and
  keeps its slot as long as the dashboard stays connected; `Shutdown` waits for
  it until its timeout.
* The outer ceiling bounds the multipart body, the inner one the file
  (`upload.go:101`), so a file within its framing of the larger ceiling is
  answered 400, not 413.
* The plan read at authentication is used until the request ends, minutes later
  for a video.
* The generator takes a file that exists for a complete one: a variant or a
  cached base cut short by a kill is listed. A base missing in one run leaves the
  peer that is recorded for a reused `different_image` wrong, and a single base
  is its own peer, against `cmd/datasetgen/main.go:106`. `GeneratorSafety` is
  stated with these exceptions.
* A hue shift by 180° merges the hues near the end of OpenCV's range, and a
  brightness rung labelled a match fails the mean gate when more than about
  30 % of the cells clip. `BrightnessRungsPass` is stated accordingly.

## 6. What is not modelled

* Cryptography (hashes, signatures, X.509 paths, DER framing): outcomes are
  inputs, digests are free terms.
* Chain reorganisations: the client trusts a receipt at its first appearance
  (`evm_anchor.go:223`), so that a reorganisation would break
  `ConfirmedIsOnChain`. The service promises nothing about this.
* That a second revocation overwrites the time and reason of the first
  (`postgres_device.go:127`): neither is in the model, as nothing reads them.
* Two overlapping enrolments of one key by one tenant are in `CaptureFlow`: the
  unique index lets one insert, and the other is told that the key is in use,
  although a later repetition is handed the row back. No property says which
  answer is right (`postgres_device.go:64`).
* What OpenCV computes: decoding, keypoints, homographies, the cosine
  transform, thumbnails.
* Postgres below the level of a statement: statements are atomic, committed work
  is durable.
* The listing and the statistics of certificates, which only read.
* The forwarding of trace events (`MultiRecorder`, the OpenTelemetry sink).
* HTTP parsing, CORS, recovery, logging, JSON, static pages, configuration other
  than the attestation policy's.
* The generator's HTTP sources, its CSV and the filters without geometry,
  lightness or hue (blur, noise, recompression).
* The experiments under `lab/`, which the service does not import.

Nothing in the repository calls `DeleteExpired`; it is modelled as an operator's
job (`prune`) so that pruning is known not to revive a challenge.

## 7. Plan

Every component is modelled in the parts named above, except the experiments.
The safety and the action properties of the passing runs are proved, under the
hypotheses section 4 names; the liveness properties are model-checked. Left, in
this order:

1. **Reorganisations**: an action that takes a mined block back, to state what
   the service would have to wait for.
2. **What a match counts**: keypoints and homographies are inputs of
   `FeatureMatch`. A model of the ratio test would bring `good` inside it.
