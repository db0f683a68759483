---------------------------- MODULE CaptureFlow -----------------------------
(***************************************************************************)
(* The gated certification path of Aletheia: a tenant asks for a           *)
(* challenge, enrols a device whose hardware key it attests, and submits   *)
(* captures signed by that key over a fresh challenge.                     *)
(*                                                                         *)
(* Sources: internal/handler/capture.go (the handlers),                    *)
(* internal/usecase/capture.go, certify.go, certify_video.go and usage.go  *)
(* (the use cases), and internal/repository/postgres_nonce.go,             *)
(* postgres_device.go, postgres_usage.go and postgres.go (the queries).    *)
(*                                                                         *)
(* Handlers run concurrently, each in a slot of ConcurrencyLimit.  Every   *)
(* database round trip of a handler is an action, so requests, processes   *)
(* and administrators interleave between any two of them.  What a handler  *)
(* computes without touching shared state (decoding, hashing, feature      *)
(* extraction, the signature check itself) shows only in its outcome.      *)
(***************************************************************************)
EXTENDS Integers, FiniteSets, FiniteSetsExt

CONSTANTS
  Orgs,        \* tenants; authentication put one on every request
  Keys,        \* attested device keys; a key is its device's identity
  Nonces,      \* challenge values the issuer will draw
  Contents,    \* captured files; a file is its SHA-256
  Media,       \* media kinds, each metered as an operation of its own
  Slots,       \* requests in flight: MAX_CONCURRENT_REQUESTS
  Quota,       \* the tenant's plan: allowance for each org and media kind
  TTL,         \* CAPTURE_NONCE_TTL
  MonthLength, \* clock ticks in a billing period
  MaxTime,     \* bound: the last instant of the instance
  Kinds,       \* which routes it exercises; "upload" needs ALLOW_UNATTESTED_CERTIFY
  Admits,      \* which faults and administrative actions it admits
  NoKey, NoNonce

Unlimited == -1

Routes == {"capture", "upload", "enrol", "revoke"}
Faults == {"fail", "lost", "delete", "prune"}

ASSUME FiniteSlots      == IsFiniteSet(Slots)
ASSUME PlansAreQuotas   == Quota \in [Orgs \X Media -> Nat \cup {Unlimited}]
ASSUME PositiveTTL      == TTL \in Nat \ {0}
ASSUME PositiveMonth    == MonthLength \in Nat \ {0}
ASSUME FiniteTime       == MaxTime \in Nat
ASSUME KnownKinds       == Kinds \subseteq Routes
ASSUME KnownFaults      == Admits \subseteq Faults
ASSUME NullsAreApart    == NoKey \notin Keys /\ NoNonce \notin Nonces

VARIABLES
  clock,        \* the servers' wall clock
  challenges,   \* table capture_nonces, by value
  devices,      \* table devices, by its UNIQUE public_key
  certificates, \* table certificates, by its UNIQUE content_hash
  usage,        \* table usage_counters, by its primary key
  pc,           \* where the handler of each slot is, or what it answered
  req,          \* the request it serves
  arrived,      \* when that request arrived, until its challenge is spent
  late          \* history: its device had been revoked when it arrived

tables   == <<challenges, devices, certificates, usage>>
requests == <<req, arrived, late>>
vars     == <<clock, challenges, devices, certificates, usage, pc, req, arrived, late>>

-----------------------------------------------------------------------------
BillingPeriod(at) == at \div MonthLength
Periods           == 0..BillingPeriod(MaxTime)
Instants          == 0..MaxTime

(* Rows.  A challenge that was never issued, or was pruned, matches no     *)
(* query; so does a key that is not enrolled and a file not certified.     *)
Unissued    == [state |-> "unissued"]
Pruned      == [state |-> "pruned"]
Unenrolled  == [status |-> "unenrolled"]
Uncertified == [status |-> "uncertified"]

(* Mutated: the validity window is never added.                            *)
Challenge_NoTTL(state, o, at) == [state |-> state, org |-> o, expires |-> at]

Challenge(state, o, at) == [state |-> state, org |-> o, expires |-> at + TTL]

Issued(n)    == challenges[n].state \in {"open", "spent"}
Enrolled(k)  == devices[k] # Unenrolled
Active(k)    == devices[k].status = "active"
Revoked(k)   == devices[k].status = "revoked"
Certified(c) == certificates[c] # Uncertified
Attested(c)  == Certified(c) /\ certificates[c].device # NoKey

(***************************************************************************)
(* Requests.  proven: the signature (or the attestation chain) the request *)
(* carries really is one by the named key over exactly this content and    *)
(* this challenge, acceptable to the policy.                               *)
(***************************************************************************)
Captures ==
  [route : {"capture"}, org : Orgs, key : Keys, nonce : Nonces, content : Contents,
   media : Media, proven : BOOLEAN]
Enrolments ==
  [route : {"enrol"}, org : Orgs, key : Keys, nonce : Nonces, proven : BOOLEAN]
Revocations ==
  [route : {"revoke"}, org : Orgs, key : Keys]

(* The legacy route: images only, signed by nobody, bound to no challenge. *)
Uploads ==
  [route : {"upload"}, org : Orgs, key : {NoKey}, nonce : {NoNonce}, content : Contents,
   media : Media, proven : {FALSE}]

Requests ==
  {q \in Captures \cup Uploads \cup Enrolments \cup Revocations : q.route \in Kinds}

Nothing == [route |-> "none"]

(* What a handler can answer with.                                         *)
Answers ==
  {"certified", "enrolled", "revoked", "overQuota", "badNonce", "notFound",
   "deviceRevoked", "unproven", "duplicate", "unprocessable", "keyInUse", "failed"}

(* Where a handler can be between two round trips.                         *)
Steps ==
  {"arrived", "allowed", "consumed", "loaded", "verified", "unique", "saved",
   "attested", "newKey", "found"}

At(s, step) == pc[s] = step

(* On to the next step, or, with an answer, the request is over.           *)
Go(s, step) ==
  /\ pc' = [pc EXCEPT ![s] = step]
  /\ req' = IF step \in Answers THEN [req EXCEPT ![s] = Nothing] ELSE req
  /\ late' = IF step \in Answers THEN [late EXCEPT ![s] = FALSE] ELSE late
  /\ arrived' = IF step = "allowed" THEN arrived ELSE [arrived EXCEPT ![s] = 0]

Route(s) == req[s].route

(* The counter a capture is metered by, read and written at an instant.    *)
Counter(s, at) == <<req[s].org, req[s].media, BillingPeriod(at)>>

-----------------------------------------------------------------------------
Init ==
  /\ clock = 0
  /\ challenges = [n \in Nonces |-> Unissued]
  /\ devices = [k \in Keys |-> Unenrolled]
  /\ certificates = [c \in Contents |-> Uncertified]
  /\ usage = [u \in Orgs \X Media \X Periods |-> 0]
  /\ pc = [s \in Slots |-> "idle"]
  /\ req = [s \in Slots |-> Nothing]
  /\ arrived = [s \in Slots |-> 0]
  /\ late = [s \in Slots |-> FALSE]

(***************************************************************************)
(* A free slot takes a request.  A client can only present a challenge     *)
(* that was issued: the values are random, and one never issued finds no   *)
(* row, as a spent one does.                                               *)
(***************************************************************************)
Arrive(s, q) ==
  /\ At(s, "idle")
  /\ q.route \in {"capture", "enrol"} => challenges[q.nonce] # Unissued
  /\ req' = [req EXCEPT ![s] = q]
  /\ arrived' = [arrived EXCEPT ![s] = clock]
  /\ late' = [late EXCEPT ![s] = q.route = "capture" /\ Revoked(q.key)]
  /\ pc' = [pc EXCEPT ![s] = "arrived"]
  /\ UNCHANGED <<clock, tables>>

(* The answer is written and the slot freed.                               *)
Finish(s) ==
  /\ pc[s] \in Answers
  /\ pc' = [pc EXCEPT ![s] = "idle"]
  /\ UNCHANGED <<clock, tables, requests>>

(* A round trip fails: the database is away, the caller hung up, the form  *)
(* or the upload does not decode.  After Save there is only Record left to fail.  *)
Fail(s) ==
  /\ "fail" \in Admits
  /\ pc[s] \in Steps \ {"saved"}
  /\ Go(s, "failed")
  /\ UNCHANGED <<clock, tables>>

(* A write that committed although its answer was lost.                    *)
OrLost(step, answer) == {step} \cup (IF "lost" \in Admits THEN {answer} ELSE {})

(* POST /captures/nonce.                                                   *)
IssueNonce(n, o) ==
  /\ challenges[n] = Unissued
  /\ challenges' = [challenges EXCEPT ![n] = Challenge("open", o, clock)]
  /\ UNCHANGED <<clock, devices, certificates, usage, pc, requests>>

(* Mutated: the last unit of the allowance is granted twice.               *)
HasAllowance_OffByOne(s) ==
  LET limit == Quota[<<req[s].org, req[s].media>>]
  IN  limit = Unlimited \/ usage[Counter(s, clock)] <= limit

(***************************************************************************)
(* UsageUseCase.Check, before any work.  An unlimited plan is not counted. *)
(***************************************************************************)
HasAllowance(s) ==
  LET limit == Quota[<<req[s].org, req[s].media>>]
  IN  limit = Unlimited \/ usage[Counter(s, clock)] < limit

CheckQuota(s) ==
  /\ At(s, "arrived") /\ Route(s) = "capture"
  /\ Go(s, IF HasAllowance(s) THEN "allowed" ELSE "overQuota")
  /\ UNCHANGED <<clock, tables>>

(* Mutated: forgets `consumed_at IS NULL`.                                 *)
Usable_Spent(n, at) == Issued(n) /\ challenges[n].expires > at

(***************************************************************************)
(* Consume: one UPDATE whose WHERE clause is the guard.  The instant it    *)
(* compares with was read by the handler on the way to the database.  A    *)
(* challenge of another tenant is spent all the same, then refused.        *)
(***************************************************************************)
Usable(n, at) == challenges[n].state = "open" /\ challenges[n].expires > at

ConsumeNonce(s) ==
  /\ At(s, "allowed") \/ (At(s, "arrived") /\ Route(s) = "enrol")
  /\ \E at \in arrived[s]..clock :
       LET n == req[s].nonce IN
       IF Usable(n, at)
       THEN /\ challenges' = [challenges EXCEPT ![n].state = "spent"]
            /\ Go(s, IF challenges[n].org = req[s].org THEN "consumed" ELSE "badNonce")
       ELSE Go(s, "badNonce") /\ UNCHANGED challenges
  /\ UNCHANGED <<clock, devices, certificates, usage>>

-----------------------------------------------------------------------------
(* POST /captures, once the challenge is spent.                            *)

Owns(s) == Enrolled(req[s].key) /\ devices[req[s].key].org = req[s].org

(* Mutated: forgets the tenant.                                            *)
LoadDevice_AnyOrg(s) ==
  /\ At(s, "consumed") /\ Route(s) = "capture"
  /\ Go(s, IF ~ Enrolled(req[s].key) THEN "notFound"
           ELSE IF Active(req[s].key) THEN "loaded" ELSE "deviceRevoked")
  /\ UNCHANGED <<clock, tables>>

(* Mutated: forgets CanCapture.                                            *)
LoadDevice_AnyStatus(s) ==
  /\ At(s, "consumed") /\ Route(s) = "capture"
  /\ Go(s, IF Owns(s) THEN "loaded" ELSE "notFound")
  /\ UNCHANGED <<clock, tables>>

LoadDevice(s) ==
  /\ At(s, "consumed") /\ Route(s) = "capture"
  /\ Go(s, IF ~ Owns(s) THEN "notFound"
           ELSE IF Active(req[s].key) THEN "loaded" ELSE "deviceRevoked")
  /\ UNCHANGED <<clock, tables>>

(* The bytes are taken in (read whole, or spilled by the video ingest) and *)
(* the signature checked against the key the device row held.              *)
VerifySignature(s) ==
  /\ At(s, "loaded")
  /\ Go(s, IF req[s].proven THEN "verified" ELSE "unproven")
  /\ UNCHANGED <<clock, tables>>

(* CertifyUseCase and CertifyVideoUseCase, for uploads too.                *)
CheckDuplicate(s) ==
  /\ At(s, "verified") \/ (At(s, "arrived") /\ Route(s) = "upload")
  /\ Go(s, IF Certified(req[s].content) THEN "duplicate" ELSE "unique")
  /\ UNCHANGED <<clock, tables>>

(* The row; nonce and proven are history, the table does not keep them.    *)
Certificate(s) ==
  [status |-> "certified", org |-> req[s].org, device |-> req[s].key,
   media |-> req[s].media, nonce |-> req[s].nonce, proven |-> req[s].proven]

SaveCertificate(s) ==
  /\ At(s, "unique")
  /\ ~ Certified(req[s].content)
  /\ certificates' = [certificates EXCEPT ![req[s].content] = Certificate(s)]
  /\ \E next \in OrLost(IF Route(s) = "upload" THEN "certified" ELSE "saved", "failed") :
       Go(s, next)
  /\ UNCHANGED <<clock, challenges, devices, usage>>

(* content_hash is UNIQUE: somebody else certified it since the check.     *)
SaveConflicts(s) ==
  /\ At(s, "unique")
  /\ Certified(req[s].content)
  /\ Go(s, "unprocessable")
  /\ UNCHANGED <<clock, tables>>

(* Mutated: a retry of the upsert counts a capture twice.                  *)
RecordUsage_Twice(s) ==
  /\ At(s, "saved")
  /\ usage' = [usage EXCEPT ![Counter(s, clock)] = @ + 2]
  /\ Go(s, "certified")
  /\ UNCHANGED <<clock, challenges, devices, certificates>>

(* Counted only now, in the period of now; the count may be lost.          *)
RecordUsage(s) ==
  /\ At(s, "saved")
  /\ usage' = [usage EXCEPT ![Counter(s, clock)] = @ + 1]
  /\ Go(s, "certified")
  /\ UNCHANGED <<clock, challenges, devices, certificates>>

RecordFails(s) ==
  /\ "fail" \in Admits
  /\ At(s, "saved")
  /\ Go(s, "certified")
  /\ UNCHANGED <<clock, tables>>

-----------------------------------------------------------------------------
(* POST /devices, once the challenge is spent.                             *)

VerifyAttestation(s) ==
  /\ At(s, "consumed") /\ Route(s) = "enrol"
  /\ Go(s, IF req[s].proven THEN "attested" ELSE "unproven")
  /\ UNCHANGED <<clock, tables>>

(* Still active and ours: the SDK lost its device id, hand back the row.   *)
LookUpKey(s) ==
  /\ At(s, "attested")
  /\ Go(s, IF ~ Enrolled(req[s].key) THEN "newKey"
           ELSE IF Revoked(req[s].key) THEN "deviceRevoked"
           ELSE IF Owns(s) THEN "enrolled" ELSE "keyInUse")
  /\ UNCHANGED <<clock, tables>>

Device(s) == [status |-> "active", org |-> req[s].org, nonce |-> req[s].nonce]

(* Mutated: the insert overwrites the row it conflicts with.               *)
SaveDevice_Upserts(s) ==
  /\ At(s, "newKey")
  /\ devices' = [devices EXCEPT ![req[s].key] = Device(s)]
  /\ Go(s, "enrolled")
  /\ UNCHANGED <<clock, challenges, certificates, usage>>

SaveDevice(s) ==
  /\ At(s, "newKey")
  /\ ~ Enrolled(req[s].key)
  /\ devices' = [devices EXCEPT ![req[s].key] = Device(s)]
  /\ \E next \in OrLost("enrolled", "failed") : Go(s, next)
  /\ UNCHANGED <<clock, challenges, certificates, usage>>

(* public_key is UNIQUE: whoever holds it, it is reported as in use.       *)
SaveDeviceConflicts(s) ==
  /\ At(s, "newKey")
  /\ Enrolled(req[s].key)
  /\ Go(s, "keyInUse")
  /\ UNCHANGED <<clock, tables>>

-----------------------------------------------------------------------------
(* POST /devices/{id}/revoke.                                              *)

FindDevice(s) ==
  /\ At(s, "arrived") /\ Route(s) = "revoke"
  /\ Go(s, IF Owns(s) THEN "found" ELSE "notFound")
  /\ UNCHANGED <<clock, tables>>

RevokeDevice(s) ==
  /\ At(s, "found")
  /\ devices' = [devices EXCEPT ![req[s].key].status = "revoked"]
  /\ \E next \in OrLost("revoked", "failed") : Go(s, next)
  /\ UNCHANGED <<clock, challenges, certificates, usage>>

-----------------------------------------------------------------------------
(* Administration and time.                                                *)

DeleteCertificate(c) ==
  /\ "delete" \in Admits
  /\ Certified(c)
  /\ certificates' = [certificates EXCEPT ![c] = Uncertified]
  /\ UNCHANGED <<clock, challenges, devices, usage, pc, requests>>

(* DeleteExpired, which the repository offers an operator's job.           *)
DeleteExpired(before) ==
  /\ "prune" \in Admits
  /\ \E n \in Nonces : Issued(n) /\ challenges[n].expires < before
  /\ challenges' = [n \in Nonces |->
                      IF Issued(n) /\ challenges[n].expires < before
                      THEN Pruned ELSE challenges[n]]
  /\ UNCHANGED <<clock, devices, certificates, usage, pc, requests>>

Tick ==
  /\ clock < MaxTime
  /\ clock' = clock + 1
  /\ UNCHANGED <<tables, pc, requests>>

Capture(s) ==
  \/ CheckQuota(s) \/ LoadDevice(s) \/ VerifySignature(s) \/ CheckDuplicate(s)
  \/ SaveCertificate(s) \/ SaveConflicts(s) \/ RecordUsage(s) \/ RecordFails(s)

Enrol(s)  == VerifyAttestation(s) \/ LookUpKey(s) \/ SaveDevice(s) \/ SaveDeviceConflicts(s)
Revoke(s) == FindDevice(s) \/ RevokeDevice(s)

Next ==
  \/ \E s \in Slots :
       \/ \E q \in Requests : Arrive(s, q)
       \/ ConsumeNonce(s) \/ Capture(s) \/ Enrol(s) \/ Revoke(s)
       \/ Fail(s) \/ Finish(s)
  \/ \E n \in Nonces, o \in Orgs : IssueNonce(n, o)
  \/ \E c \in Contents : DeleteCertificate(c)
  \/ \E before \in 0..clock : DeleteExpired(before)
  \/ Tick

Spec == Init /\ [][Next]_vars

-----------------------------------------------------------------------------
(* Properties.                                                             *)

ChallengeRows == {Unissued, Pruned}
  \cup [state : {"open", "spent"}, org : Orgs, expires : TTL..(MaxTime + TTL)]
DeviceRows == {Unenrolled} \cup [status : {"active", "revoked"}, org : Orgs, nonce : Nonces]
CertificateRows == {Uncertified}
  \cup [status : {"certified"}, org : Orgs, device : Keys \cup {NoKey}, media : Media,
        nonce : Nonces \cup {NoNonce}, proven : BOOLEAN]

(* Every variable holds values the code can produce.                       *)
TypeOK ==
  /\ clock \in Instants
  /\ challenges \in [Nonces -> ChallengeRows]
  /\ devices \in [Keys -> DeviceRows]
  /\ certificates \in [Contents -> CertificateRows]
  /\ usage \in [Orgs \X Media \X Periods -> Nat]
  /\ pc \in [Slots -> {"idle"} \cup Steps \cup Answers]
  /\ req \in [Slots -> {Nothing} \cup Requests]
  /\ arrived \in [Slots -> Instants]
  /\ late \in [Slots -> BOOLEAN]

(***************************************************************************)
(* A challenge backs at most one thing, ever: one certificate, one device, *)
(* or one handler that has spent it and may still produce either.  Two     *)
(* requests presenting it at once, a retry, a lost answer or a pruned row  *)
(* must not make it two.                                                   *)
(***************************************************************************)
Spending == {"consumed", "loaded", "verified", "unique", "attested", "newKey"}

Backings(n) ==
  {<<"certificate", c>> : c \in {c \in Contents : Certified(c) /\ certificates[c].nonce = n}}
    \cup {<<"device", k>> : k \in {k \in Keys : Enrolled(k) /\ devices[k].nonce = n}}
    \cup {<<"handler", s>> : s \in {s \in Slots : pc[s] \in Spending /\ req[s].nonce = n}}

ChallengeBacksOneThing == \A n \in Nonces : \A a, b \in Backings(n) : a = b

(***************************************************************************)
(* What a certificate of the gated path says about its origin holds: its   *)
(* device is enrolled, and by the same tenant; that device's key signed    *)
(* this content over a challenge issued to that tenant and spent since.    *)
(***************************************************************************)
CertificateProvenance ==
  \A c \in Contents : Attested(c) =>
    LET cert == certificates[c] IN
    /\ cert.proven
    /\ Enrolled(cert.device) /\ devices[cert.device].org = cert.org
    /\ \/ challenges[cert.nonce] = Pruned
       \/ challenges[cert.nonce].state = "spent" /\ challenges[cert.nonce].org = cert.org

(***************************************************************************)
(* Revocation is final: no enrolment, however it interleaves with others   *)
(* and with the revocation, makes the key active again or moves it to      *)
(* another tenant.                                                         *)
(***************************************************************************)
RevocationIsFinal ==
  [][\A k \in Keys : Revoked(k) => devices'[k] = devices[k]]_devices

(***************************************************************************)
(* Revocation is forward-only but immediate: a capture that arrives after  *)
(* it is never certified.  (One already past LoadDevice still is.)         *)
(***************************************************************************)
RevokedNeverCaptures ==
  \A s \in Slots :
    pc[s] \in {"loaded", "verified", "unique", "saved"} => ~ late[s]

(***************************************************************************)
(* Only what was certified is billed, and billed once, even when the month *)
(* turns between the check and the count; and all of it is, unless a write *)
(* fails.  Stated for instances that delete no certificate.                *)
(***************************************************************************)
Billed(o, m)   == MapThenSumSet(LAMBDA p : usage[<<o, m, p>>], Periods)
Made(o, m)     == Cardinality({c \in Contents : Attested(c) /\ certificates[c].org = o
                                                /\ certificates[c].media = m})
Unbilled(o, m) == Cardinality({s \in Slots : At(s, "saved") /\ req[s].org = o
                                             /\ req[s].media = m})

BillingFollowsCertificates ==
  \A o \in Orgs, m \in Media :
    /\ Billed(o, m) + Unbilled(o, m) <= Made(o, m)
    /\ Admits = {} => Billed(o, m) + Unbilled(o, m) = Made(o, m)

(***************************************************************************)
(* The allowance is checked before the work and counted after it, so       *)
(* concurrent captures overshoot it: by fewer than the requests that can   *)
(* be in flight, and not at all where the plan allows none.                *)
(***************************************************************************)
OvershootIsBounded ==
  \A u \in DOMAIN usage :
    LET limit == Quota[<<u[1], u[2]>>] IN
    limit # Unlimited =>
      usage[u] <= IF limit = 0 THEN 0 ELSE limit + Cardinality(Slots) - 1

(***************************************************************************)
(* docs/USAGE_FLOW.md: sending a certified file again is always answered   *)
(* 409, whenever the other certification happened.                         *)
(***************************************************************************)
ResubmissionConflicts ==
  [][\A s \in Slots :
       At(s, "unique") /\ Certified(req[s].content) /\ pc'[s] \in Answers
         => pc'[s] \in {"duplicate", "failed"}]_vars
=============================================================================
