------------------------- MODULE CaptureFlowProofs -------------------------
(***************************************************************************)
(* For any number of tenants, devices, challenges, files and requests in   *)
(* flight, any plans and every fault the module admits: a challenge backs  *)
(* one thing, a certificate's provenance holds, revocation is final and    *)
(* immediate, the allowance is overshot by less than the cap on requests,  *)
(* and the bill follows the certificates.                                  *)
(***************************************************************************)
EXTENDS CaptureFlow, FiniteSetTheorems, WellFoundedInduction, TLAPS

Taken(n)      == challenges[n].state \in {"spent", "pruned"}
SpentBy(n, o) == /\ n \in Nonces /\ Taken(n)
                 /\ challenges[n].state = "spent" => challenges[n].org = o
Owned(k, o)   == k \in Keys /\ devices[k].status # "unenrolled" /\ devices[k].org = o

Loading == {"loaded", "verified", "unique", "saved"}
Working == {"allowed", "consumed"} \cup Loading

(* What a handler at a step has in hand: a request of the route the step   *)
(* belongs to, and what the steps before it established.                   *)
Ready(q, step) ==
  /\ step \notin Steps => q = Nothing
  /\ step \in Steps => q \in Requests
  /\ step \in {"allowed", "loaded", "verified", "saved"} => q.route = "capture"
  /\ step = "consumed" => q.route \in {"capture", "enrol"}
  /\ step = "unique" => q.route \in {"capture", "upload"}
  /\ step \in {"attested", "newKey"} => q.route = "enrol"
  /\ step = "found" => q.route = "revoke" /\ Owned(q.key, q.org)
  /\ step \in Loading /\ q.route = "capture" => Owned(q.key, q.org)
  /\ step \in {"verified", "unique"} /\ q.route = "capture" => q.proven

HandlersFit == \A s \in Slots : Ready(req[s], pc[s])

HandlersSpent ==
  \A s \in Slots : pc[s] \in Spending /\ req[s].route # "upload"
                     => SpentBy(req[s].nonce, req[s].org)

(* The history is about requests in flight, and stays true of them.        *)
LateAreRevoked ==
  \A s \in Slots :
    late[s] => pc[s] \in Steps /\ req[s].route = "capture" /\ Revoked(req[s].key)

DevicesSpent == \A k \in Keys : devices[k].status # "unenrolled" => Taken(devices[k].nonce)

(* A row of the gated path, or one of the upload.                          *)
Backed(cert) ==
  \/ cert.device = NoKey /\ cert.nonce = NoNonce
  \/ Owned(cert.device, cert.org) /\ cert.proven /\ SpentBy(cert.nonce, cert.org)

CertificatesSpent ==
  \A c \in Contents : certificates[c].status = "certified" => Backed(certificates[c])

CertOn(c, n) == certificates[c].status = "certified" /\ certificates[c].nonce = n
DevOn(k, n)  == devices[k].status # "unenrolled" /\ devices[k].nonce = n
Holds(s, n)  == pc[s] \in Spending /\ req[s].nonce = n

OneBacking ==
  \A n \in Nonces :
    /\ \A c, d \in Contents : CertOn(c, n) /\ CertOn(d, n) => c = d
    /\ \A j, k \in Keys : DevOn(j, n) /\ DevOn(k, n) => j = k
    /\ \A r, s \in Slots : Holds(r, n) /\ Holds(s, n) => r = s
    /\ \A c \in Contents, k \in Keys : ~ (CertOn(c, n) /\ DevOn(k, n))
    /\ \A c \in Contents, s \in Slots : ~ (CertOn(c, n) /\ Holds(s, n))
    /\ \A k \in Keys, s \in Slots : ~ (DevOn(k, n) /\ Holds(s, n))

(* The captures let through that may still count against an allowance.     *)
Past(o, m) == {s \in Slots : /\ pc[s] \in Working /\ req[s].route = "capture"
                             /\ req[s].org = o /\ req[s].media = m}

Ceiling(limit) == IF limit = 0 THEN 0 ELSE limit + Cardinality(Slots) - 1

(* A month that has not begun is empty; in the month that runs, what is    *)
(* counted and what is on its way stay together under the ceiling.         *)
CountsAreBounded ==
  \A o \in Orgs, m \in Media : Quota[<<o, m>>] # Unlimited =>
    /\ Quota[<<o, m>>] = 0 => Past(o, m) = {}
    /\ \A p \in Periods :
         /\ usage[<<o, m, p>>] <= Ceiling(Quota[<<o, m>>])
         /\ p > BillingPeriod(clock) => usage[<<o, m, p>>] = 0
         /\ p = BillingPeriod(clock) =>
              usage[<<o, m, p>>] + Cardinality(Past(o, m)) <= Ceiling(Quota[<<o, m>>])

IInv ==
  /\ TypeOK /\ HandlersFit /\ HandlersSpent /\ LateAreRevoked /\ RevokedNeverCaptures
  /\ DevicesSpent /\ CertificatesSpent /\ OneBacking /\ CountsAreBounded

-----------------------------------------------------------------------------
(* What a step means for the invariant.                                    *)

(* A handler goes on, to a step it is ready for.                           *)
Move(s, step) ==
  /\ pc[s] \in Steps /\ step \in Steps \cup Answers
  /\ Go(s, step)
  /\ step \in Steps => Ready(req[s], step)
  /\ step \in Loading /\ pc[s] \notin Loading /\ req[s].route = "capture"
       => ~ Revoked(req[s].key)
  /\ step \in Working /\ pc[s] \notin Working /\ req[s].route = "capture" => HasAllowance(s)

(* It gains no challenge by it.                                            *)
Spends(s, step) == step \in Spending /\ req[s].route # "upload" => pc[s] \in Spending

(* The database keeps what it was told: devices stay enrolled with their   *)
(* tenant, revoked ones as they are, and spent challenges stay spent.      *)
TablesGrow ==
  /\ \A k \in Keys : devices[k].status # "unenrolled" =>
       /\ devices'[k].status # "unenrolled"
       /\ devices'[k].org = devices[k].org /\ devices'[k].nonce = devices[k].nonce
  /\ \A k \in Keys : Revoked(k) => devices'[k] = devices[k]
  /\ \A n \in Nonces : Taken(n) =>
       /\ challenges'[n].state \in {"spent", "pruned"}
       /\ challenges'[n].state = "spent" =>
            challenges[n].state = "spent" /\ challenges'[n].org = challenges[n].org

(* A round trip that only reads.                                           *)
Reads(s) ==
  \/ CheckQuota(s) \/ LoadDevice(s) \/ VerifySignature(s) \/ CheckDuplicate(s)
  \/ SaveConflicts(s) \/ RecordFails(s) \/ VerifyAttestation(s) \/ LookUpKey(s)
  \/ SaveDeviceConflicts(s) \/ FindDevice(s) \/ Fail(s)

-----------------------------------------------------------------------------
(* The steps of a handler.                                                 *)

LEMMA RequestKinds ==
  ASSUME NEW q \in Requests
  PROVE  /\ q.route = "capture" => q \in Captures
         /\ q.route = "upload" => q \in Uploads
         /\ q.route = "enrol" => q \in Enrolments
         /\ q.route = "revoke" => q \in Revocations
         /\ q.route \in Routes /\ q # Nothing
<1>1. q \in Captures \/ q \in Uploads \/ q \in Enrolments \/ q \in Revocations
  BY DEF Requests
<1>2. q \in Captures => q.route = "capture"
  BY DEF Captures
<1>3. q \in Uploads => q.route = "upload"
  BY DEF Uploads
<1>4. q \in Enrolments => q.route = "enrol"
  BY DEF Enrolments
<1>5. q \in Revocations => q.route = "revoke"
  BY DEF Revocations
<1>6. Nothing.route = "none"
  BY DEF Nothing
<1> QED
  BY <1>1, <1>2, <1>3, <1>4, <1>5, <1>6 DEF Routes

(* The rows of the tables, told apart by their status.                     *)
LEMMA RowKinds ==
  ASSUME TypeOK
  PROVE  /\ \A k \in Keys :
              /\ Enrolled(k) <=> devices[k].status # "unenrolled"
              /\ devices[k].status # "unenrolled" =>
                   devices[k] \in [status : {"active", "revoked"}, org : Orgs, nonce : Nonces]
         /\ \A c \in Contents :
              /\ Certified(c) <=> certificates[c].status = "certified"
              /\ Certified(c) =>
                   certificates[c] \in [status : {"certified"}, org : Orgs,
                     device : Keys \cup {NoKey}, media : Media,
                     nonce : Nonces \cup {NoNonce}, proven : BOOLEAN]
         /\ \A n \in Nonces :
              /\ challenges[n].state \in {"unissued", "pruned", "open", "spent"}
              /\ Issued(n) =>
                   challenges[n] \in [state : {"open", "spent"}, org : Orgs,
                                      expires : TTL..(MaxTime + TTL)]
              /\ challenges[n].state = "pruned" => challenges[n] = Pruned
              /\ challenges[n].state = "unissued" <=> challenges[n] = Unissued
<1>1. ASSUME NEW k \in Keys
      PROVE  /\ Enrolled(k) <=> devices[k].status # "unenrolled"
             /\ devices[k].status # "unenrolled" =>
                  devices[k] \in [status : {"active", "revoked"}, org : Orgs, nonce : Nonces]
  BY <1>1 DEF TypeOK, DeviceRows, Enrolled, Unenrolled
<1>2. ASSUME NEW c \in Contents
      PROVE  /\ Certified(c) <=> certificates[c].status = "certified"
             /\ Certified(c) =>
                  certificates[c] \in [status : {"certified"}, org : Orgs,
                    device : Keys \cup {NoKey}, media : Media,
                    nonce : Nonces \cup {NoNonce}, proven : BOOLEAN]
  BY <1>2 DEF TypeOK, CertificateRows, Certified, Uncertified
<1>3. ASSUME NEW n \in Nonces
      PROVE  /\ challenges[n].state \in {"unissued", "pruned", "open", "spent"}
             /\ Issued(n) =>
                  challenges[n] \in [state : {"open", "spent"}, org : Orgs,
                                     expires : TTL..(MaxTime + TTL)]
             /\ challenges[n].state = "pruned" => challenges[n] = Pruned
             /\ challenges[n].state = "unissued" <=> challenges[n] = Unissued
  BY <1>3 DEF TypeOK, ChallengeRows, Issued, Unissued, Pruned
<1> QED
  BY <1>1, <1>2, <1>3

(* A read moves its handler on and changes nothing else.                   *)
LEMMA ReadsMove ==
  ASSUME TypeOK, HandlersFit, NEW s \in Slots, Reads(s)
  PROVE  /\ \E step : Move(s, step) /\ Spends(s, step)
         /\ UNCHANGED <<clock, tables>>
<1> USE DEF Move, Spends, Ready, At, Route, Steps, Answers, Loading, Working, Spending
<1>1. Ready(req[s], pc[s]) /\ (pc[s] \in Steps => req[s] \in Requests)
  BY DEF HandlersFit
<1>2. pc[s] \in Steps =>
        /\ req[s].route = "capture" => req[s] \in Captures
        /\ req[s].route = "upload" => req[s] \in Uploads
        /\ req[s].route = "enrol" => req[s] \in Enrolments
        /\ req[s].route = "revoke" => req[s] \in Revocations
  BY <1>1, RequestKinds
<1>3. CASE CheckQuota(s)
  BY <1>1, <1>3 DEF CheckQuota
<1>4. CASE LoadDevice(s)
  <2>1. Owns(s) => Owned(req[s].key, req[s].org)
    BY <1>2, <1>4, RowKinds DEF LoadDevice, Owns, Owned, Captures
  <2>2. Active(req[s].key) => ~ Revoked(req[s].key)
    BY DEF Active, Revoked
  <2> QED
    BY <1>1, <1>4, <2>1, <2>2 DEF LoadDevice
<1>5. CASE VerifySignature(s)
  BY <1>1, <1>5 DEF VerifySignature
<1>6. CASE CheckDuplicate(s)
  BY <1>1, <1>6 DEF CheckDuplicate
<1>7. CASE SaveConflicts(s)
  BY <1>1, <1>7 DEF SaveConflicts
<1>8. CASE RecordFails(s)
  BY <1>1, <1>8 DEF RecordFails
<1>9. CASE VerifyAttestation(s)
  BY <1>1, <1>9 DEF VerifyAttestation
<1>10. CASE LookUpKey(s)
  BY <1>1, <1>10 DEF LookUpKey
<1>11. CASE SaveDeviceConflicts(s)
  BY <1>1, <1>11 DEF SaveDeviceConflicts
<1>12. CASE FindDevice(s)
  <2>1. Owns(s) => Owned(req[s].key, req[s].org)
    BY <1>2, <1>12, RowKinds DEF FindDevice, Owns, Owned, Revocations
  <2> QED
    BY <1>1, <1>12, <2>1 DEF FindDevice
<1>13. CASE Fail(s)
  BY <1>1, <1>13 DEF Fail
<1> QED
  BY <1>3, <1>4, <1>5, <1>6, <1>7, <1>8, <1>9, <1>10, <1>11, <1>12, <1>13 DEF Reads

-----------------------------------------------------------------------------
(* What a move keeps.                                                      *)

(* The variables of the handlers stay typed, and only its own change.      *)
LEMMA MoveTypes ==
  ASSUME TypeOK, NEW s \in Slots, NEW step, Move(s, step)
  PROVE  /\ pc' \in [Slots -> {"idle"} \cup Steps \cup Answers]
         /\ req' \in [Slots -> {Nothing} \cup Requests]
         /\ arrived' \in [Slots -> Instants]
         /\ late' \in [Slots -> BOOLEAN]
         /\ pc'[s] = step
         /\ req'[s] = IF step \in Answers THEN Nothing ELSE req[s]
         /\ late'[s] = IF step \in Answers THEN FALSE ELSE late[s]
         /\ \A r \in Slots \ {s} : pc'[r] = pc[r] /\ req'[r] = req[r] /\ late'[r] = late[r]
<1>1. 0 \in Instants
  BY FiniteTime DEF Instants
<1> QED
  BY <1>1 DEF TypeOK, Move, Go

LEMMA MoveFits ==
  ASSUME TypeOK, HandlersFit, NEW s \in Slots, NEW step, Move(s, step), TablesGrow
  PROVE  HandlersFit'
<1>1. ASSUME NEW r \in Slots, r # s PROVE Ready(req[r], pc[r])'
  <2>1. pc'[r] = pc[r] /\ req'[r] = req[r]
    BY <1>1, MoveTypes
  <2>2. Owned(req[r].key, req[r].org) => Owned(req[r].key, req[r].org)'
    BY <2>1 DEF Owned, TablesGrow
  <2>3. Ready(req[r], pc[r])
    BY DEF HandlersFit
  <2> QED
    BY <2>1, <2>2, <2>3 DEF Ready
<1>2. Ready(req[s], pc[s])'
  <2>1. pc'[s] = step /\ req'[s] = IF step \in Answers THEN Nothing ELSE req[s]
    BY MoveTypes
  <2>2. CASE step \in Answers
    BY <2>1, <2>2 DEF Ready, Answers, Steps, Loading
  <2>3. CASE step \in Steps
    <3>1. step \notin Answers
      BY <2>3 DEF Answers, Steps
    <3>2. req'[s] = req[s] /\ Ready(req[s], step)
      BY <2>1, <2>3, <3>1 DEF Move
    <3>3. Owned(req[s].key, req[s].org) => Owned(req[s].key, req[s].org)'
      BY <3>2 DEF Owned, TablesGrow
    <3> QED
      BY <2>1, <3>2, <3>3 DEF Ready
  <2> QED
    BY <2>2, <2>3 DEF Move
<1> QED
  BY <1>1, <1>2 DEF HandlersFit

LEMMA MoveSpent ==
  ASSUME TypeOK, HandlersSpent, NEW s \in Slots, NEW step, Move(s, step), Spends(s, step),
         TablesGrow
  PROVE  HandlersSpent'
<1>1. step \in Spending => step \notin Answers
  BY DEF Spending, Answers
<1>2. ASSUME NEW r \in Slots, pc'[r] \in Spending, req'[r].route # "upload"
      PROVE  SpentBy(req[r].nonce, req[r].org)'
  <2>1. req'[r] = req[r] /\ (r # s => pc'[r] = pc[r]) /\ (r = s => pc'[r] = step)
    BY <1>1, <1>2, MoveTypes
  <2>2. pc[r] \in Spending
    BY <1>2, <2>1 DEF Spends
  <2>3. SpentBy(req[r].nonce, req[r].org)
    BY <1>2, <2>1, <2>2 DEF HandlersSpent
  <2> QED
    BY <2>1, <2>3 DEF SpentBy, Taken, TablesGrow
<1> QED
  BY <1>2 DEF HandlersSpent

(* A late capture finds its device revoked, and it stays so.               *)
LEMMA MoveLate ==
  ASSUME TypeOK, HandlersFit, LateAreRevoked, RevokedNeverCaptures,
         NEW s \in Slots, NEW step, Move(s, step), TablesGrow
  PROVE  LateAreRevoked' /\ RevokedNeverCaptures'
<1>1. ASSUME NEW r \in Slots, late'[r]
      PROVE  /\ late[r] /\ req'[r] = req[r] /\ pc'[r] \in Steps
             /\ req[r].route = "capture" /\ Revoked(req[r].key)'
             /\ pc'[r] \in Loading => pc[r] \in Loading
  <2>1. late[r] /\ req'[r] = req[r] /\ (r = s => step \in Steps)
    BY <1>1, MoveTypes DEF Move
  <2>2. req[r].route = "capture" /\ Revoked(req[r].key) /\ pc[r] \in Steps
    BY <2>1 DEF LateAreRevoked
  <2>3. req[r].key \in Keys
    BY <2>2, RequestKinds DEF HandlersFit, Ready, Captures
  <2>4. devices'[req[r].key] = devices[req[r].key]
    BY <2>2, <2>3 DEF TablesGrow
  <2>5. Revoked(req[r].key)'
    BY <2>1, <2>2, <2>4 DEF Revoked
  <2>6. pc'[r] \in Steps
    BY <2>1, <2>2, MoveTypes
  <2>7. pc'[r] \in Loading => pc[r] \in Loading
    BY <2>2, MoveTypes DEF Move
  <2> QED
    BY <2>1, <2>2, <2>5, <2>6, <2>7
<1>2. LateAreRevoked'
  BY <1>1 DEF LateAreRevoked
<1>3. RevokedNeverCaptures'
  BY <1>1 DEF RevokedNeverCaptures, Loading
<1> QED
  BY <1>2, <1>3

(* Tables that grow keep a row backed.                                     *)
LEMMA GrowKeepsRows ==
  ASSUME CertificatesSpent, TablesGrow, NEW c \in Contents,
         certificates[c].status = "certified", certificates'[c] = certificates[c]
  PROVE  Backed(certificates[c])'
<1>1. Backed(certificates[c])
  BY DEF CertificatesSpent
<1>2. CASE certificates[c].device = NoKey /\ certificates[c].nonce = NoNonce
  BY <1>2 DEF Backed
<1>3. CASE /\ Owned(certificates[c].device, certificates[c].org) /\ certificates[c].proven
           /\ SpentBy(certificates[c].nonce, certificates[c].org)
  <2>1. Owned(certificates[c].device, certificates[c].org)'
    BY <1>3 DEF Owned, TablesGrow
  <2>2. SpentBy(certificates[c].nonce, certificates[c].org)'
    BY <1>3 DEF SpentBy, Taken, TablesGrow
  <2> QED
    BY <1>3, <2>1, <2>2 DEF Backed
<1> QED
  BY <1>1, <1>2, <1>3 DEF Backed

(* With no challenge newly held, none backs more than before.              *)
LEMMA FewerBackings ==
  ASSUME OneBacking,
         \A n \in Nonces :
           /\ \A c \in Contents : CertOn(c, n)' => CertOn(c, n)
           /\ \A k \in Keys : DevOn(k, n)' => DevOn(k, n)
           /\ \A s \in Slots : Holds(s, n)' => Holds(s, n)
  PROVE  OneBacking'
BY DEF OneBacking

LEMMA MoveHolds ==
  ASSUME TypeOK, HandlersFit, NEW s \in Slots, NEW step, Move(s, step), Spends(s, step)
  PROVE  \A n \in Nonces, r \in Slots : Holds(r, n)' => Holds(r, n)
<1>1. step \in Spending => step \notin Answers
  BY DEF Spending, Answers
<1>2. ASSUME NEW n \in Nonces, NEW r \in Slots, pc'[r] \in Spending, req'[r].nonce = n
      PROVE  pc[r] \in Spending /\ req[r].nonce = n
  <2>1. req'[r] = req[r] /\ (r # s => pc'[r] = pc[r])
    BY <1>1, <1>2, MoveTypes
  <2>2. CASE r = s
    <3>1. req[s] \in Requests
      BY DEF Move, HandlersFit, Ready
    <3>2. req[s].route = "upload" => req[s].nonce = NoNonce
      BY <3>1, RequestKinds DEF Uploads
    <3>3. req[s].route # "upload"
      BY <1>2, <2>1, <2>2, <3>2, NullsAreApart
    <3> QED
      BY <1>2, <2>1, <2>2, <3>3, MoveTypes DEF Spends
  <2> QED
    BY <1>2, <2>1, <2>2
<1> QED
  BY <1>2 DEF Holds

-----------------------------------------------------------------------------
(* Counting against the allowance.                                         *)

LEMMA PastIsCounted ==
  ASSUME NEW P \in SUBSET Slots
  PROVE  /\ IsFiniteSet(P) /\ Cardinality(P) \in Nat /\ Cardinality(Slots) \in Nat
         /\ Cardinality(P) <= Cardinality(Slots)
BY FiniteSlots, FS_Subset, FS_CardinalityType

LEMMA FewerPast ==
  ASSUME NEW P \in SUBSET Slots, NEW S \in SUBSET P
  PROVE  Cardinality(S) <= Cardinality(P)
BY PastIsCounted, FS_Subset

(* One who joins was counted in when there was room.                       *)
LEMMA JoinFits ==
  ASSUME NEW P \in SUBSET Slots, NEW limit \in Nat, NEW used \in Nat, used < limit
  PROVE  used + Cardinality(P) <= Ceiling(limit)
BY PastIsCounted DEF Ceiling

LEMMA PeriodsFollow ==
  ASSUME NEW t \in Nat
  PROVE  /\ BillingPeriod(t) \in Nat
         /\ BillingPeriod(t) <= BillingPeriod(t + 1)
<1>1. MonthLength \in Nat /\ MonthLength > 0
  BY PositiveMonth
<1> DEFINE q == t \div MonthLength
           r == t % MonthLength
           p == (t + 1) \div MonthLength
           z == (t + 1) % MonthLength
<1>2. q \in Int /\ r \in 0..(MonthLength - 1) /\ t = MonthLength * q + r
  BY <1>1
<1>3. p \in Int /\ z \in 0..(MonthLength - 1) /\ t + 1 = MonthLength * p + z
  BY <1>1
<1> QED
  BY <1>1, <1>2, <1>3 DEF BillingPeriod

LEMMA ClockInPeriods == clock \in Instants => BillingPeriod(clock) \in Periods
<1> HAVE clock \in Instants
<1>1. clock \in Nat /\ MaxTime \in Nat /\ clock <= MaxTime
  BY FiniteTime DEF Instants
<1>2. MonthLength \in Nat /\ MonthLength > 0
  BY PositiveMonth
<1> DEFINE q == clock \div MonthLength
           r == clock % MonthLength
           p == MaxTime \div MonthLength
           z == MaxTime % MonthLength
<1>3. q \in Int /\ r \in 0..(MonthLength - 1) /\ clock = MonthLength * q + r
  BY <1>1, <1>2
<1>4. p \in Int /\ z \in 0..(MonthLength - 1) /\ MaxTime = MonthLength * p + z
  BY <1>1, <1>2
<1>5. q >= 0 /\ q <= p
  BY <1>1, <1>2, <1>3, <1>4
<1> QED
  BY <1>3, <1>4, <1>5 DEF Periods, BillingPeriod

(* A move lets a capture past only where there is room.                    *)
LEMMA MoveCounts ==
  ASSUME TypeOK, HandlersFit, CountsAreBounded, NEW s \in Slots, NEW step, Move(s, step),
         UNCHANGED <<clock, usage>>
  PROVE  CountsAreBounded'
<1>1. clock \in Nat /\ BillingPeriod(clock) \in Nat
  BY FiniteTime, PeriodsFollow DEF TypeOK, Instants
<1>2. ASSUME NEW o \in Orgs, NEW m \in Media, Quota[<<o, m>>] # Unlimited
      PROVE  /\ Quota[<<o, m>>] = 0 => Past(o, m)' = {}
             /\ \A p \in Periods : p = BillingPeriod(clock) =>
                  usage[<<o, m, p>>] + Cardinality(Past(o, m)') <= Ceiling(Quota[<<o, m>>])
  <2>1. Quota[<<o, m>>] \in Nat
    BY <1>2, PlansAreQuotas DEF Unlimited
  <2>2. Past(o, m) \in SUBSET Slots /\ Past(o, m)' \in SUBSET Slots
    BY DEF Past
  <2>3. \A p \in Periods : usage[<<o, m, p>>] \in Nat
    BY DEF TypeOK
  <2>4. CASE s \in Past(o, m)' /\ s \notin Past(o, m)
    <3>1. step \notin Answers /\ pc'[s] = step
      BY <2>4, MoveTypes DEF Past, Working, Loading, Answers
    <3>2. req'[s] = req[s]
      BY <3>1, MoveTypes
    <3>3. /\ step \in Working /\ pc[s] \notin Working /\ req[s].route = "capture"
          /\ req[s].org = o /\ req[s].media = m
      BY <2>4, <3>1, <3>2 DEF Past
    <3>4. usage[<<o, m, BillingPeriod(clock)>>] < Quota[<<o, m>>]
      BY <1>2, <3>3 DEF Move, HasAllowance, Counter
    <3>5. ASSUME NEW p \in Periods, p = BillingPeriod(clock)
          PROVE  /\ Quota[<<o, m>>] # 0
                 /\ usage[<<o, m, p>>] + Cardinality(Past(o, m)') <= Ceiling(Quota[<<o, m>>])
      BY <2>1, <2>2, <2>3, <3>4, <3>5, JoinFits
    <3>6. BillingPeriod(clock) \in Periods
      BY ClockInPeriods DEF TypeOK
    <3> QED
      BY <3>5, <3>6
  <2>5. CASE ~ (s \in Past(o, m)' /\ s \notin Past(o, m))
    <3>1. Past(o, m)' \subseteq Past(o, m)
      BY <2>5, MoveTypes DEF Past
    <3>2. Cardinality(Past(o, m)') <= Cardinality(Past(o, m))
      BY <2>2, <3>1, FewerPast
    <3>3. Cardinality(Past(o, m)') \in Nat /\ Cardinality(Past(o, m)) \in Nat
      BY <2>2, PastIsCounted
    <3>4. Ceiling(Quota[<<o, m>>]) \in Int
      BY <2>1, <2>2, PastIsCounted DEF Ceiling
    <3> QED
      BY <1>2, <2>3, <3>1, <3>2, <3>3, <3>4 DEF CountsAreBounded
  <2> QED
    BY <2>4, <2>5
<1> QED
  BY <1>2 DEF CountsAreBounded

(* What was on its way is counted: the sum stays.                          *)
LEMMA RecordCounts ==
  ASSUME TypeOK, HandlersFit, CountsAreBounded, NEW s \in Slots, RecordUsage(s)
  PROVE  CountsAreBounded'
<1>1. clock \in Nat /\ BillingPeriod(clock) \in Nat /\ clock' = clock
  BY FiniteTime, PeriodsFollow DEF TypeOK, Instants, RecordUsage
<1>2. req[s] \in Captures /\ pc[s] = "saved"
  BY RequestKinds DEF RecordUsage, At, HandlersFit, Ready, Steps
<1>3. /\ pc'[s] = "certified"
      /\ \A r \in Slots \ {s} : pc'[r] = pc[r] /\ req'[r] = req[r]
  BY DEF RecordUsage, Go, TypeOK
<1>4. usage' = [usage EXCEPT ![Counter(s, clock)] = @ + 1]
  BY DEF RecordUsage
<1>5. ASSUME NEW o \in Orgs, NEW m \in Media, Quota[<<o, m>>] # Unlimited
      PROVE  /\ Quota[<<o, m>>] = 0 => Past(o, m)' = {}
             /\ \A p \in Periods :
                  /\ usage'[<<o, m, p>>] <= Ceiling(Quota[<<o, m>>])
                  /\ p > BillingPeriod(clock) => usage'[<<o, m, p>>] = 0
                  /\ p = BillingPeriod(clock) =>
                       usage'[<<o, m, p>>] + Cardinality(Past(o, m)') <= Ceiling(Quota[<<o, m>>])
  <2>1. Quota[<<o, m>>] \in Nat
    BY <1>5, PlansAreQuotas DEF Unlimited
  <2>2. Past(o, m) \in SUBSET Slots /\ Past(o, m)' \in SUBSET Slots
    BY DEF Past
  <2>3. ASSUME NEW p \in Periods
        PROVE  /\ usage[<<o, m, p>>] \in Nat
               /\ usage'[<<o, m, p>>] =
                    IF req[s].org = o /\ req[s].media = m /\ p = BillingPeriod(clock)
                    THEN usage[<<o, m, p>>] + 1 ELSE usage[<<o, m, p>>]
    BY <1>4 DEF TypeOK, Counter
  <2>4. Past(o, m)' = Past(o, m) \ {s}
    BY <1>3 DEF Past, Working, Loading
  <2>5. s \in Past(o, m) <=> req[s].org = o /\ req[s].media = m
    BY <1>2 DEF Past, Working, Loading, Captures
  <2>6. /\ IsFiniteSet(Past(o, m)) /\ Cardinality(Past(o, m)) \in Nat
        /\ Cardinality(Past(o, m)') \in Nat /\ Ceiling(Quota[<<o, m>>]) \in Int
    BY <2>1, <2>2, PastIsCounted DEF Ceiling
  <2>7. Cardinality(Past(o, m)') =
          IF s \in Past(o, m) THEN Cardinality(Past(o, m)) - 1 ELSE Cardinality(Past(o, m))
    BY <2>4, <2>6, FS_RemoveElement
  <2>8. /\ Quota[<<o, m>>] = 0 => Past(o, m) = {}
        /\ \A p \in Periods :
             /\ usage[<<o, m, p>>] <= Ceiling(Quota[<<o, m>>])
             /\ p > BillingPeriod(clock) => usage[<<o, m, p>>] = 0
             /\ p = BillingPeriod(clock) =>
                  usage[<<o, m, p>>] + Cardinality(Past(o, m)) <= Ceiling(Quota[<<o, m>>])
    BY <1>5 DEF CountsAreBounded
  <2>9. ASSUME NEW p \in Periods
        PROVE  /\ usage'[<<o, m, p>>] <= Ceiling(Quota[<<o, m>>])
               /\ p > BillingPeriod(clock) => usage'[<<o, m, p>>] = 0
               /\ p = BillingPeriod(clock) =>
                    usage'[<<o, m, p>>] + Cardinality(Past(o, m)') <= Ceiling(Quota[<<o, m>>])
    BY <1>1, <2>3, <2>5, <2>6, <2>7, <2>8, <2>9 DEF Periods
  <2> QED
    BY <2>4, <2>8, <2>9
<1> QED
  BY <1>1, <1>5 DEF CountsAreBounded

-----------------------------------------------------------------------------
(* The invariant, one action after the other.                              *)

THEOREM InitIInv == Init => IInv
<1> SUFFICES ASSUME Init PROVE IInv
  OBVIOUS
<1>1. TypeOK
  BY FiniteTime DEF Init, TypeOK, ChallengeRows, DeviceRows, CertificateRows, Instants
<1>2. HandlersFit
  BY DEF Init, HandlersFit, Ready, Steps, Loading
<1>3. HandlersSpent /\ LateAreRevoked /\ RevokedNeverCaptures
  BY DEF Init, HandlersSpent, LateAreRevoked, RevokedNeverCaptures, Spending
<1>4. DevicesSpent /\ CertificatesSpent /\ OneBacking
  BY DEF Init, DevicesSpent, CertificatesSpent, OneBacking, CertOn, DevOn, Holds, Spending,
         Unenrolled, Uncertified
<1>5. ASSUME NEW o \in Orgs, NEW m \in Media, Quota[<<o, m>>] # Unlimited
      PROVE  /\ Past(o, m) = {} /\ Cardinality(Past(o, m)) = 0
             /\ Ceiling(Quota[<<o, m>>]) \in Nat
             /\ \A p \in Periods : usage[<<o, m, p>>] = 0
  <2>1. Past(o, m) = {}
    BY DEF Init, Past, Working, Loading
  <2>2. Quota[<<o, m>>] \in Nat
    BY <1>5, PlansAreQuotas DEF Unlimited
  <2>3. Ceiling(Quota[<<o, m>>]) \in Nat
    BY <2>2, FiniteSlots, FS_CardinalityType DEF Ceiling
  <2> QED
    BY <2>1, <2>3, FS_EmptySet DEF Init
<1>6. CountsAreBounded
  BY <1>5 DEF CountsAreBounded
<1> QED
  BY <1>1, <1>2, <1>3, <1>4, <1>6 DEF IInv

(* Every step of a handler that moves on keeps what is said of handlers.   *)
LEMMA MoveKeeps ==
  ASSUME IInv, NEW s \in Slots, NEW step, Move(s, step), TablesGrow
  PROVE  HandlersFit' /\ LateAreRevoked' /\ RevokedNeverCaptures'
BY MoveFits, MoveLate DEF IInv

LEMMA ReadsInvariant ==
  ASSUME IInv, NEW s \in Slots, Reads(s)
  PROVE  IInv'
<1>1. UNCHANGED <<clock, tables>>
  BY ReadsMove DEF IInv
<1>2. UNCHANGED <<clock, challenges, devices, certificates, usage>>
  BY <1>1 DEF tables
<1>3. PICK step : Move(s, step) /\ Spends(s, step)
  BY ReadsMove DEF IInv
<1>4. TablesGrow
  BY <1>2 DEF TablesGrow, Taken
<1>5. TypeOK'
  BY <1>2, <1>3, MoveTypes DEF IInv, TypeOK
<1>6. HandlersFit' /\ LateAreRevoked' /\ RevokedNeverCaptures'
  BY <1>3, <1>4, MoveKeeps
<1>7. HandlersSpent'
  BY <1>3, <1>4, MoveSpent DEF IInv
<1>8. DevicesSpent'
  BY <1>2 DEF IInv, DevicesSpent, Taken
<1>9. CertificatesSpent'
  BY <1>2, <1>4, GrowKeepsRows DEF IInv, CertificatesSpent
<1>10. OneBacking'
  BY <1>2, <1>3, MoveHolds, FewerBackings DEF IInv, CertOn, DevOn
<1>11. CountsAreBounded'
  BY <1>2, <1>3, MoveCounts DEF IInv
<1> QED
  BY <1>5, <1>6, <1>7, <1>8, <1>9, <1>10, <1>11 DEF IInv

(* The challenge a handler takes was nobody's: it was open.                *)
LEMMA ConsumeInvariant ==
  ASSUME IInv, NEW s \in Slots, ConsumeNonce(s)
  PROVE  IInv'
<1> DEFINE n == req[s].nonce
<1>1. /\ pc[s] = "allowed" \/ (pc[s] = "arrived" /\ req[s].route = "enrol")
      /\ UNCHANGED <<clock, devices, certificates, usage>>
  BY DEF ConsumeNonce, At, Route
<1>2. /\ req[s] \in Requests /\ req[s].route \in {"capture", "enrol"}
      /\ pc[s] = "allowed" => req[s].route = "capture"
  BY <1>1 DEF IInv, HandlersFit, Ready, Steps
<1>3. n \in Nonces
  BY <1>2, RequestKinds DEF Captures, Enrolments
<1>4. \/ /\ challenges[n].state = "open"
         /\ challenges' = [challenges EXCEPT ![n].state = "spent"]
         /\ Go(s, IF challenges[n].org = req[s].org THEN "consumed" ELSE "badNonce")
      \/ Go(s, "badNonce") /\ UNCHANGED challenges
  BY DEF ConsumeNonce, Usable
<1>5. PICK step \in {"consumed", "badNonce"} :
        /\ Go(s, step)
        /\ step = "badNonce" => \/ UNCHANGED challenges
                                \/ /\ challenges[n].state = "open"
                                   /\ challenges' = [challenges EXCEPT ![n].state = "spent"]
        /\ step = "consumed" => /\ challenges[n].state = "open"
                                /\ challenges' = [challenges EXCEPT ![n].state = "spent"]
                                /\ challenges[n].org = req[s].org
  BY <1>4
<1>6. \A m \in Nonces \ {n} : challenges'[m] = challenges[m]
  BY <1>3, <1>5 DEF IInv, TypeOK
<1>7. challenges[n].state = "open" => challenges'[n] = [challenges[n] EXCEPT !.state = "spent"]
                                     \/ UNCHANGED challenges
  BY <1>3, <1>5 DEF IInv, TypeOK
<1>8. challenges' \in [Nonces -> ChallengeRows]
  <2>1. CASE UNCHANGED challenges
    BY <2>1 DEF IInv, TypeOK
  <2>2. CASE /\ challenges[n].state = "open"
             /\ challenges' = [challenges EXCEPT ![n].state = "spent"]
    <3>1. challenges[n] \in [state : {"open", "spent"}, org : Orgs, expires : TTL..(MaxTime + TTL)]
      BY <1>3, <2>2, RowKinds DEF IInv, Issued
    <3>2. [challenges[n] EXCEPT !.state = "spent"] \in ChallengeRows
      BY <3>1 DEF ChallengeRows
    <3> QED
      BY <1>3, <2>2, <3>2 DEF IInv, TypeOK
  <2> QED
    BY <1>5, <2>1, <2>2
<1>9. step = "consumed" => SpentBy(n, req[s].org)'
  <2>1. ASSUME step = "consumed" PROVE challenges'[n].state = "spent" /\ challenges'[n].org = req[s].org
    <3>1. challenges[n] \in [state : {"open", "spent"}, org : Orgs, expires : TTL..(MaxTime + TTL)]
      BY <1>3, <1>5, <2>1, RowKinds DEF IInv, Issued
    <3>2. challenges'[n] = [challenges[n] EXCEPT !.state = "spent"]
      BY <1>3, <1>5, <2>1 DEF IInv, TypeOK
    <3> QED
      BY <1>5, <2>1, <3>1, <3>2
  <2>2. step = "consumed" => req'[s] = req[s]
    BY <1>5 DEF Go, Answers, IInv, TypeOK
  <2> QED
    BY <1>3, <2>1, <2>2 DEF SpentBy, Taken
<1>10. TablesGrow
  <2>1. \A m \in Nonces : Taken(m) => challenges'[m] = challenges[m]
    BY <1>5, <1>6 DEF Taken
  <2> QED
    BY <1>1, <2>1 DEF TablesGrow, Taken
<1>11. Move(s, step)
  BY <1>1, <1>2, <1>5
     DEF Move, Ready, Steps, Answers, Loading, Working, IInv
<1>12. TypeOK'
  BY <1>1, <1>8, <1>11, MoveTypes DEF IInv, TypeOK
<1>13. HandlersFit' /\ LateAreRevoked' /\ RevokedNeverCaptures'
  BY <1>10, <1>11, MoveKeeps
<1>14. HandlersSpent'
  <2>1. ASSUME NEW r \in Slots, r # s, pc'[r] \in Spending, req'[r].route # "upload"
        PROVE  SpentBy(req[r].nonce, req[r].org)'
    <3>1. req'[r] = req[r] /\ pc'[r] = pc[r]
      BY <1>11, <2>1, MoveTypes DEF IInv
    <3>2. SpentBy(req[r].nonce, req[r].org)
      BY <2>1, <3>1 DEF IInv, HandlersSpent
    <3> QED
      BY <1>10, <3>1, <3>2 DEF SpentBy, Taken, TablesGrow
  <2>2. pc'[s] \in Spending => step = "consumed"
    BY <1>11, MoveTypes DEF Spending, IInv
  <2> QED
    BY <1>9, <2>1, <2>2 DEF HandlersSpent
<1>15. DevicesSpent'
  BY <1>1, <1>10, RowKinds DEF IInv, DevicesSpent, TablesGrow, Taken
<1>16. CertificatesSpent'
  BY <1>1, <1>10, GrowKeepsRows DEF IInv, CertificatesSpent
<1>17. OneBacking'
  <2>1. ASSUME step = "consumed"
        PROVE  /\ \A c \in Contents : ~ CertOn(c, n)
               /\ \A k \in Keys : ~ DevOn(k, n)
               /\ \A r \in Slots : ~ Holds(r, n)
    <3>1. ~ Taken(n)
      BY <1>5, <2>1 DEF Taken
    <3>2. \A c \in Contents : ~ CertOn(c, n)
      BY <1>3, <3>1, NullsAreApart DEF IInv, CertificatesSpent, Backed, SpentBy, CertOn
    <3>3. \A k \in Keys : ~ DevOn(k, n)
      BY <3>1 DEF IInv, DevicesSpent, DevOn
    <3>4. ASSUME NEW r \in Slots, Holds(r, n) PROVE FALSE
      <4>1. req[r] \in Requests
        BY <3>4 DEF IInv, HandlersFit, Ready, Holds, Spending, Steps
      <4>2. req[r].route # "upload"
        BY <1>3, <3>4, <4>1, RequestKinds, NullsAreApart DEF Uploads, Holds
      <4> QED
        BY <3>1, <3>4, <4>2 DEF IInv, HandlersSpent, SpentBy, Holds
    <3> QED
      BY <3>2, <3>3, <3>4
  <2>2. ASSUME NEW m \in Nonces
        PROVE  /\ \A c \in Contents : CertOn(c, m)' <=> CertOn(c, m)
               /\ \A k \in Keys : DevOn(k, m)' <=> DevOn(k, m)
               /\ \A r \in Slots \ {s} : Holds(r, m)' <=> Holds(r, m)
               /\ Holds(s, m)' => m = n /\ step = "consumed"
    <3>1. \A r \in Slots \ {s} : Holds(r, m)' <=> Holds(r, m)
      BY <1>11, MoveTypes DEF IInv, Holds
    <3>2. Holds(s, m)' => m = n /\ step = "consumed"
      BY <1>11, <1>5, MoveTypes DEF IInv, Holds, Spending, Answers
    <3> QED
      BY <1>1, <3>1, <3>2 DEF CertOn, DevOn
  <2>3. OneBacking
    BY DEF IInv
  <2> QED
    BY <2>1, <2>2, <2>3 DEF OneBacking
<1>18. CountsAreBounded'
  BY <1>1, <1>11, MoveCounts DEF IInv
<1> QED
  BY <1>12, <1>13, <1>14, <1>15, <1>16, <1>17, <1>18 DEF IInv

(* A handler's challenge passes to the row it writes.                      *)
LEMMA SaveCertificateInvariant ==
  ASSUME IInv, NEW s \in Slots, SaveCertificate(s)
  PROVE  IInv'
<1> DEFINE c == req[s].content
<1>1. /\ pc[s] = "unique" /\ ~ Certified(c)
      /\ certificates' = [certificates EXCEPT ![c] = Certificate(s)]
      /\ UNCHANGED <<clock, challenges, devices, usage>>
  BY DEF SaveCertificate, At
<1>2. PICK step \in {"certified", "saved", "failed"} :
        Go(s, step) /\ (step = "saved" => req[s].route = "capture")
  <2>1. req[s].route \in {"capture", "upload"}
    BY <1>1 DEF IInv, HandlersFit, Ready
  <2> QED
    BY <2>1 DEF SaveCertificate, OrLost, Route
<1>3. Ready(req[s], "unique") /\ req[s] \in Captures \cup Uploads
  BY <1>1, RequestKinds DEF IInv, HandlersFit, Ready, Steps
<1>4. Move(s, step)
  BY <1>1, <1>2, <1>3 DEF Move, Ready, Steps, Answers, Loading, Working
<1>5. TablesGrow
  BY <1>1 DEF TablesGrow, Taken
<1>6. HandlersFit' /\ LateAreRevoked' /\ RevokedNeverCaptures'
  BY <1>4, <1>5, MoveKeeps
<1>7. HandlersSpent' /\ CountsAreBounded'
  BY <1>1, <1>2, <1>4, <1>5, MoveSpent, MoveCounts DEF IInv, Spends, Spending
<1>8. DevicesSpent'
  BY <1>1 DEF IInv, DevicesSpent, Taken
<1>9. c \in Contents
  BY <1>3 DEF Captures, Uploads
<1>10. /\ certificates'[c] = Certificate(s)
       /\ \A d \in Contents \ {c} : certificates'[d] = certificates[d]
  BY <1>1, <1>9 DEF IInv, TypeOK
<1>11. Certificate(s) \in CertificateRows
  BY <1>3 DEF Certificate, CertificateRows, Captures, Uploads
<1>12. TypeOK'
  BY <1>1, <1>4, <1>11, MoveTypes DEF IInv, TypeOK
<1>13. CertificatesSpent'
  <2>1. ASSUME NEW d \in Contents, d # c, certificates'[d].status = "certified"
        PROVE  Backed(certificates[d])'
    BY <1>5, <1>10, <2>1, GrowKeepsRows DEF IInv
  <2>2. ASSUME NEW d \in Contents, d = c PROVE Backed(certificates[d])'
    <3>1. /\ certificates'[d].device = req[s].key /\ certificates'[d].org = req[s].org
          /\ certificates'[d].nonce = req[s].nonce /\ certificates'[d].proven = req[s].proven
      BY <1>10, <2>2 DEF Certificate
    <3>2. CASE req[s] \in Uploads
      <4>1. req[s].key = NoKey /\ req[s].nonce = NoNonce
        BY <3>2 DEF Uploads
      <4> QED
        BY <3>1, <4>1 DEF Backed
    <3>3. CASE req[s] \in Captures
      <4>1. req[s].route = "capture"
        BY <3>3 DEF Captures
      <4>2. Owned(req[s].key, req[s].org) /\ req[s].proven
        BY <1>3, <4>1 DEF Ready, Loading
      <4>3. SpentBy(req[s].nonce, req[s].org)
        BY <1>1, <4>1 DEF IInv, HandlersSpent, Spending
      <4>4. Owned(certificates[d].device, certificates[d].org)'
        BY <1>1, <3>1, <4>2 DEF Owned
      <4>5. SpentBy(certificates[d].nonce, certificates[d].org)'
        BY <1>1, <3>1, <4>3 DEF SpentBy, Taken
      <4> QED
        BY <3>1, <4>2, <4>4, <4>5 DEF Backed
    <3> QED
      BY <1>3, <3>2, <3>3
  <2> QED
    BY <2>1, <2>2 DEF CertificatesSpent
<1>14. OneBacking'
  <2>1. ASSUME NEW n \in Nonces
        PROVE  /\ \A d \in Contents : CertOn(d, n)' => CertOn(d, n) \/ (d = c /\ Holds(s, n))
               /\ \A k \in Keys : DevOn(k, n)' <=> DevOn(k, n)
               /\ \A r \in Slots : Holds(r, n)' => Holds(r, n) /\ r # s
    <3>1. \A d \in Contents : CertOn(d, n)' => CertOn(d, n) \/ (d = c /\ Holds(s, n))
      BY <1>1, <1>10 DEF CertOn, Holds, Certificate, Spending
    <3>2. \A k \in Keys : DevOn(k, n)' <=> DevOn(k, n)
      BY <1>1 DEF DevOn
    <3>3. \A r \in Slots : Holds(r, n)' => Holds(r, n) /\ r # s
      BY <1>2, <1>4, MoveTypes DEF IInv, Holds, Spending
    <3> QED
      BY <3>1, <3>2, <3>3
  <2>2. OneBacking
    BY DEF IInv
  <2> QED
    BY <2>1, <2>2 DEF OneBacking
<1> QED
  BY <1>6, <1>7, <1>8, <1>12, <1>13, <1>14 DEF IInv

LEMMA SaveDeviceInvariant ==
  ASSUME IInv, NEW s \in Slots, SaveDevice(s)
  PROVE  IInv'
<1> DEFINE k == req[s].key
<1>1. /\ pc[s] = "newKey" /\ ~ Enrolled(k)
      /\ devices' = [devices EXCEPT ![k] = Device(s)]
      /\ UNCHANGED <<clock, challenges, certificates, usage>>
  BY DEF SaveDevice, At
<1>2. PICK step \in {"enrolled", "failed"} : Go(s, step)
  BY DEF SaveDevice, OrLost
<1>3. Ready(req[s], "newKey") /\ req[s] \in Enrolments
  BY <1>1, RequestKinds DEF IInv, HandlersFit, Ready, Steps
<1>4. Move(s, step)
  BY <1>1, <1>2 DEF Move, Steps, Answers, Loading, Working
<1>5. k \in Keys /\ req[s].nonce \in Nonces /\ req[s].org \in Orgs
  BY <1>3 DEF Enrolments
<1>6. /\ devices'[k] = Device(s) /\ devices[k].status = "unenrolled"
      /\ \A j \in Keys \ {k} : devices'[j] = devices[j]
  BY <1>1, <1>5, RowKinds DEF IInv, TypeOK
<1>7. TablesGrow
  BY <1>1, <1>6 DEF TablesGrow, Taken, Revoked
<1>8. HandlersFit' /\ LateAreRevoked' /\ RevokedNeverCaptures'
  BY <1>4, <1>7, MoveKeeps
<1>9. HandlersSpent' /\ CountsAreBounded'
  BY <1>1, <1>2, <1>4, <1>7, MoveSpent, MoveCounts DEF IInv, Spends, Spending
<1>10. Device(s) \in DeviceRows
  BY <1>5 DEF Device, DeviceRows
<1>11. TypeOK'
  BY <1>1, <1>4, <1>10, MoveTypes DEF IInv, TypeOK
<1>12. Taken(req[s].nonce)
  <2>1. req[s].route = "enrol"
    BY <1>3 DEF Enrolments
  <2> QED
    BY <1>1, <2>1 DEF IInv, HandlersSpent, SpentBy, Spending
<1>13. DevicesSpent'
  BY <1>1, <1>6, <1>12 DEF IInv, DevicesSpent, Taken, Device
<1>14. CertificatesSpent'
  BY <1>1, <1>7, GrowKeepsRows DEF IInv, CertificatesSpent
<1>15. OneBacking'
  <2>1. ASSUME NEW n \in Nonces
        PROVE  /\ \A c \in Contents : CertOn(c, n)' <=> CertOn(c, n)
               /\ \A j \in Keys : DevOn(j, n)' => DevOn(j, n) \/ (j = k /\ Holds(s, n))
               /\ \A r \in Slots : Holds(r, n)' => Holds(r, n) /\ r # s
    <3>1. \A c \in Contents : CertOn(c, n)' <=> CertOn(c, n)
      BY <1>1 DEF CertOn
    <3>2. \A j \in Keys : DevOn(j, n)' => DevOn(j, n) \/ (j = k /\ Holds(s, n))
      BY <1>1, <1>6 DEF DevOn, Holds, Device, Spending
    <3>3. \A r \in Slots : Holds(r, n)' => Holds(r, n) /\ r # s
      BY <1>2, <1>4, MoveTypes DEF IInv, Holds, Spending
    <3> QED
      BY <3>1, <3>2, <3>3
  <2>2. OneBacking
    BY DEF IInv
  <2> QED
    BY <2>1, <2>2 DEF OneBacking
<1> QED
  BY <1>8, <1>9, <1>11, <1>13, <1>14, <1>15 DEF IInv

LEMMA RevokeInvariant ==
  ASSUME IInv, NEW s \in Slots, RevokeDevice(s)
  PROVE  IInv'
<1> DEFINE k == req[s].key
<1>1. /\ pc[s] = "found" /\ devices' = [devices EXCEPT ![k].status = "revoked"]
      /\ UNCHANGED <<clock, challenges, certificates, usage>>
  BY DEF RevokeDevice, At
<1>2. PICK step \in {"revoked", "failed"} : Go(s, step)
  BY DEF RevokeDevice, OrLost
<1>3. Owned(k, req[s].org)
  BY <1>1 DEF IInv, HandlersFit, Ready
<1>4. Move(s, step)
  BY <1>1, <1>2 DEF Move, Steps, Answers, Loading, Working
<1>5. /\ k \in Keys
      /\ devices[k] \in [status : {"active", "revoked"}, org : Orgs, nonce : Nonces]
  BY <1>3, RowKinds DEF IInv, Owned
<1>6. /\ devices'[k] = [devices[k] EXCEPT !.status = "revoked"]
      /\ \A j \in Keys \ {k} : devices'[j] = devices[j]
  BY <1>1, <1>5 DEF IInv, TypeOK
<1>7. /\ devices'[k] \in [status : {"active", "revoked"}, org : Orgs, nonce : Nonces]
      /\ devices'[k].status = "revoked" /\ devices'[k].org = devices[k].org
      /\ devices'[k].nonce = devices[k].nonce
      /\ devices[k].status = "revoked" => devices'[k] = devices[k]
  BY <1>5, <1>6
<1>8. devices[k].status # "unenrolled"
  BY <1>5
<1>9. TablesGrow
  BY <1>1, <1>6, <1>7, <1>8 DEF TablesGrow, Taken, Revoked
<1>10. HandlersFit' /\ LateAreRevoked' /\ RevokedNeverCaptures'
  BY <1>4, <1>9, MoveKeeps
<1>11. HandlersSpent' /\ CountsAreBounded'
  BY <1>1, <1>2, <1>4, <1>9, MoveSpent, MoveCounts DEF IInv, Spends, Spending
<1>12. devices' \in [Keys -> DeviceRows]
  BY <1>1, <1>6, <1>7 DEF IInv, TypeOK, DeviceRows
<1>13. TypeOK'
  BY <1>1, <1>4, <1>12, MoveTypes DEF IInv, TypeOK
<1>14. DevicesSpent'
  BY <1>1, <1>6, <1>7, <1>8 DEF IInv, DevicesSpent, Taken
<1>15. CertificatesSpent'
  BY <1>1, <1>9, GrowKeepsRows DEF IInv, CertificatesSpent
<1>16. OneBacking'
  <2>1. \A n \in Nonces, r \in Slots : Holds(r, n)' => Holds(r, n)
    BY <1>2, <1>4, MoveHolds DEF IInv, Spends, Spending
  <2>2. \A n \in Nonces, j \in Keys : DevOn(j, n)' => DevOn(j, n)
    BY <1>6, <1>7, <1>8 DEF DevOn
  <2>3. \A n \in Nonces, c \in Contents : CertOn(c, n)' => CertOn(c, n)
    BY <1>1 DEF CertOn
  <2> QED
    BY <2>1, <2>2, <2>3, FewerBackings DEF IInv
<1> QED
  BY <1>10, <1>11, <1>13, <1>14, <1>15, <1>16 DEF IInv

LEMMA RecordInvariant ==
  ASSUME IInv, NEW s \in Slots, RecordUsage(s)
  PROVE  IInv'
<1>1. /\ pc[s] = "saved" /\ Go(s, "certified")
      /\ usage' = [usage EXCEPT ![Counter(s, clock)] = @ + 1]
      /\ UNCHANGED <<clock, challenges, devices, certificates>>
  BY DEF RecordUsage, At
<1>2. Move(s, "certified") /\ Spends(s, "certified")
  BY <1>1 DEF Move, Spends, Spending, Steps, Answers, Loading, Working
<1>3. TablesGrow
  BY <1>1 DEF TablesGrow, Taken
<1>4. HandlersFit' /\ LateAreRevoked' /\ RevokedNeverCaptures'
  BY <1>2, <1>3, MoveKeeps
<1>5. HandlersSpent'
  BY <1>2, <1>3, MoveSpent DEF IInv
<1>6. usage' \in [Orgs \X Media \X Periods -> Nat]
  <2>1. usage \in [Orgs \X Media \X Periods -> Nat]
    BY DEF IInv, TypeOK
  <2> DEFINE u == Counter(s, clock)
  <2>2. usage' = [usage EXCEPT ![u] = usage[u] + 1]
    BY <1>1
  <2>3. u \in Orgs \X Media \X Periods => usage[u] + 1 \in Nat
    BY <2>1
  <2> HIDE DEF u
  <2> QED
    BY <2>1, <2>2, <2>3
<1>7. TypeOK'
  BY <1>1, <1>2, <1>6, MoveTypes DEF IInv, TypeOK
<1>8. DevicesSpent' /\ CertificatesSpent'
  BY <1>1, <1>3, GrowKeepsRows DEF IInv, DevicesSpent, CertificatesSpent, Taken
<1>9. OneBacking'
  BY <1>1, <1>2, MoveHolds, FewerBackings DEF IInv, CertOn, DevOn
<1>10. CountsAreBounded'
  BY RecordCounts DEF IInv
<1> QED
  BY <1>4, <1>5, <1>7, <1>8, <1>9, <1>10 DEF IInv

(* A slot takes a request, or is freed: it holds nothing yet, or no more.  *)
LEMMA SlotInvariant ==
  ASSUME IInv, NEW s \in Slots, (\E q \in Requests : Arrive(s, q)) \/ Finish(s)
  PROVE  IInv'
<1>1. UNCHANGED <<clock, challenges, devices, certificates, usage>>
  BY DEF Arrive, Finish, tables
<1>2. /\ pc' \in [Slots -> {"idle"} \cup Steps \cup Answers]
      /\ req' \in [Slots -> {Nothing} \cup Requests]
      /\ arrived' \in [Slots -> Instants] /\ late' \in [Slots -> BOOLEAN]
      /\ \A r \in Slots \ {s} : pc'[r] = pc[r] /\ req'[r] = req[r] /\ late'[r] = late[r]
      /\ \/ /\ pc'[s] = "arrived" /\ req'[s] \in Requests
            /\ late'[s] => req'[s].route = "capture" /\ Revoked(req'[s].key)
         \/ pc'[s] = "idle" /\ req'[s] = req[s] /\ late'[s] = late[s] /\ pc[s] \in Answers
  <2>1. TypeOK
    BY DEF IInv
  <2>2. ASSUME NEW q \in Requests, Arrive(s, q)
        PROVE  /\ pc' = [pc EXCEPT ![s] = "arrived"] /\ req' = [req EXCEPT ![s] = q]
               /\ arrived' = [arrived EXCEPT ![s] = clock]
               /\ late' = [late EXCEPT ![s] = q.route = "capture" /\ Revoked(q.key)]
    BY <2>2 DEF Arrive
  <2>3. ASSUME Finish(s)
        PROVE  /\ pc' = [pc EXCEPT ![s] = "idle"] /\ pc[s] \in Answers
               /\ UNCHANGED <<req, arrived, late>>
    BY <2>3 DEF Finish, requests
  <2>4. CASE \E q \in Requests : Arrive(s, q)
    <3>1. PICK q \in Requests : Arrive(s, q)
      BY <2>4
    <3> DEFINE gone == q.route = "capture" /\ Revoked(q.key)
    <3>2. gone \in BOOLEAN
      BY DEF Revoked
    <3>3. gone => q.route = "capture" /\ Revoked(q.key)
      OBVIOUS
    <3> HIDE DEF gone
    <3>4. late' = [late EXCEPT ![s] = gone]
      BY <2>2, <3>1 DEF gone
    <3>5. late' \in [Slots -> BOOLEAN] /\ late'[s] = gone
          /\ \A r \in Slots \ {s} : late'[r] = late[r]
      BY <2>1, <3>2, <3>4 DEF TypeOK
    <3> QED
      BY <2>1, <2>2, <3>1, <3>3, <3>5 DEF TypeOK, Steps
  <2>5. CASE Finish(s)
    BY <2>1, <2>3, <2>5 DEF TypeOK
  <2> QED
    BY <2>4, <2>5
<1>3. TypeOK'
  BY <1>1, <1>2 DEF IInv, TypeOK
<1>4. HandlersFit'
  <2>1. ASSUME NEW r \in Slots, r # s PROVE Ready(req[r], pc[r])'
    <3>1. Ready(req[r], pc[r]) /\ pc'[r] = pc[r] /\ req'[r] = req[r]
      BY <1>2, <2>1 DEF IInv, HandlersFit
    <3> QED
      BY <1>1, <3>1 DEF Ready, Owned
  <2>2. ASSUME pc'[s] = "arrived", req'[s] \in Requests PROVE Ready(req[s], pc[s])'
    BY <2>2 DEF Ready, Steps, Loading
  <2>3. ASSUME pc'[s] = "idle", req'[s] = req[s], pc[s] \in Answers
        PROVE  Ready(req[s], pc[s])'
    <3>1. req[s] = Nothing
      BY <2>3 DEF IInv, HandlersFit, Ready, Steps, Answers
    <3> QED
      BY <2>3, <3>1 DEF Ready, Steps, Loading
  <2> QED
    BY <1>2, <2>1, <2>2, <2>3 DEF HandlersFit
<1>5. pc'[s] \notin Spending /\ pc'[s] \notin Working /\ pc'[s] \notin Loading
  BY <1>2 DEF Spending, Working, Loading
<1>6. HandlersSpent'
  BY <1>1, <1>2, <1>5 DEF IInv, HandlersSpent, SpentBy, Taken
<1>7. LateAreRevoked' /\ RevokedNeverCaptures'
  <2>1. ASSUME pc[s] \in Answers PROVE ~ late[s]
    BY <2>1 DEF IInv, LateAreRevoked, Steps, Answers
  <2>2. LateAreRevoked'
    BY <1>1, <1>2, <2>1 DEF IInv, LateAreRevoked, Revoked, Steps, TypeOK
  <2>3. RevokedNeverCaptures'
    BY <1>2, <1>5 DEF IInv, RevokedNeverCaptures, Loading
  <2> QED
    BY <2>2, <2>3
<1>8. DevicesSpent' /\ CertificatesSpent'
  BY <1>1 DEF IInv, DevicesSpent, CertificatesSpent, Backed, Owned, SpentBy, Taken
<1>9. \A n \in Nonces, r \in Slots : Holds(r, n)' => Holds(r, n)
  BY <1>2, <1>5 DEF Holds
<1>10. OneBacking'
  BY <1>1, <1>9, FewerBackings DEF IInv, CertOn, DevOn
<1>11. \A o \in Orgs, m \in Media : Past(o, m)' = Past(o, m)
  <2>1. pc[s] \notin Working
    BY DEF Arrive, Finish, At, Working, Loading, Answers
  <2> QED
    BY <1>2, <1>5, <2>1 DEF Past
<1>12. CountsAreBounded'
  BY <1>1, <1>11 DEF IInv, CountsAreBounded
<1> QED
  BY <1>3, <1>4, <1>6, <1>7, <1>8, <1>10, <1>12 DEF IInv

(* What happens to the tables alone, or to the clock.                      *)
LEMMA OutsideInvariant ==
  ASSUME IInv, UNCHANGED <<pc, req, arrived, late, devices, usage>>, TypeOK', TablesGrow,
         \A c \in Contents : certificates'[c] \in {certificates[c], Uncertified},
         clock' = clock \/ clock' = clock + 1
  PROVE  IInv'
<1>1. HandlersFit'
  <2>1. ASSUME NEW r \in Slots PROVE Ready(req[r], pc[r])'
    BY DEF IInv, HandlersFit, Ready, Owned
  <2> QED
    BY <2>1 DEF HandlersFit
<1>2. HandlersSpent'
  <2>1. ASSUME NEW r \in Slots, SpentBy(req[r].nonce, req[r].org)
        PROVE  SpentBy(req[r].nonce, req[r].org)'
    BY <2>1 DEF SpentBy, Taken, TablesGrow
  <2> QED
    BY <2>1 DEF IInv, HandlersSpent
<1>3. LateAreRevoked' /\ RevokedNeverCaptures'
  BY DEF IInv, LateAreRevoked, RevokedNeverCaptures, Revoked
<1>4. DevicesSpent'
  BY RowKinds DEF IInv, DevicesSpent, Taken, TablesGrow
<1>5. CertificatesSpent'
  <2>1. ASSUME NEW c \in Contents, certificates'[c].status = "certified"
        PROVE  Backed(certificates[c])'
    <3>1. certificates'[c] = certificates[c]
      BY <2>1 DEF Uncertified
    <3> QED
      BY <2>1, <3>1, GrowKeepsRows DEF IInv
  <2> QED
    BY <2>1 DEF CertificatesSpent
<1>6. OneBacking'
  <2>1. \A n \in Nonces, c \in Contents : CertOn(c, n)' => CertOn(c, n)
    BY DEF CertOn, Uncertified
  <2> QED
    BY <2>1, FewerBackings DEF IInv, DevOn, Holds
<1>7. \A o \in Orgs, m \in Media : Past(o, m)' = Past(o, m)
  BY DEF Past
<1>8. CountsAreBounded'
  <2>1. clock \in Nat /\ BillingPeriod(clock) \in Nat /\ BillingPeriod(clock') \in Nat
    BY FiniteTime, PeriodsFollow DEF IInv, TypeOK, Instants
  <2>2. BillingPeriod(clock) <= BillingPeriod(clock')
    BY <2>1, PeriodsFollow
  <2>3. ASSUME NEW o \in Orgs, NEW m \in Media, Quota[<<o, m>>] # Unlimited, NEW p \in Periods
        PROVE  /\ p > BillingPeriod(clock') => usage[<<o, m, p>>] = 0
               /\ p = BillingPeriod(clock') =>
                    usage[<<o, m, p>>] + Cardinality(Past(o, m)) <= Ceiling(Quota[<<o, m>>])
    <3>1. Quota[<<o, m>>] \in Nat /\ p \in Nat
      BY <2>1, <2>3, PlansAreQuotas DEF Unlimited, Periods
    <3>2. Past(o, m) \in SUBSET Slots
      BY DEF Past
    <3>3. /\ Quota[<<o, m>>] = 0 => Past(o, m) = {}
          /\ p > BillingPeriod(clock) => usage[<<o, m, p>>] = 0
          /\ p = BillingPeriod(clock) =>
               usage[<<o, m, p>>] + Cardinality(Past(o, m)) <= Ceiling(Quota[<<o, m>>])
      BY <2>3 DEF IInv, CountsAreBounded
    <3>4. 0 + Cardinality(Past(o, m)) <= Ceiling(Quota[<<o, m>>])
      <4>1. CASE Quota[<<o, m>>] = 0
        BY <3>3, <4>1, FS_EmptySet DEF Ceiling
      <4>2. CASE Quota[<<o, m>>] > 0
        BY <3>1, <3>2, <4>2, JoinFits
      <4> QED
        BY <3>1, <4>1, <4>2
    <3> QED
      BY <2>1, <2>2, <3>1, <3>3, <3>4
  <2> QED
    BY <1>7, <2>3 DEF IInv, CountsAreBounded
<1> QED
  BY <1>1, <1>2, <1>3, <1>4, <1>5, <1>6, <1>8 DEF IInv

LEMMA TableInvariant ==
  ASSUME IInv,
         \/ \E n \in Nonces, o \in Orgs : IssueNonce(n, o)
         \/ \E c \in Contents : DeleteCertificate(c)
         \/ \E before \in 0..clock : DeleteExpired(before)
         \/ Tick \/ UNCHANGED vars
  PROVE  IInv'
<1>1. ASSUME NEW n \in Nonces, NEW o \in Orgs, IssueNonce(n, o) PROVE IInv'
  <2>1. /\ challenges[n] = Unissued
        /\ challenges' = [challenges EXCEPT ![n] = Challenge("open", o, clock)]
        /\ UNCHANGED <<clock, devices, certificates, usage, pc, req, arrived, late>>
    BY <1>1 DEF IssueNonce, requests
  <2>2. Challenge("open", o, clock) \in ChallengeRows
    BY PositiveTTL, FiniteTime DEF Challenge, ChallengeRows, IInv, TypeOK, Instants
  <2>3. TypeOK'
    BY <2>1, <2>2 DEF IInv, TypeOK
  <2>4. TablesGrow
    BY <2>1 DEF TablesGrow, Taken, Unissued, IInv, TypeOK
  <2> QED
    BY <2>1, <2>3, <2>4, OutsideInvariant
<1>2. ASSUME NEW c \in Contents, DeleteCertificate(c) PROVE IInv'
  <2>1. /\ certificates' = [certificates EXCEPT ![c] = Uncertified]
        /\ UNCHANGED <<clock, challenges, devices, usage, pc, req, arrived, late>>
    BY <1>2 DEF DeleteCertificate, requests
  <2>2. TypeOK'
    BY <2>1 DEF IInv, TypeOK, CertificateRows
  <2>3. TablesGrow
    BY <2>1 DEF TablesGrow, Taken
  <2>4. \A d \in Contents : certificates'[d] \in {certificates[d], Uncertified}
    BY <2>1 DEF IInv, TypeOK
  <2> QED
    BY <2>1, <2>2, <2>3, <2>4, OutsideInvariant
<1>3. ASSUME NEW before \in 0..clock, DeleteExpired(before) PROVE IInv'
  <2>1. /\ challenges' = [n \in Nonces |-> IF Issued(n) /\ challenges[n].expires < before
                                          THEN Pruned ELSE challenges[n]]
        /\ UNCHANGED <<clock, devices, certificates, usage, pc, req, arrived, late>>
    BY <1>3 DEF DeleteExpired, requests
  <2>2. TypeOK'
    BY <2>1 DEF IInv, TypeOK, ChallengeRows
  <2>3. TablesGrow
    BY <2>1 DEF TablesGrow, Taken, Pruned
  <2> QED
    BY <2>1, <2>2, <2>3, OutsideInvariant
<1>4. CASE Tick
  <2>1. clock' = clock + 1 /\ clock < MaxTime
        /\ UNCHANGED <<challenges, devices, certificates, usage, pc, req, arrived, late>>
    BY <1>4 DEF Tick, tables, requests
  <2>2. TypeOK'
    BY <2>1, FiniteTime DEF IInv, TypeOK, Instants
  <2>3. TablesGrow
    BY <2>1 DEF TablesGrow, Taken
  <2> QED
    BY <2>1, <2>2, <2>3, OutsideInvariant
<1>5. CASE UNCHANGED vars
  <2>1. UNCHANGED <<clock, challenges, devices, certificates, usage, pc, req, arrived, late>>
    BY <1>5 DEF vars
  <2>2. TypeOK' /\ TablesGrow
    BY <2>1 DEF IInv, TypeOK, TablesGrow, Taken
  <2> QED
    BY <2>1, <2>2, OutsideInvariant
<1> QED
  BY <1>1, <1>2, <1>3, <1>4, <1>5

THEOREM NextIInv == IInv /\ [Next]_vars => IInv'
<1> SUFFICES ASSUME IInv, [Next]_vars PROVE IInv'
  OBVIOUS
<1>1. ASSUME NEW s \in Slots, NEW q \in Requests, Arrive(s, q) PROVE IInv'
  BY <1>1, SlotInvariant
<1>2. ASSUME NEW s \in Slots, Finish(s) PROVE IInv'
  BY <1>2, SlotInvariant
<1>3. ASSUME NEW s \in Slots, ConsumeNonce(s) PROVE IInv'
  BY <1>3, ConsumeInvariant
<1>4. ASSUME NEW s \in Slots, Capture(s) PROVE IInv'
  BY <1>4, ReadsInvariant, SaveCertificateInvariant, RecordInvariant DEF Capture, Reads
<1>5. ASSUME NEW s \in Slots, Enrol(s) PROVE IInv'
  BY <1>5, ReadsInvariant, SaveDeviceInvariant DEF Enrol, Reads
<1>6. ASSUME NEW s \in Slots, Revoke(s) PROVE IInv'
  BY <1>6, ReadsInvariant, RevokeInvariant DEF Revoke, Reads
<1>7. ASSUME NEW s \in Slots, Fail(s) PROVE IInv'
  BY <1>7, ReadsInvariant DEF Reads
<1> QED
  BY <1>1, <1>2, <1>3, <1>4, <1>5, <1>6, <1>7, TableInvariant DEF Next

-----------------------------------------------------------------------------
(* What the invariant says, in the words of CaptureFlow.                   *)

LEMMA Invariant == Spec => []IInv
BY InitIInv, NextIInv, PTL DEF Spec

(* Every variable holds values the code can produce.                       *)
THEOREM CaptureTypeCorrect == Spec => []TypeOK
<1>1. IInv => TypeOK
  BY DEF IInv
<1> QED
  BY <1>1, Invariant, PTL

(***************************************************************************)
(* No challenge of postgres_nonce.go backs two things, however many        *)
(* requests present it and whatever is lost, retried or pruned meanwhile.  *)
(***************************************************************************)
THEOREM ChallengesBackOneThing == Spec => []ChallengeBacksOneThing
<1>1. ASSUME IInv, NEW n \in Nonces, NEW a \in Backings(n), NEW b \in Backings(n)
      PROVE  a = b
  <2> DEFINE Cert(x) == \E c \in Contents : CertOn(c, n) /\ x = <<"certificate", c>>
             Dev(x)  == \E k \in Keys : DevOn(k, n) /\ x = <<"device", k>>
             Hand(x) == \E s \in Slots : Holds(s, n) /\ x = <<"handler", s>>
  <2>1. ASSUME NEW x \in Backings(n) PROVE Cert(x) \/ Dev(x) \/ Hand(x)
    BY <1>1, <2>1, RowKinds DEF Backings, CertOn, DevOn, Holds, IInv
  <2>2. OneBacking
    BY <1>1 DEF IInv
  <2>3. ASSUME NEW x, NEW y, Cert(x), Cert(y) PROVE x = y
    BY <2>2, <2>3 DEF OneBacking
  <2>4. ASSUME NEW x, NEW y, Dev(x), Dev(y) PROVE x = y
    BY <2>2, <2>4 DEF OneBacking
  <2>5. ASSUME NEW x, NEW y, Hand(x), Hand(y) PROVE x = y
    BY <2>2, <2>5 DEF OneBacking
  <2>6. ASSUME NEW x, NEW y
        PROVE  ~ (Cert(x) /\ Dev(y)) /\ ~ (Cert(x) /\ Hand(y)) /\ ~ (Dev(x) /\ Hand(y))
    BY <2>2 DEF OneBacking
  <2> QED
    BY <2>1, <2>3, <2>4, <2>5, <2>6
<1>2. IInv => ChallengeBacksOneThing
  BY <1>1 DEF ChallengeBacksOneThing
<1> QED
  BY <1>2, Invariant, PTL

(***************************************************************************)
(* What a certificate of the gated path says of its origin holds.          *)
(***************************************************************************)
THEOREM CertificatesHaveProvenance == Spec => []CertificateProvenance
<1>1. ASSUME IInv, NEW c \in Contents, Attested(c)
      PROVE  LET cert == certificates[c] IN
             /\ cert.proven
             /\ Enrolled(cert.device) /\ devices[cert.device].org = cert.org
             /\ \/ challenges[cert.nonce] = Pruned
                \/ challenges[cert.nonce].state = "spent" /\ challenges[cert.nonce].org = cert.org
  <2>1. certificates[c].status = "certified" /\ certificates[c].device # NoKey
    BY <1>1, RowKinds DEF Attested, IInv
  <2>2. /\ Owned(certificates[c].device, certificates[c].org) /\ certificates[c].proven
        /\ SpentBy(certificates[c].nonce, certificates[c].org)
    BY <1>1, <2>1 DEF IInv, CertificatesSpent, Backed
  <2>3. Enrolled(certificates[c].device)
    BY <1>1, <2>2, RowKinds DEF IInv, Owned
  <2>4. challenges[certificates[c].nonce].state = "pruned" =>
          challenges[certificates[c].nonce] = Pruned
    BY <1>1, <2>2, RowKinds DEF IInv, SpentBy
  <2> QED
    BY <2>2, <2>3, <2>4 DEF Owned, SpentBy, Taken
<1>2. IInv => CertificateProvenance
  BY <1>1 DEF CertificateProvenance
<1> QED
  BY <1>2, Invariant, PTL

(* A capture that arrives after its device was revoked is never certified. *)
THEOREM RevocationIsImmediate == Spec => []RevokedNeverCaptures
<1>1. IInv => RevokedNeverCaptures
  BY DEF IInv
<1> QED
  BY <1>1, Invariant, PTL

(***************************************************************************)
(* Captures that run at once overshoot an allowance by fewer than the      *)
(* requests the servers take at a time: usage.go checks before the work    *)
(* and counts after it.                                                    *)
(***************************************************************************)
THEOREM OvershootBounded == Spec => []OvershootIsBounded
<1>1. ASSUME IInv, NEW u \in DOMAIN usage, Quota[<<u[1], u[2]>>] # Unlimited
      PROVE  usage[u] <= Ceiling(Quota[<<u[1], u[2]>>])
  <2>1. u \in Orgs \X Media \X Periods
    BY <1>1 DEF IInv, TypeOK
  <2>2. PICK o \in Orgs, m \in Media, p \in Periods : u = <<o, m, p>>
    BY <2>1
  <2> QED
    BY <1>1, <2>2 DEF IInv, CountsAreBounded
<1>2. IInv => OvershootIsBounded
  BY <1>1 DEF OvershootIsBounded, Ceiling
<1> QED
  BY <1>2, Invariant, PTL

(***************************************************************************)
(* A revoked device stays revoked, and its tenant's, whatever enrolments   *)
(* and revocations of postgres_device.go interleave.                       *)
(***************************************************************************)
THEOREM RevokedForGood == Spec => RevocationIsFinal
<1>1. ASSUME IInv, [Next]_vars, NEW k \in Keys, Revoked(k) PROVE devices'[k] = devices[k]
  <2>1. UNCHANGED devices \/ \E s \in Slots : SaveDevice(s) \/ RevokeDevice(s)
    <3>1. ASSUME NEW s \in Slots, Reads(s) PROVE UNCHANGED devices
      BY <1>1, <3>1, ReadsMove DEF tables, IInv
    <3>2. ASSUME NEW s \in Slots, Capture(s) \/ Enrol(s) \/ Revoke(s) \/ Fail(s)
          PROVE  UNCHANGED devices \/ SaveDevice(s) \/ RevokeDevice(s)
      <4>1. SaveCertificate(s) \/ RecordUsage(s) => UNCHANGED devices
        BY DEF SaveCertificate, RecordUsage
      <4> QED
        BY <3>1, <3>2, <4>1 DEF Capture, Enrol, Revoke, Reads
    <3>3. ASSUME NEW s \in Slots, NEW q \in Requests, Arrive(s, q) PROVE UNCHANGED devices
      BY <3>3 DEF Arrive, tables
    <3>4. ASSUME NEW s \in Slots, Finish(s) \/ ConsumeNonce(s) PROVE UNCHANGED devices
      BY <3>4 DEF Finish, ConsumeNonce, tables
    <3>5. ASSUME NEW n \in Nonces, NEW o \in Orgs, IssueNonce(n, o) PROVE UNCHANGED devices
      BY <3>5 DEF IssueNonce
    <3>6. ASSUME NEW c \in Contents, DeleteCertificate(c) PROVE UNCHANGED devices
      BY <3>6 DEF DeleteCertificate
    <3>7. ASSUME NEW before \in 0..clock, DeleteExpired(before) PROVE UNCHANGED devices
      BY <3>7 DEF DeleteExpired
    <3>8. Tick \/ UNCHANGED vars => UNCHANGED devices
      BY DEF Tick, tables, vars
    <3> QED
      BY <1>1, <3>2, <3>3, <3>4, <3>5, <3>6, <3>7, <3>8 DEF Next
  <2>2. ASSUME NEW s \in Slots, SaveDevice(s) PROVE devices'[k] = devices[k]
    <3>1. devices' = [devices EXCEPT ![req[s].key] = Device(s)] /\ ~ Enrolled(req[s].key)
      BY <2>2 DEF SaveDevice
    <3>2. Enrolled(k)
      BY <1>1 DEF Revoked, Enrolled, Unenrolled
    <3> QED
      BY <1>1, <3>1, <3>2 DEF IInv, TypeOK
  <2>3. ASSUME NEW s \in Slots, RevokeDevice(s) PROVE devices'[k] = devices[k]
    <3>1. devices' = [devices EXCEPT ![req[s].key].status = "revoked"]
      BY <2>3 DEF RevokeDevice
    <3>2. devices[k] \in [status : {"active", "revoked"}, org : Orgs, nonce : Nonces]
      BY <1>1, RowKinds DEF IInv, Revoked
    <3> QED
      BY <1>1, <3>1, <3>2 DEF IInv, TypeOK, Revoked
  <2> QED
    BY <2>1, <2>2, <2>3
<1>2. IInv /\ [Next]_vars =>
        [\A k \in Keys : Revoked(k) => devices'[k] = devices[k]]_devices
  BY <1>1
<1> QED
  BY <1>2, Invariant, PTL DEF Spec, RevocationIsFinal
-----------------------------------------------------------------------------
(* What is billed, as a sum over the months.                               *)

(* The recursion of MapThenSumSet, for the counters u of one tenant and    *)
(* one operation.                                                          *)
SumSteps(g, u, o, m) ==
  g = [S \in SUBSET Periods |->
         IF S = {} THEN 0
         ELSE LET p == CHOOSE x \in S : TRUE IN u[<<o, m, p>>] + g[S \ {p}]]

Counters == [Orgs \X Media \X Periods -> Nat]

(* v counts k more than u in month q, and the same in the others.          *)
Counts(v, u, o, m, q, k) ==
  \A p \in Periods : v[<<o, m, p>>] = u[<<o, m, p>>] + (IF p = q THEN k ELSE 0)
NoCounts(u, o, m) == \A p \in Periods : u[<<o, m, p>>] = 0

(* Induction on the naturals, stated about a set.                          *)
LEMMA SetInduction ==
  ASSUME NEW T, T \subseteq Nat, 0 \in T, \A n \in T : n + 1 \in T
  PROVE  T = Nat
<1> SUFFICES ASSUME Nat \ T # {} PROVE FALSE
  OBVIOUS
<1> DEFINE Missing == Nat \ T
<1>1. PICK x \in Missing : \A y \in Missing : ~ (<<y, x>> \in OpToRel(<, Nat))
  BY NatLessThanWellFounded, WFMin
<1>2. \A y \in Missing : ~ (y < x)
  BY <1>1 DEF OpToRel
<1>3. x - 1 \in Missing
  BY SMT
<1> QED
  BY <1>2, <1>3, SMT

LEMMA PeriodsAreFinite == IsFiniteSet(Periods) /\ Cardinality(Periods) \in Nat
<1>1. BillingPeriod(MaxTime) \in Nat
  BY FiniteTime, PeriodsFollow
<1> QED
  BY <1>1, FS_Interval, FS_CardinalityType DEF Periods

(* Subsets by size: the smaller ones are what is left when one month is    *)
(* taken out.                                                              *)
LEMMA OneMonthLess ==
  ASSUME NEW S \in SUBSET Periods, S # {}
  PROVE  LET p == CHOOSE x \in S : TRUE IN
         /\ p \in S /\ S \ {p} \in SUBSET Periods
         /\ Cardinality(S) \in Nat /\ Cardinality(S \ {p}) = Cardinality(S) - 1
<1> DEFINE p == CHOOSE x \in S : TRUE
<1>1. p \in S
  OBVIOUS
<1> HIDE DEF p
<1>2. IsFiniteSet(S)
  BY PeriodsAreFinite, FS_Subset
<1>3. Cardinality(S) \in Nat /\ Cardinality(S \ {p}) = Cardinality(S) - 1
  BY <1>1, <1>2, FS_RemoveElement, FS_CardinalityType
<1> QED
  BY <1>1, <1>3 DEF p

LEMMA NoMonthNothing ==
  ASSUME NEW S \in SUBSET Periods
  PROVE  Cardinality(S) \in Nat /\ (Cardinality(S) = 0 <=> S = {})
<1>1. IsFiniteSet(S)
  BY PeriodsAreFinite, FS_Subset
<1> QED
  BY <1>1, FS_EmptySet, FS_CardinalityType

LEMMA SumExists ==
  ASSUME NEW u, NEW o, NEW m
  PROVE  \E g : SumSteps(g, u, o, m)
<1> DEFINE Sum(g, S) == IF S = {} THEN 0
                        ELSE LET p == CHOOSE x \in S : TRUE IN u[<<o, m, p>>] + g[S \ {p}]
           Good(g, n) == \A S \in SUBSET Periods : Cardinality(S) <= n => g[S] = Sum(g, S)
           T == {n \in Nat : \E g : Good(g, n)}
<1>1. 0 \in T
  <2> DEFINE g == [S \in SUBSET Periods |-> 0]
  <2>1. Good(g, 0)
    BY NoMonthNothing
  <2> QED
    BY <2>1
<1>2. ASSUME NEW n \in T PROVE n + 1 \in T
  <2>1. PICK g : Good(g, n)
    OBVIOUS
  <2> DEFINE h == [S \in SUBSET Periods |-> Sum(g, S)]
  <2>2. ASSUME NEW S \in SUBSET Periods, Cardinality(S) <= n + 1 PROVE h[S] = Sum(h, S)
    <3>1. CASE S = {}
      BY <3>1
    <3>2. CASE S # {}
      <4> DEFINE p == CHOOSE x \in S : TRUE
                 R == S \ {p}
      <4>1. R \in SUBSET Periods /\ Cardinality(R) <= n
        BY <2>2, <3>2, OneMonthLess
      <4>2. g[R] = Sum(g, R)
        BY <2>1, <4>1
      <4>3. h[R] = Sum(g, R)
        BY <4>1
      <4>4. /\ Sum(g, S) = u[<<o, m, p>>] + g[R]
            /\ Sum(h, S) = u[<<o, m, p>>] + h[R]
        BY <3>2
      <4>5. h[S] = Sum(g, S)
        OBVIOUS
      <4> HIDE DEF Sum, h, R, p
      <4> QED
        BY <4>2, <4>3, <4>4, <4>5
    <3> QED
      BY <3>1, <3>2
  <2> HIDE DEF h, Sum
  <2> QED
    BY <2>2
<1> HIDE DEF T
<1>3. T = Nat
  BY <1>1, <1>2, SetInduction DEF T
<1>4. PICK g : Good(g, Cardinality(Periods))
  BY <1>3, PeriodsAreFinite DEF T
<1> DEFINE h == [S \in SUBSET Periods |-> g[S]]
<1>5. ASSUME NEW S \in SUBSET Periods PROVE h[S] = Sum(h, S)
  <2>1. Cardinality(S) <= Cardinality(Periods)
    BY PeriodsAreFinite, FS_Subset
  <2>2. g[S] = Sum(g, S)
    BY <1>4, <2>1
  <2>3. S # {} => S \ {CHOOSE x \in S : TRUE} \in SUBSET Periods
    OBVIOUS
  <2> QED
    BY <2>2, <2>3
<1>6. h = [S \in SUBSET Periods |-> Sum(h, S)]
  <2> HIDE DEF Sum
  <2> QED
    BY <1>5
<1> QED
  BY <1>6 DEF SumSteps

(* What the recursion says of a set of months.                             *)
LEMMA SumDef ==
  ASSUME NEW g, NEW u, NEW o, NEW m, SumSteps(g, u, o, m), NEW S \in SUBSET Periods
  PROVE  /\ S = {} => g[S] = 0
         /\ S # {} => LET p == CHOOSE x \in S : TRUE IN
                      g[S] = u[<<o, m, p>>] + g[S \ {p}]
BY DEF SumSteps

(* Counting k more in one month adds k to the sum; a sum is a number, and  *)
(* nothing where nothing was counted.                                      *)
LEMMA SumFollows ==
  ASSUME NEW u \in Counters, NEW v \in Counters, NEW o \in Orgs, NEW m \in Media,
         NEW q \in Periods, NEW k \in Nat,
         Counts(v, u, o, m, q, k),
         NEW g, SumSteps(g, u, o, m),
         NEW h, SumSteps(h, v, o, m)
  PROVE  /\ g[Periods] \in Nat /\ h[Periods] = g[Periods] + k
         /\ NoCounts(u, o, m) => g[Periods] = 0
<1> DEFINE More(S) == IF q \in S THEN k ELSE 0
           Fits(S) == /\ g[S] \in Nat /\ h[S] = g[S] + More(S)
                      /\ NoCounts(u, o, m) => g[S] = 0
           T == {n \in Nat : \A S \in SUBSET Periods : Cardinality(S) <= n => Fits(S)}
<1>1. Fits({})
  <2>1. g[{}] = 0 /\ h[{}] = 0
    <3>1. {} \in SUBSET Periods
      OBVIOUS
    <3> QED
      BY <3>1, SumDef, Zenon
  <2> QED
    BY <2>1
<1>2. ASSUME NEW n \in T PROVE n + 1 \in T
  <2>1. n \in Nat /\ \A S \in SUBSET Periods : Cardinality(S) <= n => Fits(S)
    OBVIOUS
  <2>2. ASSUME NEW S \in SUBSET Periods, Cardinality(S) <= n + 1 PROVE Fits(S)
    <3>1. CASE S = {}
      BY <1>1, <3>1
    <3>2. CASE S # {}
      <4> DEFINE p == CHOOSE x \in S : TRUE
                 R == S \ {p}
      <4>1. /\ p \in S /\ R \in SUBSET Periods
            /\ Cardinality(S) \in Nat /\ Cardinality(R) = Cardinality(S) - 1
        BY <3>2, OneMonthLess
      <4>2. g[S] = u[<<o, m, p>>] + g[R] /\ h[S] = v[<<o, m, p>>] + h[R]
        BY <3>2, SumDef
      <4> HIDE DEF p
      <4>3. Fits(R)
        BY <2>1, <2>2, <4>1
      <4>4. /\ p \in Periods /\ u[<<o, m, p>>] \in Nat
            /\ v[<<o, m, p>>] = u[<<o, m, p>>] + (IF p = q THEN k ELSE 0)
        BY <4>1 DEF Counters, Counts
      <4>5. More(S) = More(R) + (IF p = q THEN k ELSE 0) /\ More(R) \in Nat
        BY <4>1
      <4>6. g[R] \in Nat /\ h[R] = g[R] + More(R) /\ (NoCounts(u, o, m) => g[R] = 0)
        BY <4>3
      <4>8. NoCounts(u, o, m) => u[<<o, m, p>>] = 0
        BY <4>4 DEF NoCounts
      <4> HIDE DEF R, More
      <4>7. g[S] \in Nat /\ h[S] = g[S] + More(S) /\ (NoCounts(u, o, m) => g[S] = 0)
        BY <4>2, <4>4, <4>5, <4>6, <4>8
      <4> QED
        BY <4>7
    <3> QED
      BY <3>1, <3>2
  <2> HIDE DEF Fits
  <2> QED
    BY <2>1, <2>2
<1>3. 0 \in T
  <2> HIDE DEF Fits
  <2> QED
    BY <1>1, NoMonthNothing
<1> HIDE DEF T
<1>5. T = Nat
  BY <1>2, <1>3, SetInduction DEF T
<1>4. Fits(Periods)
  <2> HIDE DEF Fits
  <2> QED
    BY <1>5, PeriodsAreFinite DEF T
<1> QED
  BY <1>4

(* The sum the bill is, of any counters.                                   *)
BilledOf(u, o, m) == MapThenSumSet(LAMBDA p : u[<<o, m, p>>], Periods)

LEMMA SumIsFold ==
  ASSUME NEW u, NEW o, NEW m
  PROVE  \E g : SumSteps(g, u, o, m) /\ g[Periods] = BilledOf(u, o, m)
<1>1. \E g : SumSteps(g, u, o, m)
  BY SumExists
<1> QED
  BY <1>1 DEF SumSteps, BilledOf, MapThenSumSet, MapThenFoldSet

LEMMA SumGrows ==
  ASSUME NEW u \in Counters, NEW v \in Counters, NEW o \in Orgs, NEW m \in Media,
         NEW q \in Periods, NEW k \in Nat,
         Counts(v, u, o, m, q, k)
  PROVE  BilledOf(u, o, m) \in Nat /\ BilledOf(v, o, m) = BilledOf(u, o, m) + k
<1>1. PICK g : SumSteps(g, u, o, m) /\ g[Periods] = BilledOf(u, o, m)
  BY SumIsFold
<1>2. PICK h : SumSteps(h, v, o, m) /\ h[Periods] = BilledOf(v, o, m)
  BY SumIsFold
<1>3. g[Periods] \in Nat /\ h[Periods] = g[Periods] + k
  BY <1>1, <1>2, SumFollows
<1> QED
  BY <1>1, <1>2, <1>3

LEMMA BilledNow ==
  ASSUME NEW o, NEW m
  PROVE  Billed(o, m) = BilledOf(usage, o, m) /\ Billed(o, m)' = BilledOf(usage', o, m)
BY DEF Billed, BilledOf, MapThenSumSet, MapThenFoldSet

(* What one more count does to the bill.                                   *)
LEMMA BillGrows ==
  ASSUME usage \in Counters, usage' \in Counters, NEW o \in Orgs, NEW m \in Media,
         NEW q \in Periods, NEW k \in Nat,
         Counts(usage', usage, o, m, q, k)
  PROVE  Billed(o, m) \in Nat /\ Billed(o, m)' = Billed(o, m) + k
<1>1. BilledOf(usage, o, m) \in Nat /\ BilledOf(usage', o, m) = BilledOf(usage, o, m) + k
  BY SumGrows
<1> QED
  BY <1>1, BilledNow

LEMMA NothingBilled ==
  ASSUME usage \in Counters, NEW o \in Orgs, NEW m \in Media,
         NoCounts(usage, o, m)
  PROVE  Billed(o, m) = 0
<1>1. PICK g : SumSteps(g, usage, o, m) /\ g[Periods] = BilledOf(usage, o, m)
  BY SumIsFold
<1>2. 0 \in Periods
  BY FiniteTime, PeriodsFollow DEF Periods
<1>3. Counts(usage, usage, o, m, 0, 0)
  BY DEF Counts, Counters
<1>4. g[Periods] = 0
  BY <1>1, <1>2, <1>3, SumFollows
<1> QED
  BY <1>1, <1>4, BilledNow

-----------------------------------------------------------------------------
(* The bill.                                                               *)

MadeBy(o, m) ==
  {c \in Contents : Attested(c) /\ certificates[c].org = o /\ certificates[c].media = m}
UnbilledBy(o, m) == {s \in Slots : At(s, "saved") /\ req[s].org = o /\ req[s].media = m}

(* Finitely many files have been certified so far, of however many there   *)
(* may be, so that the certificates of a tenant can be counted.            *)
FewCertified == IsFiniteSet({c \in Contents : Certified(c)})

LEMMA BillIsCounted ==
  ASSUME FewCertified, NEW o \in Orgs, NEW m \in Media
  PROVE  /\ IsFiniteSet(MadeBy(o, m)) /\ Made(o, m) = Cardinality(MadeBy(o, m))
         /\ IsFiniteSet(UnbilledBy(o, m)) /\ Unbilled(o, m) = Cardinality(UnbilledBy(o, m))
         /\ Made(o, m) \in Nat /\ Unbilled(o, m) \in Nat
<1> DEFINE All == {c \in Contents : Certified(c)}
<1>1. IsFiniteSet(MadeBy(o, m))
  <2>1. IsFiniteSet(All) /\ MadeBy(o, m) \in SUBSET All
    BY DEF FewCertified, MadeBy, Attested
  <2> HIDE DEF All
  <2> QED
    BY <2>1, FS_Subset
<1>2. IsFiniteSet(UnbilledBy(o, m))
  <2>1. UnbilledBy(o, m) \in SUBSET Slots
    BY DEF UnbilledBy
  <2> QED
    BY <2>1, FiniteSlots, FS_Subset
<1>3. Made(o, m) = Cardinality(MadeBy(o, m)) /\ Unbilled(o, m) = Cardinality(UnbilledBy(o, m))
  BY DEF Made, MadeBy, Unbilled, UnbilledBy
<1> QED
  BY <1>1, <1>2, <1>3, FS_CardinalityType

(* Counters that stand still leave the bill as it is.                      *)
LEMMA BillStands ==
  ASSUME TypeOK, UNCHANGED usage, NEW o \in Orgs, NEW m \in Media
  PROVE  Billed(o, m) \in Nat /\ Billed(o, m)' = Billed(o, m)
<1>1. 0 \in Periods
  BY FiniteTime, PeriodsFollow DEF Periods
<1>2. usage \in Counters /\ usage' \in Counters
  BY DEF TypeOK, Counters
<1>3. Counts(usage', usage, o, m, 0, 0)
  BY DEF TypeOK, Counts
<1>4. Billed(o, m) \in Nat /\ Billed(o, m)' = Billed(o, m) + 0
  BY <1>1, <1>2, <1>3, BillGrows
<1> QED
  BY <1>4

(* A step that makes no certificate and counts none, and neither saves nor *)
(* finishes a capture.                                                     *)
BillUntouched ==
  /\ UNCHANGED usage
  /\ \A c \in Contents : Attested(c)' <=> Attested(c)
  /\ \A c \in Contents : certificates'[c] = certificates[c] \/ ~ Attested(c)
  /\ FewCertified'
  /\ \A s \in Slots : pc'[s] = "saved" <=> pc[s] = "saved"
  /\ \A s \in Slots : pc[s] = "saved" => req'[s] = req[s]

LEMMA UntouchedBill ==
  ASSUME TypeOK, BillUntouched, BillingFollowsCertificates
  PROVE  BillingFollowsCertificates'
<1> SUFFICES ASSUME NEW o \in Orgs, NEW m \in Media
             PROVE  Billed(o, m)' = Billed(o, m) /\ Made(o, m)' = Made(o, m)
                    /\ Unbilled(o, m)' = Unbilled(o, m)
  BY DEF BillingFollowsCertificates
<1>1. Billed(o, m)' = Billed(o, m)
  BY BillStands DEF BillUntouched
<1>2. Made(o, m)' = Made(o, m)
  BY DEF BillUntouched, Made
<1>3. Unbilled(o, m)' = Unbilled(o, m)
  BY DEF BillUntouched, Unbilled, At
<1> QED
  BY <1>1, <1>2, <1>3

LEMMA FewRemain ==
  ASSUME FewCertified, NEW c,
         \A d \in Contents : certificates'[d] # Uncertified => Certified(d) \/ d = c
  PROVE  FewCertified'
<1> DEFINE Now  == {d \in Contents : Certified(d)}
           Then == {d \in Contents : certificates'[d] # Uncertified}
<1>1. IsFiniteSet(Now \cup {c})
  BY FS_AddElement DEF FewCertified
<1>2. Then \in SUBSET (Now \cup {c})
  OBVIOUS
<1>3. IsFiniteSet(Then)
  <2> HIDE DEF Now, Then
  <2> QED
    BY <1>1, <1>2, FS_Subset
<1> QED
  BY <1>3 DEF FewCertified, Certified

LEMMA SameCertified ==
  ASSUME FewCertified, UNCHANGED certificates
  PROVE  FewCertified'
BY DEF FewCertified, Certified

(* A handler goes on, from a step before the save, or after the count.     *)
LEMMA QuietBill ==
  ASSUME TypeOK, FewCertified, BillingFollowsCertificates, NEW s \in Slots,
         UNCHANGED <<certificates, usage>>, pc[s] # "saved", pc'[s] # "saved",
         \A r \in Slots \ {s} : pc'[r] = pc[r] /\ req'[r] = req[r]
  PROVE  FewCertified' /\ BillingFollowsCertificates'
<1>1. FewCertified'
  BY SameCertified
<1>2. BillUntouched
  BY <1>1 DEF BillUntouched, Attested, Certified
<1> QED
  BY <1>1, <1>2, UntouchedBill

LEMMA ReadsBill ==
  ASSUME TypeOK, FewCertified, BillingFollowsCertificates, NEW s \in Slots, Reads(s),
         ~ RecordFails(s)
  PROVE  FewCertified' /\ BillingFollowsCertificates'
<1>1. \E step : Go(s, step) /\ step # "saved" /\ pc[s] # "saved"
              /\ UNCHANGED <<clock, tables>>
  BY DEF Reads, CheckQuota, LoadDevice, VerifySignature, CheckDuplicate, SaveConflicts,
         VerifyAttestation, LookUpKey, SaveDeviceConflicts, FindDevice, Fail, At
<1>2. pc'[s] # "saved" /\ \A r \in Slots \ {s} : pc'[r] = pc[r] /\ req'[r] = req[r]
  BY <1>1 DEF Go, TypeOK
<1> QED
  BY <1>1, <1>2, QuietBill DEF tables

(* The certificate and the bill it is owed, in one step.                   *)
LEMMA SaveBill ==
  ASSUME TypeOK, HandlersFit, FewCertified, BillingFollowsCertificates,
         NEW s \in Slots, SaveCertificate(s)
  PROVE  FewCertified' /\ BillingFollowsCertificates'
<1> DEFINE file == req[s].content
<1>1. /\ pc[s] = "unique" /\ ~ Certified(file) /\ usage' = usage
      /\ certificates' = [certificates EXCEPT ![file] = Certificate(s)]
  BY DEF SaveCertificate, At
<1>2. req[s] \in Captures \/ req[s] \in Uploads
  BY <1>1, RequestKinds DEF HandlersFit, Ready, Steps
<1>3. /\ file \in Contents
      /\ certificates'[file] = Certificate(s)
      /\ \A c \in Contents \ {file} : certificates'[c] = certificates[c]
  BY <1>1, <1>2 DEF TypeOK, Captures, Uploads
<1>4. FewCertified'
  BY <1>3, FewRemain DEF Certified
<1>5. PICK next \in OrLost(IF Route(s) = "upload" THEN "certified" ELSE "saved", "failed") :
        Go(s, next)
  BY DEF SaveCertificate
<1>6. pc'[s] = next /\ \A r \in Slots \ {s} : pc'[r] = pc[r] /\ req'[r] = req[r]
  BY <1>5 DEF Go, TypeOK
<1>7. CASE req[s] \in Uploads
  <2>1. req[s].key = NoKey /\ Route(s) = "upload"
    BY <1>7 DEF Uploads, Route
  <2>2. \A c \in Contents : Attested(c)' <=> Attested(c)
    BY <1>1, <1>3, <2>1 DEF Attested, Certified, Certificate
  <2>3. \A c \in Contents : certificates'[c] = certificates[c] \/ ~ Attested(c)
    BY <1>1, <1>3 DEF Attested
  <2>4. next # "saved"
    BY <1>5, <2>1 DEF OrLost
  <2>5. BillUntouched
    BY <1>1, <1>4, <1>6, <2>2, <2>3, <2>4 DEF BillUntouched
  <2> QED
    BY <1>4, <2>5, UntouchedBill
<1>8. CASE req[s] \in Captures
  <2>1. /\ req[s].key \in Keys /\ req[s].key # NoKey
        /\ Route(s) = "capture" /\ req[s].media \in Media
    BY <1>8, NullsAreApart DEF Captures, Route
  <2>2. next = "saved" \/ (next = "failed" /\ Admits # {})
    BY <1>5, <2>1 DEF OrLost
  <2>3. next = "saved" => req'[s] = req[s]
    BY <1>5 DEF Go, TypeOK, Answers
  <2>4. ASSUME NEW o \in Orgs, NEW m \in Media
        PROVE  /\ Billed(o, m)' + Unbilled(o, m)' <= Made(o, m)'
               /\ Admits = {} => Billed(o, m)' + Unbilled(o, m)' = Made(o, m)'
    <3> DEFINE ours == req[s].org = o /\ req[s].media = m
    <3>1. Billed(o, m) \in Nat /\ Billed(o, m)' = Billed(o, m)
      BY <1>1, BillStands
    <3>2. MadeBy(o, m)' = IF ours THEN MadeBy(o, m) \cup {file} ELSE MadeBy(o, m)
      BY <1>1, <1>3, <2>1 DEF MadeBy, Attested, Certified, Certificate, Uncertified
    <3>3. file \notin MadeBy(o, m)
      BY <1>1 DEF MadeBy, Attested
    <3>4. UnbilledBy(o, m)' = IF ours /\ next = "saved" THEN UnbilledBy(o, m) \cup {s}
                             ELSE UnbilledBy(o, m)
      BY <1>1, <1>6, <2>3 DEF UnbilledBy, At
    <3>5. s \notin UnbilledBy(o, m)
      BY <1>1 DEF UnbilledBy, At
    <3>6. /\ IsFiniteSet(MadeBy(o, m)) /\ Made(o, m) = Cardinality(MadeBy(o, m))
          /\ IsFiniteSet(UnbilledBy(o, m)) /\ Unbilled(o, m) = Cardinality(UnbilledBy(o, m))
          /\ Made(o, m) \in Nat /\ Unbilled(o, m) \in Nat
      BY BillIsCounted
    <3>7. Made(o, m)' = Cardinality(MadeBy(o, m)') /\ Unbilled(o, m)' = Cardinality(UnbilledBy(o, m)')
      BY DEF Made, MadeBy, Unbilled, UnbilledBy
    <3>8. Made(o, m)' = IF ours THEN Made(o, m) + 1 ELSE Made(o, m)
      <4>1. Cardinality(MadeBy(o, m) \cup {file}) = Cardinality(MadeBy(o, m)) + 1
        BY <3>3, <3>6, FS_AddElement
      <4> QED
        BY <3>2, <3>6, <3>7, <4>1
    <3>9. Unbilled(o, m)' = IF ours /\ next = "saved" THEN Unbilled(o, m) + 1 ELSE Unbilled(o, m)
      <4>1. Cardinality(UnbilledBy(o, m) \cup {s}) = Cardinality(UnbilledBy(o, m)) + 1
        BY <3>5, <3>6, FS_AddElement
      <4> QED
        BY <3>4, <3>6, <3>7, <4>1
    <3>10. /\ Billed(o, m) + Unbilled(o, m) <= Made(o, m)
           /\ Admits = {} => Billed(o, m) + Unbilled(o, m) = Made(o, m)
      BY DEF BillingFollowsCertificates
    <3> QED
      BY <2>2, <3>1, <3>6, <3>8, <3>9, <3>10
  <2> QED
    BY <1>4, <2>4 DEF BillingFollowsCertificates
<1> QED
  BY <1>2, <1>7, <1>8

(* The count, or its failure, after the save.                              *)
LEMMA CountBill ==
  ASSUME TypeOK, HandlersFit, FewCertified, BillingFollowsCertificates,
         NEW s \in Slots, RecordUsage(s) \/ RecordFails(s)
  PROVE  FewCertified' /\ BillingFollowsCertificates'
<1>1. pc[s] = "saved" /\ Go(s, "certified") /\ certificates' = certificates
  BY DEF RecordUsage, RecordFails, At, tables
<1>2. pc'[s] = "certified" /\ \A r \in Slots \ {s} : pc'[r] = pc[r] /\ req'[r] = req[r]
  BY <1>1 DEF Go, TypeOK
<1>3. req[s] \in Captures
  BY <1>1, RequestKinds DEF HandlersFit, Ready, Steps
<1>4. FewCertified'
  BY <1>1, SameCertified
<1>5. BillingPeriod(clock) \in Periods
  BY ClockInPeriods DEF TypeOK
<1>6. ASSUME NEW o \in Orgs, NEW m \in Media
      PROVE  /\ Billed(o, m)' + Unbilled(o, m)' <= Made(o, m)'
             /\ Admits = {} => Billed(o, m)' + Unbilled(o, m)' = Made(o, m)'
  <2> DEFINE ours == req[s].org = o /\ req[s].media = m
  <2>1. Made(o, m)' = Made(o, m)
    BY <1>1 DEF Made, Attested, Certified
  <2>2. UnbilledBy(o, m)' = UnbilledBy(o, m) \ {s} /\ (s \in UnbilledBy(o, m) <=> ours)
    BY <1>1, <1>2 DEF UnbilledBy, At
  <2>3. /\ Made(o, m) \in Nat /\ Unbilled(o, m) \in Nat
        /\ IsFiniteSet(UnbilledBy(o, m)) /\ Unbilled(o, m) = Cardinality(UnbilledBy(o, m))
        /\ Unbilled(o, m)' = Cardinality(UnbilledBy(o, m)')
    BY BillIsCounted DEF Unbilled, UnbilledBy
  <2>4. Unbilled(o, m)' = IF ours THEN Unbilled(o, m) - 1 ELSE Unbilled(o, m)
    BY <2>2, <2>3, FS_RemoveElement
  <2>5. /\ Billed(o, m) + Unbilled(o, m) <= Made(o, m)
        /\ Admits = {} => Billed(o, m) + Unbilled(o, m) = Made(o, m)
    BY DEF BillingFollowsCertificates
  <2>6. CASE RecordUsage(s)
    <3> DEFINE more == IF ours THEN 1 ELSE 0
    <3>1. usage' = [usage EXCEPT ![Counter(s, clock)] = @ + 1]
      BY <2>6 DEF RecordUsage
    <3>2. Counter(s, clock) = <<req[s].org, req[s].media, BillingPeriod(clock)>>
          /\ Counter(s, clock) \in Orgs \X Media \X Periods
      BY <1>3, <1>5 DEF Counter, Captures
    <3>3. usage \in Counters /\ usage' \in Counters
      BY <3>1, <3>2 DEF TypeOK, Counters
    <3>4. Counts(usage', usage, o, m, BillingPeriod(clock), more)
      BY <3>1, <3>2, <3>3 DEF Counts, Counters
    <3>5. Billed(o, m) \in Nat /\ Billed(o, m)' = Billed(o, m) + more
      <4>1. more \in Nat
        OBVIOUS
      <4> HIDE DEF more
      <4> QED
        BY <1>5, <3>3, <3>4, <4>1, BillGrows
    <3> QED
      BY <2>1, <2>3, <2>4, <2>5, <3>5
  <2>7. CASE RecordFails(s)
    <3>1. Admits # {} /\ usage' = usage
      BY <2>7 DEF RecordFails, tables
    <3>2. Billed(o, m) \in Nat /\ Billed(o, m)' = Billed(o, m)
      BY <3>1, BillStands
    <3> QED
      BY <2>1, <2>3, <2>4, <2>5, <3>1, <3>2
  <2> QED
    BY <2>6, <2>7
<1> QED
  BY <1>4, <1>6 DEF BillingFollowsCertificates

LEMMA InitBill == Init => FewCertified /\ BillingFollowsCertificates
<1> SUFFICES ASSUME Init PROVE FewCertified /\ BillingFollowsCertificates
  OBVIOUS
<1>1. TypeOK
  BY InitIInv DEF IInv
<1>2. FewCertified
  <2>1. {c \in Contents : Certified(c)} = {}
    BY DEF Init, Certified
  <2> QED
    BY <2>1, FS_EmptySet DEF FewCertified
<1>3. ASSUME NEW o \in Orgs, NEW m \in Media
      PROVE  Billed(o, m) = 0 /\ Unbilled(o, m) = 0 /\ Made(o, m) = 0
  <2>1. usage \in Counters /\ NoCounts(usage, o, m)
    BY <1>1 DEF Init, TypeOK, Counters, NoCounts
  <2>2. Billed(o, m) = 0
    BY <2>1, NothingBilled
  <2>3. UnbilledBy(o, m) = {} /\ MadeBy(o, m) = {}
    BY DEF Init, UnbilledBy, MadeBy, At, Attested, Certified
  <2>4. Unbilled(o, m) = 0 /\ Made(o, m) = 0
    BY <1>2, <2>3, BillIsCounted, FS_EmptySet
  <2> QED
    BY <2>2, <2>4
<1> QED
  BY <1>2, <1>3 DEF BillingFollowsCertificates

(* Everything but an administrator's deletion keeps the bill.              *)
LEMMA NextBill ==
  ASSUME TypeOK, HandlersFit, FewCertified, BillingFollowsCertificates,
         "delete" \notin Admits, [Next]_vars
  PROVE  FewCertified' /\ BillingFollowsCertificates'
<1>1. ASSUME NEW s \in Slots, Capture(s) \/ Enrol(s) \/ Revoke(s) \/ Fail(s),
             ~ SaveDevice(s), ~ RevokeDevice(s)
      PROVE  FewCertified' /\ BillingFollowsCertificates'
  <2>1. Reads(s) \/ SaveCertificate(s) \/ RecordUsage(s)
    BY <1>1 DEF Capture, Enrol, Revoke, Reads
  <2> QED
    BY <2>1, ReadsBill, SaveBill, CountBill
<1>2. ASSUME NEW s \in Slots,
             SaveDevice(s) \/ RevokeDevice(s) \/ ConsumeNonce(s) \/ Finish(s)
             \/ (\E q \in Requests : Arrive(s, q))
      PROVE  FewCertified' /\ BillingFollowsCertificates'
  <2>1. UNCHANGED <<certificates, usage>> /\ pc[s] # "saved"
    BY <1>2 DEF SaveDevice, RevokeDevice, ConsumeNonce, Finish, Arrive, At, tables, Answers
  <2>2. pc'[s] # "saved" /\ \A r \in Slots \ {s} : pc'[r] = pc[r] /\ req'[r] = req[r]
    <3>1. CASE Finish(s) \/ (\E q \in Requests : Arrive(s, q))
      BY <3>1 DEF Finish, Arrive, TypeOK, requests
    <3>2. CASE SaveDevice(s) \/ RevokeDevice(s)
      <4>1. PICK step : Go(s, step) /\ step # "saved"
        BY <3>2 DEF SaveDevice, RevokeDevice, OrLost
      <4> QED
        BY <4>1 DEF Go, TypeOK
    <3>3. CASE ConsumeNonce(s)
      <4>1. PICK step : Go(s, step) /\ step # "saved"
        BY <3>3 DEF ConsumeNonce
      <4> QED
        BY <4>1 DEF Go, TypeOK
    <3> QED
      BY <1>2, <3>1, <3>2, <3>3
  <2> QED
    BY <2>1, <2>2, QuietBill
<1>3. ASSUME UNCHANGED <<certificates, usage, pc, req>>
      PROVE  FewCertified' /\ BillingFollowsCertificates'
  <2>1. FewCertified'
    BY <1>3, SameCertified
  <2>2. BillUntouched
    BY <1>3, <2>1 DEF BillUntouched, Attested, Certified
  <2> QED
    BY <2>1, <2>2, UntouchedBill
<1>4. ASSUME NEW n \in Nonces, NEW o \in Orgs, IssueNonce(n, o)
      PROVE  UNCHANGED <<certificates, usage, pc, req>>
  BY <1>4 DEF IssueNonce, requests
<1>5. ASSUME NEW before \in 0..clock, DeleteExpired(before)
      PROVE  UNCHANGED <<certificates, usage, pc, req>>
  BY <1>5 DEF DeleteExpired, requests
<1>6. Tick \/ UNCHANGED vars => UNCHANGED <<certificates, usage, pc, req>>
  BY DEF Tick, vars, requests, tables
<1>7. \A c \in Contents : ~ DeleteCertificate(c)
  BY DEF DeleteCertificate
<1> QED
  BY <1>1, <1>2, <1>3, <1>4, <1>5, <1>6, <1>7 DEF Next

(***************************************************************************)
(* usage.go bills a certificate of the gated path once and nothing else,   *)
(* whatever runs at once, is lost or fails, and whenever the month turns:  *)
(* the months' counters of a tenant, and the captures saved but not yet    *)
(* counted, never exceed its certificates, and equal them where no write   *)
(* fails.  Deleting a certificate does not refund it.                      *)
(***************************************************************************)
THEOREM BillingIsRight ==
  ASSUME "delete" \notin Admits
  PROVE  Spec => []BillingFollowsCertificates
<1> DEFINE Bill == FewCertified /\ BillingFollowsCertificates
<1>1. Init => Bill
  BY InitBill
<1>2. IInv /\ Bill /\ [Next]_vars => Bill'
  BY NextBill DEF IInv
<1> QED
  BY <1>1, <1>2, Invariant, PTL DEF Spec
=============================================================================
