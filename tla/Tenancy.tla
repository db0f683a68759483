------------------------------ MODULE Tenancy -------------------------------
(***************************************************************************)
(* A request's way through the middleware of cmd/api/main.go to a handler, *)
(* as the tenant its credential belongs to: the cap on concurrent requests *)
(* (internal/handler/ratelimit.go), the look-ups of API keys (apikey.go,   *)
(* usecase/org.go, repository/postgres_org.go), the administrator's routes *)
(* (admin.go, auth.go) and the metering of verification (certificate.go).  *)
(*                                                                         *)
(* Every route is wrapped in OptionalAPIKeyAuth; a tenant's route looks    *)
(* the key up a second time.  Keys are revoked in between, and inside a    *)
(* look-up: it writes last_used_at after it has read the key and before    *)
(* anybody acts on what it read.  (What is written is not in the model:    *)
(* nothing reads it.)                                                      *)
(***************************************************************************)
EXTENDS Integers, FiniteSets

CONSTANTS
  Orgs, ApiKeys,
  Requests,       \* places for requests under way
  MaxInFlight,    \* MAX_CONCURRENT_REQUESTS
  MaxVerified,    \* bound: a tenant's verifications before no more arrive
  TenancyFaults,  \* subset of {"read", "handler", "write", "lost"}
  AdminToken,     \* the bearer token ADMIN_API_TOKEN
  Nobody          \* no tenant, or no credential but an unknown one

ASSUME MaxInFlightAssumption == MaxInFlight \in Nat \ {0}
ASSUME TenantsAssumption ==
  /\ IsFiniteSet(Requests)
  /\ Nobody \notin Orgs /\ Nobody \notin ApiKeys
  /\ AdminToken \notin ApiKeys /\ AdminToken # Nobody

VARIABLES
  orgStatus,  \* orgs.status, "none" before there is a row
  owner,      \* api_keys.org_id, Nobody before there is a row
  revoked,    \* keys whose revoked_at is set
  issued,     \* keys whose plaintext was handed out
  usage,      \* usage_counters for OpVerify
  slots,      \* elements in the channel of ConcurrencyLimit
  req,        \* the requests under way
  withdrawn,  \* history: revocations answered with 204, by key
  alarmed,    \* history: keys whose revocation was answered with 500
  late,       \* history: handlers entered with a key after it was revoked
  verified,   \* history: verifications that succeeded for each tenant
  unmetered   \* history: those of them logged as not recorded

tables == <<orgStatus, owner, revoked, issued, usage>>
tally == <<withdrawn, alarmed, late, verified, unmetered>>
tenancyVars == <<tables, slots, req, tally>>

(* names is the key or tenant in the path; tenant is what the latest       *)
(* look-up found; entitled is history, the tenants its credential has been *)
(* good for since the look-up its handler relies on could begin.           *)
Gone == [stage |-> "none", route |-> "verify", token |-> Nobody, names |-> Nobody,
         tenant |-> Nobody, entitled |-> {}]

AdminRoutes == {"create", "issue", "revoke", "stream"}
Routes == {"verify", "tenant"} \cup AdminRoutes
InFlight == {r \in Requests : req[r].stage # "none"}

-----------------------------------------------------------------------------
(* AuthenticateUseCase                                                     *)

(* Whose key a credential is, with tenants as they stand in st.            *)
Entitled(token, st) ==
  {o \in Orgs : token \in ApiKeys /\ owner[token] = o /\ token \notin revoked /\ st[o] = "active"}

(* Mutated: revoked_at is not looked at.                                   *)
Authenticated_Revoked(token) ==
  IF token \in ApiKeys /\ owner[token] # Nobody /\ orgStatus[owner[token]] = "active"
  THEN owner[token] ELSE Nobody

(* FindOrgByAPIKeyHash reads key and tenant in one join; a revoked key, a  *)
(* suspended tenant and an unknown key all come to Nobody.                 *)
Authenticated(token) ==
  IF /\ token \in ApiKeys /\ owner[token] # Nobody
     /\ token \notin revoked /\ orgStatus[owner[token]] = "active"
  THEN owner[token] ELSE Nobody

(* There is a row, revoked or not, in which to write last_used_at.         *)
Found(token) == token \in ApiKeys /\ owner[token] # Nobody

-----------------------------------------------------------------------------
(* Admission                                                               *)

(* What a caller may present: a key handed out by now, the administrator's *)
(* token, or anything else.                                                *)
Credentials == issued \cup {AdminToken, Nobody}
Named(route) ==
  IF route = "issue" THEN Orgs ELSE IF route = "revoke" THEN ApiKeys ELSE {Nobody}

(* Mutated: one more than the channel holds.                               *)
HasSlot_Inclusive == slots <= MaxInFlight

HasSlot == slots < MaxInFlight

(* Without a free slot the answer is 503 at once, and nothing changes.     *)
Arrive(r, route, token, names) ==
  /\ req[r].stage = "none" /\ HasSlot
  /\ route = "verify" => \A o \in Orgs : verified[o] < MaxVerified
  /\ slots' = slots + 1
  /\ req' = [req EXCEPT ![r] =
               [stage |-> "optional", route |-> route, token |-> token, names |-> names,
                tenant |-> Nobody, entitled |-> Entitled(token, orgStatus)]]
  /\ UNCHANGED <<tables, tally>>

(* Mutated: only a request that succeeds gives its slot back.              *)
Respond_OnSuccess(r, code) ==
  /\ req' = [req EXCEPT ![r] = Gone]
  /\ slots' = IF code < 400 THEN slots - 1 ELSE slots

(* The deferred receive of ConcurrencyLimit, whatever the handler did.     *)
Respond(r, code) ==
  /\ req' = [req EXCEPT ![r] = Gone]
  /\ slots' = slots - 1

Advance(r, to, tenant) ==
  /\ req' = [req EXCEPT ![r].stage = to, ![r].tenant = tenant]
  /\ UNCHANGED slots

(* A handler is entered as the tenant that was found.                      *)
Enter(r) ==
  /\ Advance(r, "serving", req[r].tenant)
  /\ late' = [k \in ApiKeys |->
                IF k = req[r].token /\ k \in revoked /\ req[r].tenant # Nobody
                THEN late[k] + 1 ELSE late[k]]
  /\ UNCHANGED <<tables, withdrawn, alarmed, verified, unmetered>>

(* OptionalAPIKeyAuth passes it on.  A tenant's route does not rely on it, *)
(* so that its entitlement counts from here.                               *)
Route(r, tenant) ==
  /\ req' = [req EXCEPT ![r].stage = "routed", ![r].tenant = tenant,
                        ![r].entitled = IF req[r].route = "tenant"
                                        THEN Entitled(req[r].token, orgStatus) ELSE @]
  /\ UNCHANGED slots

(* A bad credential, and an error, mean anonymous.                         *)
FirstLookUp(r) ==
  /\ req[r].stage = "optional"
  /\ \/ Found(req[r].token) /\ Advance(r, "first", Authenticated(req[r].token))
     \/ ~ Found(req[r].token) /\ Route(r, Nobody)
     \/ "read" \in TenancyFaults /\ Route(r, Nobody)
  /\ UNCHANGED <<tables, tally>>

(* last_used_at is written, or not: a failure is ignored.                  *)
OptionalAuth(r) ==
  /\ req[r].stage = "first" /\ Route(r, req[r].tenant)
  /\ UNCHANGED <<tables, tally>>

(* Mutated: the tenant found by OptionalAPIKeyAuth is taken as it is.      *)
SecondLook_Reused(r) == req[r].tenant

(* APIKeyAuth does not rely on the first look-up.                          *)
SecondLook(r) == Authenticated(req[r].token)

SecondLookUp(r) ==
  /\ req[r].stage = "routed" /\ req[r].route = "tenant"
  /\ \/ Found(req[r].token) /\ Advance(r, "second", SecondLook(r))
     \/ ~ Found(req[r].token) /\ Respond(r, 401)
     \/ "read" \in TenancyFaults /\ Respond(r, 500)
  /\ UNCHANGED <<tables, tally>>

(* By the time last_used_at is written, what was read may be out of date.  *)
TenantAuth(r) ==
  /\ req[r].stage = "second"
  /\ \/ req[r].tenant # Nobody /\ Enter(r)
     \/ req[r].tenant = Nobody /\ Respond(r, 401) /\ UNCHANGED <<tables, tally>>

(* AdminAuth compares with the configured token; anybody may verify.       *)
OtherAuth(r) ==
  /\ req[r].stage = "routed" /\ req[r].route # "tenant"
  /\ IF req[r].route \in AdminRoutes => req[r].token = AdminToken
     THEN Enter(r)
     ELSE Respond(r, 401) /\ UNCHANGED <<tables, tally>>

-----------------------------------------------------------------------------
(* Handlers                                                                *)

Serving(r, route) == req[r].stage = "serving" /\ req[r].route = route

(* What may be answered for a write that was committed: its own answer may *)
(* be lost on the way to the handler.                                      *)
Committed(code) == {code} \cup (IF "lost" \in TenancyFaults THEN {500} ELSE {})

(* handleCreateOrg; the database draws the id.                             *)
CreateOrg(r) ==
  /\ Serving(r, "create")
  /\ \/ \E o \in Orgs, code \in Committed(201) :
           /\ orgStatus[o] = "none"
           /\ orgStatus' = [orgStatus EXCEPT ![o] = "active"]
           /\ Respond(r, code)
     \/ UNCHANGED orgStatus /\ Respond(r, 500)
  /\ UNCHANGED <<owner, revoked, issued, usage, tally>>

(* IssueAPIKeyUseCase finds the tenant, and saves the key afterwards.      *)
FindOrg(r) ==
  /\ Serving(r, "issue")
  /\ \/ orgStatus[req[r].names] # "none" /\ Advance(r, "issuing", Nobody)
     \/ orgStatus[req[r].names] = "none" /\ Respond(r, 404)
     \/ "read" \in TenancyFaults /\ Respond(r, 500)
  /\ UNCHANGED <<tables, tally>>

(* Only the answer 201 has the plaintext: after 500 nobody knows it.       *)
SaveAPIKey(r) ==
  /\ req[r].stage = "issuing"
  /\ \/ \E k \in ApiKeys, code \in Committed(201) :
           /\ owner[k] = Nobody
           /\ owner' = [owner EXCEPT ![k] = req[r].names]
           /\ issued' = IF code = 201 THEN issued \cup {k} ELSE issued
           /\ Respond(r, code)
     \/ UNCHANGED <<owner, issued>> /\ Respond(r, 500)
  /\ UNCHANGED <<orgStatus, revoked, usage, tally>>

(* Mutated: an UPDATE without the condition on revoked_at.                 *)
Revocable_Any(k) == owner[k] # Nobody

(* UPDATE .. WHERE revoked_at IS NULL: one row, or none.                   *)
Revocable(k) == owner[k] # Nobody /\ k \notin revoked

(* What the administrator is told.                                         *)
Report(r, k, code) ==
  /\ Respond(r, code)
  /\ withdrawn' = IF code = 204 THEN [withdrawn EXCEPT ![k] = @ + 1] ELSE withdrawn
  /\ alarmed' = IF code = 500 THEN alarmed \cup {k} ELSE alarmed

(* 500 stands for an UPDATE that failed, and for one that did its work.    *)
RevokeAPIKey(r) ==
  LET k == req[r].names IN
  /\ Serving(r, "revoke")
  /\ \/ /\ Revocable(k) /\ revoked' = revoked \cup {k}
        /\ \E code \in Committed(204) : Report(r, k, code)
     \/ ~ Revocable(k) /\ UNCHANGED revoked /\ Report(r, k, 404)
     \/ "write" \in TenancyFaults /\ UNCHANGED revoked /\ Report(r, k, 500)
  /\ UNCHANGED <<orgStatus, owner, issued, usage, late, verified, unmetered>>

(* A handler behind APIKeyAuth (CaptureFlow says what it does), and a      *)
(* stream of events, which lasts until the dashboard goes away.            *)
Serve(r) ==
  /\ Serving(r, "tenant") \/ Serving(r, "stream")
  /\ Respond(r, 200)
  /\ UNCHANGED <<tables, tally>>

(* Mutated: whatever comes of it.                                          *)
Meters_Always(r, ok) == req[r].tenant # Nobody

(* recordVerify comes after the error paths, and is for tenants.           *)
Meters(r, ok) == ok /\ req[r].tenant # Nobody

(* Metered before it is answered.                                          *)
Verify(r) ==
  /\ Serving(r, "verify")
  /\ \E ok \in BOOLEAN :
       /\ ok \/ "handler" \in TenancyFaults
       /\ \/ Meters(r, ok) /\ Advance(r, "metering", req[r].tenant)
          \/ ~ Meters(r, ok) /\ Respond(r, IF ok THEN 200 ELSE 500)
       /\ verified' = [o \in Orgs |-> IF ok /\ req[r].tenant = o THEN verified[o] + 1
                                      ELSE verified[o]]
  /\ UNCHANGED <<tables, withdrawn, alarmed, late, unmetered>>

(* A failure to record is logged, and the answer given all the same; the   *)
(* count may have been written although its answer is an error.            *)
RecordVerify(r) ==
  LET o == req[r].tenant IN
  /\ req[r].stage = "metering"
  /\ \/ usage' = [usage EXCEPT ![o] = @ + 1] /\ UNCHANGED unmetered
     \/ /\ unmetered' = [unmetered EXCEPT ![o] = @ + 1]
        /\ \/ "write" \in TenancyFaults /\ UNCHANGED usage
           \/ "lost" \in TenancyFaults /\ usage' = [usage EXCEPT ![o] = @ + 1]
  /\ Respond(r, 200)
  /\ UNCHANGED <<orgStatus, owner, revoked, issued, withdrawn, alarmed, late, verified>>

(* An operator suspends a tenant, or lifts it, in the database.            *)
SetStatus(o) ==
  /\ orgStatus[o] # "none"
  /\ orgStatus' = [orgStatus EXCEPT ![o] = IF @ = "active" THEN "suspended" ELSE "active"]
  /\ req' = [r \in Requests |->
               [req[r] EXCEPT !.entitled = @ \cup Entitled(req[r].token, orgStatus')]]
  /\ UNCHANGED <<owner, revoked, issued, usage, slots, tally>>

-----------------------------------------------------------------------------
Handle(r) ==
  \/ FirstLookUp(r) \/ OptionalAuth(r) \/ SecondLookUp(r) \/ TenantAuth(r) \/ OtherAuth(r)
  \/ CreateOrg(r) \/ FindOrg(r) \/ SaveAPIKey(r) \/ RevokeAPIKey(r)
  \/ Serve(r) \/ Verify(r) \/ RecordVerify(r)

TenancyNext ==
  \/ \E r \in Requests :
       \/ Handle(r)
       \/ \E route \in Routes, token \in Credentials :
            \E n \in Named(route) : Arrive(r, route, token, n)
  \/ \E o \in Orgs : SetStatus(o)

TenancyInit ==
  /\ orgStatus = [o \in Orgs |-> "none"]
  /\ owner = [k \in ApiKeys |-> Nobody] /\ revoked = {} /\ issued = {}
  /\ usage = [o \in Orgs |-> 0]
  /\ slots = 0
  /\ req = [r \in Requests |-> Gone]
  /\ withdrawn = [k \in ApiKeys |-> 0] /\ alarmed = {} /\ late = [k \in ApiKeys |-> 0]
  /\ verified = [o \in Orgs |-> 0] /\ unmetered = [o \in Orgs |-> 0]

TenancySpec == TenancyInit /\ [][TenancyNext]_tenancyVars

-----------------------------------------------------------------------------
(* Properties                                                              *)

(* No more requests are under way than MAX_CONCURRENT_REQUESTS.            *)
TenancyTypeOK ==
  /\ orgStatus \in [Orgs -> {"none", "active", "suspended"}]
  /\ owner \in [ApiKeys -> Orgs \cup {Nobody}]
  /\ revoked \in SUBSET ApiKeys /\ issued \in SUBSET ApiKeys
  /\ usage \in [Orgs -> Nat] /\ slots \in 0..MaxInFlight
  /\ req \in [Requests ->
       [stage : {"none", "optional", "first", "routed", "second", "serving", "issuing",
                 "metering"},
        route : Routes, token : ApiKeys \cup {AdminToken, Nobody},
        names : Orgs \cup ApiKeys \cup {Nobody}, tenant : Orgs \cup {Nobody},
        entitled : SUBSET Orgs]]
  /\ withdrawn \in [ApiKeys -> Nat] /\ alarmed \in SUBSET ApiKeys
  /\ late \in [ApiKeys -> Nat]
  /\ verified \in [Orgs -> Nat] /\ unmetered \in [Orgs -> Nat]

(***************************************************************************)
(* The tenant a handler acts for is the one whose key was presented, and   *)
(* the key was good at some moment: since the request arrived where anyone *)
(* may verify, and since the second look-up could begin on a tenant's      *)
(* route.  What was withdrawn or suspended before that is of no use.       *)
(***************************************************************************)
TenantWasEntitled ==
  \A r \in Requests :
    req[r].stage \in {"serving", "metering"} /\ req[r].tenant # Nobody =>
      req[r].tenant \in req[r].entitled

(***************************************************************************)
(* Revoking a key does not stop a request that has read it as good and has *)
(* not entered its handler yet.  There are never more of those than other  *)
(* requests fit beside the one that revoked it, over the rest of the       *)
(* process's life and whatever is suspended, lifted or issued meanwhile.   *)
(***************************************************************************)
RevocationTakesEffect == \A k \in ApiKeys : late[k] < MaxInFlight

(***************************************************************************)
(* Of those who revoke a key at once, no two are told that they did, and   *)
(* who is told so is right.  A key that is revoked without anybody having  *)
(* been told is one whose revocation was reported to have failed: to be    *)
(* answered 404 is enough to know that somebody heard of it.               *)
(***************************************************************************)
OneIsToldOfRevocation ==
  \A k \in ApiKeys :
    /\ withdrawn[k] <= 1 /\ (withdrawn[k] = 1 => k \in revoked)
    /\ k \in revoked => withdrawn[k] = 1 \/ k \in alarmed

(***************************************************************************)
(* Every verification that succeeded for a tenant is counted once, about   *)
(* to be counted, or was logged as not counted, in which case it may be    *)
(* counted all the same; nobody else's are, and none that failed.          *)
(***************************************************************************)
VerificationsAreCounted ==
  \A o \in Orgs :
    LET counted == usage[o] + Cardinality({r \in Requests : /\ req[r].stage = "metering"
                                                            /\ req[r].tenant = o})
    IN counted <= verified[o] /\ verified[o] <= counted + unmetered[o]

(* Whichever way a request ends, its place is free again: 401 and 500      *)
(* included.  What is not returned is missing until the next start.        *)
SlotsAreReturned == slots = Cardinality(InFlight)

(* Who a request acts for, what it is counted for, and what it gives back. *)
TenancySafety ==
  /\ TenantWasEntitled /\ OneIsToldOfRevocation /\ VerificationsAreCounted /\ SlotsAreReturned
=============================================================================
