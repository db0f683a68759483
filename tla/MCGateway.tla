----------------------------- MODULE MCGateway ------------------------------
(***************************************************************************)
(* Model checking of what a request passes before it reaches a pipeline:   *)
(* the rate limiter, and then the middleware of Tenancy.  They share no    *)
(* state, so that each is checked on its own: part says which, and the     *)
(* other rests.                                                            *)
(***************************************************************************)
EXTENDS RateLimiter, Tenancy, TLC

VARIABLE part

GatewayInit == Init /\ TenancyInit /\ part \in {"limiter", "tenancy"}

GatewayNext ==
  \/ part = "limiter" /\ Next /\ UNCHANGED tenancyVars /\ UNCHANGED part
  \/ part = "tenancy" /\ TenancyNext /\ UNCHANGED vars /\ UNCHANGED part

GatewaySpec == GatewayInit /\ [][GatewayNext]_<<vars, tenancyVars, part>>

(* The type invariants of both.                                            *)
GatewayTypeOK == TypeOK /\ TenancyTypeOK

Symmetry ==
  Permutations(Clients) \cup Permutations(Orgs) \cup Permutations(ApiKeys)
    \cup Permutations(Requests)
=============================================================================
