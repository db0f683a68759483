--------------------------- MODULE MCCaptureFlow ----------------------------
(* Model checking of CaptureFlow: slots, keys, challenges and files are    *)
(* interchangeable; tenants differ only where their plans do.              *)
EXTENDS CaptureFlow, TLC

CONSTANT Allowance  \* every tenant's allowance for every operation

SamePlan == [p \in Orgs \X Media |-> Allowance]

Symmetry ==
  Permutations(Slots) \cup Permutations(Keys) \cup Permutations(Nonces)
    \cup Permutations(Contents) \cup Permutations(Orgs)
=============================================================================
