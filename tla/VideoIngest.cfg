CONSTANTS
  Requests = {r1, r2, r3}
  Names = {f1, f2, f3}
  Concurrency = 2
  StaleAge = 1
  MaxTime = 1
  Faults = {"crash", "tempfail", "removefail"}
  None = None
SPECIFICATION Spec
INVARIANTS TypeOK TokensAreHeld OwnFile NothingLeftBehind
PROPERTY WaitersAreServed
