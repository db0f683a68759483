SPECIFICATION Spec
CONSTANTS
  Orgs = {o1}
  Keys = {k1}
  Nonces = {n1, n2, n3, n4}
  Contents = {x, y, z}
  Media = {image}
  Slots = {s1, s2}
  Quota <- SamePlan
  Allowance = 1
  TTL = 1
  MonthLength = 1
  MaxTime = 1
  Kinds = {"capture", "enrol"}
  Admits = {}
  NoKey = NoKey
  NoNonce = NoNonce
INVARIANTS BillingFollowsCertificates OvershootIsBounded
SYMMETRY Symmetry
