SPECIFICATION Spec
CONSTANTS
  Orgs = {o1}
  Keys = {k1}
  Nonces = {n1, n2, n3}
  Contents = {x}
  Media = {image}
  Slots = {s1, s2}
  Quota <- SamePlan
  Allowance = 2
  TTL = 1
  MonthLength = 2
  MaxTime = 1
  Kinds = {"capture", "enrol"}
  Admits = {}
  NoKey = NoKey
  NoNonce = NoNonce
PROPERTIES ResubmissionConflicts
SYMMETRY Symmetry
