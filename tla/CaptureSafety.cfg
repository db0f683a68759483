SPECIFICATION Spec
CONSTANTS
  Orgs = {o1, o2}
  Keys = {k1}
  Nonces = {n1, n2}
  Contents = {x}
  Media = {image}
  Slots = {s1, s2}
  Quota <- SamePlan
  Allowance = 1
  TTL = 1
  MonthLength = 2
  MaxTime = 2
  Kinds = {"capture", "upload", "enrol", "revoke"}
  Admits = {"fail", "lost", "delete", "prune"}
  NoKey = NoKey
  NoNonce = NoNonce
INVARIANTS TypeOK ChallengeBacksOneThing CertificateProvenance RevokedNeverCaptures
PROPERTIES RevocationIsFinal
SYMMETRY Symmetry
