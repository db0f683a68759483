SPECIFICATION Spec
CONSTANTS
  CertIds = {c1, c2}
  Contents = {x, y}
  Times = {1}
  Workers = {w1}
  BatchSize = 1
  MaxPool = 1
  Admits = {"lost"}
  NoAnchor = NoAnchor
  NoContent = NoContent
  NoWorker = NoWorker
INVARIANTS EveryRootAccounted
