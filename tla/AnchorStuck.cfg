SPECIFICATION FairSpec
CONSTANTS
  CertIds = {c1, c2}
  Contents = {x, y}
  Times = {1}
  Workers = {w1}
  BatchSize = 1
  MaxPool = 1
  Admits = {"drop", "lost", "late", "saveFails", "recordFails", "crash", "pause", "delete"}
  NoAnchor = NoAnchor
  NoContent = NoContent
  NoWorker = NoWorker
INVARIANTS TypeOK
PROPERTIES StuckOnlyBehindOrphan
