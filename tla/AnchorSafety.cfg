SPECIFICATION Spec
CONSTANTS
  CertIds = {c1, c2, c3}
  Contents = {x, y}
  Times = {1, 2}
  Workers = {w1}
  BatchSize = 2
  MaxPool = 2
  Admits = {"drop", "lost", "late", "saveFails", "recordFails", "crash", "pause", "delete"}
  NoAnchor = NoAnchor
  NoContent = NoContent
  NoWorker = NoWorker
INVARIANTS IInv AnchoredIsProvable ConfirmedIsOnChain
PROPERTIES AnchorIsFinal ImplementsLedger
SYMMETRY Symmetry
