SPECIFICATION Spec
CONSTANTS
  CertIds = {c1, c2}
  Contents = {x, y}
  Times = {1}
  Workers = {w1, w2}
  BatchSize = 2
  MaxPool = 2
  Admits = {"drop", "late", "pause", "delete"}
  NoAnchor = NoAnchor
  NoContent = NoContent
  NoWorker = NoWorker
INVARIANTS OneWinnerPerRoot EveryRootAccounted
SYMMETRY Symmetry
