SPECIFICATION PipelinesSpec
CONSTANTS
  Contents = {x, y, z}
  MaxLeaves = 5
  VideoFrameSamples = 4
  AnchorCandidates = 2
  MaxDecodeFrames = 4
  MaxVideoDurationMs = 3
  FrameAlignSlack = 1
  Agreement = 70
  DurationDrift = 5
  MinDurationDrift = 1
  ByteBase = 8
  MaxWidth = 2
  Malformed = Malformed
  Absent = Absent
  GridSize = 8
  MinFeatureDimension = 4
  ResizeMax = 12
  MinAreaCoverage = 42
  MinInliers = 20
  MaxColorMean = 8
  MaxCellDist = 38
  MaxFrames = 6
  MaxLength = 60
  MaxSide = 20
  MaxDelta = 3
  DeltaStep = 20
  HashSize = 4
  HashBytes = 2
  IndexLimit = 4
  WordLimit = 8
  Nil = Nil
  MinDimension = 63
  Bits = {1, 2, 3, 4}
  Bands <- Pairs
  MaxPHashDistance = 3
  MaxFramePHashDistance = 1
  TopK <- Ceilings
  Assets <- Certifiable
  Uploads <- Questions
  Similar <- LooksLike
  Clients = {a}
  Faults = {"storage", "features"}
  MaxRows = 3
  Tracers = {t1, t2}
  Dashboards = {d1}
  RingCapacity = 1
  SubBuffer = 1
  MaxRecorded = 1
  NoOne = NoOne
  ByteStrings <- AroundTheForms
  Enough = 6
  SidesTried = {63, 64, 99, 128, 190, 333, 1024}
  MaxImageUpload = 3
  MaxVideoUpload = 5
  MaxAnonymousVideoUpload = 2
  MinCoverage = 42
  Bases = {"b1", "b2"}
  Listings <- Orders
  Entries <- Transformations
  Peering = "different_image"
  WorkerFlags = {0, 3}
  Cores = 2
  GeneratorFaults = {"fetch", "build", "write", "read", "kill"}
  MaxRuns = 2
  Nothing = Nothing
INVARIANTS
  MerkleIsRight SamplingIsFaithful AttestationIsSound MatchingIsSound LabelsAreRight
  EncodingsBind UploadsAreGuarded VerificationSafety CollectorSafety GeneratorSafety
PROPERTIES StoredIsFrozen RequestsFinish ComputationsEnd
CHECK_DEADLOCK FALSE
