SPECIFICATION SnapshotSpec
CONSTANTS
  n1 = n1
  m1 = m1
  m2 = m2
  u1 = u1
  u2 = u2
  None = None
  Networks <- OneNetwork
  Markets <- TwoMarkets
  Users <- TwoUsers
  NetworkOf <- OnN1
  VersionOf <- V2AndV3
  LastBlock = 3
  StartBlock <- StartAt0
  Timestamp <- Strict
  BlockStep = 2
  BatchSize = 2
  MaxParallel = 1
  Chains <- SnapshotChains
  ChunkRows = 2
  MaxChunks = 4
  ColdStartAllowed = TRUE
  Losable = {"runtime", "meta", "chunk"}
  CrashPoints <- All
INVARIANTS
  SnapshotTypeOK
  SnapshotComplete
  RuntimeComplete
