SPECIFICATION Spec
CONSTANTS
  c1 = c1
  c2 = c2
  None = None
  Callers <- TwoCallers
  Kind <- Kinds
  ChunkSize <- Sizes
  MinMulticallChunk = 1
  MulticallConcurrency = 2
  DirectConcurrency = 2
  Versions = {"v3", "v1", "none"}
INVARIANTS
  ResultsInPlace
  PermitsBalanced
  FailureConfirmed
PROPERTIES
  LimitOnlyShrinks
  EveryCallSettles
CHECK_DEADLOCK FALSE
