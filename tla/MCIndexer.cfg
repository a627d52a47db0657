SPECIFICATION Spec
CONSTANTS
  n1 = n1
  n2 = n2
  n3 = n3
  m1 = m1
  m2 = m2
  m3 = m3
  u1 = u1
  None = None
  Networks <- ThreeNetworks
  Markets <- ThreeMarkets
  Users <- OneUser
  NetworkOf <- OnEach
  VersionOf <- Versions
  LastBlock = 3
  StartBlock <- Starts
  Timestamp <- Times
  BlockStep = 3
  BatchSize = 1
  MaxParallel = 2
  Chains <- ThreeNetworkChains
INVARIANTS
  TypeOK
  RowsExact
  IndexComplete
  MarketsExact
PROPERTIES
  ImplementsUserIndex
  ReachesHead
  EveryNetworkServed
