SPECIFICATION Spec
CONSTANTS
  u1 = u1
  u2 = u2
  None = None
  DoubleScale = 2
  ExpScale = 2
  Markets = {1, 2}
  Users <- TwoUsers
  LastBlock = 3
  Time <- SharedTime
  ListedAt <- SecondListedLater
  Amounts = {0, 2}
  Speeds = {0, 1}
  PhantomDelta = 3
  Borrowable = {1}
  Pasts <- AllPasts
  Selections = {{}, {1}}
CHECK_DEADLOCK FALSE
INVARIANTS
  DriftHarmless
