SPECIFICATION Spec
CONSTANTS
  m1 = m1
  m2 = m2
  u1 = u1
  u2 = u2
  None = None
  DoubleScale = 2
  ExpScale = 2
  Markets <- TwoMarkets
  Users <- TwoUsers
  Tokens = {"comp"}
  TokenOf <- OneToken
  LastBlock = 3
  Time <- SharedTime
  ListedAt <- SecondListedLater
  Positions = {0, 2}
  Pasts <- FreshOrSeasoned
  Selections <- SomeSelections
CHECK_DEADLOCK FALSE
INVARIANTS
  EarnedExact
  ExportPaysDebt
