SPECIFICATION ScanSpec
CONSTANTS
  FromBlock = 3
  ToBlock = 9
  Attempts = 3
  EarlierHalfFirst = TRUE
INVARIANTS
  TypeOK
  ExactlyOnce
  InBlockOrder
PROPERTIES
  Terminates
CHECK_DEADLOCK FALSE
