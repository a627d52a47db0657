SPECIFICATION Spec
CONSTANTS
  n1 = n1
  n2 = n2
  Networks = {n1}
  ReorgWindow <- Window
  Unanswered = Unanswered
  StartFile <- File
  LastBlock = 3
  MayBeEmpty = FALSE
INVARIANTS
  CoveredUnlessFaulty
