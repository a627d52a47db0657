SPECIFICATION Spec
CONSTANTS
  n1 = n1
  n2 = n2
  Missing = Missing
  Networks = {n1, n2}
  Mainnet = n1
  MaxRestarts = 2
  Groups = 1
  MaxExports = 2
INVARIANTS
  ExportedWhole
