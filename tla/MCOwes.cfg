CONSTANTS
  Entries <- MCEntries
  Due <- MCDue
  Accrued <- MCAccrued
  Page = 2
  ExportPage = 2
  MaxParallel = 2
  None = None
SPECIFICATION FairSpec
INVARIANTS
  RowsExact
  FilesAgree
PROPERTIES
  RefusedKeepsFiles
  RunEnds
