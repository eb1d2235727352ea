CONSTANTS
  Notes <- TwoNotes
  Commands <- MCCommands
  Matching <- MCMatching
  NoFilter = NoFilter
  MaxEdits = 2
  MaxRuns = 2
SPECIFICATION FairSpec
CHECK_DEADLOCK FALSE
INVARIANTS SuccessMeansExported SuccessMeansCatalogued OutOfScopeUntouched AbortWritesNothing
PROPERTIES RunEnds
