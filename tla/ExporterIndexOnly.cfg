CONSTANTS
  Notes <- TwoNotes
  Commands <- MCCommands
  Matching <- MCMatching
  NoFilter = NoFilter
  MaxEdits = 2
  MaxRuns = 2
SPECIFICATION Spec
CHECK_DEADLOCK FALSE
INVARIANTS IndexOnlyDescribesPages
