CONSTANTS
  Numbers <- MCNumbers
  Spans <- MCSpans
  Edges <- MCEdges
  Cells <- MCCells
  MaxNumbers = 5
  MaxSpans = 4
  MaxEdges = 4
  MaxCells = 6
SPECIFICATION Spec
INVARIANTS SequencesRight ChoicesRight SweepsRight TraversalsRight
CHECK_DEADLOCK FALSE
