CONSTANTS
  t1 = t1  t2 = t2  x1 = x1  x2 = x2  a = a
  Tabs <- OneTab
  Topics <- TwoTopics
  Lists <- DoneOnly
  Texts <- OneText
  Blank = Blank
  Files <- NoFiles
  MaxActions = 4
SPECIFICATION Spec
CHECK_DEADLOCK FALSE
PROPERTIES SavedNotesStay
