CONSTANTS
  t1 = t1  t2 = t2  x1 = x1  x2 = x2  a = a
  Tabs <- TwoTabs
  Topics <- TwoTopics
  Lists <- DoneOnly
  Texts <- OneText
  Blank = Blank
  Files <- MCFiles
  MaxActions = 4
SPECIFICATION FairSpec
CHECK_DEADLOCK FALSE
INVARIANTS HandlersSeeStore NotesStayWithTheirTopic
PROPERTIES OneTopicAtATime SavesAreMade
