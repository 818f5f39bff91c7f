SPECIFICATION FairSpec
CONSTANTS
  MaxCommands = 2
  MaxRows = 2
INVARIANTS TypeOK AnswersMatch
PROPERTIES AnsweredCommandEnds
CHECK_DEADLOCK FALSE
