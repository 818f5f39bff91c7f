SPECIFICATION FairSpec
CONSTANTS
  MaxCommands = 2
  MaxRows = 2
PROPERTY CommandEnds
CHECK_DEADLOCK FALSE
