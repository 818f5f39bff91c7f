SPECIFICATION FairSpec
CONSTANTS
  MaxCommands = 2
  MaxRows = 2
INVARIANT OwnRows
CHECK_DEADLOCK FALSE
