SPECIFICATION FairSpec
CONSTANTS
  MaxQueue = 3
  BatchSize = 2
  MaxMessages = 6
  MaxRejected = 1
INVARIANTS TypeOK Conservation InOrder
PROPERTY QueueDrains
CHECK_DEADLOCK FALSE
