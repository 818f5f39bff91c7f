SPECIFICATION FairSpec
CONSTANTS
  InApp = {web}
  External = {hook}
  MaxWorkers = 2
  MaxDeliveries = 3
  MaxCalls = 1
  KeepStored = 2
INVARIANTS TypeOK EveryMessageCounted OncePerRequest
PROPERTY FreshIsAttempted
CHECK_DEADLOCK FALSE
