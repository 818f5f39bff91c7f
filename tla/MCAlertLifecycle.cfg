SPECIFICATION FairSpec
CONSTANTS
  Events <- MCEvents
  Keys <- MCEvents
  Raised <- MCRaised
  Cleared <- MCCleared
  LogKeys = {"log"}
  MaxHandlers = 2
  Users = {u1}
  MaxEvents = 3
  MaxCalls = 1
INVARIANTS TypeOK Announced OneActivePerRule
PROPERTIES NeverReopened FoundAlertIsResolved
CHECK_DEADLOCK FALSE
