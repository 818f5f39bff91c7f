SPECIFICATION Spec
CONSTANTS
  MaxBackups = 3
  MaxOverlap = 2
  Limits <- MCLimits
  DefaultMaxFiles = 30
  OffAtFirst <- MCOff
  MaxEvents = 1
INVARIANTS TypeOK ServicesRestored RetentionHolds
CHECK_DEADLOCK FALSE
