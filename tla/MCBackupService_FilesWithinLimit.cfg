SPECIFICATION Spec
CONSTANTS
  MaxBackups = 3
  MaxOverlap = 2
  Limits <- MCLimits
  DefaultMaxFiles = 30
  OffAtFirst <- MCOff
  MaxEvents = 1
INVARIANT FilesWithinLimit
CHECK_DEADLOCK FALSE
