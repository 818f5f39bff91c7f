SPECIFICATION FairSysSpec
CONSTANTS
  MaxJobs = 2
  MaxAttempts = 1
  Procs = {p1}
  Interval <- MCInterval
  Enabled = {1, 2}
  Ticks = {k1, k2}
  MaxClock = 2
INVARIANTS SysTypeOK NeverTooOften
PROPERTY DueTaskIsTriggered
CHECK_DEADLOCK FALSE
