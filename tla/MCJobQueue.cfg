SPECIFICATION FairSpec
CONSTANTS
  MaxJobs = 3
  MaxAttempts = 2
  Procs = {p1, p2}
INVARIANTS TypeOK OneAtATime FirstAttemptsInOrder AuditTrail
PROPERTIES JobsLive NoJobForgotten
CHECK_DEADLOCK FALSE
