SPECIFICATION Spec
CONSTANTS
  Payloads = {2, 4}
  MaxInstalls = 3
  MaxUpsets = 1
INVARIANT RolledBack
CHECK_DEADLOCK FALSE
