SPECIFICATION Spec
CONSTANTS
  Clients = {c1, c2}
  NParts = 2
  MaxFaults = 1
  NULL = NULL
  Slow = {}
INVARIANTS AllKept
CHECK_DEADLOCK FALSE
