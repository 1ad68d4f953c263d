SPECIFICATION FairSpec
CONSTANTS
  Clients = {c1, c2}
  NParts = 2
  MaxFaults = 1
  NULL = NULL
  Slow = {}
PROPERTIES AllCancelled
CHECK_DEADLOCK FALSE
