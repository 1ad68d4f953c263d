SPECIFICATION FairSpec
CONSTANTS
  Clients = {c1, c2}
  NParts = 2
  MaxFaults = 2
  NULL = NULL
  Slow = {}
INVARIANTS AcceptedKept JobOnce PaperRight RejectedNotPrinted
PROPERTIES AcceptedPrinted
CHECK_DEADLOCK FALSE
