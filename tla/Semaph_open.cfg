SPECIFICATION Spec
CONSTANTS
  Procs = {p1, p2, p3}
  Openers = {p3}
  Servers = {}
  Crashers = {}
  BIGCOUNT = 4
  MaxCalls = 3
INVARIANTS OneAtATime
CHECK_DEADLOCK FALSE
