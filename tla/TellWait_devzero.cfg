SPECIFICATION FairSpec
CONSTANTS
  Cases <- SignalDevzero
  NLOOPS = 6
PROPERTIES BothEnd
CHECK_DEADLOCK FALSE
