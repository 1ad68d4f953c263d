SPECIFICATION MCSpec
CONSTANTS
  Cap = 2
  MaxPipes = 3
  Names = {"f", "locked"}
  Unopenable = {"locked"}
  NoFile = NoFile
  Lines <- AllLines
  Pids = {1, 2, 3}
  maxfd = 6
  MaxFaults = 1
  NLOOPS = 6
  NBUF = 2
  BSZ = 2
  MaxSize = 7
  NTHR = 2
  TNUM = 2
  Numbers = {0, 1, 2}
  Inputs = {1, 2, 3}
  Wrong = {2}
  MaxTyped = 4
  SECTONSEC = 3
  Delay = 2
  MaxTime = 10
  MaxInput = 2
  MaxOutput = 2
INVARIANTS OutputRight ReaderGetsEof PromptClean TurnsKept SignalsHandled TerminalKept StreamsPrivate TransformsRight
PROPERTIES ProgramsEnd
CHECK_DEADLOCK FALSE
