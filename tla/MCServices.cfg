SPECIFICATION MCSpec
CONSTANTS
  p1 = p1
  p2 = p2
  p3 = p3
  Procs = {p1, p2, p3}
  Openers = {p3}
  Servers = {p3}
  Crashers = {p2}
  BIGCOUNT = 4
  MaxCalls = 5
  c1 = c1
  c2 = c2
  Clients = {c1, c2}
  Files = {"f"}
  Names = {"f", "none"}
  Quitters = {c1}
  NALLOC = 1
  MaxOpens = 4
  MAXSLEEP = 4
  MaxFaults = 2
  d1 = d1
  d2 = d2
  Daemons = {d1, d2}
  MaxStarts = 3
  MaxSignals = 2
  Threads = {"t1", "t2"}
  NULL = "null"
  Jobs = {"a", "b", "c"}
  MaxJobs = 4
  Msgs = {"a", "b", "c"}
  Bytes = {1, 2}
  Sizes = {0, 2, 3}
  MaxLen = 2
  MaxUses = 3
INVARIANTS CountRight UsersKept NothingLeft AnswersMatch UptimeRight OneDaemon MessagesKept MemoryRight
PROPERTIES ImplementsJobList ReadableIsFile ServicesAnswer
CHECK_DEADLOCK FALSE
