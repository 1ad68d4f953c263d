SPECIFICATION Spec
CONSTANTS
  p1 = p1
  p2 = p2
  p3 = p3
  Procs = {p1, p2}
  Keys = {"a"}
  Data = {"x"}
  Blank = Blank
  NoProc = NoProc
  NHash = 2
  Hash <- MCHash
  KeyLen <- MCKeyLen
  DatLen <- MCDatLen
  Requests <- OneChain
  Scanners = {p2}
  Crashers = {p1}
  CrashMidway = TRUE
  MaxCalls = 2
INVARIANTS NextIntact
