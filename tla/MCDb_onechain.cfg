SPECIFICATION Spec
CONSTANTS
  p1 = p1
  p2 = p2
  p3 = p3
  Procs = {p1, p2}
  Keys = {"a", "b"}
  Data = {"x", "zz"}
  Blank = Blank
  NoProc = NoProc
  NHash = 2
  Hash <- MCHash
  KeyLen <- MCKeyLen
  DatLen <- MCDatLen
  Requests <- OneChain
  Scanners = {}
  Crashers = {p1}
  CrashMidway = FALSE
  MaxCalls = 2
INVARIANTS ListsPartition KeysPlaced
PROPERTIES ImplementsStore
