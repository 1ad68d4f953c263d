SPECIFICATION FairSpec
CONSTANTS
  p1 = p1
  p2 = p2
  p3 = p3
  Procs = {p1, p2, p3}
  Keys = {"a", "c"}
  Data = {"x", "zz"}
  Blank = Blank
  NoProc = NoProc
  NHash = 2
  Hash <- MCHash
  KeyLen <- MCKeyLen
  DatLen <- MCDatLen
  Requests <- TwoChains
  Scanners = {p3}
  Crashers = {}
  CrashMidway = FALSE
  MaxCalls = 1
INVARIANTS DataOwned NoLockCycle Exclusion NextIntact
PROPERTIES ChainChangedByOwner CallsReturn
