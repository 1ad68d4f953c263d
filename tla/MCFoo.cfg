SPECIFICATION MCSpec
CONSTANTS
  t1 = t1
  t2 = t2
  t3 = t3
  r1 = r1
  r2 = r2
  r3 = r3
  o1 = o1
  o2 = o2
  i1 = i1
  i2 = i2
  Threads = {t1, t2, t3}
  Refs = {r1, r2, r3}
  Objs = {o1, o2}
  Ids = {i1, i2}
  Buckets = {0, 1}
  Hash <- MCHash
  NULL = NULL
  NoId = NoId
  NoThread = NoThread
SYMMETRY Symmetry
INVARIANTS CountRight NoLeak NoUseAfterFree NoDeadlock NoUseAfterFree3
PROPERTIES ImplementsRefs
