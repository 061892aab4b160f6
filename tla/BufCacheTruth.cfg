SPECIFICATION Spec
CONSTANTS
  Threads = {t1, t2}
  Blocks = {b1, b2, b3}
  NoBlock = noBlock
  NSlots = 2
  DirtyLimit = 1
  MaxVersion = 3
INVARIANTS
  CacheIsTruth
