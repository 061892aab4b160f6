SPECIFICATION MemorySpec
CONSTANTS
  PfnCount = 8
  First = 3
  DmaEnd = 4
  MaxOrder = 3
  MaxRef = 2
  Threads = 2
  small = small
  big = big
  SlPages = 4
  SlCapacity <- HeapCapacity
  SlMaxOrder = 2
  SlThreads = 2
  SlNone = none
  VmTop = 6
  VmBase = 5
  VmProts = {r, w}
  VmFree = none
  RbNodes = {1, 2, 3, 4, 5}
  RbNull = null
INVARIANTS
  PagesConserved
  FreeListsExact
  HeapExact
  CallsActOnPages
CHECK_DEADLOCK FALSE
