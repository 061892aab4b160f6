SPECIFICATION BlockSpec
CONSTANTS
  Threads = {t1, t2}
  Blocks = {b1, b2, b3}
  NoBlock = noBlock
  NSlots = 2
  DirtyLimit = 1
  MaxVersion = 2
  zero = zero
  one = one
  VbThreads = {t1, t2}
  VbSectors = 2
  VbPages = {p1, p2}
  VbValues = {zero, one}
  VbNone = none
  VbOps <- BlockOps
  VbIrqModes = {TRUE, FALSE}
  VbIdx = 2
  AhThreads = {t1, t2}
  AhSectors = 2
  AhValues = {zero, one}
  AhNone = none
  AhOps <- BlockOps
  AhIrqModes = {TRUE, FALSE}
  DiVectors = {i1, i2}
  DiPages = {d1, d2, d3, d4, d5}
  DiPorts = 3
  DiMaxDrives = 2
  DiMaxBdevs = 3
  DiNone = none
INVARIANTS
  SlotsExact
  EvictableOnDisk
  VbDmaOwned
  DiExact
PROPERTIES
  VirtioImplementsBlockDevice
  AhciImplementsBlockDevice
SYMMETRY BlockSymmetry
