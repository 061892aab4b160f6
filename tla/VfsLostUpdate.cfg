SPECIFICATION VfSpec
CONSTANTS
  VfThreads = {t1, t2}
  VfObjects = {1, 2, 3, 4, 5, 6, 7, 8}
  VfTree <- MountTree
  VfFiles <- RegularFiles
  VfCalls <- OpenCalls
  VfMounts <- Mounts
  VfMountMax = 8
  VfMaxWrites = 1
INVARIANTS
  OpenIsCurrent
