SPECIFICATION FilesSpec
CONSTANTS
  t1 = t1
  t2 = t2
  t3 = t3
  MfZones = 5
  MfWords = 2
  MfDirect = 1
  MfMaxChunk = 4
  MfWrites <- FileWrites
  MfSizes = {0, 1}
  MfBad = {0, 1, 2, 3, 4, 5, 6, 7, 8}
  MfBlindBmap = FALSE
  MdInodes = 3
  MdNames = {"a", "b"}
  MdMaxLinks = 3
  MdBad = {0, 1, 2, 3, 4, 5, 6, 7, 8, 9, 10}
  MdFaults = 2
  MdBlindReads = FALSE
  VfThreads = {t1, t2}
  VfObjects = {1, 2, 3, 4, 5, 6, 7}
  VfTree <- MountTree
  VfFiles <- RegularFiles
  VfCalls <- PathCalls
  VfMounts <- Mounts
  VfMountMax = 8
  VfMaxWrites = 1
  FdProcs = {"p", "c"}
  FdFirst = "p"
  FdThreads = {t1, t2, t3}
  FdProcOf <- ThreadProc
  FdFiles = {1, 2}
  FdSlots = {3, 4}
  FdMaxSize = 1
  FdChunk = 1
  FdVectors <- Requests
  FdFaults = {0, 1, 2}
  ExPage = 4
  ExTop = 16
  ExStackTop = 13
  ExStackPages = 4
  ExAslr = 2
  ExFrames = 12
  ExImages <- Images
  ExArgs <- Vectors
  ExMaxTotal = 11
  ExMaxStrings = 3
  ExBad = {0, 2, 3, 5, 6, 7, 13, 15, 17, 21}
  KbRing = 3
  KbSc1 <- PlainKeys
  KbSc1E0 <- ExtendedKeys
  KbPrintable = {"KPENTER"}
  KbLens = {2}
  KbReaders = {"r"}
  KbMaxTyped = 4
INVARIANTS
  
  ZonesExact
  
  
  CacheExact
  NoLockCycle
  FilesExact
  TransfersTold
  
  ArgumentsFound
  KeysInOrder
SYMMETRY ThreadSymmetry
CHECK_DEADLOCK FALSE
