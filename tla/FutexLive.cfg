SPECIFICATION FairSpec
CONSTANTS
  Tasks = {t1, t2}
  Words = {w1, w2}
  NoWord = noWord
  Counts = {1}
  MaxStray = 0
INVARIANTS
  NoStaleWaiter
PROPERTIES
  WaitReturns
CHECK_DEADLOCK FALSE
