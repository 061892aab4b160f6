SPECIFICATION FairSpec
CONSTANTS
  Tasks = {t1, t2, t3}
  Leader = t1
  NoTask = noTask
  Freed = freed
  Codes = {1}
  MaxThreads = 3
  Blocking = {"TIMED"}
  SiblingFaults = FALSE

  
PROPERTIES
  MarkedRetires
CHECK_DEADLOCK FALSE
