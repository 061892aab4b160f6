SPECIFICATION LocksSpec
CONSTANTS
  Tasks = {t1, t2, t3}
  NoTask = NoTask
  Dangling = Dangling
  MaxStray = 2
  CpuTasks = {boot, c1, c2}
  Boot = boot
  Idle = idle
  MaxTasks = 3
  MaxTimeout = 1
  MaxCredit = 1
INVARIANTS
  MutualExclusion
  NoLeftoverCredit
PROPERTIES
  ImplementsFifoLock
  WaiterEnters
  RoundRobin
  TimedSleepEnds
