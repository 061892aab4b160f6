SPECIFICATION ProcessesSpec
CONSTANTS
  Tasks = {init, p1, p2, p3}
  InitProc = init
  NoProc = noProc
  AnyChild = anyChild
  MaxForks = 3
  CpuTasks = {boot, t1, t2}
  Boot = boot
  Idle = idle
  MaxTasks = 4
  MaxTimeout = 1
  MaxCredit = 1
INVARIANTS
  TasksExact
  TreeExact
  WaiterSeesZombie
PROPERTIES
  ZombieStaysDown
  ImplementsSleepWake
SYMMETRY UserSymmetry
CHECK_DEADLOCK FALSE
