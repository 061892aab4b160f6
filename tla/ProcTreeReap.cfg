SPECIFICATION Spec
CONSTANTS
  Tasks = {init, p1, p2}
  InitProc = init
  NoProc = noProc
  AnyChild = anyChild
  MaxForks = 2
INVARIANTS
  ReapsOnlyZombies
CHECK_DEADLOCK FALSE
