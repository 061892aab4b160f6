SPECIFICATION Spec
CONSTANTS
  Tasks = {t1, t2, t3}
  Words = {w1}
  NoWord = noWord
  Counts = {1}
  MaxStray = 1
INVARIANTS
  NothingLeftBehind
  WakeHonoured
SYMMETRY TaskWordSymmetry
CHECK_DEADLOCK FALSE
