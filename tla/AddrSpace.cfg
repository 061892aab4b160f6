\* Two processes at a time, two pages each, two frames; single-threaded.
SPECIFICATION Spec
CONSTANTS
  s1 = s1
  s2 = s2
  f1 = f1
  f2 = f2
  Spaces = {s1, s2}
  InitSpace = s1
  NoSpace = NoSpace
  NVas = 2
  Frames = {f1, f2}
  ZeroPage = ZeroPage
  NoFrame = NoFrame
  Unmapped = Unmapped
  Siblings = FALSE
INVARIANTS
  SharingExact
PROPERTIES
  ImplementsPrivateMemory
SYMMETRY FrameSymmetry
