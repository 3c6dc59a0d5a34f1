CONSTANTS
  None = None
  Init0 = p0
  Procs = {p0, pa, pb}
  Mms = {m1, m2}
  MoreMms = {m3}
  NPage = 12
  N1 = 1
  N0 = 1
  NT = 3
  Values = {1, 2, 3}
  Programs <- OneSegment
  Stack <- TwoPages
  StackPages = 1
  COW = FALSE
SPECIFICATION Spec
INVARIANTS
  FramesSafe
  
PROPERTIES
  ImplementsMemory
  CallsExact
\* A failed assertion stops the machine, and calls are bounded.
CHECK_DEADLOCK FALSE
