CONSTANTS
  Sleepers = {t1, t2, t3, t4}
  MaxSleep = 4
  initproc = init
  Slots = {u1, u2, u3, u4}
  NULL = NULL
  Nil = Nil
  Idle = Idle
  Runners = {p1, p2, p3}
SPECIFICATION AllSpec
INVARIANTS
  TreeExact
  HeapExact
PROPERTIES
  ImplementsTimers
  ImplementsFamily
  PicksLeast
