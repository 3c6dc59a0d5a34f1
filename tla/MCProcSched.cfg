CONSTANTS
  idleproc = idle
  initproc = init
  Slots = {u1, u2, u3}
  AnyChild = any
  Victims = {u1, u2, u3, init}
  NKThreads = 2
  MAX_TIME_SLICE = 1
  MaxSleep = 2
SPECIFICATION Spec
SYMMETRY SlotSymmetry

INVARIANTS
  NoAssertFails
  RunQueueExact
  NoLostWakeup
  TimerInFrame
PROPERTIES LifeCycle SleepersTimed FamilyKept
