CONSTANTS
  idleproc = idle
  initproc = init
  Slots = {u1, u2}
  AnyChild = any
  Victims = {u1, u2}
  NKThreads = 1
  MAX_TIME_SLICE = 1
  MaxSleep = 1
SPECIFICATION FairSpec
PROPERTY KilledDies
