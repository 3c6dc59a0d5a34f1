CONSTANTS
  idleproc = idle
  initproc = init
  Slots = {u1, u2, u3}
  AnyChild = any
  Victims = {u1}
  NKThreads = 1
  MAX_TIME_SLICE = 1
  MaxSleep = 1
SPECIFICATION FairSpec
PROPERTIES NoStarvation SleepEnds OrphansReaped
