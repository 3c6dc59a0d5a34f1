CONSTANTS
  MAX_PROCESS = 6
  MAX_PID = 9
  NPage = 5
  BestFit = FALSE
SPECIFICATION AllSpec
INVARIANTS
  PidUnique
  ListExact
  SlobExact
  SlubExact
PROPERTIES
  ImplementsPageAlloc
  LabTwoImplements
  GetPidReturns
\* A failed assertion of kmalloc stops the machine.
CHECK_DEADLOCK FALSE
