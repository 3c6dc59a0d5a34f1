CONSTANTS
  NPage = 4
  BestFit = FALSE
SPECIFICATION PmmSpec
INVARIANT FreeListChecks
