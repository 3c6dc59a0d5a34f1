CONSTANTS
  N = 4
  TIMES = 1
SPECIFICATION AllSpec
INVARIANTS
  OneToken
  NeighboursNeverEat
  SomebodyRuns
  SemaNeverEat
  SemaSomebodyRuns
PROPERTY EverybodyQuits
