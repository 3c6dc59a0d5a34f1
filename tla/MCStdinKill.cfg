CONSTANTS
  Readers = {p1}
  Chars = {a}
  STDIN_BUFSIZE = 2
  MaxLen = 2
  MaxPos = 3
SPECIFICATION FairSpec
PROPERTY KilledReaderLeaves
CHECK_DEADLOCK FALSE
