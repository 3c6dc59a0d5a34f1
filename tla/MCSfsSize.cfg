SPECIFICATION SfsSpec
CONSTANTS
  Files = {"pa"}
  Descs = {"d1"}
  NBlock = 4
  BLKSIZE = 2
  NDIRECT = 1
  MaxSize = 6
  Values = {1}
  MaxLen = 3
INVARIANT SizeHonest
CHECK_DEADLOCK FALSE
