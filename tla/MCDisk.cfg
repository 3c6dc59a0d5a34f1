CONSTANTS
  Disks = {disk0, disk1}
  Chars = {stdin0}
  Procs = {pa, pb}
  Files = {"pa", "pb"}
  Descs = {"d1"}
  NBlock = 3
  BLKSIZE = 2
  NDIRECT = 1
  MaxSize = 4
  Values = {1}
  MaxLen = 3
SPECIFICATION AllSpec
INVARIANTS
  MountExact
  BlocksExact
  ImageFaithful
PROPERTY ImplementsFile
\* A failed assertion stops the machine; mksfs ends.
CHECK_DEADLOCK FALSE
