CONSTANTS
  Init_ = "init"
  Procs = {pa, pb}
  NFd = 3
  Root = "root"
  Dirs = {"root", "dir"}
  Files = {"file"}
  Devs = {"stdin"}
  DevMode <- Keyboard
  Names = {"..", "dir", "file"}
  Entry <- Tree
  Paths <- SomePaths
  Flags <- SomeFlags
  MaxLost = 1
  MaxOpen = 2
  Readers = {p1, p2, p3}
  Chars = {a, b}
  STDIN_BUFSIZE = 2
  MaxLen = 2
  MaxPos = 3
  CONSBUFSIZE = 4
  Keys = {"a", "b", "NUL", "DEL"}
  Backlog = 3
SPECIFICATION AllSpec
INVARIANTS
  RefsExact
  NoInputAsleep
  NextOrNone
PROPERTY ImplementsInput
\* A failed assertion stops the machine; nobody need type.
CHECK_DEADLOCK FALSE
