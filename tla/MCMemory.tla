------------------------------ MODULE MCMemory ------------------------------
(***************************************************************************)
(* User memory on small instances: the address spaces of lab 8, those of   *)
(* lab 5 with copy-on-write, and the transfers of the file system calls.   *)
(* They share no state: part says which of them is at work, and the        *)
(* variables of the others are 0.                                          *)
(***************************************************************************)
EXTENDS AddressSpace

CONSTANT MoreMms

Seg(s, e, w) == [start |-> s, end |-> e, write |-> w]

\* One page of data, then the stack, of which one page is mapped at first.
OneSegment == {<<Seg(0, 1, TRUE)>>}
TwoPages == Seg(1, 3, TRUE)

VARIABLES
  part,
  frames, maps, procs, failed,          \* AddressSpace of lab 5
  vmas, mem, file, pos, last, calls     \* SysFile

lab5 == <<frames, maps, procs, failed>>
transfers == <<vmas, mem, file, pos, last, calls>>
vars == <<part, spaces, lab5, transfers>>

Lab5 == INSTANCE AddressSpace WITH NPage <- 11, N1 <- 1, N0 <- 1, NT <- 2,
          Programs <- OneSegment, Stack <- Seg(1, 2, TRUE), StackPages <- 1, COW <- TRUE,
          Mms <- Mms \cup MoreMms, pm <- frames, mms <- maps, proc <- procs, fault <- failed

\* Six words in pages of two: all of them as one VMA; read-only text, a hole and
\* data; data right below the stack.
Vma(start, end, w, stack) == [start |-> start, end |-> end, read |-> TRUE, write |-> w, stack |-> stack]
Layouts == {
  {Vma(0, 6, TRUE, FALSE)},
  {Vma(0, 2, FALSE, FALSE), Vma(4, 6, TRUE, FALSE)},
  {Vma(0, 2, TRUE, FALSE), Vma(2, 6, TRUE, TRUE)} }

\* What is in memory before the first call: no string, one over a page, two, none at all.
Memories == {[a \in 0 .. 5 |-> IF a \in Z THEN 0 ELSE 1] : Z \in {{}, {3}, {1, 4}, {0, 5}}}

Calls == INSTANCE SysFile WITH Top <- 6, PGSIZE <- 2, IOBUF_SIZE <- 2, PathLen <- 4,
           Room <- 4, MaxLen <- 5, MaxCalls <- 3

ASSUME MemoryAssumption == Lab5!SizesOK /\ Calls!SysFileAssumption

NoLab5 == frames = 0 /\ maps = 0 /\ procs = 0 /\ failed = 0
NoTransfers == vmas = 0 /\ mem = 0 /\ file = 0 /\ pos = 0 /\ last = 0 /\ calls = 0

Init ==
  /\ SpaceInit
  /\ \/ part = "lab8" /\ NoLab5 /\ NoTransfers
     \/ part = "lab5" /\ Lab5!SpaceInit /\ NoTransfers
     \/ part = "calls" /\ Calls!Init /\ NoLab5

Next ==
  \/ part = "lab8" /\ SpaceNext /\ UNCHANGED <<part, lab5, transfers>>
  \/ part = "lab5" /\ Lab5!SpaceNext /\ UNCHANGED <<part, spaces, transfers>>
  \/ part = "calls" /\ Calls!Next /\ UNCHANGED <<part, spaces, lab5>>

Spec == Init /\ [][Next]_vars


\* copy_range, page faults and the page tables give every process a memory of
\* its own: both kernels implement UserMemory.
ImplementsMemory ==
  /\ M!Init
  /\ part = "lab5" => Lab5!M!Init
  /\ [][ /\ part = "lab8" => [M!Next]_(M!vars)
         /\ part = "lab5" => [Lab5!M!Next]_(Lab5!M!vars) ]_vars

\* sysfile_read, sysfile_write and copy_path transfer exactly what they say,
\* whichever of chunk, page, VMA, guard page, file and disk ends first.
CallsExact == [][part = "calls" => Calls!CallsExactStep]_vars
=============================================================================
