---------------------------- MODULE MCAllocators ----------------------------
(***************************************************************************)
(* The allocators, each on a small instance: get_pid (PidAlloc); first     *)
(* fit, and best fit and buddies of lab 2, for pages; kmalloc's SLOB heap  *)
(* and the slub allocator of lab 2 for blocks.  They share no state: part  *)
(* says which one is at work.  The last four, of which no kernel has two,  *)
(* share variables; those the one at work does not have are 0.             *)
(***************************************************************************)
EXTENDS PidAlloc, DefaultPmm

VARIABLES
  part,
  hands,                          \* the callers of the last four
  sizes, got,                     \* property and res of best fit and the buddies
  ring, heads, count,             \* links, flagged and nr_free of best fit
  longest, total_free,            \* the buddies
  pages,                          \* the pages under kmalloc
  blocks, slobfree, asked, bigblocks, taken, halted,  \* SLOB
  slab, slab_lists, big           \* slub

best == <<ring, heads, count>>
buddies == <<longest, total_free>>
slob == <<blocks, slobfree, asked, bigblocks, taken, halted>>
slabs == <<slab, slab_lists, big>>
memory == <<hands, sizes, got, pages, best, buddies, slob, slabs>>
all == <<vars, pmm, part, memory>>

BestPmm == INSTANCE DefaultPmm WITH NPage <- 4, BestFit <- TRUE,
             links <- ring, property <- sizes, flagged <- heads, nr_free <- count,
             held <- hands, res <- got
Buddy == INSTANCE BuddyPmm WITH NPage <- 10, BUDDY_MAX_PAGES <- 16,
           property <- sizes, held <- hands, res <- got
Slob  == INSTANCE Kmalloc WITH NPage <- 3, PageUnits <- 6, SLOB_UNIT <- 2, BigUnits <- 2,
           Sizes <- {1, 3, 8, 12, 13}, held <- hands
Slabs == INSTANCE Slub WITH NPage <- 3, PGSIZE <- 46, SlabHdr <- 6, BigHdr <- 2,
           SLUB_OBJ_SIZES <- <<8, 16>>, Asks <- {8, 9, 44, 45}, held <- hands

ASSUME AllocatorsAssumption ==
  /\ Buddy!BuddyAssumption
  /\ Slob!KmallocAssumption /\ Slabs!SlubAssumption

NoPages   == sizes = 0 /\ got = 0
NoList    == ring = 0 /\ heads = 0 /\ count = 0
NoBuddies == longest = 0 /\ total_free = 0
NoSlob    == blocks = 0 /\ slobfree = 0 /\ asked = 0 /\ bigblocks = 0 /\ taken = 0 /\ halted = 0
NoSlabs   == slab = 0 /\ slab_lists = 0 /\ big = 0

AllInit ==
  /\ Init /\ PmmInit
  /\ \/ /\ part \in {"pids", "first"} /\ hands = 0 /\ pages = 0
        /\ NoPages /\ NoList /\ NoBuddies /\ NoSlob /\ NoSlabs
     \/ part = "best" /\ BestPmm!PmmInit /\ NoBuddies /\ pages = 0 /\ NoSlob /\ NoSlabs
     \/ part = "buddy" /\ Buddy!Init /\ NoList /\ pages = 0 /\ NoSlob /\ NoSlabs
     \/ part = "slob" /\ Slob!Init /\ NoPages /\ NoList /\ NoBuddies /\ NoSlabs
     \/ part = "slub" /\ Slabs!Init /\ NoPages /\ NoList /\ NoBuddies /\ NoSlob

GetPid(step) == part = "pids" /\ step /\ UNCHANGED <<part, pmm, memory>>

\* First fit with the last page free: TopFree of DefaultPmm says why.
AllNext ==
  \/ GetPid(Next)
  \/ part = "first" /\ PmmNext /\ TopFree' /\ UNCHANGED <<part, vars, memory>>
  \/ /\ part = "best" /\ BestPmm!PmmNext
     /\ UNCHANGED <<part, vars, pmm, buddies, pages, slob, slabs>>
  \/ /\ part = "buddy" /\ Buddy!Next
     /\ UNCHANGED <<part, vars, pmm, best, pages, slob, slabs>>
  \/ /\ part = "slob" /\ Slob!Next
     /\ UNCHANGED <<part, vars, pmm, sizes, got, best, buddies, slabs>>
  \/ /\ part = "slub" /\ Slabs!Next
     /\ UNCHANGED <<part, vars, pmm, sizes, got, best, buddies, slob>>

\* The fairness of PidAlloc.
AllSpec == AllInit /\ [][AllNext]_all /\ WF_all(GetPid(Scan))

\* alloc_pages of lab 2's allocators gives the place their policy promises,
\* fails only when there is none, and never gives a page that is held: best fit
\* and the buddy tree implement PageAlloc.
LabTwoImplements ==
  /\ part = "best" => BestPmm!A!Init
  /\ part = "buddy" => Buddy!A!Init
  /\ [][ /\ part = "best" => [BestPmm!A!Next]_(BestPmm!A!vars)
         /\ part = "buddy" => [Buddy!BuddyStep]_(Buddy!A!vars) ]_all

\* slob_alloc and slob_free keep the circle of free blocks in order, merged and
\* complete; no memory is in two hands or in none.
SlobExact == part = "slob" => Slob!SlobExact

\* slub_alloc and slub_free: no byte is in two hands or under a header or
\* bitmap; bits, counts and lists are exact.
SlubExact == part = "slub" => Slabs!SlubExact
=============================================================================
