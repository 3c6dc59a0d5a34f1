------------------------------- MODULE Kmalloc -------------------------------
(***************************************************************************)
(* kmalloc and kfree (kern/mm/kmalloc.c): the SLOB heap, a circular list   *)
(* of free blocks in the order of their addresses, walked from where the   *)
(* last call left it, and above it the list of the blocks of whole pages.  *)
(*                                                                         *)
(* Addresses count units of SLOB_UNIT bytes.  The arena's own block is at  *)
(* address 0 and page n begins at n * PageUnits.  Every caller runs with   *)
(* interrupts off or in a kernel that is not preempted, and no interrupt   *)
(* handler allocates, so one action is one call.  slob_alloc's align is 0  *)
(* in every call, and its code for another value is left out.  The page    *)
(* allocator below gives the lowest run it has (PageAlloc), and the rest   *)
(* of the kernel takes pages from it too.                                  *)
(***************************************************************************)
EXTENDS Integers, FiniteSetsExt

CONSTANTS
  NPage,      \* the pages are 1 .. NPage
  PageUnits,  \* units in a page, 256 in the code
  SLOB_UNIT,  \* bytes in a unit, 16 in the code
  BigUnits,   \* units of a bigblock_t, 2 in the code
  Sizes       \* what kmalloc is called with

KmallocAssumption ==
  /\ NPage \in Nat \ {0}
  /\ SLOB_UNIT \in Nat \ {0}
  /\ BigUnits \in Nat \ {0, 1} /\ PageUnits > BigUnits
  /\ Sizes \subseteq Nat \ {0}

PAGE_SIZE == PageUnits * SLOB_UNIT
arena == 0
NULL  == -1

VARIABLES
  blocks,     \* the free blocks by address: [units, next]
  slobfree,   \* where the next walk begins
  held,       \* the blocks in use from slob_alloc: address -> units
  asked,      \* the callers' blocks: address -> the size asked for
  bigblocks,  \* the blocks of whole pages: {[bb, order, pages]}
  pages,      \* the pages that alloc_pages has to give
  taken,      \* the pages the rest of the kernel has
  halted      \* an assertion failed

vars == <<blocks, slobfree, held, asked, bigblocks, pages, taken, halted>>

SLOB_UNITS(size) == (size + SLOB_UNIT - 1) \div SLOB_UNIT

Without(f, S) == [x \in DOMAIN f \ S |-> f[x]]
With(f, a, v) == [x \in DOMAIN f \cup {a} |-> IF x = a THEN v ELSE f[x]]

\* The slob heap as a value that slob_alloc and slob_free work on.
Heap == [blocks |-> blocks, slobfree |-> slobfree, pages |-> pages]

-----------------------------------------------------------------------------
(* slob_free and slob_alloc *)

\* The k-th block met from slobfree.
At(h) ==
  LET w[k \in 0 .. Cardinality(DOMAIN h.blocks)] ==
        IF k = 0 THEN h.slobfree ELSE h.blocks[w[k - 1]].next
  IN  w

\* Whether b belongs between cur and the block after it.
Belongs(h, b, cur) ==
  LET nxt == h.blocks[cur].next
  IN  (b > cur /\ b < nxt) \/ (cur >= nxt /\ (b > cur \/ b < nxt))

\* slob_free: put in after cur, joined with the block after it, and with cur.
Joined(h, b, units, cur) ==
  LET nxt == h.blocks[cur].next
      up  == b + units = nxt
      new == [units |-> units + (IF up THEN h.blocks[nxt].units ELSE 0),
              next |-> IF up THEN h.blocks[nxt].next ELSE nxt]
      bs  == IF up THEN Without(h.blocks, {nxt}) ELSE h.blocks
  IN  IF cur + bs[cur].units = b
      THEN [bs EXCEPT ![cur] = [units |-> @.units + new.units, next |-> new.next]]
      ELSE With([bs EXCEPT ![cur].next = b], b, new)

slob_free(h, b, units) ==
  LET w   == At(h)
      cur == w[Min({k \in DOMAIN w : Belongs(h, b, w[k])})]
  IN  [h EXCEPT !.blocks = Joined(h, b, units, cur), !.slobfree = cur]

\* The places of the walk, from the block after slobfree round to slobfree
\* itself, at which a block is large enough.
Fits(h, units) == {k \in DOMAIN At(h) \ {0} : h.blocks[At(h)[k]].units >= units}

\* The first of them, cut to size.
Cut_whole(h, prev, cur, units) == [Without(h.blocks, {cur}) EXCEPT ![prev].next = h.blocks[cur].next]
Cut(h, prev, cur, units) ==
  LET rest == cur + units
  IN  IF h.blocks[cur].units = units
      THEN [Without(h.blocks, {cur}) EXCEPT ![prev].next = h.blocks[cur].next]
      ELSE [With(Without(h.blocks, {cur}), rest, [units |-> h.blocks[cur].units - units,
                                                  next |-> h.blocks[cur].next])
              EXCEPT ![prev].next = rest]

Taken(h, units) ==
  LET k == Min(Fits(h, units))
      w == At(h)
  IN  [heap |-> [h EXCEPT !.blocks = Cut(h, w[k - 1], w[k], units), !.slobfree = w[k - 1]],
       at |-> w[k]]

\* alloc_pages: the lowest run of n pages, or none.
Runs(h, n) == {p \in 1 .. (NPage - n + 1) : (p .. (p + n - 1)) \subseteq h.pages}
alloc_pages(h, n) ==
  IF Runs(h, n) = {} THEN [heap |-> h, at |-> NULL]
  ELSE LET p == Min(Runs(h, n))
       IN  [heap |-> [h EXCEPT !.pages = @ \ (p .. (p + n - 1))], at |-> p]

\* A page is added to the heap when nothing fits; after that something does.
slob_alloc(h, units) ==
  IF Fits(h, units) # {} THEN Taken(h, units)
  ELSE LET new == alloc_pages(h, 1)
       IN  IF new.at = NULL THEN new
           ELSE Taken(slob_free(new.heap, new.at * PageUnits, PageUnits), units)
-----------------------------------------------------------------------------
(* kmalloc and kfree *)

find_order(size) ==
  LET f[n \in 0 .. size] == IF n <= PAGE_SIZE THEN 0 ELSE 1 + f[n \div 2] IN f[size]

SetHeap(h) == blocks' = h.blocks /\ slobfree' = h.slobfree /\ pages' = h.pages

Init ==
  /\ blocks = [a \in {arena} |-> [units |-> 1, next |-> arena]]
  /\ slobfree = arena
  /\ held = << >> /\ asked = << >>
  /\ bigblocks = {}
  /\ pages = 1 .. NPage /\ taken = {}
  /\ halted = FALSE

Small(size) == size < PAGE_SIZE - SLOB_UNIT

\* A block with a header: the caller gets the address after it.
kmalloc_small(size) ==
  /\ ~halted /\ Small(size)
  /\ size + 2 * SLOB_UNIT < PAGE_SIZE
  /\ LET units == SLOB_UNITS(size + SLOB_UNIT)
         m     == slob_alloc(Heap, units)
     IN  /\ SetHeap(m.heap)
         /\ IF m.at = NULL THEN UNCHANGED <<held, asked>>
            ELSE held' = With(held, m.at, units) /\ asked' = With(asked, m.at + 1, size)
         /\ UNCHANGED <<bigblocks, taken, halted>>

\* assert((size + SLOB_UNIT) < PAGE_SIZE), of a size with the header added.
kmalloc_assert(size) ==
  /\ ~halted /\ Small(size)
  /\ size + 2 * SLOB_UNIT >= PAGE_SIZE
  /\ halted' = TRUE
  /\ UNCHANGED <<blocks, slobfree, held, asked, bigblocks, pages, taken>>

\* Whole pages, and a bigblock_t that remembers them.
kmalloc_big(size) ==
  /\ ~halted /\ ~Small(size)
  /\ LET bb    == slob_alloc(Heap, BigUnits)
         order == find_order(size)
         pgs   == alloc_pages(bb.heap, 2^order)
     IN  IF bb.at = NULL THEN SetHeap(bb.heap) /\ UNCHANGED <<held, asked, bigblocks>>
         ELSE IF pgs.at = NULL
         THEN SetHeap(slob_free(bb.heap, bb.at, BigUnits)) /\ UNCHANGED <<held, asked, bigblocks>>
         ELSE /\ SetHeap(pgs.heap)
              /\ held' = With(held, bb.at, BigUnits)
              /\ bigblocks' = bigblocks \cup {[bb |-> bb.at, order |-> order, pages |-> pgs.at * PageUnits]}
              /\ asked' = With(asked, pgs.at * PageUnits, size)
  /\ UNCHANGED <<taken, halted>>

\* A page-aligned block may be one of the whole pages, or a small one that
\* happens to begin a page.
OfPages(block) == {bb \in bigblocks : block % PageUnits = 0 /\ bb.pages = block}

kfree_small(block) ==
  /\ ~halted /\ block \in DOMAIN asked /\ OfPages(block) = {}
  /\ SetHeap(slob_free(Heap, block - 1, held[block - 1]))
  /\ held' = Without(held, {block - 1})
  /\ asked' = Without(asked, {block})
  /\ UNCHANGED <<bigblocks, taken, halted>>

kfree_big(block) ==
  /\ ~halted /\ block \in DOMAIN asked
  /\ \E bb \in OfPages(block) :
       LET p == bb.pages \div PageUnits
       IN  /\ SetHeap(slob_free([Heap EXCEPT !.pages = @ \cup (p .. (p + 2^bb.order - 1))],
                                bb.bb, BigUnits))
           /\ held' = Without(held, {bb.bb})
           /\ asked' = Without(asked, {block})
           /\ bigblocks' = bigblocks \ {bb}
           /\ UNCHANGED <<taken, halted>>

\* The rest of the kernel takes the lowest page, and gives any back.
KernelTakes ==
  /\ ~halted /\ pages # {}
  /\ pages' = pages \ {Min(pages)} /\ taken' = taken \cup {Min(pages)}
  /\ UNCHANGED <<blocks, slobfree, held, asked, bigblocks, halted>>

KernelReturns(p) ==
  /\ ~halted /\ p \in taken
  /\ pages' = pages \cup {p} /\ taken' = taken \ {p}
  /\ UNCHANGED <<blocks, slobfree, held, asked, bigblocks, halted>>

Next ==
  \/ \E size \in Sizes : kmalloc_small(size) \/ kmalloc_assert(size) \/ kmalloc_big(size)
  \/ \E block \in DOMAIN asked : kfree_small(block) \/ kfree_big(block)
  \/ KernelTakes \/ \E p \in taken : KernelReturns(p)

Spec == Init /\ [][Next]_vars
-----------------------------------------------------------------------------
(* Properties *)

Extent(b, units) == b .. (b + units - 1)

PagesOf(bb) == LET p == bb.pages \div PageUnits IN p .. (p + 2^bb.order - 1)
BigPages  == UNION {PagesOf(bb) : bb \in bigblocks}
SlobPages == (1 .. NPage) \ (pages \cup taken \cup BigPages)

\* The free blocks with the arena's, and the blocks in use, as <<address, units>>.
Pieces == {<<b, blocks[b].units>> : b \in DOMAIN blocks} \cup {<<b, held[b]>> : b \in DOMAIN held}

\* The heap is exact after every call: one circle in the order of addresses
\* links the free blocks, so that slob_free's search ends; no two of them
\* touch; and free blocks and blocks in use divide the arena and the pages of
\* the heap between them, without overlap and without loss, whichever blocks
\* run over a page's end or begin at one (where kfree could take a small block
\* for whole pages) and whichever step failed for want of a page.
SlobExact ==
  /\ slobfree \in DOMAIN blocks /\ blocks[arena].units = 1
  /\ \A b \in DOMAIN blocks :
       /\ blocks[b].next =
            LET above == {c \in DOMAIN blocks : c > b}
            IN  IF above = {} THEN arena ELSE Min(above)
       /\ b + blocks[b].units # blocks[b].next
  /\ \A x, y \in Pieces : x # y => Extent(x[1], x[2]) \cap Extent(y[1], y[2]) = {}
  /\ UNION {Extent(x[1], x[2]) : x \in Pieces} =
       {arena} \cup UNION {Extent(p * PageUnits, PageUnits) : p \in SlobPages}
  /\ DOMAIN held = {bb.bb : bb \in bigblocks}
                     \cup {block - 1 : block \in DOMAIN asked \ {bb.pages : bb \in bigblocks}}
  /\ \A b, c \in bigblocks : b # c => PagesOf(b) \cap PagesOf(c) = {}

\* assert((size + SLOB_UNIT) < PAGE_SIZE) of slob_alloc, for the sizes that
\* __kmalloc sends there.
SlobAsserts == ~halted

\* A caller gets as many bytes as it asked for: of whole pages 2^order of them.
RoomEnough ==
  \A bb \in bigblocks : asked[bb.pages] <= PAGE_SIZE * 2^bb.order
=============================================================================
