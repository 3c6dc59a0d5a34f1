------------------------------ MODULE BuddyPmm ------------------------------
(***************************************************************************)
(* The buddy allocator of lab 2 (kern/mm/buddy_pmm.c): a complete binary   *)
(* tree in an array, where longest[i] is the size of the largest free      *)
(* block under node i, 0 at a node that is handed out.  What lies below    *)
(* such a node keeps its old numbers.                                      *)
(***************************************************************************)
EXTENDS Integers, FiniteSetsExt, SequencesExt

CONSTANTS
  NPage,            \* the pages buddy_init_memmap is given
  BUDDY_MAX_PAGES   \* a power of two

Powers == {2^k : k \in 0 .. BUDDY_MAX_PAGES}

BuddyAssumption ==
  NPage \in Nat \ {0} /\ BUDDY_MAX_PAGES \in Powers

VARIABLES
  longest,     \* buddy_mgr.longest
  property,    \* page->property of the managed pages
  total_free,  \* buddy_mgr.total_free
  held,        \* the blocks the callers have: <<base, size>>
  res          \* what the last call of alloc_pages returned, -1 for NULL

vars == <<longest, property, total_free, held, res>>

LEFT_LEAF(i)  == 2 * i + 1
RIGHT_LEAF(i) == 2 * i + 2
PARENT(i)     == (i + 1) \div 2 - 1

\* The least power of two that is not below n.
fixsize(n) == Min({p \in Powers : p >= n})

\* buddy_init_memmap: the largest power of two that fits, the rest is not used.
size == Max({p \in Powers : p <= NPage /\ p <= BUDDY_MAX_PAGES})

Pages == 0 .. (size - 1)
Nodes == 0 .. (2 * size - 2)
Block(b, n) == b .. (b + n - 1)

\* The nodes above i, from its parent to the root.
Above[i \in Nodes] == IF i = 0 THEN <<>> ELSE <<PARENT(i)>> \o Above[PARENT(i)]

\* The size of a block at node i.
NodeSize(i) == size \div 2^Len(Above[i])

Init ==
  /\ longest = [i \in Nodes |-> NodeSize(i)]
  /\ property = [p \in Pages |-> 0]
  /\ total_free = size
  /\ held = {}
  /\ res = -1
-----------------------------------------------------------------------------
(* buddy_alloc: down to a node of the size, to the left where that will do. *)

Down[i \in Nodes, k \in Powers] ==
  IF NodeSize(i) = k THEN i
  ELSE IF longest[LEFT_LEAF(i)] >= k THEN Down[LEFT_LEAF(i), k]
  ELSE Down[RIGHT_LEAF(i), k]

OffsetOf(i) == (i + 1) * NodeSize(i) - size

\* A node on the way up takes the larger of its halves.
Larger(L, i) == [L EXCEPT ![i] = Max({L[LEFT_LEAF(i)], L[RIGHT_LEAF(i)]})]

alloc_fails(n) ==
  /\ fixsize(n) > size \/ longest[0] < fixsize(n)
  /\ res' = -1
  /\ UNCHANGED <<longest, property, total_free, held>>

buddy_alloc_pages(n) ==
  LET k == fixsize(n)
      i == Down[0, k]
      b == OffsetOf(i)
  IN  /\ k <= size /\ longest[0] >= k
      /\ longest' = FoldLeft(Larger, [longest EXCEPT ![i] = 0], Above[i])
      /\ property' = [p \in Pages |-> IF p \in Block(b, k) THEN k ELSE property[p]]
      /\ total_free' = total_free - k
      /\ held' = held \cup {<<b, k>>}
      /\ res' = b
-----------------------------------------------------------------------------
(* buddy_free: from the leaf up to the first node that is handed out, and on *)
(* to the root, two whole halves becoming a whole block.                     *)

HandedOut(b) ==
  LET leaf == b + size - 1
      way  == <<leaf>> \o Above[leaf]
  IN  way[Min({k \in DOMAIN way : longest[way[k]] = 0})]

Merged_largest(L, i) == Larger(L, i)
Merged(L, i) ==
  IF L[LEFT_LEAF(i)] + L[RIGHT_LEAF(i)] = NodeSize(i)
  THEN [L EXCEPT ![i] = NodeSize(i)]
  ELSE Larger(L, i)

\* assert(page_idx % free_size == 0) is the guard; the callers' n is not used.
buddy_free_pages(base) ==
  LET k == property[base]
      i == HandedOut(base)
  IN  /\ base % k = 0
      /\ property' = [p \in Pages |-> IF p \in Block(base, k) THEN 0 ELSE property[p]]
      /\ longest' = FoldLeft(Merged, [longest EXCEPT ![i] = NodeSize(i)], Above[i])
      /\ total_free' = total_free + k
      /\ held' = held \ {<<base, k>>}
      /\ UNCHANGED res

Next ==
  \/ \E n \in 1 .. NPage : alloc_fails(n) \/ buddy_alloc_pages(n)
  \/ \E blk \in held : buddy_free_pages(blk[1])

Spec == Init /\ [][Next]_vars
-----------------------------------------------------------------------------
(* Properties *)

HeldPages == UNION {Block(blk[1], blk[2]) : blk \in held}

\* The blocks of k pages are the ones that begin at a multiple of k.
Aligned(free, k) == {b \in Pages : b % k = 0 /\ Block(b, k) \subseteq free}

\* A request gets the lowest aligned block of the least power of two that holds
\* it, and is refused only when there is none: no order of allocations and
\* frees leaves two free halves unmerged, or a number in the tree that hides a
\* free block or shows one that is gone.
A == INSTANCE PageAlloc WITH
       NPage <- size, MaxAsk <- NPage, free <- Pages \ HeldPages, Rounded <- fixsize, Places <- Aligned
BuddyStep == A!Next /\ total_free' = Cardinality((Pages \ HeldPages)')
=============================================================================
