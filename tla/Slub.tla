-------------------------------- MODULE Slub --------------------------------
(***************************************************************************)
(* The slub allocator of lab 2 (kern/mm/slub_real.c; slub.c is the same    *)
(* with one size class).  A slab is a page: a slab_t, the objects of one   *)
(* size class, a bitmap.  Larger requests get whole pages with a header.   *)
(*                                                                         *)
(* Addresses count bytes; page n begins at n * PGSIZE.  The pages come     *)
(* from alloc_pages, which gives the lowest run (PageAlloc).  kfree reads  *)
(* the words before the block to tell the two kinds apart: for an object   *)
(* these belong to the slab_t or to the object before it, which is taken   *)
(* not to hold BIG_MAGIC there.                                            *)
(***************************************************************************)
EXTENDS Integers, FiniteSetsExt, SequencesExt

CONSTANTS
  NPage,     \* the pages are 1 .. NPage
  PGSIZE,    \* bytes in a page
  SlabHdr,   \* sizeof(slab_t)
  BigHdr,    \* sizeof(BigAllocHeader)
  SLUB_OBJ_SIZES, \* the size of an object of each level, rising
  Asks       \* what kmalloc is called with

SlubAssumption ==
  /\ NPage \in Nat \ {0}
  /\ \A l \in DOMAIN SLUB_OBJ_SIZES : SLUB_OBJ_SIZES[l] \in Nat \ {0}
  /\ Asks \subseteq Nat \ {0}

Levels == DOMAIN SLUB_OBJ_SIZES

VARIABLES
  slab,        \* the slab_t of each page that is one: [level, used, free_cnt]
  slab_lists,  \* the slabs of each level, the newest first
  big,         \* the pages of larger requests: {[first, npages]}
  pages,       \* the pages that alloc_pages has to give
  held         \* the callers' blocks: address -> size asked for

vars == <<slab, slab_lists, big, pages, held>>

Without(f, S) == [x \in DOMAIN f \ S |-> f[x]]
With(f, a, v) == [x \in DOMAIN f \cup {a} |-> IF x = a THEN v ELSE f[x]]

ceil_div(x, y) == (x + y - 1) \div y

\* The smallest level that holds a size, if any does.
Holding(n) == {l \in Levels : n <= SLUB_OBJ_SIZES[l]}

\* As many objects as fit a page with the slab_t and a bit for each.
compute_objs_per_slab_nomap(l) == (PGSIZE - SlabHdr) \div SLUB_OBJ_SIZES[l]
compute_objs_per_slab(l) ==
  Max({n \in 0 .. ((PGSIZE - SlabHdr) \div SLUB_OBJ_SIZES[l]) :
         SlabHdr + SLUB_OBJ_SIZES[l] * n + ceil_div(n, 8) <= PGSIZE})

slab_objs_base(pg) == pg * PGSIZE + SlabHdr
slab_bitmap(pg, l) == slab_objs_base(pg) + compute_objs_per_slab(l) * SLUB_OBJ_SIZES[l]

Init ==
  /\ slab = << >>
  /\ slab_lists = [l \in Levels |-> <<>>]
  /\ big = {}
  /\ pages = 1 .. NPage
  /\ held = << >>
-----------------------------------------------------------------------------
Runs(n) == {p \in 1 .. (NPage - n + 1) : (p .. (p + n - 1)) \subseteq pages}

\* slab_alloc_from: the first object whose bit is clear.
Object(s) == Min((0 .. (compute_objs_per_slab(s.level) - 1)) \ s.used)

slab_alloc_from(s) == [s EXCEPT !.used = @ \cup {Object(s)}, !.free_cnt = @ - 1]

AddressOf(pg, s) == slab_objs_base(pg) + Object(s) * SLUB_OBJ_SIZES[s.level]

\* The slabs of a level that have room, by their place in its list.
Roomy(l) == {k \in DOMAIN slab_lists[l] : slab[slab_lists[l][k]].free_cnt > 0}

slub_alloc(n, l) ==
  /\ l = Min(Holding(n)) /\ Roomy(l) # {}
  /\ LET pg == slab_lists[l][Min(Roomy(l))]
     IN  /\ slab' = [slab EXCEPT ![pg] = slab_alloc_from(@)]
         /\ held' = With(held, AddressOf(pg, slab[pg]), n)
         /\ UNCHANGED <<slab_lists, big, pages>>

\* new_slab, and its first object.
slub_alloc_new(n, l) ==
  /\ l = Min(Holding(n)) /\ Roomy(l) = {} /\ Runs(1) # {}
  /\ LET pg == Min(Runs(1))
         s  == [level |-> l, used |-> {}, free_cnt |-> compute_objs_per_slab(l)]
     IN  /\ pages' = pages \ {pg}
         /\ slab' = With(slab, pg, slab_alloc_from(s))
         /\ slab_lists' = [slab_lists EXCEPT ![l] = <<pg>> \o @]
         /\ held' = With(held, AddressOf(pg, s), n)
         /\ UNCHANGED big

\* A request above every level: header and block in whole pages.
kmalloc_big(n) ==
  LET npages == ceil_div(n + BigHdr, PGSIZE)
  IN  /\ Holding(n) = {} /\ Runs(npages) # {}
      /\ LET pg == Min(Runs(npages))
         IN  /\ pages' = pages \ (pg .. (pg + npages - 1))
             /\ big' = big \cup {[first |-> pg, npages |-> npages]}
             /\ held' = With(held, pg * PGSIZE + BigHdr, n)
      /\ UNCHANGED <<slab, slab_lists>>

\* kmalloc answers NULL when the pages have run out.
kmalloc_null(n) ==
  /\ IF Holding(n) = {} THEN Runs(ceil_div(n + BigHdr, PGSIZE)) = {}
     ELSE Roomy(Min(Holding(n))) = {} /\ Runs(1) = {}
  /\ UNCHANGED vars

\* The header that kfree finds before the block.
Header(a) == {h \in big : a = h.first * PGSIZE + BigHdr}

kfree_big(a) ==
  /\ a \in DOMAIN held
  /\ \E h \in Header(a) :
       /\ big' = big \ {h}
       /\ pages' = pages \cup (h.first .. (h.first + h.npages - 1))
  /\ held' = Without(held, {a})
  /\ UNCHANGED <<slab, slab_lists>>

\* slub_free: the slab is the page the object lies in.  The tests of magic,
\* range and alignment are what a block of slub_alloc passes.
slab_free_to(s, a) ==
  LET off == (a % PGSIZE) - SlabHdr
  IN  [s EXCEPT !.used = @ \ {off \div SLUB_OBJ_SIZES[s.level]}, !.free_cnt = @ + 1]

Emptied(s) == s.free_cnt = compute_objs_per_slab(s.level)

kfree_object(a) ==
  LET pg == a \div PGSIZE
      s  == slab_free_to(slab[pg], a)
  IN  /\ a \in DOMAIN held /\ Header(a) = {} /\ pg \in DOMAIN slab
      /\ IF Emptied(s)
         THEN /\ slab' = Without(slab, {pg})
              /\ slab_lists' = [slab_lists EXCEPT ![s.level] = SelectSeq(@, LAMBDA x : x # pg)]
              /\ pages' = pages \cup {pg}
         ELSE slab' = [slab EXCEPT ![pg] = s] /\ UNCHANGED <<slab_lists, pages>>
      /\ held' = Without(held, {a})
      /\ UNCHANGED big

Next ==
  \/ \E n \in Asks : \/ \E l \in Holding(n) : slub_alloc(n, l) \/ slub_alloc_new(n, l)
                     \/ kmalloc_big(n) \/ kmalloc_null(n)
  \/ \E a \in DOMAIN held : kfree_big(a) \/ kfree_object(a)

Spec == Init /\ [][Next]_vars
-----------------------------------------------------------------------------
(* Properties *)

Bytes(a) == a .. (a + held[a] - 1)

SlabOf(pg)   == (pg * PGSIZE) .. (slab_objs_base(pg) - 1)
BitmapOf(pg) == LET l == slab[pg].level
                    b == slab_bitmap(pg, l)
                IN  b .. (b + ceil_div(compute_objs_per_slab(l), 8) - 1)

\* After every call: no byte is in two callers' blocks, in a slab_t or in a
\* bitmap and a block, and a bitmap ends with its page; the bits are those of
\* the callers' objects and free_cnt counts the rest; every slab is once in the list
\* of its level and not empty; no page is free and in use, or lost.
SlubExact ==
  /\ \A a, b \in DOMAIN held : a # b => Bytes(a) \cap Bytes(b) = {}
  /\ \A a \in DOMAIN held, pg \in DOMAIN slab : Bytes(a) \cap (SlabOf(pg) \cup BitmapOf(pg)) = {}
  /\ \A pg \in DOMAIN slab :
       LET s == slab[pg]
       IN  /\ BitmapOf(pg) \subseteq (pg * PGSIZE) .. (pg * PGSIZE + PGSIZE - 1)
           /\ s.free_cnt = compute_objs_per_slab(s.level) - Cardinality(s.used)
           /\ s.used # {}
           /\ {slab_objs_base(pg) + i * SLUB_OBJ_SIZES[s.level] : i \in s.used}
                = {a \in DOMAIN held : a \div PGSIZE = pg}
  /\ \A l \in Levels :
       /\ ToSet(slab_lists[l]) = {pg \in DOMAIN slab : slab[pg].level = l}
       /\ IsInjective(slab_lists[l])
  /\ LET bigs == UNION {h.first .. (h.first + h.npages - 1) : h \in big}
     IN  /\ bigs \cap DOMAIN slab = {}
         /\ pages = (1 .. NPage) \ (bigs \cup DOMAIN slab)

\* "the alignment is the size": an object lies at a multiple of its level's size.
ObjectsAligned ==
  \A a \in DOMAIN held : \A l \in Holding(held[a]) :
    l = Min(Holding(held[a])) => a % SLUB_OBJ_SIZES[l] = 0
=============================================================================
