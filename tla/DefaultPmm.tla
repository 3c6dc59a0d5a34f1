----------------------------- MODULE DefaultPmm -----------------------------
(***************************************************************************)
(* The first-fit physical page allocator of kern/mm/default_pmm.c, the     *)
(* pmm_manager of lab 8, and the best-fit one of lab 2 (best_fit_pmm.c),   *)
(* both on the circular doubly linked list of libs/list.h.                 *)
(* alloc_pages and free_pages of kern/mm/pmm.c call it with interrupts     *)
(* off, so one action is one call.                                         *)
(*                                                                         *)
(* The links are kept as the code keeps them, field by field: what the     *)
(* allocator does when it links a page twice shows only there.  page->ref  *)
(* and the PG_reserved bit are left out: the pages are the ones page_init  *)
(* hands to init_memmap in one piece, and none is reserved after that.     *)
(***************************************************************************)
EXTENDS Integers, Sequences, FiniteSetsExt

CONSTANTS
  NPage,     \* the pages are 0 .. NPage - 1
  BestFit    \* best_fit_pmm.c rather than default_pmm.c

ASSUME NPageAssumption == NPage \in Nat \ {0} /\ BestFit \in BOOLEAN

Pages == 0 .. (NPage - 1)

\* &free_list, the list's own entry.
free_list == NPage

VARIABLES
  links,      \* the page_link fields and the list head: [next, prev]
  property,   \* page->property, left as it was while the page is allocated
  flagged,    \* the pages with PageProperty set
  nr_free,    \* free_area.nr_free
  held,       \* the blocks the rest of the kernel holds: <<base, n>>
  res         \* what the last alloc_pages returned, -1 for NULL

pmm == <<links, property, flagged, nr_free, held, res>>

Block(b, n) == b .. (b + n - 1)

-----------------------------------------------------------------------------
(* libs/list.h.  Assignments in the code's order: a later one wins. *)

__list_add(L, elm, prv, nxt) ==
  [next |-> [L.next EXCEPT ![prv] = elm, ![elm] = nxt],
   prev |-> [L.prev EXCEPT ![nxt] = elm, ![elm] = prv]]

list_add(L, le, elm) == __list_add(L, elm, le, L.next[le])
list_add_before(L, le, elm) == __list_add(L, elm, L.prev[le], le)

list_del(L, elm) ==
  [next |-> [L.next EXCEPT ![L.prev[elm]] = L.next[elm]],
   prev |-> [L.prev EXCEPT ![L.next[elm]] = L.prev[elm]]]

list_empty(L) == L.next[free_list] = free_list

\* The entries met by following next from the list head back to it.  A walk that
\* never comes back is cut after more entries than there are pages.
Entries(L) ==
  LET At[k \in 0 .. (NPage + 1)] == IF k = 0 THEN free_list ELSE L.next[At[k - 1]]
      Back == {k \in 1 .. (NPage + 1) : At[k] = free_list}
  IN  [k \in 1 .. (IF Back = {} THEN NPage + 1 ELSE Min(Back) - 1) |-> At[k]]

-----------------------------------------------------------------------------

\* default_init and the one default_init_memmap of the whole range.
PmmInit ==
  /\ links = [next |-> [e \in 0 .. NPage |-> IF e = free_list THEN 0 ELSE free_list],
              prev |-> [e \in 0 .. NPage |-> IF e = free_list THEN 0 ELSE free_list]]
  /\ property = [p \in Pages |-> IF p = 0 THEN NPage ELSE 0]
  /\ flagged = {0}
  /\ nr_free = NPage
  /\ held = {}
  /\ res = -1

\* The places in the list of the blocks that are large enough.
Fits_more(n) == {k \in 1 .. Len(Entries(links)) : property[Entries(links)[k]] > n}
Fits(n) == {k \in 1 .. Len(Entries(links)) : property[Entries(links)[k]] >= n}

\* Of the smallest of them, the first in the list.
Best_last(n) ==
  LET E == Entries(links)
  IN  Max({k \in Fits(n) : \A j \in Fits(n) : property[E[k]] <= property[E[j]]})
Best(n) ==
  LET E == Entries(links)
  IN  Min({k \in Fits(n) : \A j \in Fits(n) : property[E[k]] <= property[E[j]]})

Chosen(n) == Entries(links)[IF BestFit THEN Best(n) ELSE Min(Fits(n))]

\* The list without the chosen block, its rest put back in its place.
Carved(page, n) ==
  LET cut == list_del(links, page)
  IN  IF property[page] > n THEN list_add(cut, links.prev[page], page + n) ELSE cut

alloc_fails(n) ==
  /\ n > nr_free \/ Fits(n) = {}
  /\ res' = -1
  /\ UNCHANGED <<links, property, flagged, nr_free, held>>

default_alloc_pages(n) ==
  /\ n <= nr_free /\ Fits(n) # {}
  /\ LET page == Chosen(n)
         left == IF property[page] > n THEN {page + n} ELSE {}
     IN  /\ links' = Carved(page, n)
         /\ property' = [p \in Pages |-> IF p \in left THEN property[page] - n ELSE property[p]]
         /\ flagged' = (flagged \cup left) \ {page}
         /\ nr_free' = nr_free - n
         /\ held' = held \cup {<<page, n>>}
         /\ res' = page

\* The loop that looks for the place of base: before the first entry above it,
\* or else after the last.  The best-fit one stops there; the first-fit one goes
\* on, meets base itself as the last entry and links it once more.
Inserted(base) ==
  LET E     == Entries(links)
      above == {k \in 1 .. Len(E) : base < E[k]}
      last  == list_add(links, E[Len(E)], base)
  IN  IF list_empty(links) THEN list_add(links, free_list, base)
      ELSE IF above # {} THEN list_add_before(links, E[Min(above)], base)
      ELSE IF BestFit THEN last
      ELSE list_add(last, base, base)

\* The state a merge works on: the list, the sizes and the flags.
Joined(s, low, high) ==
  [L |-> list_del(s.L, high),
   size |-> [s.size EXCEPT ![low] = @ + s.size[high]],
   flags |-> s.flags \ {high}]

\* Whether two neighbours of the list are neighbours in memory.
Touch(s, low, high) ==
  low # free_list /\ high # free_list /\ low + s.size[low] = high

\* First the block before is joined with base, then the result with the next.
MergedDown_never(s, base) == s
MergedDown(s, base) ==
  IF Touch(s, s.L.prev[base], base) THEN Joined(s, s.L.prev[base], base) ELSE s

MergedUp(s, base) ==
  IF Touch(s, base, s.L.next[base]) THEN Joined(s, base, s.L.next[base]) ELSE s

\* The base after the first merge.
Lower(s, base) == IF Touch(s, s.L.prev[base], base) THEN s.L.prev[base] ELSE base

\* nr_free after n pages came back.
Counted(n) == nr_free + n

\* best_fit_free_pages also clears the sizes of the freed pages.
Cleared(base, n) == [p \in Pages |-> IF BestFit /\ p \in Block(base, n) THEN 0 ELSE property[p]]

\* assert(!PageProperty(p)) of every page of the block is the guard: where it
\* fails the kernel panics.
default_free_pages(base, n) ==
  LET one == [L |-> Inserted(base),
              size |-> [Cleared(base, n) EXCEPT ![base] = n],
              flags |-> flagged \cup {base}]
      two == MergedUp(MergedDown(one, base), Lower(one, base))
  IN  /\ <<base, n>> \in held
      /\ Block(base, n) \cap flagged = {}
      /\ links' = two.L
      /\ property' = two.size
      /\ flagged' = two.flags
      /\ nr_free' = Counted(n)
      /\ held' = held \ {<<base, n>>}
      /\ UNCHANGED res

PmmNext ==
  \/ \E n \in 1 .. NPage : alloc_fails(n) \/ default_alloc_pages(n)
  \/ \E blk \in held : default_free_pages(blk[1], blk[2])

PmmSpec == PmmInit /\ [][PmmNext]_pmm

\* Memory is never exhausted up to its last page: some block of the list lies
\* above every block that is freed, and the first-fit loop links it once.
TopFree == \A blk \in held : NPage - 1 \notin Block(blk[1], blk[2])

\* What both policies do while that is so; best fit needs no such condition.
TopSpec == PmmInit /\ [][PmmNext /\ (BestFit \/ TopFree')]_pmm
-----------------------------------------------------------------------------
(* Properties *)

PmmTypeOK ==
  /\ links \in [next : [0 .. NPage -> 0 .. NPage], prev : [0 .. NPage -> 0 .. NPage]]
  /\ property \in [Pages -> 0 .. NPage]
  /\ flagged \subseteq Pages
  /\ nr_free \in 0 .. NPage
  /\ held \subseteq Pages \X (1 .. NPage)
  /\ res \in Pages \cup {-1}

HeldPages == UNION {Block(blk[1], blk[2]) : blk \in held}

\* assert(PageProperty(p)) for every entry and assert(total ==
\* nr_free_pages()), which default_check makes of the free list it walks.
FreeListChecks ==
  LET E == Entries(links)
  IN  /\ \A k \in 1 .. Len(E) : E[k] \in flagged
      /\ MapThenSumSet(LAMBDA k : property[E[k]], 1 .. Len(E)) = nr_free

\* The free list is exact after every call: the prev links run opposite to the
\* next links, the blocks rise in memory and two of them never touch (all
\* merges were made), the flagged pages are the listed ones, and the blocks
\* and the held pages divide the memory between them, nr_free counting the former.
ListExact ==
  LET E == Entries(links)
      Listed == {E[k] : k \in 1 .. Len(E)}
  IN  /\ PmmTypeOK
      /\ \A e \in Listed \cup {free_list} : links.prev[links.next[e]] = e
      /\ \A k \in 1 .. (Len(E) - 1) : E[k] + property[E[k]] < E[k + 1]
      /\ flagged = Listed
      /\ UNION {Block(e, property[e]) : e \in Listed} = Pages \ HeldPages
      /\ nr_free = Cardinality(Pages \ HeldPages)

\* Where n pages go: the lowest run of n free pages for first fit, the
\* beginning of a shortest stretch of free pages that is long enough for best fit.
Stretch(free, b) == Max({k \in 1 .. (NPage - b) : Block(b, k) \subseteq free})
Places(free, n) ==
  LET runs   == {b \in 0 .. (NPage - n) : Block(b, n) \subseteq free}
      starts == {b \in runs : b - 1 \notin free}
  IN  IF BestFit
      THEN {b \in starts : \A c \in starts : Stretch(free, b) <= Stretch(free, c)}
      ELSE runs
Rounded(n) == n

\* alloc_pages gives the place its policy promises, fails only when there is
\* none, and never gives a page that is held: the list implements PageAlloc.
A == INSTANCE PageAlloc WITH MaxAsk <- NPage, free <- Pages \ HeldPages
ImplementsPageAlloc == A!Spec
-----------------------------------------------------------------------------
(* The inductive invariant *)

\* The list head comes before every entry.
Low(e) == IF e = free_list THEN -1 ELSE e

\* s is the next above x: of the entries, or the list head when there is none.
Follows(F, x, s) ==
  /\ s \in F \cup {free_list} /\ x < s
  /\ \A f \in F : x < f => s <= f

\* The list L holds F, in order, both ways.
Linked(L, F) ==
  \A e \in F \cup {free_list} :
    /\ Follows(F, Low(e), L.next[e]) /\ L.prev[L.next[e]] = e
    /\ L.prev[e] \in F \cup {free_list} /\ L.next[L.prev[e]] = e

\* The blocks of F, of sizes z, lie in memory and do not overlap.
Rise(z, F) ==
  \A e \in F :
    /\ z[e] >= 1 /\ e + z[e] <= NPage
    /\ \A f \in F : e < f => e + z[e] <= f

\* Two neighbours have a page between them, unless the lower one is b.
Gaps(z, F, b) == \A e, f \in F : e < f /\ e + z[e] = f => e = b

Covered(z, F) == UNION {Block(e, z[e]) : e \in F}

HeldApart ==
  /\ \A x \in held : x[1] + x[2] <= NPage
  /\ \A x, y \in held : x # y => Block(x[1], x[2]) \cap Block(y[1], y[2]) = {}

PmmIInv ==
  /\ PmmTypeOK
  /\ Linked(links, flagged)
  /\ Rise(property, flagged) /\ Gaps(property, flagged, -1)
  /\ Covered(property, flagged) = Pages \ HeldPages
  /\ nr_free = Cardinality(Pages \ HeldPages)
  /\ HeldApart
  /\ BestFit \/ TopFree
=============================================================================
