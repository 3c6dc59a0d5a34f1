------------------------------ MODULE PageAlloc ------------------------------
(***************************************************************************)
(* What a physical page allocator promises, without the list or tree that  *)
(* keeps the free blocks: alloc_pages(n) returns the lowest of the places  *)
(* its policy has for n pages, NULL only when there is none, and a freed   *)
(* block is free again, whole.                                             *)
(***************************************************************************)
EXTENDS Integers, FiniteSetsExt

CONSTANTS
  NPage,         \* the pages are 0 .. NPage - 1
  MaxAsk,        \* bound on what alloc_pages is called with
  Rounded(_),    \* the size of the block that n pages are given
  Places(_, _)   \* Places(free, k): the bases the policy may choose for k pages

VARIABLES
  free,   \* the free pages
  held,   \* the allocated blocks, <<base, n>>
  res     \* what the last call of alloc_pages returned, -1 for NULL

vars == <<free, held, res>>

Block(b, n) == b .. (b + n - 1)

Init ==
  /\ free = 0 .. (NPage - 1)
  /\ held = {}
  /\ res = -1

Alloc(n) ==
  LET k == Rounded(n)
  IN  IF Places(free, k) = {}
      THEN /\ res' = -1
           /\ UNCHANGED <<free, held>>
      ELSE /\ res' = Min(Places(free, k))
           /\ free' = free \ Block(res', k)
           /\ held' = held \cup {<<res', k>>}

Free(b, n) ==
  /\ <<b, n>> \in held
  /\ held' = held \ {<<b, n>>}
  /\ free' = free \cup Block(b, n)
  /\ UNCHANGED res

Next ==
  \/ \E n \in 1 .. MaxAsk : Alloc(n)
  \/ \E blk \in held : Free(blk[1], blk[2])

Spec == Init /\ [][Next]_vars
=============================================================================
