-------------------------------- MODULE MkSfs --------------------------------
(***************************************************************************)
(* tools/mksfs.c, which makes the image of the disk from a directory of    *)
(* the host, and how the kernel reads that image (kern/fs/sfs).            *)
(*                                                                         *)
(* A step of Next is one turn of open_dir's loop, with all the blocks and  *)
(* entries it adds; readdir returns names in any order.  Lengths are in    *)
(* words, a block holds FULL words and NENTRY block numbers.  bug() exits. *)
(***************************************************************************)
EXTENDS Naturals, Sequences, FiniteSets

CONSTANTS
  NDIRECT, NENTRY,  \* SFS_NDIRECT, SFS_BLK_NENTRY
  BLKBITS,          \* SFS_BLKBITS
  LN,               \* SFS_LN_NBLKS, from SFS_MAX_FILE_SIZE
  FULL,             \* SFS_BLKSIZE
  Homes,            \* directories of the host: see home
  Root,             \* the inode of the directory itself
  Hidden,           \* the names that begin with '.'
  Long,             \* the names the name's share of a written entry cannot hold
  Sizes             \* the sizes of the image file, in blocks

ImageAssumption ==
  {NDIRECT, NENTRY, BLKBITS, LN, FULL} \subseteq Nat \ {0} /\ Sizes \subseteq Nat

VARIABLES
  home,   \* host inodes: [type, kids: set of [name, real], len]
  ninos,  \* blocks of the image
  t,      \* what mksfs has in memory and has written: see Fresh
  stack,  \* the calls of open_dir, innermost last: [ino, up, name, todo]
  pc      \* "build", "closed", or why mksfs gave up

vars == <<home, ninos, t, stack, pc>>

SUPER == 0
ROOT == 1
FREEMAP == 2
Inos == 0 .. (ninos - 1)
FreemapBlocks(n) == (n + BLKBITS - 1) \div BLKBITS

ZeroBlock == [k \in 0 .. (NENTRY - 1) |-> 0]
NoInode == [real |-> "none"]

\* alloc_cache_inode; l1 and l2 are the index blocks it had in hand last.
NewInode(real, type) ==
  [real |-> real, type |-> type, nlinks |-> 0, size |-> 0, blocks |-> 0,
   direct |-> [k \in 0 .. (NDIRECT - 1) |-> 0], indirect |-> 0, db_indirect |-> 0,
   l1 |-> 0, l2 |-> 0]

\* create_sfs: next_ino and super.unused_blocks, cached inodes and index
\* blocks, and the blocks written so far.
Fresh(n) ==
  [next |-> FREEMAP + FreemapBlocks(n), unused |-> n - (FREEMAP + FreemapBlocks(n)),
   ci |-> [b \in 0 .. (n - 1) |-> IF b = ROOT THEN NewInode(Root, "dir") ELSE NoInode],
   cb |-> [b \in 0 .. (n - 1) |-> ZeroBlock], cached |-> {},
   disk |-> [b \in 0 .. (n - 1) |-> "zeros"], err |-> "ok"]

-----------------------------------------------------------------------------
(* Operators take and return a record like t; after an error nothing happens. *)

Ok(u) == u.err = "ok"

sfs_alloc_ino(u) ==
  IF u.next < ninos THEN [u EXCEPT !.next = @ + 1, !.unused = @ - 1]
  ELSE [u EXCEPT !.err = "out of disk space"]

write_block(u, b, what) == [u EXCEPT !.disk[b] = what]

\* The index block in slot: a new one, or the one in hand.  (A block that is
\* not in hand would be searched for under its number; it is kept under 0.)
update_cache(u, hand, slot) ==
  LET v == sfs_alloc_ino(u)
  IN  IF slot = 0 /\ Ok(v) THEN [u |-> [v EXCEPT !.cached = @ \cup {u.next}], ino |-> u.next]
      ELSE IF slot = 0 THEN [u |-> v, ino |-> 0]
      ELSE [u |-> IF hand = slot THEN u ELSE [u EXCEPT !.err = "cb != NULL"], ino |-> slot]

L1 == NDIRECT + NENTRY

\* Block b becomes the n-th of inode f.
PutIndirect(u, f, n, b) ==
  LET x == update_cache(u, u.ci[f].l1, u.ci[f].indirect)
  IN  [x.u EXCEPT !.ci[f].l1 = x.ino, !.ci[f].indirect = x.ino, !.cb[x.ino][n] = b]

PutDoubleIndirect(u, f, n, b) ==
  LET x == update_cache(u, u.ci[f].l2, u.ci[f].db_indirect)
      y == update_cache(x.u, u.ci[f].l1, x.u.cb[x.ino][n \div NENTRY])
  IN  IF ~Ok(x.u) THEN x.u
      ELSE [y.u EXCEPT !.ci[f].l2 = x.ino, !.ci[f].db_indirect = x.ino, !.ci[f].l1 = y.ino,
                       !.cb[x.ino][n \div NENTRY] = y.ino, !.cb[y.ino][n % NENTRY] = b]

append_block(u, f, size, b) ==
  LET n == u.ci[f].blocks
      v == IF n < NDIRECT THEN [u EXCEPT !.ci[f].direct[n] = b]
           ELSE IF n < L1 THEN PutIndirect(u, f, n - NDIRECT, b)
           ELSE PutDoubleIndirect(u, f, n - L1, b)
  IN  IF ~Ok(u) THEN u
      ELSE IF n >= LN THEN [u EXCEPT !.err = "file is too big"]
      ELSE [v EXCEPT !.ci[f].blocks = @ + 1, !.ci[f].size = @ + size]

\* A block with its contents at the end of inode f.
AddBlock(u, f, size, what) ==
  LET v == sfs_alloc_ino(u)
  IN  IF ~Ok(u) THEN u
      ELSE IF ~Ok(v) THEN v
      ELSE append_block(write_block(v, u.next, what), f, size, u.next)

\* sizeof(entry->name) bytes are written, from the inode number on: the end
\* of a long name is not among them.
Stored(name) == IF name \in Long THEN "cut" ELSE name

add_entry(u, dir, f, name) ==
  LET v == AddBlock(u, dir, 1, [ino |-> f, name |-> Stored(name)])
  IN  IF Ok(v) THEN [v EXCEPT !.ci[f].nlinks = @ + 1] ELSE v

\* A new inode for real, at the block u.next.
NewCached(u, real, type) ==
  LET v == sfs_alloc_ino(u)
  IN  IF Ok(v) THEN [v EXCEPT !.ci[u.next] = NewInode(real, type)] ELSE v

\* The size of block k of a file of len words.
Share(len, k) == IF k * FULL <= len THEN FULL ELSE len - (k - 1) * FULL
NBlocks(len) == (len + FULL - 1) \div FULL

open_file(u, f, real) ==
  LET len == home[real].len
      Copied[k \in 0 .. NBlocks(len)] ==
        IF k = 0 THEN u
        ELSE LET v == Copied[k - 1] IN AddBlock(v, f, Share(len, k), <<real, k>>)
  IN  IF Ok(u) THEN Copied[NBlocks(len)] ELSE u

\* The beginning of open_dir.
OpenDir(u, dir, up) == add_entry(add_entry(u, dir, dir, "."), dir, up, "..")

-----------------------------------------------------------------------------
(* The loop of open_dir, in the innermost call *)

Top == stack[Len(stack)]
Rest(e) == [stack EXCEPT ![Len(stack)].todo = @ \ {e}]

\* mksfs goes on with u and s, or exits.
GoOn(u, s) ==
  /\ IF Ok(u) THEN t' = u /\ stack' = s /\ pc' = pc
     ELSE pc' = u.err /\ UNCHANGED <<t, stack>>
  /\ UNCHANGED <<home, ninos>>

\* The next name of readdir, and what lstat says of it.
Reads(e, type) ==
  pc = "build" /\ e \in Top.todo /\ e.name \notin Hidden /\ home[e.real].type = type

skip(e) ==
  /\ pc = "build" /\ e \in Top.todo
  /\ e.name \in Hidden \/ home[e.real].type = "other"
  /\ GoOn(t, Rest(e))

add_link(e) ==
  LET f == t.next
      u == NewCached(t, e.real, "link")
      v == IF Ok(u) THEN AddBlock(u, f, home[e.real].len, <<e.real, 1>>) ELSE u
  IN  /\ Reads(e, "link")
      /\ GoOn(IF Ok(v) THEN add_entry(v, Top.ino, f, e.name) ELSE v, Rest(e))

\* search_cache_inode: the inode made for the same host inode before.
Found(real) == {i \in Inos : t.ci[i].real = real}

add_file(e) ==
  LET f == IF Found(e.real) = {} THEN t.next ELSE CHOOSE i \in Found(e.real) : TRUE
      u == IF Found(e.real) = {} THEN open_file(NewCached(t, e.real, "file"), f, e.real) ELSE t
  IN  /\ Reads(e, "file")
      /\ GoOn(IF Ok(u) THEN add_entry(u, Top.ino, f, e.name) ELSE u, Rest(e))

add_dir(e) ==
  LET f == t.next
      u == NewCached(t, e.real, "dir")
  IN  /\ Reads(e, "dir")
      /\ GoOn(IF Ok(u) THEN OpenDir(u, f, Top.ino) ELSE u,
              Append(Rest(e), [ino |-> f, up |-> Top.ino, name |-> e.name, todo |-> home[e.real].kids]))

\* The end of add_dir: the directory is entered in its parent.
leave_dir ==
  /\ pc = "build" /\ Len(stack) > 1 /\ Top.todo = {}
  /\ GoOn(add_entry(t, Top.up, Top.ino, Top.name), SubSeq(stack, 1, Len(stack) - 1))

\* close_sfs: the bits of the freemap block that begins with block i.
FreeBits_unbounded(i) ==
  LET start == IF i < t.next THEN t.next - i ELSE 0
  IN  IF i + BLKBITS > t.next THEN {i + j : j \in start .. (BLKBITS - 1)} ELSE {}
FreeBits(i) ==
  LET start == IF i < t.next THEN t.next - i ELSE 0
      end == IF i + BLKBITS > ninos THEN ninos - i ELSE BLKBITS
  IN  IF i + BLKBITS > t.next THEN {i + j : j \in {k \in 0 .. BLKBITS : start <= k /\ k < end}} ELSE {}

Freemap == FREEMAP .. (FREEMAP + FreemapBlocks(ninos) - 1)

\* Freemap and superblock first, then the cached blocks, then the inodes.
close_sfs ==
  /\ pc = "build" /\ Len(stack) = 1 /\ Top.todo = {}
  /\ t' = [t EXCEPT !.disk =
             [b \in Inos |->
                IF t.ci[b] # NoInode THEN t.ci[b]
                ELSE IF b \in t.cached THEN t.cb[b]
                ELSE IF b = SUPER THEN [blocks |-> ninos, unused_blocks |-> t.unused]
                ELSE IF b \in Freemap THEN FreeBits((b - FREEMAP) * BLKBITS)
                ELSE t.disk[b]]]
  /\ pc' = "closed"
  /\ UNCHANGED <<home, ninos, stack>>

\* create_sfs refuses an image that the freemap fills, and create_img begins.
Init ==
  /\ home \in Homes
  /\ ninos \in {n \in Sizes : FREEMAP + FreemapBlocks(n) < n}
  /\ LET u == OpenDir(Fresh(ninos), ROOT, ROOT)
     IN  t = u /\ pc = IF Ok(u) THEN "build" ELSE u.err
  /\ stack = <<[ino |-> ROOT, up |-> ROOT, name |-> "/", todo |-> home[Root].kids]>>

Next ==
  \/ \E e \in Top.todo : skip(e) \/ add_link(e) \/ add_file(e) \/ add_dir(e)
  \/ leave_dir
  \/ close_sfs

Spec == Init /\ [][Next]_vars
-----------------------------------------------------------------------------
(* How the kernel reads the image *)

\* sfs_bmap_get_nolock; it panics beyond the index block (here: no block).
BlockOf(in, i) ==
  IF i < NDIRECT THEN in.direct[i]
  ELSE IF i - NDIRECT < NENTRY THEN t.disk[in.indirect][i - NDIRECT]
  ELSE ninos

\* What a file's blocks, or a directory's entries, are found to be.
Contents(in) == [i \in 0 .. (in.blocks - 1) |-> t.disk[BlockOf(in, i)]]

\* sfs_do_mount counts the bits of the freemap.
FreeOnDisk == UNION {t.disk[b] : b \in Freemap}

-----------------------------------------------------------------------------
(* Properties *)

Made == {b \in Inos : t.ci[b] # NoInode}

\* Every block with what it is used for.
Claims ==
  {<<"fixed", b, 0, b>> : b \in {SUPER} \cup Freemap} \cup {<<"inode", b, 0, b>> : b \in Made}
    \cup {<<"index", b, 0, b>> : b \in t.cached}
    \cup UNION {{<<"block", f, i, BlockOf(t.disk[f], i)>> : i \in 0 .. (t.disk[f].blocks - 1)} : f \in Made}

\* The names in the image of the directory dir, with host inodes.
Listed(dir) == {k \in home[dir].kids : k.name \notin Hidden /\ home[k.real].type # "other"}

DirRight(f) ==
  LET has == Contents(t.disk[f])
      entries == {has[i] : i \in DOMAIN has}
      dots == {x \in entries : x.name \in {".", ".."}}
  IN  /\ Cardinality(entries) = t.disk[f].blocks
      /\ {x.name : x \in dots} = {".", ".."}
      /\ \A x \in dots : /\ x.name = "." => x.ino = f
                         /\ x.name = ".." => \/ f = ROOT /\ x.ino = ROOT
                                             \/ \E c \in Listed(t.disk[x.ino].real) : c.real = t.disk[f].real
      /\ {[name |-> x.name, real |-> t.disk[x.ino].real] : x \in entries \ dots} = Listed(t.disk[f].real)

FileRight(f) ==
  LET len == home[t.disk[f].real].len
  IN  /\ t.disk[f].size = len /\ t.disk[f].blocks = NBlocks(len)
      /\ Contents(t.disk[f]) = [i \in 0 .. (NBlocks(len) - 1) |-> <<t.disk[f].real, i + 1>>]

LinksTo(f) == {<<d, i>> \in Made \X (0 .. LN) :
                 /\ t.disk[d].type = "dir" /\ i < t.disk[d].blocks
                 /\ Contents(t.disk[d])[i].ino = f}

\* The image, for every order of names and every size that is large enough, is
\* what the kernel asserts and expects: the freemap and the count in the
\* superblock agree (sfs_do_mount's assertion), no block has two uses and none
\* in use is free, the directories lead to every file by its name, files have
\* the contents and the length they had on the host, a file with two names is
\* one file, and nlinks counts the names.
ImageFaithful ==
  /\ pc \in {"build", "closed", "out of disk space", "file is too big"}
  /\ pc = "closed" =>
       /\ t.disk[SUPER].unused_blocks = Cardinality(FreeOnDisk)
       /\ \A x \in Claims : x[4] \in Inos \ FreeOnDisk /\ \A y \in Claims : x[4] = y[4] => x = y
       /\ Inos \ FreeOnDisk = {x[4] : x \in Claims}
       /\ \A f \in Made :
            /\ IF t.disk[f].type = "dir" THEN DirRight(f) ELSE FileRight(f)
            /\ t.disk[f].nlinks = Cardinality(LinksTo(f))
            /\ \A g \in Made : t.disk[f].type = "file" /\ t.disk[g].real = t.disk[f].real => f = g
=============================================================================
