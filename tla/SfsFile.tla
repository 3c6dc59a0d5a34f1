------------------------------ MODULE SfsFile ------------------------------
(***************************************************************************)
(* File contents of the simple file system: the free map, the block map of *)
(* an inode and file input and output of kern/fs/sfs (sfs_inode.c,         *)
(* sfs_io.c, bitmap.c), with the positions of kern/fs/file.c.              *)
(*                                                                         *)
(* A block is a sequence of words; data are counted in words, so that a    *)
(* block holds as many block numbers as words (SFS_BLK_NENTRY).  A system  *)
(* call is one action: the kernel is not preempted and the disk does not   *)
(* sleep, so fs_sem, io_sem and the inode's sem are never contended.       *)
(* Disk input and output do not fail (disk0_io panics if they do).         *)
(***************************************************************************)
EXTENDS Integers, Sequences, FiniteSets, FiniteSetsExt

CONSTANTS
  Files,      \* the regular files
  Descs,      \* the descriptors of all processes together
  NBlock,     \* the data blocks are 1 .. NBlock; 0 stands for "no block"
  BLKSIZE,    \* SFS_BLKSIZE in words, and SFS_BLK_NENTRY
  NDIRECT,    \* SFS_NDIRECT
  MaxSize,    \* SFS_MAX_FILE_SIZE
  Values,     \* what is written
  MaxLen      \* bound on the length of one read or write

SizeAssumption ==
  /\ NBlock \in Nat /\ BLKSIZE \in Nat \ {0} /\ NDIRECT \in Nat /\ MaxLen \in Nat
  /\ MaxSize \in Nat /\ MaxSize <= (NDIRECT + BLKSIZE) * BLKSIZE
  /\ Values \subseteq Nat \ {0}

Words == 0 .. (BLKSIZE - 1)
Blocks == 1 .. NBlock
Closed == [file |-> "none", pos |-> 0]

VARIABLES
  fs,       \* [free: free map, unused: super.unused_blocks, disk: the blocks]
  din,      \* the disk inodes in memory: size, blocks, direct, indirect
  ondisk,   \* the same on disk
  dirty,    \* sin->dirty
  fd,       \* each descriptor: [file, pos], or Closed
  res,      \* the words the last call returned, if it was a read
  end,      \* the end of what was written to each file or skipped by a seek
  fault     \* the assertion that failed, if any

sfs_vars == <<fs, din, ondisk, dirty, fd, res, end, fault>>

ZeroBlock == [w \in Words |-> 0]
EmptyInode == [size |-> 0, blocks |-> 0, direct |-> [i \in 0 .. (NDIRECT - 1) |-> 0], indirect |-> 0]

RoundUpDiv(n) == (n + BLKSIZE - 1) \div BLKSIZE

-----------------------------------------------------------------------------
(* Blocks.  An operator takes and returns t, [free, unused, disk, in, dirty, *)
(* err]: the file system, one inode, its dirty flag and how the call ended.  *)

Ok(t) == t.err = "ok"

bitmap_alloc(free) == Min(free)
bitmap_free(free, b) == free \cup {b}

sfs_rbuf(disk, b, w) == disk[b][w]
sfs_wbuf(disk, b, words, v) == [disk EXCEPT ![b] = [w \in Words |-> IF w \in words THEN v ELSE @[w]]]
sfs_clear_block(disk, b) == [disk EXCEPT ![b] = ZeroBlock]

sfs_block_free(t, b) == [t EXCEPT !.free = bitmap_free(@, b), !.unused = @ + 1]

\* The lowest free block is taken and zeroed.
sfs_block_alloc_dirty(t) ==
  IF t.free = {} THEN [t EXCEPT !.err = "NO_MEM"]
  ELSE [t EXCEPT !.free = @ \ {bitmap_alloc(@)}, !.unused = @ - 1]
sfs_block_alloc(t) ==
  IF t.free = {} THEN [t EXCEPT !.err = "NO_MEM"]
  ELSE [t EXCEPT !.free = @ \ {bitmap_alloc(@)}, !.unused = @ - 1,
                 !.disk = sfs_clear_block(@, bitmap_alloc(t.free))]

\* The entry of the index block, created with the index block where needed.
\* An index block allocated for an entry that cannot be allocated is freed.
sfs_bmap_get_sub_leak(t, index, create) ==
  LET has == t.in.indirect # 0
      e == IF has THEN t ELSE sfs_block_alloc(t)
      ent == IF has THEN t.in.indirect ELSE bitmap_alloc(t.free)
      b == sfs_block_alloc(e)
  IN  IF ~create \/ (has /\ sfs_rbuf(t.disk, ent, index) # 0) THEN t
      ELSE IF ~Ok(e) THEN e
      ELSE IF ~Ok(b) THEN b
      ELSE [b EXCEPT !.disk = sfs_wbuf(@, ent, {index}, bitmap_alloc(e.free)),
                     !.in.indirect = ent, !.dirty = @ \/ ~has]

sfs_bmap_get_sub_nolock(t, index, create) ==
  LET has == t.in.indirect # 0
      e == IF has THEN t ELSE sfs_block_alloc(t)
      ent == IF has THEN t.in.indirect ELSE bitmap_alloc(t.free)
      b == sfs_block_alloc(e)
  IN  IF ~create \/ (has /\ sfs_rbuf(t.disk, ent, index) # 0) THEN t
      ELSE IF ~Ok(e) THEN e
      ELSE IF ~Ok(b) THEN (IF has THEN b ELSE sfs_block_free(b, ent))
      ELSE [b EXCEPT !.disk = sfs_wbuf(@, ent, {index}, bitmap_alloc(e.free)),
                     !.in.indirect = ent, !.dirty = @ \/ ~has]

sfs_bmap_get_nolock(t, index, create) ==
  IF index >= NDIRECT THEN sfs_bmap_get_sub_nolock(t, index - NDIRECT, create)
  ELSE IF t.in.direct[index] = 0 /\ create
  THEN LET b == sfs_block_alloc(t)
       IN  IF Ok(b) THEN [b EXCEPT !.in.direct[index] = bitmap_alloc(t.free), !.dirty = TRUE] ELSE b
  ELSE t

\* The block a file's index-th block lies in.
BlockOf(disk, in, index) ==
  IF index < NDIRECT THEN in.direct[index]
  ELSE IF in.indirect = 0 THEN 0 ELSE sfs_rbuf(disk, in.indirect, index - NDIRECT)

sfs_bmap_load_nolock(t, index) ==
  LET create == index = t.in.blocks
      b == sfs_bmap_get_nolock(t, index, create)
  IN  IF index > t.in.blocks THEN [t EXCEPT !.err = "index <= din->blocks"]
      ELSE IF Ok(b) /\ create THEN [b EXCEPT !.in.blocks = @ + 1] ELSE b

\* An entry of the index block is cleared; the index block itself stays.
sfs_bmap_free_sub_nolock(t, index) ==
  LET b == sfs_rbuf(t.disk, t.in.indirect, index)
  IN  IF b = 0 THEN t
      ELSE sfs_block_free([t EXCEPT !.disk = sfs_wbuf(@, t.in.indirect, {index}, 0)], b)

sfs_bmap_free_nolock(t, index) ==
  IF index >= NDIRECT
  THEN (IF t.in.indirect = 0 THEN t ELSE sfs_bmap_free_sub_nolock(t, index - NDIRECT))
  ELSE IF t.in.direct[index] = 0 THEN t
  ELSE [sfs_block_free(t, t.in.direct[index]) EXCEPT !.in.direct[index] = 0, !.dirty = TRUE]

sfs_bmap_truncate_nolock(t) ==
  LET u == sfs_bmap_free_nolock(t, t.in.blocks - 1)
  IN  [u EXCEPT !.in.blocks = @ - 1, !.dirty = TRUE]

-----------------------------------------------------------------------------
(* Input and output *)

\* sfs_truncfile: Loaded[k] after the file was given its k-th block if it had
\* none, Cut[k] after it lost its last k blocks.
sfs_truncfile(t, len) ==
  LET tblks == RoundUpDiv(len)
      had == t.in.blocks
      Loaded[k \in 0 .. tblks] ==
        IF k <= had THEN t
        ELSE IF ~Ok(Loaded[k - 1]) THEN Loaded[k - 1]
        ELSE sfs_bmap_load_nolock(Loaded[k - 1], k - 1)
      Cut[k \in 0 .. had] == IF k = 0 THEN t ELSE sfs_bmap_truncate_nolock(Cut[k - 1])
      u == IF had < tblks THEN Loaded[tblks] ELSE Cut[had - tblks]
  IN  IF t.in.size = len
      THEN (IF tblks = had THEN t ELSE [t EXCEPT !.err = "tblks == din->blocks"])
      ELSE IF Ok(u) THEN [u EXCEPT !.in.size = len, !.dirty = TRUE] ELSE u

\* The end of the transfer after the tests at the top of sfs_io_nolock.
EndPos(t, offset, len, write) ==
  LET stop == Min({offset + len, MaxSize})
  IN  IF write THEN stop ELSE Min({stop, t.in.size})

\* One block's share of the transfer: sfs_rbuf, sfs_wbuf, sfs_rblock or sfs_wblock.
Moved(t, index, from, to, write, v) ==
  LET words == {w \in Words : index * BLKSIZE + w \in from .. (to - 1)}
  IN  IF write THEN [t EXCEPT !.disk = sfs_wbuf(@, BlockOf(@, t.in, index), words, v)] ELSE t

\* The size after a transfer that began at offset: offset has moved on, to the
\* end of that block, over a first block entered in the middle.
Sized(done, offset, next) ==
  LET reached == (IF offset % BLKSIZE # 0 /\ done.alen > 0 THEN next ELSE offset) + done.alen
  IN  IF reached > done.t.in.size
      THEN [done EXCEPT !.t.in.size = reached, !.t.dirty = TRUE]
      ELSE done

\* The three parts of sfs_io_nolock (a first block entered in the middle, whole
\* blocks, a last block left in the middle) are the blocks offset .. endpos
\* touches, one after the other.  Part[k] is the state and the words moved
\* after the k-th of them; a block that cannot be had ends the transfer.
sfs_io_nolock(t, offset, len, write, v) ==
  LET endpos == EndPos(t, offset, len, write)
      first == offset \div BLKSIZE
      from(k) == IF k = 1 THEN offset ELSE (first + k - 1) * BLKSIZE
      to(k) == Min({(first + k) * BLKSIZE, endpos})
      count == RoundUpDiv(endpos) - first
      Part[k \in 0 .. count] ==
        IF k = 0 THEN [t |-> t, alen |-> 0]
        ELSE IF ~Ok(Part[k - 1].t) THEN Part[k - 1]
        ELSE LET u == sfs_bmap_load_nolock(Part[k - 1].t, first + k - 1)
             IN  IF ~Ok(u) THEN [Part[k - 1] EXCEPT !.t = u]
                 ELSE [t |-> Moved(u, first + k - 1, from(k), to(k), write, v),
                       alen |-> Part[k - 1].alen + to(k) - from(k)]
  IN  IF offset >= endpos THEN [t |-> t, alen |-> 0] ELSE Sized(Part[count], offset, to(1))

-----------------------------------------------------------------------------
(* System calls on descriptor d *)

Usable(d) == fault = "none" /\ fd[d] # Closed

\* The file system and the inode of f as t, and t as the next state.
View(f) == [free |-> fs.free, unused |-> fs.unused, disk |-> fs.disk,
            in |-> din[f], dirty |-> dirty[f], err |-> "ok"]

Asserts == {"index <= din->blocks", "tblks == din->blocks"}

\* A failed assertion stops the machine where it is.
Finish(f, t, fdNext, endNext, resNext) ==
  IF t.err \in Asserts
  THEN fault' = t.err /\ UNCHANGED <<fs, din, ondisk, dirty, fd, res, end>>
  ELSE /\ fs' = [free |-> t.free, unused |-> t.unused, disk |-> t.disk]
       /\ din' = [din EXCEPT ![f] = t.in]
       /\ dirty' = [dirty EXCEPT ![f] = t.dirty]
       /\ fd' = fdNext /\ end' = endNext /\ res' = resNext
       /\ UNCHANGED <<ondisk, fault>>

\* file_open of an existing file; how is "plain", "trunc" or "append".
file_open(d, f, how) ==
  /\ fault = "none" /\ fd[d] = Closed
  /\ \E t \in {IF how = "trunc" THEN sfs_truncfile(View(f), 0) ELSE View(f)} :
       Finish(f, t, [fd EXCEPT ![d] = [file |-> f, pos |-> IF how = "append" THEN t.in.size ELSE 0]],
              IF how = "trunc" THEN [end EXCEPT ![f] = 0] ELSE end, <<>>)

\* sfs_fsync writes the inode if it is dirty.
Saved(f) == IF dirty[f] THEN [ondisk EXCEPT ![f] = din[f]] ELSE ondisk

file_fsync(d) ==
  /\ Usable(d)
  /\ ondisk' = Saved(fd[d].file)
  /\ dirty' = [dirty EXCEPT ![fd[d].file] = FALSE]
  /\ res' = <<>>
  /\ UNCHANGED <<fs, din, fd, end, fault>>

\* The last close syncs the inode and lets it go: the next open reads the disk.
file_close(d) ==
  LET f == fd[d].file
      last == \A e \in Descs \ {d} : fd[e].file # f
  IN  /\ Usable(d)
      /\ fd' = [fd EXCEPT ![d] = Closed]
      /\ ondisk' = IF last THEN Saved(f) ELSE ondisk
      /\ din' = IF last THEN [din EXCEPT ![f] = ondisk'[f]] ELSE din
      /\ dirty' = [dirty EXCEPT ![f] = @ /\ ~last]
      /\ res' = <<>>
      /\ UNCHANGED <<fs, end, fault>>

\* The words from pos on.
WordsOf(disk, in, pos, n) ==
  [k \in 1 .. n |-> LET at == pos + k - 1
                    IN  sfs_rbuf(disk, BlockOf(disk, in, at \div BLKSIZE), at % BLKSIZE)]

file_read(d, n) ==
  LET f == fd[d].file
  IN  /\ Usable(d)
      /\ \E r \in {sfs_io_nolock(View(f), fd[d].pos, n, FALSE, 0)} :
           Finish(f, r.t, [fd EXCEPT ![d].pos = @ + r.alen], end,
                  WordsOf(r.t.disk, r.t.in, fd[d].pos, r.alen))

file_write(d, n, v) ==
  LET f == fd[d].file
  IN  /\ Usable(d)
      /\ \E r \in {sfs_io_nolock(View(f), fd[d].pos, n, TRUE, v)} :
           Finish(f, r.t, [fd EXCEPT ![d].pos = @ + r.alen],
                  [end EXCEPT ![f] = Max({@, fd[d].pos + r.alen})], <<>>)

\* file_seek and sfs_tryseek: beyond the end the file is enlarged.
file_seek(d, pos) ==
  LET f == fd[d].file
  IN  /\ Usable(d)
      /\ \E t \in {IF pos > din[f].size THEN sfs_truncfile(View(f), pos) ELSE View(f)} :
           Finish(f, t, IF Ok(t) THEN [fd EXCEPT ![d].pos = pos] ELSE fd,
                  IF Ok(t) THEN [end EXCEPT ![f] = Max({@, pos})] ELSE end, <<>>)

\* After sfs_do_mount of an image whose files are empty.
SfsInit ==
  /\ fs = [free |-> Blocks, unused |-> NBlock, disk |-> [b \in Blocks |-> ZeroBlock]]
  /\ din = [f \in Files |-> EmptyInode]
  /\ ondisk = din
  /\ dirty = [f \in Files |-> FALSE]
  /\ fd = [d \in Descs |-> Closed]
  /\ res = <<>>
  /\ end = [f \in Files |-> 0]
  /\ fault = "none"

Transfer(d) ==
  \/ \E n \in 1 .. MaxLen : file_read(d, n)
  \/ \E n \in 1 .. MaxLen, v \in Values : file_write(d, n, v)

Other(d) ==
  \/ \E f \in Files, how \in {"plain", "trunc", "append"} : file_open(d, f, how)
  \/ file_close(d)
  \/ file_fsync(d)
  \/ \E pos \in 0 .. (MaxSize - 1) : file_seek(d, pos)

SfsNext == \E d \in Descs : Transfer(d) \/ Other(d)
SfsSpec == SfsInit /\ [][SfsNext]_sfs_vars

\* The same with reads and writes that start on a block boundary, as those of a
\* program that works block by block do.
SfsAlignedNext == \E d \in Descs : (fd[d].pos % BLKSIZE = 0 /\ Transfer(d)) \/ Other(d)

-----------------------------------------------------------------------------
(* Properties *)

\* The comment on the size of a disk inode, "size of the file (in bytes)":
\* it is where the written or skipped words end, whatever was read.
SizeHonest == \A f \in Files : din[f].size = end[f]

\* sfs_bmap_load_nolock asserts that a file has no holes.
BmapAsserts == fault # "index <= din->blocks"

\* sfs_truncfile asserts that size and blocks agree.
TruncAsserts == fault # "tblks == din->blocks"

\* The comment on sin->dirty, "true if inode modified".
DirtyHonest == \A f \in Files : dirty[f] \/ ondisk[f] = din[f]

SfsTypeOK ==
  /\ fs.free \subseteq Blocks /\ fs.unused \in 0 .. NBlock
  /\ \A f \in Files : din[f].size \in 0 .. (MaxSize + BLKSIZE) /\ din[f].blocks \in Nat
  /\ \A d \in Descs : fd[d].pos \in 0 .. (MaxSize + BLKSIZE)

\* The blocks that file f owns, each with the place that names it.
Owned(f) ==
  {<<f, i, BlockOf(fs.disk, din[f], i)>> : i \in 0 .. (NDIRECT + BLKSIZE - 1)}
    \cup {<<f, -1, din[f].indirect>>}
AllOwned == {o \in UNION {Owned(f) : f \in Files} : o[3] # 0}

\* Whatever was written, truncated, enlarged and refused for lack of room: every
\* block is free or has exactly one owner, unused_blocks counts the free ones, and
\* a file has its first `blocks` blocks.
BlocksExact ==
  /\ SfsTypeOK
  /\ \A b \in Blocks :
       IF b \in fs.free THEN ~\E o \in AllOwned : o[3] = b
       ELSE \E o \in AllOwned : o[3] = b /\ \A q \in AllOwned : q[3] = b => q = o
  /\ fs.unused = Cardinality(fs.free)
  /\ \A f \in Files, i \in 0 .. (NDIRECT + BLKSIZE - 1) :
       i < din[f].blocks => BlockOf(fs.disk, din[f], i) # 0

\* Files are sequences of bytes to all their users, two descriptors on the same
\* file included: a read returns what was last written there, new blocks and
\* gaps read as zeros and never as what another file left on the disk.
F == INSTANCE ByteFile WITH
       Lengths <- 0 .. MaxLen, Positions <- 0 .. (MaxSize - 1),
       data <- [f \in Files |-> WordsOf(fs.disk, din[f], 0, din[f].size)]
=============================================================================
