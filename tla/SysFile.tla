------------------------------- MODULE SysFile -------------------------------
(***************************************************************************)
(* Reads, writes and path names between a process and the file system:     *)
(* sysfile_read, sysfile_write and copy_path of kern/fs/sysfile.c, with    *)
(* user_mem_check, copy_string and the copies of kern/mm/vmm.c.            *)
(*                                                                         *)
(* One process with a fixed set of VMAs and one open file, read and        *)
(* written through a buffer of IOBUF_SIZE words.  The file stands for      *)
(* file_read and file_write (SfsFile): a read ends at the end of the file, *)
(* a write fails where the disk is full.  Pages are there when they are    *)
(* touched (do_pgfault, AddressSpace).                                     *)
(***************************************************************************)
EXTENDS Integers, Sequences, FiniteSetsExt

CONSTANTS
  Top,         \* user memory is 0 .. Top - 1: USERBASE and USERTOP
  PGSIZE,
  Layouts,     \* sets of VMAs: [start, end, read, write, stack]
  Memories,    \* what is in memory at first; 0 ends a string
  IOBUF_SIZE,
  PathLen,     \* FS_MAX_FPATH_LEN + 1
  Room,        \* the words the disk has room for
  MaxLen,      \* bound on the length of a transfer
  MaxCalls     \* bound on the number of calls

SysFileAssumption ==
  /\ {Top, PGSIZE, IOBUF_SIZE, PathLen} \subseteq Nat \ {0} /\ {Room, MaxLen, MaxCalls} \subseteq Nat
  /\ \A L \in Layouts : \A v \in L : v.start % PGSIZE = 0 /\ v.end % PGSIZE = 0 /\ v.start < v.end

VARIABLES
  vmas,   \* the VMAs of the process
  mem,    \* its memory
  file,   \* the contents of the file
  pos,    \* file->pos
  last,   \* the last call: [call, base, len, ret, path]
  calls   \* the number of calls so far

vars == <<vmas, mem, file, pos, last, calls>>

Addrs == 0 .. (Top - 1)

-----------------------------------------------------------------------------
(* kern/mm/vmm.c *)

\* find_vma and the tests of the loop of user_mem_check, at address a.
GoodVma_nostack(a, write) ==
  {v \in vmas : v.start <= a /\ a < v.end /\ (IF write THEN v.write ELSE v.read)}
GoodVma(a, write) ==
  {v \in vmas : /\ v.start <= a /\ a < v.end
                /\ IF write THEN v.write ELSE v.read
                /\ ~(write /\ v.stack /\ a < v.start + PGSIZE)}

\* The loop goes from VMA to VMA; Walk[k] is where it is after k of them, -1
\* when it has given up.
user_mem_check(addr, len, write) ==
  LET stop == addr + len
      Walk[k \in 0 .. Top] ==
        IF k = 0 THEN addr
        ELSE LET at == Walk[k - 1]
             IN  IF at = -1 \/ at >= stop THEN at
                 ELSE IF GoodVma(at, write) = {} THEN -1
                 ELSE (CHOOSE v \in GoodVma(at, write) : TRUE).end
  IN  0 <= addr /\ addr < stop /\ stop <= Top /\ Walk[Top] # -1

\* The words of memory from a on.
Slice(a, n) == [i \in 1 .. n |-> mem[a + i - 1]]

\* copy_string: the string is checked and copied page by page.  Copy[k] after
\* k rounds: what there is, the next address, how much may still be copied.
FirstPart(src) == ((src + PGSIZE) \div PGSIZE) * PGSIZE - src
copy_string(src, maxn) ==
  LET Copy[k \in 0 .. maxn] ==
        IF k = 0 THEN [got |-> <<>>, at |-> src, maxn |-> maxn, end |-> "no"]
        ELSE LET was == Copy[k - 1]
                 part == Min({IF k = 1 THEN FirstPart(src) ELSE PGSIZE, was.maxn})
                 zeros == {i \in 0 .. (part - 1) : mem[was.at + i] = 0}
             IN  IF was.end # "no" THEN was
                 ELSE IF ~user_mem_check(was.at, part, FALSE) THEN [was EXCEPT !.end = "bad"]
                 ELSE IF zeros # {}
                 THEN [was EXCEPT !.got = @ \o Slice(was.at, Min(zeros)), !.end = "string"]
                 ELSE IF part = was.maxn THEN [was EXCEPT !.end = "bad"]
                 ELSE [was EXCEPT !.got = @ \o Slice(was.at, part), !.at = @ + part, !.maxn = @ - part]
  IN  Copy[maxn]

-----------------------------------------------------------------------------
(* kern/fs/sysfile.c.  s is [mem, file, pos, len: words to go, copied, ret, *)
(* out: the loop was left]; base is where the call began.                   *)

Chunk(s) == Min({IOBUF_SIZE, s.len})

\* file_read: what is left of the file, and no error.
file_read(s) == Min({Chunk(s), IF s.pos < Len(s.file) THEN Len(s.file) - s.pos ELSE 0})

ReadOnce(s, base) ==
  LET alen == file_read(s)
      to == base + s.copied
      moved == [s EXCEPT !.pos = @ + alen]
  IN  IF alen = 0 THEN [s EXCEPT !.out = TRUE]
      ELSE IF ~user_mem_check(to, alen, TRUE) THEN [moved EXCEPT !.ret = -1, !.out = TRUE]
      ELSE [moved EXCEPT !.len = @ - alen, !.copied = @ + alen,
                         !.mem = [a \in Addrs |-> IF a \in to .. (to + alen - 1)
                                                  THEN s.file[s.pos + 1 + a - to] ELSE @[a]]]

\* file_write: as much as the disk has room for, with an error if that is less.
file_write(s) == Min({Chunk(s), Room - s.pos})

\* A write at pos of the n words at address a.
Written(s, a, n) ==
  [i \in 1 .. Max({Len(s.file), s.pos + n}) |->
     IF i > s.pos /\ i <= s.pos + n THEN s.mem[a + i - s.pos - 1] ELSE s.file[i]]

WriteOnce(s, base) ==
  LET from == base + s.copied
      alen == file_write(s)
  IN  IF ~user_mem_check(from, Chunk(s), FALSE) THEN [s EXCEPT !.ret = -1, !.out = TRUE]
      ELSE [s EXCEPT !.file = Written(s, from, alen), !.pos = @ + alen,
                     !.len = @ - alen, !.copied = @ + alen,
                     !.ret = IF alen < Chunk(s) THEN -1 ELSE 0,
                     !.out = alen < Chunk(s)]

\* The loop of both, one chunk after the other.
Loop(call, base, len) ==
  LET start == [mem |-> mem, file |-> file, pos |-> pos, len |-> len, copied |-> 0, ret |-> 0, out |-> FALSE]
      After[k \in 0 .. len] ==
        IF k = 0 THEN start
        ELSE LET s == After[k - 1] IN IF s.out \/ s.len = 0 THEN s
                                    ELSE IF call = "read" THEN ReadOnce(s, base) ELSE WriteOnce(s, base)
  IN  After[len]

\* The call returns what was copied, or the error if that is nothing.
Return(call, base, len, s) ==
  /\ mem' = s.mem /\ file' = s.file /\ pos' = s.pos
  /\ last' = [call |-> call, base |-> base, len |-> len,
              ret |-> IF s.copied # 0 THEN s.copied ELSE s.ret, path |-> <<>>]
  /\ UNCHANGED vmas

sysfile_read(base, len) == Return("read", base, len, Loop("read", base, len))
sysfile_write(base, len) == Return("write", base, len, Loop("write", base, len))

\* copy_path for open, chdir, exec and the rest.
copy_path(from) ==
  LET c == copy_string(from, PathLen)
  IN  /\ last' = [call |-> "path", base |-> from, len |-> 0,
                  ret |-> IF c.end = "string" THEN 0 ELSE -1,
                  path |-> IF c.end = "string" THEN c.got ELSE <<>>]
      /\ UNCHANGED <<vmas, mem, file, pos>>

\* sysfile_seek inside the file.
sysfile_seek(to) ==
  /\ pos' = to
  /\ last' = [call |-> "seek", base |-> 0, len |-> 0, ret |-> 0, path |-> <<>>]
  /\ UNCHANGED <<vmas, mem, file>>

Init ==
  /\ vmas \in Layouts
  /\ mem \in Memories
  /\ file = <<>> /\ pos = 0
  /\ last = [call |-> "none", base |-> 0, len |-> 0, ret |-> 0, path |-> <<>>]
  /\ calls = 0

Next ==
  /\ calls < MaxCalls /\ calls' = calls + 1
  /\ \/ \E base \in 0 .. (Top + 1), len \in 0 .. MaxLen : sysfile_read(base, len) \/ sysfile_write(base, len)
     \/ \E from \in 0 .. (Top + 1) : copy_path(from)
     \/ \E to \in 0 .. Len(file) : sysfile_seek(to)

Spec == Init /\ [][Next]_vars
-----------------------------------------------------------------------------
(* Properties *)

\* A word the process itself could read or write.  The lowest page of the
\* stack's VMA guards it.
May(a, write) ==
  \E v \in vmas : /\ a \in v.start .. (v.end - 1)
                  /\ IF write THEN v.write /\ ~(v.stack /\ a < v.start + PGSIZE) ELSE v.read
Count(n) == Max({n, 0})

\* read() hands over the words at the position, in order and in one piece, and
\* nothing else in memory changes; it stops early only at the end of the file
\* or before a chunk with a word the process may not write.  The position
\* moves with what was handed over, and at most one chunk further where the
\* memory was the obstacle.
ReadExact ==
  LET n == Count(last'.ret)
      stop == last'.base + n
      refused == {a \in stop .. (stop + IOBUF_SIZE - 1) : a < last'.base + last'.len /\ ~May(a, TRUE)}
  IN  /\ n <= last'.len /\ file' = file
      /\ \A a \in Addrs : mem'[a] = IF a \in last'.base .. (stop - 1) THEN file[pos + 1 + a - last'.base] ELSE mem[a]
      /\ \A a \in last'.base .. (stop - 1) : May(a, TRUE)
      /\ n < last'.len => pos + n = Len(file) \/ refused # {}
      /\ pos' = pos + n \/ (refused # {} /\ pos' \in (pos + n) .. (pos + n + IOBUF_SIZE))

\* write() is the same the other way round, and the position is exact.
WriteExact ==
  LET n == Count(last'.ret)
      stop == last'.base + n
  IN  /\ n <= last'.len /\ mem' = mem /\ pos' = pos + n
      /\ Len(file') = Max({Len(file), pos + n})
      /\ \A i \in 1 .. Len(file') : file'[i] = IF i > pos /\ i <= pos + n THEN mem[last'.base + i - pos - 1] ELSE file[i]
      /\ \A a \in last'.base .. (stop - 1) : May(a, FALSE)
      /\ n < last'.len => \/ pos + n = Room
                          \/ \E a \in stop .. (stop + IOBUF_SIZE - 1) : a < last'.base + last'.len /\ ~May(a, FALSE)

\* A path is taken if and only if it ends, within PathLen words, in memory
\* that the process may read, and it is the words before its end.
PathExact ==
  LET from == last'.base
      ends == {a \in from .. Min({from + PathLen - 1, Top - 1}) :
                 mem[a] = 0 /\ \A b \in from .. a : May(b, FALSE)}
  IN  IF ends = {} THEN last'.ret = -1
      ELSE last'.ret = 0 /\ last'.path = Slice(from, Min(ends) - from)

\* Whatever part of a buffer lies outside the process' memory or in the guard
\* page of its stack, and wherever chunks, pages, the file and the disk end:
\* reads, writes and path names transfer what they say.
CallsExactStep ==
  /\ last'.call = "read" => ReadExact
  /\ last'.call = "write" => WriteExact
  /\ last'.call = "path" => PathExact
=============================================================================
