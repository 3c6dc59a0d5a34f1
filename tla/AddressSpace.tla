---------------------------- MODULE AddressSpace ----------------------------
(***************************************************************************)
(* Page tables, VMAs and address spaces: kern/mm/pmm.c, kern/mm/vmm.c and  *)
(* what do_fork, do_execve and do_exit of kern/process/proc.c do with      *)
(* them, in the version of lab 8 and, with COW, in that of lab 5, where a  *)
(* fork shares pages until they are written.                               *)
(*                                                                         *)
(* An address is the number of a page.  A page table has NT entries, a     *)
(* level 0 directory N0 tables, the root N1 directories.  Pages that hold  *)
(* tables and kernel stacks are counted; pages that are mapped are told    *)
(* apart, and each holds one value (a free page Junk).  A kernel stack is  *)
(* one page.  The kernel is not preempted, so a system call or page fault  *)
(* is one action.  find_vma's cache is left out: VMAs only go away with    *)
(* their mm.                                                               *)
(***************************************************************************)
EXTENDS Integers, Sequences, FiniteSets, FiniteSetsExt

CONSTANTS
  Procs, Init0,       \* processes; Init0 is initproc, a kernel thread
  Mms,                \* names for mm_structs
  NPage,              \* the number of physical pages
  N1, N0, NT,         \* entries of the three levels
  Values,             \* what a page may hold; the least of them is never stored
  Programs,           \* what may be executed: sequences of [start, end, write]
  Stack,              \* the stack VMA, [start, end, write]
  StackPages,         \* how many of its pages load_icode maps
  COW,                \* TRUE for lab 5
  None

Addrs == 0 .. (N1 * N0 * NT - 1)

Dir(la) == la \div (N0 * NT)
Tab(la) == <<Dir(la), (la \div NT) % N0>>
Dirs == 0 .. (N1 - 1)
Tabs == Dirs \X (0 .. (N0 - 1))
Frames == 1 .. NPage

\* vma_create of a range that insert_vma_struct accepts, within the memory of a user.
Vmas == {v \in [start : Addrs, end : 0 .. (N1 * N0 * NT), write : BOOLEAN] : v.start < v.end}

\* A page table entry, and an mm_struct.
Ptes == [frame : Frames, write : BOOLEAN, cow : BOOLEAN]
MmStructs ==
  [count : Nat, vmas : Seq(Vmas), dir : [Dirs -> BOOLEAN], tab : [Tabs -> BOOLEAN],
   pte : [Addrs -> Ptes \cup {None}]]

\* None is neither a record nor an mm; load_icode maps pages of the stack only.
SizesOK ==
  /\ N1 \in Nat \ {0} /\ N0 \in Nat \ {0} /\ NT \in Nat \ {0}
  /\ NPage \in Nat \ {0} /\ COW \in BOOLEAN
  /\ IsFiniteSet(Procs) /\ Init0 \in Procs /\ IsFiniteSet(Mms)
  /\ Programs \subseteq Seq(Vmas)
  /\ Stack \in Vmas /\ StackPages \in 0 .. (Stack.end - Stack.start)
  /\ None \notin Mms \cup Ptes /\ None \notin MmStructs
ASSUME SizeAssumption == SizesOK

VARIABLES
  pm,      \* pages: [free: how many, ref: references by mappings, data: contents]
  mms,     \* the mm_structs, None if not allocated
  proc,    \* each process: [st, mm]
  fault    \* the assertion that failed, if any

spaces == <<pm, mms, proc, fault>>

Junk == Min(Values)
FromFile == Max(Values)

(***************************************************************************)
(* An operator takes and returns t, [free, ref, data, mm, from, err]: the  *)
(* physical pages, the mm at work, the one it is copied from and how the   *)
(* call ended.  In an mm, dir, tab and pte are the entries of the root, of *)
(* the directories and of the tables.                                      *)
(***************************************************************************)
Ok(t) == t.err = "ok"

mm_create == [count |-> 0, vmas |-> <<>>, dir |-> [i \in Dirs |-> FALSE],
              tab |-> [j \in Tabs |-> FALSE], pte |-> [la \in Addrs |-> None]]

Context == [free |-> pm.free, ref |-> pm.ref, data |-> pm.data,
            mm |-> mm_create, from |-> mm_create, err |-> "ok"]

alloc_page(t) ==
  IF t.free = 0 THEN [t EXCEPT !.err = "NO_MEM"] ELSE [t EXCEPT !.free = @ - 1]
free_page(t) == [t EXCEPT !.free = @ + 1]

\* The page that is mapped next.
NewFrame(t) == Min({f \in Frames : t.ref[f] = 0})

\* The tables above la are there, allocated if need be.
get_pte(t, la) ==
  LET u == IF t.mm.dir[Dir(la)] THEN t ELSE alloc_page(t)
      d == [u EXCEPT !.mm.dir[Dir(la)] = TRUE]
      v == IF d.mm.tab[Tab(la)] THEN d ELSE alloc_page(d)
  IN  IF ~Ok(u) THEN u ELSE IF ~Ok(v) THEN v ELSE [v EXCEPT !.mm.tab[Tab(la)] = TRUE]

page_remove_pte(t, la) ==
  LET f == t.mm.pte[la].frame
      u == [t EXCEPT !.mm.pte[la] = None, !.ref[f] = @ - 1]
  IN  IF t.ref[f] = 1 THEN free_page([u EXCEPT !.data[f] = Junk]) ELSE u

Mapped(u, f, la, perm) ==
  LET r == [u EXCEPT !.ref[f] = @ + 1]
      old == u.mm.pte[la]
      w == IF old = None THEN r
           ELSE IF old.frame = f THEN u ELSE page_remove_pte(r, la)
  IN  IF ~Ok(u) THEN u
      ELSE [w EXCEPT !.mm.pte[la] = [frame |-> f, write |-> perm.write, cow |-> perm.cow]]

page_insert(t, f, la, perm) == Mapped(get_pte(t, la), f, la, perm)

\* A page for la; its contents are whatever the page held before.  It is given
\* back if it could not be mapped.
KeptIfMapped(u) == IF Ok(u) THEN u ELSE free_page(u)
pgdir_alloc_page(t, la, write) ==
  LET a == alloc_page(t)
  IN  IF ~Ok(a) THEN a
      ELSE KeptIfMapped(page_insert(a, NewFrame(a), la, [write |-> write, cow |-> FALSE]))

\* Pages of one mm are mapped at one address each, so the order is irrelevant.
unmap_range(t, vma) ==
  LET las == {la \in vma.start .. (vma.end - 1) : t.mm.pte[la] # None}
      gone == {t.mm.pte[la].frame : la \in las}
      last == {f \in gone : t.ref[f] = 1}
  IN  [t EXCEPT !.mm.pte = [la \in Addrs |-> IF la \in las THEN None ELSE @[la]],
                !.ref = [f \in Frames |-> IF f \in gone THEN @[f] - 1 ELSE @[f]],
                !.data = [f \in Frames |-> IF f \in last THEN Junk ELSE @[f]],
                !.free = @ + Cardinality(last)]

\* The tables of the range that are empty go.  A directory goes if every table
\* of it in the range was there; what else it held is lost with it.
exit_range(t, vma) ==
  LET seen == {Tab(la) : la \in vma.start .. (vma.end - 1)}
      pts == {j \in seen : t.mm.dir[j[1]] /\ t.mm.tab[j]
                              /\ \A la \in Addrs : Tab(la) = j => t.mm.pte[la] = None}
      pds == {i \in {j[1] : j \in seen} : t.mm.dir[i] /\ \A j \in seen : j[1] = i => t.mm.tab[j]}
  IN  [t EXCEPT !.free = @ + Cardinality(pts) + Cardinality(pds),
                !.mm.dir = [i \in Dirs |-> i \notin pds /\ @[i]],
                !.mm.tab = [j \in Tabs |-> j \notin pts /\ j[1] \notin pds /\ @[j]]]

exit_mmap(t) ==
  LET n == Len(t.mm.vmas)
      Unmapped[k \in 0 .. n] == IF k = 0 THEN t ELSE unmap_range(Unmapped[k - 1], t.mm.vmas[k])
      Exited[k \in 0 .. n] == IF k = 0 THEN Unmapped[n] ELSE exit_range(Exited[k - 1], t.mm.vmas[k])
  IN  Exited[n]

\* The page of the root.
setup_pgdir(t) == alloc_page(t)
put_pgdir(t) == free_page(t)

find_vma(mm, la) == {v \in 1 .. Len(mm.vmas) : mm.vmas[v].start <= la /\ la < mm.vmas[v].end}

\* The VMAs are kept in the order of their starts, and may not overlap.
insert_vma_struct(t, vma) ==
  LET before == {v \in 1 .. Len(t.mm.vmas) : t.mm.vmas[v].start <= vma.start}
      at == Cardinality(before)
      bad == \/ at # 0 /\ t.mm.vmas[at].end > vma.start
             \/ at # Len(t.mm.vmas) /\ vma.end > t.mm.vmas[at + 1].start
  IN  IF bad THEN [t EXCEPT !.err = "prev->vm_end <= next->vm_start"]
      ELSE [t EXCEPT !.mm.vmas = SubSeq(@, 1, at) \o <<vma>> \o SubSeq(@, at + 1, Len(@))]

mm_map(t, vma) ==
  IF find_vma(t.mm, vma.start) # {} THEN [t EXCEPT !.err = "INVAL"]
  ELSE insert_vma_struct(t, vma)

-----------------------------------------------------------------------------
(* Copying *)

\* lab 8: every mapped page is copied.  Running out of memory between the table
\* and the page fails an assertion.
copy_page_blank(t, la) ==
  LET g == get_pte(t, la)
      a == alloc_page(g)
      f == NewFrame(a)
      c == a
  IN  IF ~Ok(g) THEN g
      ELSE IF ~Ok(a) THEN [a EXCEPT !.err = "npage != NULL"]
      ELSE page_insert(c, f, la, [write |-> t.from.pte[la].write, cow |-> FALSE])
copy_page_dup(t, la) ==
  LET g == get_pte(t, la)
      a == alloc_page(g)
      f == NewFrame(a)
      c == [a EXCEPT !.data[f] = t.data[t.from.pte[la].frame]]
  IN  IF ~Ok(g) THEN g
      ELSE IF ~Ok(a) THEN [a EXCEPT !.err = "npage != NULL"]
      ELSE page_insert(c, f, la, [write |-> t.from.pte[la].write, cow |-> FALSE])

\* lab 5: a writable page becomes read-only in both, and copied on a write.
copy_page_cow(t, la) ==
  LET g == get_pte(t, la)
      pte == t.from.pte[la]
      both == IF pte.write THEN [pte EXCEPT !.write = FALSE, !.cow = TRUE] ELSE pte
  IN  IF ~Ok(g) THEN g ELSE page_insert([g EXCEPT !.from.pte[la] = both], pte.frame, la, both)

copy_page(u, la) ==
  IF ~Ok(u) \/ u.from.pte[la] = None THEN u
  ELSE IF COW THEN copy_page_cow(u, la) ELSE copy_page_dup(u, la)
copy_range(t, vma) ==
  LET Copied[k \in 0 .. (vma.end - vma.start)] ==
        IF k = 0 THEN t ELSE copy_page(Copied[k - 1], vma.start + k - 1)
  IN  Copied[vma.end - vma.start]

\* The VMAs are copied from the last one on; vma_create fails for the one at
\* vmaFail (0: for none).
DupVma(u, v, vmaFail) ==
  IF ~Ok(u) THEN u
  ELSE IF v = vmaFail THEN [u EXCEPT !.err = "NO_MEM"]
  ELSE copy_range(insert_vma_struct(u, u.from.vmas[v]), u.from.vmas[v])
dup_mmap(t, vmaFail) ==
  LET n == Len(t.from.vmas)
      Done[k \in 0 .. n] == IF k = 0 THEN t ELSE DupVma(Done[k - 1], n + 1 - k, vmaFail)
  IN  Done[n]

\* A new mm for a fork; on failure all of it is given back.
bad_dup_cleanup_mmap(u) == IF u.err = "NO_MEM" THEN put_pgdir(exit_mmap(u)) ELSE u
copy_mm(t, vmaFail) ==
  LET d == setup_pgdir(t)
  IN  IF Ok(d) THEN bad_dup_cleanup_mmap(dup_mmap(d, vmaFail)) ELSE d

-----------------------------------------------------------------------------
(* System calls *)

Halted == fault # "none"
Alive(p) == ~Halted /\ proc[p].st = "alive"
User(p) == Alive(p) /\ proc[p].mm # None
Gone == [st |-> "none", mm |-> None]
SpareMm == CHOOSE x \in Mms : mms[x] = None
Fails(t) == ~(t.err \in {"ok", "NO_MEM", "INVAL"})

Pages(t) == [free |-> t.free, ref |-> t.ref, data |-> t.data]

\* A failed assertion stops the machine where it is.
Panic(t) == fault' = t.err /\ UNCHANGED <<pm, mms, proc>>

\* Bound on mm_count.
MaxCount == Cardinality(Procs) + 1

\* do_fork of p into q, sharing the mm.
fork_share_uncounted(p, q, filesFail) ==
  LET t == alloc_page(Context)
      x == proc[p].mm
      counted == mms
  IN  /\ Alive(p) /\ proc[q].st = "none" /\ Ok(t)
      /\ x # None => mms[x].count < MaxCount
      /\ mms' = counted
      /\ IF filesFail
         THEN pm' = Pages(free_page(t)) /\ UNCHANGED proc
         ELSE /\ pm' = Pages(t)
              /\ proc' = [proc EXCEPT ![q] = [st |-> "alive", mm |-> x]]
      /\ UNCHANGED fault
fork_share(p, q, filesFail) ==
  LET t == alloc_page(Context)
      x == proc[p].mm
      counted == IF x = None THEN mms ELSE [mms EXCEPT ![x].count = @ + 1]
  IN  /\ Alive(p) /\ proc[q].st = "none" /\ Ok(t)
      /\ x # None => mms[x].count < MaxCount
      /\ mms' = counted
      /\ IF filesFail
         THEN pm' = Pages(free_page(t)) /\ UNCHANGED proc
         ELSE /\ pm' = Pages(t)
              /\ proc' = [proc EXCEPT ![q] = [st |-> "alive", mm |-> x]]
      /\ UNCHANGED fault

\* do_fork of p into q with a copy.  If copy_files then fails, only the kernel
\* stack and the proc_struct are given back.
fork_copy(p, q, vmaFail, filesFail) ==
  /\ User(p) /\ proc[q].st = "none" /\ \E x \in Mms : mms[x] = None
  /\ LET k == alloc_page([Context EXCEPT !.from = mms[proc[p].mm]])
     IN  /\ Ok(k)
         /\ \E t \in {copy_mm(k, vmaFail)} :
              LET kept == [mms EXCEPT ![proc[p].mm] = t.from]
                  made == [kept EXCEPT ![SpareMm] = [t.mm EXCEPT !.count = 1]]
              IN  \/ Fails(t) /\ Panic(t)
                  \/ ~Fails(t) /\ ~Ok(t) /\ pm' = Pages(free_page(t)) /\ mms' = kept
                               /\ UNCHANGED <<proc, fault>>
                  \/ Ok(t) /\ filesFail /\ pm' = Pages(free_page(t)) /\ mms' = made
                           /\ UNCHANGED <<proc, fault>>
                  \/ /\ Ok(t) /\ ~filesFail /\ pm' = Pages(t) /\ mms' = made
                     /\ proc' = [proc EXCEPT ![q] = [st |-> "alive", mm |-> SpareMm]]
                     /\ UNCHANGED fault

\* The mm of p is dropped: the pages it held, and the mm_structs then.
Dropped(p) ==
  LET x == proc[p].mm
      t == put_pgdir(exit_mmap([Context EXCEPT !.mm = mms[x]]))
      last == mms[x].count = 1
  IN  IF x = None THEN [t |-> Context, mms |-> mms]
      ELSE IF last THEN [t |-> [t EXCEPT !.mm = mm_create], mms |-> [mms EXCEPT ![x] = None]]
      ELSE [t |-> Context, mms |-> [mms EXCEPT ![x].count = @ - 1]]

\* The process stays a zombie with its kernel stack until do_wait.
do_exit(p) ==
  /\ Alive(p) /\ p # Init0
  /\ pm' = Pages(Dropped(p).t) /\ mms' = Dropped(p).mms
  /\ proc' = [proc EXCEPT ![p].st = "zombie", ![p].mm = None]
  /\ UNCHANGED fault

do_wait(p) ==
  /\ ~Halted /\ proc[p].st = "zombie"
  /\ pm' = Pages(free_page(Context))
  /\ proc' = [proc EXCEPT ![p] = Gone]
  /\ UNCHANGED <<mms, fault>>

\* The pages of a segment, filled from the file.
Filled(u, la) == IF Ok(u) THEN [u EXCEPT !.data[u.mm.pte[la].frame] = FromFile] ELSE u
LoadPage(l, la, write) == IF Ok(l) THEN Filled(pgdir_alloc_page(l, la, write), la) ELSE l
LoadSegment(t, seg) ==
  LET Loaded[k \in 0 .. (seg.end - seg.start)] ==
        IF k = 0 THEN t ELSE LoadPage(Loaded[k - 1], seg.start + k - 1, seg.write)
  IN  Loaded[seg.end - seg.start]

\* The top pages of the stack; load_icode asserts that it gets them.
Asserted(u) == IF Ok(u) THEN u ELSE [u EXCEPT !.err = "pgdir_alloc_page != NULL"]
StackPage(l, la) == IF Ok(l) THEN Asserted(pgdir_alloc_page(l, la, TRUE)) ELSE l
LoadStack(t) ==
  LET Loaded[k \in 0 .. StackPages] ==
        IF k = 0 THEN t ELSE StackPage(Loaded[k - 1], Stack.end - k)
  IN  Loaded[StackPages]

\* The file cannot be read, or is not what it should be, at segment readFail (0:
\* its header; one past the last: the arguments do not fit; more: it is right).
FailedIf(t, bad) == IF Ok(t) /\ bad THEN [t EXCEPT !.err = "INVAL"] ELSE t
WithSegment(t, seg) == IF Ok(t) THEN LoadSegment(t, seg) ELSE t
WithStack(t) == IF Ok(t) THEN LoadStack(mm_map(t, Stack)) ELSE t
bad_cleanup_mmap(t) == IF Ok(t) \/ Fails(t) THEN t ELSE put_pgdir(exit_mmap(t))
MapSegment(l, seg, bad) ==
  IF Ok(l) THEN FailedIf(WithSegment(mm_map(l, seg), seg), bad) ELSE l
load_icode(t, prog, readFail) ==
  LET d == setup_pgdir(t)
      n == Len(prog)
      Seg[k \in 0 .. n] ==
        IF k = 0 THEN FailedIf(d, readFail = 0) ELSE MapSegment(Seg[k - 1], prog[k], readFail = k)
  IN  IF Ok(d) THEN bad_cleanup_mmap(FailedIf(WithStack(Seg[n]), readFail = n + 1)) ELSE d

\* The old mm is gone before the new one is built; a failure ends the process.
do_execve(p, prog, readFail) ==
  /\ Alive(p) /\ p # Init0
  /\ \E old \in {Dropped(p)} :
       LET x == CHOOSE y \in Mms : old.mms[y] = None
       IN  /\ \E y \in Mms : old.mms[y] = None
           /\ \E t \in {load_icode(old.t, prog, readFail)} :
                \/ Fails(t) /\ Panic(t)
                \/ /\ ~Fails(t) /\ ~Ok(t)
                   /\ pm' = Pages(t) /\ mms' = old.mms
                   /\ proc' = [proc EXCEPT ![p].st = "zombie", ![p].mm = None]
                   /\ UNCHANGED fault
                \/ /\ Ok(t)
                   /\ pm' = Pages(t) /\ mms' = [old.mms EXCEPT ![x] = [t.mm EXCEPT !.count = 1]]
                   /\ proc' = [proc EXCEPT ![p].mm = x]
                   /\ UNCHANGED fault

-----------------------------------------------------------------------------
(* Accesses *)

Pte(p, la) == mms[proc[p].mm].pte[la]
Denied(p, la, write) == IF Pte(p, la) = None THEN TRUE ELSE write /\ ~Pte(p, la).write

\* lab 5: a write to a page that is copied on a write.
cow_fault_blank(t, la) ==
  LET f == t.mm.pte[la].frame
      a == alloc_page(t)
      n == NewFrame(a)
      c == a
  IN  IF t.ref[f] > 1
      THEN (IF Ok(a) THEN page_insert(c, n, la, [write |-> TRUE, cow |-> FALSE]) ELSE a)
      ELSE page_insert(t, f, la, [write |-> TRUE, cow |-> FALSE])
cow_fault(t, la) ==
  LET f == t.mm.pte[la].frame
      a == alloc_page(t)
      n == NewFrame(a)
      c == [a EXCEPT !.data[n] = t.data[f]]
  IN  IF t.ref[f] > 1
      THEN (IF Ok(a) THEN page_insert(c, n, la, [write |-> TRUE, cow |-> FALSE]) ELSE a)
      ELSE page_insert(t, f, la, [write |-> TRUE, cow |-> FALSE])

\* What do_pgfault makes of an access at la.
Faulted(t, la, write) ==
  LET vma == find_vma(t.mm, la)
      may == \E v \in vma : write => t.mm.vmas[v].write
      g == get_pte(t, la)
  IN  IF ~may THEN [t EXCEPT !.err = "INVAL"]
      ELSE IF ~Ok(g) THEN g
      ELSE IF g.mm.pte[la] = None THEN pgdir_alloc_page(g, la, \E v \in vma : t.mm.vmas[v].write)
      ELSE IF COW /\ write /\ g.mm.pte[la].cow THEN cow_fault(g, la)
      ELSE [g EXCEPT !.err = "INVAL"]

\* A page fault: the access is repeated, or the process ends.  The tables that
\* get_pte made stay.
do_pgfault(p, la, write) ==
  LET x == proc[p].mm
  IN  /\ User(p)
      /\ Denied(p, la, write)
      /\ \E t \in {Faulted([Context EXCEPT !.mm = mms[x]], la, write)} :
           Ok(t) /\ pm' = Pages(t) /\ mms' = [mms EXCEPT ![x] = t.mm]
      /\ UNCHANGED <<proc, fault>>

\* The fault cannot be served and do_exit follows.
do_pgfault_killed(p, la, write) ==
  LET x == proc[p].mm
      last == mms[x].count = 1
  IN  /\ User(p)
      /\ Denied(p, la, write)
      /\ \E t \in {Faulted([Context EXCEPT !.mm = mms[x]], la, write)} :
           /\ ~Ok(t)
           /\ pm' = Pages(IF last THEN put_pgdir(exit_mmap(t)) ELSE t)
           /\ mms' = [mms EXCEPT ![x] = IF last THEN None ELSE [t.mm EXCEPT !.count = @ - 1]]
      /\ proc' = [proc EXCEPT ![p].st = "zombie", ![p].mm = None]
      /\ UNCHANGED fault

\* A store by the user program.
store(p, la, v) ==
  /\ User(p) /\ Pte(p, la) # None /\ Pte(p, la).write
  /\ pm' = [pm EXCEPT !.data[Pte(p, la).frame] = v]
  /\ UNCHANGED <<mms, proc, fault>>

SpaceInit ==
  /\ pm = [free |-> NPage, ref |-> [f \in Frames |-> 0], data |-> [f \in Frames |-> Junk]]
  /\ mms = [x \in Mms |-> None]
  /\ proc = [p \in Procs |-> IF p = Init0 THEN [Gone EXCEPT !.st = "alive"] ELSE Gone]
  /\ fault = "none"

FilesFail == IF COW THEN {FALSE} ELSE BOOLEAN

SpaceNext ==
  \E p \in Procs :
    \/ \E q \in Procs, ff \in FilesFail :
         \/ fork_share(p, q, ff)
         \/ \E vf \in 0 .. 2 : fork_copy(p, q, vf, ff)
    \/ do_exit(p)
    \/ do_wait(p)
    \/ \E prog \in Programs : \E rf \in 0 .. (Len(prog) + 2) : do_execve(p, prog, rf)
    \/ \E la \in Addrs, w \in BOOLEAN : do_pgfault(p, la, w) \/ do_pgfault_killed(p, la, w)
    \/ \E la \in Addrs, v \in Values \ {Junk} : store(p, la, v)

SpaceSpec == SpaceInit /\ [][SpaceNext]_spaces

-----------------------------------------------------------------------------
(* Properties *)

Live == {x \in Mms : mms[x] # None}

\* The pages in use: kernel stacks, roots, directories and tables, and the mapped ones.
Stacks == {p \in Procs \ {Init0} : proc[p].st # "none"}
Directories == {xi \in Live \X Dirs : mms[xi[1]].dir[xi[2]]}
PageTables == {xj \in Live \X Tabs : mms[xj[1]].tab[xj[2]]}
Mappings(f) == {xa \in Live \X Addrs : mms[xa[1]].pte[xa[2]] # None /\ mms[xa[1]].pte[xa[2]].frame = f}
InUse == Cardinality(Stacks) + Cardinality(Live) + Cardinality(Directories)
           + Cardinality(PageTables) + Cardinality({f \in Frames : Mappings(f) # {}})

\* Whatever forks, execs, exits and page faults succeed or fail: no page is free
\* while it is in use, a page's reference count is the number of its mappings, a
\* page mapped twice is writable nowhere, and an mm stays while a process has it.
FramesSafe ==
  /\ pm.free + InUse <= NPage
  /\ \A f \in Frames :
       /\ pm.ref[f] = Cardinality(Mappings(f))
       /\ pm.ref[f] > 1 => \A xa \in Mappings(f) : ~mms[xa[1]].pte[xa[2]].write
  /\ \A x \in Mms : LET users == {q \in Procs : proc[q].mm = x}
                    IN  users # {} => x \in Live /\ mms[x].count >= Cardinality(users)

\* The comment of do_wait, "only after do_wait function, all resources of the
\* child proces are free": a page that nothing uses is free, an mm has processes.
NoLeak ==
  /\ pm.free + InUse = NPage
  /\ \A x \in Live : mms[x].count = Cardinality({q \in Procs : proc[q].mm = x})

\* FramesSafe, and every page that is given up comes back.
FramesExact == FramesSafe /\ NoLeak

\* copy_range asserts that the page for a copy is there.
CopyAsserts == fault # "npage != NULL"

\* insert_vma_struct asserts that the VMAs of a program do not overlap.
VmaAsserts == fault # "prev->vm_end <= next->vm_start"

\* What a program finds when it starts.
ImageOf(prog) ==
  [la \in Addrs |-> IF \E k \in 1 .. Len(prog) : prog[k].start <= la /\ la < prog[k].end THEN FromFile
                    ELSE IF la \in (Stack.end - StackPages) .. (Stack.end - 1) THEN Junk ELSE None]

\* Every process has a memory of its own, copied by a fork, or shared with those
\* it was cloned with: page tables, reference counts and copying on a write do
\* not show.
M == INSTANCE UserMemory WITH
       mem <- [x \in Mms |-> [la \in Addrs |->
                 IF (~\E p \in Procs : proc[p].mm = x) \/ mms[x].pte[la] = None
                 THEN None ELSE pm.data[mms[x].pte[la].frame]]],
       Absent <- "absent", Stored <- Values \ {Junk},
       Images <- {ImageOf(prog) : prog \in Programs},
       of <- [p \in Procs |-> IF proc[p].st = "alive" THEN proc[p].mm ELSE "absent"]
-----------------------------------------------------------------------------
(* The inductive invariant *)

\* A page is mapped once in an mm, and only within its VMAs.
Apart(pte) ==
  \A la, lb \in Addrs :
    pte[la] # None /\ pte[lb] # None /\ pte[la].frame = pte[lb].frame => la = lb
Within(m) ==
  \A la \in Addrs : m.pte[la] # None =>
    \E v \in 1 .. Len(m.vmas) : m.vmas[v].start <= la /\ la < m.vmas[v].end

SpaceTypeOK ==
  /\ pm \in [free : Nat, ref : [Frames -> Nat], data : [Frames -> Values \cup {Junk, FromFile}]]
  /\ mms \in [Mms -> MmStructs \cup {None}]
  /\ proc \in [Procs -> [st : {"none", "alive", "zombie"}, mm : Mms \cup {None}]]

SpaceInv ==
  /\ SpaceTypeOK
  /\ proc[Init0] = [st |-> "alive", mm |-> None]
  /\ \A p \in Procs : proc[p].st # "alive" => proc[p].mm = None
  /\ \A x \in Live : Apart(mms[x].pte) /\ Within(mms[x])
  /\ FramesSafe
=============================================================================
