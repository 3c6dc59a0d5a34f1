------------------------------ MODULE OpenFiles ------------------------------
(***************************************************************************)
(* Open files: the descriptor tables of kern/fs/file.c and kern/fs/fs.c,   *)
(* the names of kern/fs/vfs (vfsfile.c, vfslookup.c, vfspath.c), the       *)
(* counts of kern/fs/vfs/inode.c, SFS's cache of inodes, and what do_fork, *)
(* do_execve and do_exit of kern/process/proc.c do with them.              *)
(*                                                                         *)
(* The kernel is not preempted and the disk does not sleep, so a system    *)
(* call is one action; only a read of the keyboard sleeps inside one.      *)
(* CLONE_FS is never passed: a files_struct belongs to one process and     *)
(* files_count is 1 while it lives.  Left out: pos and the access modes    *)
(* (SfsFile has the positions), and O_APPEND.                              *)
(***************************************************************************)
EXTENDS Integers, FiniteSets, FiniteSetsExt, Functions

CONSTANTS
  Init_,      \* initproc, which only forks
  Procs,      \* the other proc_structs
  NFd,        \* FILES_STRUCT_NENTRY
  Root,       \* the root directory of the boot file system
  Dirs,       \* the directories, Root among them
  Files,      \* the regular files
  Devs,       \* the character devices
  DevMode,    \* the one access mode a device may be opened with
  Names,      \* file names, ".." among them
  Entry,      \* Entry[d]: the entries of directory d, a function to nodes
  Paths,      \* the paths that are passed in: see get_device
  Flags,      \* the open flags that are passed in: see vfs_open
  MaxLost,    \* bound on the references that are lost
  MaxOpen     \* bound on the descriptors open at the same time

Sfs == Dirs \cup Files
Nodes == Sfs \cup Devs
Fds == 0 .. (NFd - 1)
All == Procs \cup {Init_}
None == "none"

\* ".." leads up to Root: there is a depth that it lowers.
Rooted ==
  \E depth \in [Dirs -> 0 .. (Cardinality(Dirs) - 1)] :
    \A d \in Dirs \ {Root} : depth[Entry[d][".."]] < depth[d]

TreeAssumption ==
  /\ Root \in Dirs /\ Init_ \notin Procs /\ NFd \in Nat \ {0} /\ MaxLost \in Nat /\ MaxOpen \in Nat
  /\ IsFiniteSet(Procs) /\ IsFiniteSet(Dirs) /\ Rooted
  /\ Dirs \cap Files = {} /\ Sfs \cap Devs = {} /\ None \notin Nodes
  /\ Devs \cap {"cur", "boot", ":", "disk0"} = {}
  /\ \A d \in Dirs : /\ DOMAIN Entry[d] \subseteq Names
                     /\ ".." \in DOMAIN Entry[d] /\ Entry[d][".."] \in Dirs
                     /\ \A x \in DOMAIN Entry[d] : Entry[d][x] \in Sfs
  /\ Entry[Root][".."] = Root /\ DevMode \in [Devs -> {"r", "w"}]
  /\ Paths \subseteq [from : {"cur", "boot", ":", "disk0"} \cup Devs, name : Names \cup {""}]
  /\ Flags \subseteq [acc : {"r", "w", "rw"}, trunc : BOOLEAN, creat : BOOLEAN, excl : BOOLEAN]

VARIABLES
  ino,       \* the in-memory inodes: ref_count, open_count, reclaim_count, loaded
  tab,       \* the files_struct of each process: pwd, fd_array, and whether it exists
  state,     \* "none", "user" (mm # NULL), "kern" (mm = NULL), "zombie"
  reading,   \* the descriptor whose read sleeps, -1 if none
  lost,      \* references and opens whose holder is gone: [ref, open] of each node
  halted     \* the kernel has panicked

open_files == <<ino, tab, state, reading, lost, halted>>

Closed == [status |-> "NONE", node |-> None, count |-> 0]
NoFiles == [on |-> FALSE, pwd |-> None, fd |-> [k \in Fds |-> Closed]]
Unloaded == [ref |-> 0, open |-> 0, reclaim |-> 0, mem |-> FALSE]

-----------------------------------------------------------------------------
(* kern/fs/vfs/inode.c and SFS's inode cache *)

RefInc(I, n) == [I EXCEPT ![n].ref = @ + 1]
OpenInc(I, n) == [I EXCEPT ![n].open = @ + 1]
OpenDec(I, n) == [I EXCEPT ![n].open = @ - 1]

\* The inode leaves memory unless a look-up came in between.
sfs_reclaim(I, n) ==
  IF I[n].reclaim # 1 \/ I[n].ref # 0 THEN [I EXCEPT ![n].reclaim = @ - 1]
  ELSE [I EXCEPT ![n] = Unloaded]

RefDec(I, n) ==
  LET J == [I EXCEPT ![n].ref = @ - 1]
  IN  IF J[n].ref = 0 THEN sfs_reclaim(J, n) ELSE J

\* lookup_sfs_nolock finds it, or a new inode is filled from disk.
sfs_load_inode(I, n) ==
  IF I[n].mem
  THEN [I EXCEPT ![n].ref = @ + 1, ![n].reclaim = IF I[n].ref = 0 THEN @ + 1 ELSE @]
  ELSE [I EXCEPT ![n] = [ref |-> 1, open |-> 0, reclaim |-> 1, mem |-> TRUE]]

vfs_close(I, n) == RefDec(OpenDec(I, n), n)

-----------------------------------------------------------------------------
(* Names *)

Found(I, n) == [err |-> "ok", I |-> I, node |-> n]
Failed(I, e) == [err |-> e, I |-> I, node |-> None]

\* A path is where it starts and the rest: "name", "/name", ":name", "dev:name".
get_device(I, p, path) ==
  LET cur == tab[p].pwd
  IN  CASE path.from = "cur" -> Found(RefInc(I, cur), cur)
        [] path.from = "boot" -> Found(RefInc(I, Root), Root)
        [] path.from = ":" -> Found(RefDec(sfs_load_inode(RefInc(I, cur), Root), cur), Root)
        [] path.from = "disk0" -> Found(sfs_load_inode(I, Root), Root)
        [] path.from \in Devs -> Found(RefInc(I, path.from), path.from)

\* The whole name is looked up as one entry: SFS does not walk a path.
sfs_lookup(I, dir, name) ==
  IF name \in DOMAIN Entry[dir]
  THEN Found(RefDec(sfs_load_inode(RefInc(I, dir), Entry[dir][name]), dir), Entry[dir][name])
  ELSE Failed(RefDec(RefInc(I, dir), dir), "NOENT")

vop_lookup(I, n, name) == IF n \in Devs THEN Failed(I, "NOENT") ELSE sfs_lookup(I, n, name)

vfs_lookup(I, p, path) ==
  LET base == get_device(I, p, path)
      there == vop_lookup(base.I, base.node, path.name)
  IN  IF path.name = "" THEN base ELSE [there EXCEPT !.I = RefDec(there.I, base.node)]

-----------------------------------------------------------------------------
(* Opening *)

ReadOnly == [acc |-> "r", trunc |-> FALSE, creat |-> FALSE, excl |-> FALSE]

\* sfs_opendir, sfs_openfile, dev_open with stdin_open or stdout_open.
vop_open(n, fl) ==
  CASE n \in Dirs -> fl.acc = "r"
    [] n \in Files -> TRUE
    [] n \in Devs -> fl.acc = DevMode[n] /\ ~fl.creat /\ ~fl.trunc /\ ~fl.excl

\* SFS has no vop_create and its directories no vop_truncate: __vop_op asserts.
\* A file that exists under O_CREAT | O_EXCL keeps the reference it was found with.
vfs_open(I, p, path, fl) ==
  LET l == vfs_lookup(I, p, path)
  IN  IF fl.trunc /\ fl.acc = "r" THEN Failed(I, "INVAL")
      ELSE IF l.err # "ok" THEN (IF fl.creat THEN Failed(l.I, "panic") ELSE l)
      ELSE IF fl.excl /\ fl.creat THEN [l EXCEPT !.err = "EXISTS"]
      ELSE IF ~vop_open(l.node, fl) THEN Failed(RefDec(l.I, l.node), "INVAL")
      ELSE IF (fl.trunc \/ fl.creat) /\ l.node \in Dirs THEN Failed(l.I, "panic")
      ELSE [l EXCEPT !.I = OpenInc(l.I, l.node)]

-----------------------------------------------------------------------------
(* The descriptor table.  s is [I |-> inodes, T |-> one files_struct]. *)

fd_array_free(s, k) ==
  [I |-> IF s.T.fd[k].status = "CLOSED" THEN vfs_close(s.I, s.T.fd[k].node) ELSE s.I,
   T |-> [s.T EXCEPT !.fd[k] = Closed]]

fd_array_release(s, k) ==
  LET t == [s EXCEPT !.T.fd[k].count = @ - 1]
  IN  IF t.T.fd[k].count = 0 THEN fd_array_free(t, k) ELSE t

\* Whoever still reads frees the file later.
fd_array_close(s, k) == fd_array_release([s EXCEPT !.T.fd[k].status = "CLOSED"], k)

\* fd_array_init to fd_array_open: the file is there and counted once.
fd_array_open(T, k, n) == [T EXCEPT !.fd[k] = [status |-> "OPENED", node |-> n, count |-> 1]]

fd_array_dup_noopen(s, k, n) == [I |-> RefInc(s.I, n), T |-> fd_array_open(s.T, k, n)]
fd_array_dup(s, k, n) == [I |-> OpenInc(RefInc(s.I, n), n), T |-> fd_array_open(s.T, k, n)]

Opened(T) == {k \in Fds : T.fd[k].status = "OPENED"}

\* The loop that closes every open descriptor from the first one on: Closing[k]
\* is the state when it has come to descriptor k.
CloseFrom(s, first) ==
  LET Closing[k \in 0 .. NFd] ==
        IF k <= first THEN s
        ELSE LET t == Closing[k - 1]
             IN  IF k - 1 \in Opened(t.T) THEN fd_array_close(t, k - 1) ELSE t
  IN  Closing[NFd]

\* Standard input and output stay open over an exec.
files_closeall(s) == CloseFrom(s, 2)

files_destroy(s) ==
  LET dropped == IF s.T.pwd = None THEN s ELSE [s EXCEPT !.I = RefDec(s.I, s.T.pwd)]
  IN  [I |-> CloseFrom(dropped, 0).I, T |-> NoFiles]

\* files_create and dup_files: what the child gets, Given[k] when the loop has
\* come to descriptor k.
dup_files(I, from) ==
  LET Given[k \in 0 .. NFd] ==
        IF k = 0 THEN [I |-> IF from.pwd = None THEN I ELSE RefInc(I, from.pwd),
                       T |-> [NoFiles EXCEPT !.on = TRUE, !.pwd = from.pwd]]
        ELSE IF k - 1 \in Opened(from) THEN fd_array_dup(Given[k - 1], k - 1, from.fd[k - 1].node)
        ELSE Given[k - 1]
  IN  Given[NFd]

-----------------------------------------------------------------------------
(* System calls.  p is the current process. *)

Runs(p) == ~halted /\ reading[p] = -1 /\ state[p] \in {"user", "kern"}
User(p) == Runs(p) /\ p # Init_ /\ state[p] = "user"
Mine(p) == [I |-> ino, T |-> tab[p]]
Set(p, s) == ino' = s.I /\ tab' = [tab EXCEPT ![p] = s.T]
Keep == UNCHANGED <<state, reading, lost, halted>>

\* fd2file
Valid(p, k) == tab[p].fd[k].status = "OPENED"

\* The bounds of the model.
Bounded ==
  /\ MapThenSumSet(LAMBDA n : lost[n].ref, Nodes) <= MaxLost
  /\ Cardinality({x \in All \X Fds : Valid(x[1], x[2])}) <= MaxOpen

\* fd_array_alloc(NO_FD) takes the first free one; none is left: E_MAX_OPEN.
FreeFds(T) == {k \in Fds : T.fd[k].status = "NONE"}

\* An open that did not give back the reference it took has lost it.
NoteLost(o) ==
  lost' = IF o.err = "EXISTS" THEN [lost EXCEPT ![o.node].ref = @ + 1] ELSE lost

file_open(p, path, fl) ==
  LET o == vfs_open(ino, p, path, fl)
  IN  /\ User(p) /\ FreeFds(tab[p]) # {}
      /\ IF o.err = "ok"
         THEN Set(p, [I |-> o.I, T |-> fd_array_open(tab[p], Min(FreeFds(tab[p])), o.node)])
         ELSE Set(p, [I |-> o.I, T |-> tab[p]])
      /\ NoteLost(o)
      /\ halted' = (o.err = "panic")
      /\ UNCHANGED <<state, reading>>
      /\ Bounded'

file_close(p, k) ==
  /\ User(p) /\ Valid(p, k)
  /\ Set(p, fd_array_close(Mine(p), k))
  /\ Keep

file_dup(p, k1, k2) ==
  /\ User(p) /\ Valid(p, k1) /\ k2 \in FreeFds(tab[p])
  /\ Set(p, fd_array_dup(Mine(p), k2, tab[p].fd[k1].node))
  /\ Keep
  /\ Bounded'

\* read() of the keyboard: file_read acquires the file and sleeps in the device.
file_read_sleep(p, k) ==
  /\ User(p) /\ Valid(p, k) /\ tab[p].fd[k].node \in Devs
  /\ tab' = [tab EXCEPT ![p].fd[k].count = @ + 1]
  /\ reading' = [reading EXCEPT ![p] = k]
  /\ UNCHANGED <<ino, state, lost, halted>>

file_read_done(p) ==
  /\ ~halted /\ reading[p] # -1
  /\ Set(p, fd_array_release(Mine(p), reading[p]))
  /\ reading' = [reading EXCEPT ![p] = -1]
  /\ UNCHANGED <<state, lost, halted>>

\* The operations a kind of inode does not have; __vop_op asserts there.
Missing(n) ==
  CASE n \in Dirs -> {"read", "tryseek"}
    [] n \in Files -> {"getdirentry"}
    [] n \in Devs -> {"fsync", "getdirentry"}

\* file_read, file_seek, file_fsync or file_getdirentry of such an inode.
file_op_missing(p, k) ==
  /\ User(p) /\ Valid(p, k) /\ Missing(tab[p].fd[k].node) # {}
  /\ halted' = TRUE
  /\ UNCHANGED <<ino, tab, state, reading, lost>>

\* vfs_set_curdir with the reference vfs_chdir holds.
SetCurdir(s, n) ==
  IF n = s.T.pwd \/ n \notin Dirs THEN s
  ELSE [I |-> RefDec(RefInc(s.I, n), s.T.pwd), T |-> [s.T EXCEPT !.pwd = n]]

vfs_chdir(p, path) ==
  LET l == vfs_lookup(ino, p, path)
      s == SetCurdir([I |-> l.I, T |-> tab[p]], l.node)
  IN  /\ User(p)
      /\ Set(p, IF l.err = "ok" THEN [s EXCEPT !.I = RefDec(s.I, l.node)]
                ELSE [I |-> l.I, T |-> tab[p]])
      /\ Keep

\* sfs_namefile climbs by "..": the inode it stands on is let go after its
\* parent is loaded.  Climb[k] is the inodes and the directory after k rounds.
Climb(I, n) ==
  LET Up[k \in 0 .. Cardinality(Dirs)] ==
        IF k = 0 THEN [I |-> RefInc(I, n), at |-> n]
        ELSE LET was == Up[k - 1]
                 par == Entry[was.at][".."]
                 J == RefDec(sfs_load_inode(was.I, par), was.at)
             IN  IF was.at = None THEN was
                 ELSE IF par = was.at THEN [I |-> RefDec(J, par), at |-> None]
                 ELSE [I |-> J, at |-> par]
  IN  Up[Cardinality(Dirs)].I

vfs_getcwd(p) ==
  /\ User(p)
  /\ ino' = RefDec(Climb(RefInc(ino, tab[p].pwd), tab[p].pwd), tab[p].pwd)
  /\ UNCHANGED tab /\ Keep

-----------------------------------------------------------------------------
(* kern/process/proc.c *)

\* init_main forks the kernel thread user_main, which execs and nothing else.
do_fork(p, c) ==
  LET d == dup_files(ino, tab[p])
  IN  /\ User(p) \/ (p = Init_ /\ Runs(p))
      /\ state[c] = "none"
      /\ ino' = d.I
      /\ tab' = [tab EXCEPT ![c] = d.T]
      /\ state' = [state EXCEPT ![c] = state[p]]
      /\ UNCHANGED <<reading, lost, halted>>
      /\ Bounded'

\* put_files only where mm # NULL.
ExitFiles(s, user) == IF user THEN files_destroy(s) ELSE s

do_exit(p) ==
  /\ User(p)
  /\ Set(p, ExitFiles(Mine(p), TRUE))
  /\ state' = [state EXCEPT ![p] = "zombie"]
  /\ UNCHANGED <<reading, lost, halted>>

\* do_execve: the program's file is opened, the old memory goes, load_icode
\* closes the file again whether it succeeds or not.
Executed(s, p, path) == LET o == vfs_open(s.I, p, path, ReadOnly)
                        IN  IF FreeFds(s.T) = {} THEN Failed(s.I, "MAX_OPEN") ELSE o

do_execve(p, path) ==
  LET s == files_closeall(Mine(p))
      o == Executed(s, p, path)
  IN  /\ Runs(p) /\ p # Init_ /\ o.err = "ok" /\ o.node \in Files
      /\ Set(p, [s EXCEPT !.I = vfs_close(o.I, o.node)])
      /\ state' = [state EXCEPT ![p] = "user"]
      /\ UNCHANGED <<reading, lost, halted>>

\* The name is not found: do_exit with the old memory still there.
execve_noent(p, path) ==
  LET s == files_closeall(Mine(p))
      o == Executed(s, p, path)
  IN  /\ Runs(p) /\ p # Init_ /\ o.err \notin {"ok", "panic"}
      /\ Set(p, ExitFiles([s EXCEPT !.I = o.I], state[p] = "user"))
      /\ state' = [state EXCEPT ![p] = "zombie"]
      /\ UNCHANGED <<reading, lost, halted>>

\* load_icode fails: do_exit without memory.
execve_badelf(p, path) ==
  LET s == files_closeall(Mine(p))
      o == Executed(s, p, path)
  IN  /\ Runs(p) /\ p # Init_ /\ o.err = "ok" /\ o.node \notin Dirs
      /\ Set(p, ExitFiles([s EXCEPT !.I = vfs_close(o.I, o.node)], FALSE))
      /\ state' = [state EXCEPT ![p] = "zombie"]
      /\ UNCHANGED <<reading, lost, halted>>

\* A directory has no vop_tryseek, with which load_icode_read begins.
execve_dir(p, path) ==
  LET s == files_closeall(Mine(p))
      o == Executed(s, p, path)
  IN  /\ Runs(p) /\ p # Init_ /\ o.err = "ok" /\ o.node \in Dirs
      /\ halted' = TRUE
      /\ UNCHANGED <<ino, tab, state, reading, lost>>

\* What the table of a reaped process still holds, nobody can release.
Refs(T, n) == Cardinality({k \in Opened(T) : T.fd[k].node = n}) + (IF T.pwd = n THEN 1 ELSE 0)
Opens(T, n) == Cardinality({k \in Opened(T) : T.fd[k].node = n})

do_wait(c) ==
  /\ ~halted /\ state[c] = "zombie"
  /\ lost' = [n \in Nodes |-> [ref |-> lost[n].ref + Refs(tab[c], n),
                               open |-> lost[n].open + Opens(tab[c], n)]]
  /\ tab' = [tab EXCEPT ![c] = NoFiles]
  /\ state' = [state EXCEPT ![c] = "none"]
  /\ UNCHANGED <<ino, reading, halted>>
  /\ Bounded'

\* After vfs_set_bootfs("disk0:") in init_main: Root is the boot file system and
\* init's directory; the device list holds every device.
FilesInit ==
  /\ ino = [n \in Nodes |-> CASE n = Root -> [ref |-> 2, open |-> 0, reclaim |-> 1, mem |-> TRUE]
                              [] n \in Devs -> [ref |-> 1, open |-> 0, reclaim |-> 0, mem |-> TRUE]
                              [] OTHER -> Unloaded]
  /\ tab = [p \in All |-> IF p = Init_ THEN [NoFiles EXCEPT !.on = TRUE, !.pwd = Root] ELSE NoFiles]
  /\ state = [p \in All |-> IF p = Init_ THEN "kern" ELSE "none"]
  /\ reading = [p \in All |-> -1]
  /\ lost = [n \in Nodes |-> [ref |-> 0, open |-> 0]]
  /\ halted = FALSE

Step(p) ==
  \/ \E c \in Procs : do_fork(p, c)
  \/ do_exit(p)
  \/ \E path \in Paths : \/ do_execve(p, path) \/ execve_noent(p, path) \/ execve_badelf(p, path)
                         \/ execve_dir(p, path)
                         \/ vfs_chdir(p, path)
                         \/ \E fl \in Flags : file_open(p, path, fl)
  \/ \E k \in Fds : \/ file_close(p, k) \/ file_read_sleep(p, k) \/ file_op_missing(p, k)
                    \/ \E k2 \in Fds : file_dup(p, k, k2)
  \/ file_read_done(p)
  \/ vfs_getcwd(p)

FilesNext == (\E p \in All : Step(p)) \/ (\E c \in Procs : do_wait(c))

FilesSpec == FilesInit /\ [][FilesNext]_open_files
-----------------------------------------------------------------------------
(* Properties *)

FilesTypeOK ==
  /\ DOMAIN ino = Nodes /\ DOMAIN tab = All /\ halted \in BOOLEAN
  /\ state \in [All -> {"none", "user", "kern", "zombie"}]
  /\ reading \in [All -> Fds \cup {-1}]
  /\ \A p \in All : \A k \in Fds : tab[p].fd[k].node \in Nodes \cup {None}

\* The references the kernel itself keeps: bootfs_node and the device list.
Own(n) == IF n = Root \/ n \in Devs THEN 1 ELSE 0

\* The descriptors that name an inode, and the processes that stand in it.
Naming(n) == {x \in All \X Fds : Valid(x[1], x[2]) /\ tab[x[1]].fd[x[2]].node = n}
Standing(n) == {p \in All : tab[p].pwd = n}

\* In every state, after opens and execs that failed half way, reads that
\* sleep, forks and exits: ref_count is exactly the number of descriptors and
\* working directories that name the inode, open_count the number of
\* descriptors, an SFS inode is in memory as long as it is named and no longer,
\* and a descriptor is counted once and once more by its reader.
\* References are lost in the places NoteLost and do_wait name and nowhere else.
RefsExact ==
  /\ FilesTypeOK
  /\ ~halted =>
      \A n \in Nodes :
        /\ ino[n].ref = Own(n) + lost[n].ref + Cardinality(Naming(n)) + Cardinality(Standing(n))
        /\ ino[n].open = lost[n].open + Cardinality(Naming(n))
        /\ n \in Sfs => ino[n].mem = (ino[n].ref > 0) /\ ino[n].reclaim = (IF ino[n].mem THEN 1 ELSE 0)
  /\ \A p \in All : \A k \in Fds :
        /\ tab[p].fd[k].count = (IF Valid(p, k) THEN 1 ELSE 0) + (IF reading[p] = k THEN 1 ELSE 0)
        /\ tab[p].fd[k].status \in {"NONE", "OPENED"}
  /\ \A p \in All : state[p] \in {"user", "kern"} => tab[p].on /\ tab[p].pwd \in Dirs

\* fs.c says of files_destroy "Called when a proc exit": a process that has
\* exited has no files_struct left.
ExitDestroysFiles == \A p \in Procs : state[p] = "zombie" => ~tab[p].on

\* __vop_op asserts that the inode has the operation that is called.
VopDefined == ~halted
=============================================================================
