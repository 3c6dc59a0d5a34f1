------------------------------- MODULE VfsDev -------------------------------
(***************************************************************************)
(* The device list of kern/fs/vfs/vfsdev.c, the boot file system of vfs.c, *)
(* working directories (vfspath.c) and SFS's mount, sync and unmount       *)
(* (kern/fs/sfs/sfs_fs.c).                                                 *)
(*                                                                         *)
(* The list is only touched under vdev_list_sem and the disk does not      *)
(* sleep, so every call is one action.  A request to a disk may fail, and  *)
(* so may every kmalloc.  Of a file system there is its root directory,    *)
(* its superblock and its freemap; SfsFile has the rest.  vfs_add_fs has   *)
(* no caller and no file system it could be given.                         *)
(***************************************************************************)
EXTENDS Naturals, FiniteSets

CONSTANTS
  Disks,   \* the devices added as mountable
  Chars,   \* the others: stdin, stdout
  Procs    \* the processes

None == "none"

DevAssumption ==
  /\ Disks \cap Chars = {} /\ None \notin Disks
  /\ IsFiniteSet(Procs)   \* at most MAX_PROCESS

VARIABLES
  vdev_list,    \* the devices that have been added
  mounted,      \* the disks with vdev->fs # NULL
  mem,          \* the storage of each disk's file system and vfs_dev_t
  root,         \* ref_count of each root directory; 0: not in inode_list
  super_dirty,  \* of each disk's file system
  behind,       \* the parts of each disk that differ from those in memory
  pwd,          \* the disk of each process' working directory, or None
  bootfs        \* the disk of bootfs_node, or None

vars == <<vdev_list, mounted, mem, root, super_dirty, behind, pwd, bootfs>>

Parts == {"super", "freemap"}

\* What sfs_do_mount allocates and reads, in this order.
Steps == <<"fs", "sfs_buffer", "super", "hash_list", "freemap", "freemap_data">>
Allocated == {"fs", "sfs_buffer", "hash_list", "freemap"}

Init ==
  /\ vdev_list = {} /\ mounted = {}
  /\ mem = [d \in Disks |-> {}]
  /\ root = [d \in Disks |-> 0]
  /\ super_dirty = [d \in Disks |-> FALSE]
  /\ behind = [d \in Disks |-> {}]
  /\ pwd = [p \in Procs |-> None]
  /\ bootfs = None

-----------------------------------------------------------------------------
(* The device list *)

\* vfs_do_add: a name that is taken, or no memory for the entry, adds nothing.
vfs_add_dev(d) ==
  /\ d \notin vdev_list
  /\ vdev_list' = vdev_list \cup {d}
  /\ UNCHANGED <<mounted, mem, root, super_dirty, behind, pwd, bootfs>>

\* find_mount
Mountable(d) == d \in vdev_list \cap Disks

\* The labels at the end of sfs_do_mount: what is freed when step k fails.
Freed_keeps_hash(k) ==
  CASE Steps[k] = "fs" -> {}
    [] Steps[k] = "sfs_buffer" -> {"fs"}
    [] Steps[k] \in {"super", "hash_list"} -> {"sfs_buffer", "fs"}
    [] Steps[k] = "freemap" -> {"sfs_buffer", "fs"}
    [] Steps[k] = "freemap_data" -> {"freemap", "hash_list", "sfs_buffer", "fs"}
Freed(k) ==
  CASE Steps[k] = "fs" -> {}
    [] Steps[k] = "sfs_buffer" -> {"fs"}
    [] Steps[k] \in {"super", "hash_list"} -> {"sfs_buffer", "fs"}
    [] Steps[k] = "freemap" -> {"hash_list", "sfs_buffer", "fs"}
    [] Steps[k] = "freemap_data" -> {"freemap", "hash_list", "sfs_buffer", "fs"}

sfs_mount(d) ==
  /\ Mountable(d) /\ d \notin mounted
  /\ mounted' = mounted \cup {d}
  /\ mem' = [mem EXCEPT ![d] = @ \cup Allocated]
  /\ super_dirty' = [super_dirty EXCEPT ![d] = FALSE]
  /\ UNCHANGED <<vdev_list, root, behind, pwd, bootfs>>

\* Step k fails: no memory, a read error, a bad superblock.
sfs_mount_fails(d, k) ==
  /\ Mountable(d) /\ d \notin mounted
  /\ mem' = [mem EXCEPT ![d] = (@ \cup ({Steps[i] : i \in 1 .. (k - 1)} \cap Allocated)) \ Freed(k)]
  /\ UNCHANGED <<vdev_list, mounted, root, super_dirty, behind, pwd, bootfs>>

-----------------------------------------------------------------------------
(* sfs_sync.  io is the first request that fails, or "ok". *)

Outcomes == Parts \cup {"ok"}

Written(io) == CASE io = "super" -> {} [] io = "freemap" -> {"super"} [] io = "ok" -> Parts

SyncedDirty(d, io) == super_dirty[d] /\ io # "ok"
SyncedBehind(d, io) == IF super_dirty[d] THEN behind[d] \ Written(io) ELSE behind[d]
SyncOk(d, io) == ~super_dirty[d] \/ io = "ok"

\* sfs_unmount: nobody may have an inode of it.
Busy(d) == root[d] > 0

\* The disks of D are synced with the outcomes io; those of U are unmounted.
Unmount(D, U, io) ==
  /\ super_dirty' = [d \in Disks |-> IF d \in D THEN SyncedDirty(d, io[d]) ELSE super_dirty[d]]
  /\ behind' = [d \in Disks |-> IF d \in D THEN SyncedBehind(d, io[d]) ELSE behind[d]]
  /\ mounted' = mounted \ U
  /\ mem' = [d \in Disks |-> IF d \in U THEN mem[d] \ Allocated ELSE mem[d]]
  /\ UNCHANGED <<vdev_list, root, pwd, bootfs>>

Leaves(D, io) == {d \in D : SyncOk(d, io[d]) /\ ~Busy(d)}

vfs_unmount(d, io) ==
  /\ Mountable(d) /\ d \in mounted
  /\ Unmount({d}, Leaves({d}, io), io)

\* One that fails does not stop the others.
vfs_unmount_all(io) ==
  /\ mounted # {}
  /\ Unmount(mounted, Leaves(mounted, io), io)

\* fs_cleanup: sfs_cleanup tries 32 times; io is how the last try ends.
vfs_cleanup(io) ==
  /\ mounted # {}
  /\ Unmount(mounted, {}, io)

-----------------------------------------------------------------------------
(* References to the root directories.  R is root. *)

Inc(R, d) == IF d = None THEN R ELSE [R EXCEPT ![d] = @ + 1]
Dec(R, d) == IF d = None THEN R ELSE [R EXCEPT ![d] = @ - 1]

\* vfs_get_root of "d:": only a mounted disk has a directory to stand in.
HasRoot(d) == d \in mounted

\* vfs_set_curdir with the reference the look-up has taken, then vop_ref_dec.
Chdir(R, p, d) ==
  LET found == Inc(R, d)
  IN  Dec(IF pwd[p] = d THEN found ELSE Dec(Inc(found, d), pwd[p]), d)

vfs_chdir(p, d) ==
  /\ HasRoot(d)
  /\ root' = Chdir(root, p, d)
  /\ pwd' = [pwd EXCEPT ![p] = d]
  /\ UNCHANGED <<vdev_list, mounted, mem, super_dirty, behind, bootfs>>

\* The caller's directory moves along; bootfs_node has a reference of its own.
vfs_set_bootfs(p, d) ==
  /\ HasRoot(d)
  /\ root' = Dec(Inc(Chdir(root, p, d), d), bootfs)
  /\ pwd' = [pwd EXCEPT ![p] = d]
  /\ bootfs' = d
  /\ UNCHANGED <<vdev_list, mounted, mem, super_dirty, behind>>

\* vfs_set_bootfs(NULL)
no_bootfs ==
  /\ bootfs # None
  /\ root' = Dec(root, bootfs)
  /\ bootfs' = None
  /\ UNCHANGED <<vdev_list, mounted, mem, super_dirty, behind, pwd>>

\* files_destroy of a process that ends; its successor has no directory yet.
files_destroy(p) ==
  /\ pwd[p] # None
  /\ root' = Dec(root, pwd[p])
  /\ pwd' = [pwd EXCEPT ![p] = None]
  /\ UNCHANGED <<vdev_list, mounted, mem, super_dirty, behind, bootfs>>

\* sfs_block_alloc or sfs_block_free, by a process that has got to a file.
sfs_block_change(p) ==
  /\ pwd[p] # None
  /\ super_dirty' = [super_dirty EXCEPT ![pwd[p]] = TRUE]
  /\ behind' = [behind EXCEPT ![pwd[p]] = Parts]
  /\ UNCHANGED <<vdev_list, mounted, mem, root, pwd, bootfs>>

Next ==
  \/ \E d \in Disks \cup Chars : vfs_add_dev(d)
  \/ \E d \in Disks : sfs_mount(d) \/ \E k \in 1 .. 6 : sfs_mount_fails(d, k)
  \/ \E io \in [Disks -> Outcomes] :
        \/ \E d \in Disks : vfs_unmount(d, io)
        \/ vfs_unmount_all(io) \/ vfs_cleanup(io)
  \/ \E p \in Procs :
        \/ \E d \in Disks : vfs_chdir(p, d) \/ vfs_set_bootfs(p, d)
        \/ files_destroy(p) \/ sfs_block_change(p)
  \/ no_bootfs

Spec == Init /\ [][Next]_vars
-----------------------------------------------------------------------------
(* Properties *)

TypeOK ==
  /\ vdev_list \subseteq Disks \cup Chars /\ mounted \subseteq Disks
  /\ mem \in [Disks -> SUBSET Allocated]
  /\ root \in [Disks -> Nat]
  /\ super_dirty \in [Disks -> BOOLEAN]
  /\ behind \in [Disks -> SUBSET Parts]
  /\ pwd \in [Procs -> Disks \cup {None}] /\ bootfs \in Disks \cup {None}

Named(d) == Cardinality({p \in Procs : pwd[p] = d}) + (IF bootfs = d THEN 1 ELSE 0)

\* However mounts fail half way, disks refuse writes and processes stand in
\* the file systems: a file system has its storage exactly while it is
\* mounted, its root is in memory exactly while somebody names it, and nobody
\* names the root of one that is not mounted; a disk that is not mounted has
\* a superblock and a freemap that fit each other, as the next sfs_do_mount
\* asserts, and one that is not dirty has nothing left to write, as
\* sfs_unmount asserts.
MountExact ==
  /\ TypeOK
  /\ \A d \in Disks :
       /\ mem[d] = (IF d \in mounted THEN Allocated ELSE {})
       /\ root[d] = Named(d)
       /\ d \notin mounted => root[d] = 0 /\ behind[d] = {}
       /\ ~super_dirty[d] => behind[d] = {}
=============================================================================
