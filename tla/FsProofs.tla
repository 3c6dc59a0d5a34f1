------------------------------ MODULE FsProofs ------------------------------
(***************************************************************************)
(* MountExact of VfsDev for any disks, devices and processes: it is        *)
(* inductive as it stands.                                                 *)
(*                                                                         *)
(* BlocksExact of SfsFile for any files, descriptors, blocks and sizes.    *)
(* The operators on blocks are followed on the view of one file, beside    *)
(* the blocks of the others: Fits says that its places, the free map and   *)
(* the other files share the disk, and Kept is the set of views that an    *)
(* operator may make of a view.  SfsInv says the same of all files at once *)
(* and that the inode on disk of a file that is not dirty names the same   *)
(* blocks, which the last close of the file needs.                         *)
(***************************************************************************)
EXTENDS VfsDev, SfsFile, QueueLemmas, FiniteSetTheorems

One(b) == IF b THEN 1 ELSE 0

-----------------------------------------------------------------------------
(* Counting *)

\* The working directories among a set of processes that moves by one.
Standing(f, d) == {p \in Procs : f[p] = d}

LEMMA StandingFinite ==
  ASSUME IsFiniteSet(Procs), NEW f, NEW d
  PROVE  IsFiniteSet(Standing(f, d)) /\ Cardinality(Standing(f, d)) \in Nat
<1>1. Standing(f, d) \subseteq Procs
  BY DEF Standing
<1>2. IsFiniteSet(Standing(f, d))
  BY <1>1, FS_Subset
<1> QED BY <1>2, FS_CardinalityType

MovesBy(f, p, e, d) ==
  Cardinality(Standing([f EXCEPT ![p] = e], d))
    = Cardinality(Standing(f, d)) + One(d = e) - One(d = f[p])

LEMMA StandingMoves ==
  ASSUME IsFiniteSet(Procs), NEW V, NEW f \in [Procs -> V], NEW p \in Procs, NEW e \in V, NEW d
  PROVE  MovesBy(f, p, e, d)
<1> DEFINE A == Standing(f, d)
           B == Standing([f EXCEPT ![p] = e], d)
<1>1. IsFiniteSet(A) /\ IsFiniteSet(B) /\ Cardinality(A) \in Nat /\ Cardinality(B) \in Nat
  BY StandingFinite
<1>2. \A q : q \in B <=> q \in Procs /\ (IF q = p THEN e ELSE f[q]) = d
  BY DEF Standing
<1>3. \A q : q \in A <=> q \in Procs /\ f[q] = d
  BY DEF Standing
<1> HIDE DEF A, B
<1>4. CASE (d = e) = (d = f[p])
  <2>1. A = B
    BY <1>2, <1>3, <1>4
  <2> QED BY <1>1, <1>4, <2>1 DEF A, B, One, MovesBy
<1>5. CASE d = e /\ d # f[p]
  <2>1. B = A \cup {p} /\ p \notin A
    BY <1>2, <1>3, <1>5
  <2>2. Cardinality(B) = Cardinality(A) + 1
    BY <1>1, <2>1, FS_AddElement
  <2> QED BY <1>1, <1>5, <2>2 DEF A, B, One, MovesBy
<1>6. CASE d # e /\ d = f[p]
  <2>1. B = A \ {p} /\ p \in A
    BY <1>2, <1>3, <1>6
  <2>2. Cardinality(B) = Cardinality(A) - 1
    BY <1>1, <2>1, FS_RemoveElement
  <2> QED BY <1>1, <1>6, <2>2 DEF A, B, One, MovesBy
<1> QED BY <1>4, <1>5, <1>6

\* Whoever stands in a directory is counted there.
LEMMA StandingThere ==
  ASSUME IsFiniteSet(Procs), NEW f, NEW p \in Procs
  PROVE  Cardinality(Standing(f, f[p])) > 0
<1>1. p \in Standing(f, f[p])
  BY DEF Standing
<1> QED BY <1>1, StandingFinite, FS_EmptySet
-----------------------------------------------------------------------------
(* References *)

\* R2 is R with k more for disk d.
MovedOn(R, R2, d, k) ==
  /\ R2 \in [Disks -> Int]
  /\ \A x \in Disks : R2[x] = R[x] + (IF x = d THEN k ELSE 0)

LEMMA IncMoves ==
  ASSUME None \notin Disks, NEW R \in [Disks -> Int], NEW d \in Disks \cup {None}
  PROVE  MovedOn(R, Inc(R, d), d, 1)
BY DEF MovedOn, Inc

LEMMA DecMoves ==
  ASSUME None \notin Disks, NEW R \in [Disks -> Int], NEW d \in Disks \cup {None}
  PROVE  MovedOn(R, Dec(R, d), d, -1)
BY DEF MovedOn, Dec

\* The look-up's reference and that of the directory it leaves.
LEMMA ChdirMoves ==
  ASSUME None \notin Disks, NEW R \in [Disks -> Int], NEW p \in Procs, NEW d \in Disks,
         pwd[p] \in Disks \cup {None}
  PROVE  /\ Chdir(R, p, d) \in [Disks -> Int]
         /\ \A x \in Disks : Chdir(R, p, d)[x] = R[x] + One(x = d) - One(x = pwd[p])
<1> DEFINE found == Inc(R, d)
           more  == Inc(found, d)
           less  == Dec(more, pwd[p])
           kept  == IF pwd[p] = d THEN found ELSE less
           last  == Dec(kept, d)
<1>1. MovedOn(R, found, d, 1)
  BY IncMoves
<1>2. found \in [Disks -> Int]
  BY <1>1 DEF MovedOn
<1> HIDE DEF found
<1>3. MovedOn(found, more, d, 1)
  BY <1>2, IncMoves
<1>4. more \in [Disks -> Int]
  BY <1>3 DEF MovedOn
<1> HIDE DEF more
<1>5. MovedOn(more, less, pwd[p], -1)
  BY <1>4, DecMoves
<1>6. less \in [Disks -> Int]
  BY <1>5 DEF MovedOn
<1> HIDE DEF less
<1>7. kept \in [Disks -> Int]
  BY <1>2, <1>6
<1>8. MovedOn(kept, last, d, -1)
  BY <1>7, DecMoves
<1>9. Chdir(R, p, d) = last
  BY DEF Chdir, found, more, less
<1> HIDE DEF last
<1>10. last \in [Disks -> Int]
  BY <1>8 DEF MovedOn
<1>11. ASSUME NEW x \in Disks PROVE last[x] = R[x] + One(x = d) - One(x = pwd[p])
  <2>1. /\ R[x] \in Int /\ found[x] = R[x] + (IF x = d THEN 1 ELSE 0)
        /\ more[x] = found[x] + (IF x = d THEN 1 ELSE 0)
        /\ less[x] = more[x] + (IF x = pwd[p] THEN -1 ELSE 0)
        /\ last[x] = kept[x] + (IF x = d THEN -1 ELSE 0)
    BY <1>1, <1>3, <1>5, <1>8 DEF MovedOn
  <2>2. CASE pwd[p] = d
    BY <2>1, <2>2 DEF One
  <2>3. CASE pwd[p] # d
    BY <2>1, <2>3 DEF One
  <2> QED BY <2>2, <2>3
<1> QED BY <1>9, <1>10, <1>11
-----------------------------------------------------------------------------
(* MountExact in parts: each action disturbs one or two of them. *)

StorageExact == \A d \in Disks : mem[d] = (IF d \in mounted THEN Allocated ELSE {})
CountsExact == \A d \in Disks : root[d] = Cardinality(Standing(pwd, d)) + One(bootfs = d)
UnmountedClean == \A d \in Disks : d \notin mounted => root[d] = 0 /\ behind[d] = {}
CleanWritten == \A d \in Disks : ~super_dirty[d] => behind[d] = {}

LEMMA InParts == MountExact <=> TypeOK /\ StorageExact /\ CountsExact /\ UnmountedClean /\ CleanWritten
<1>1. \A d : Named(d) = Cardinality(Standing(pwd, d)) + One(bootfs = d)
  BY DEF Named, Standing, One
<1> QED BY <1>1 DEF MountExact, StorageExact, CountsExact, UnmountedClean, CleanWritten

LEMMA InPartsNext ==
  ASSUME TypeOK', StorageExact', CountsExact', UnmountedClean', CleanWritten'
  PROVE  MountExact'
<1>1. \A d : Named(d)' = Cardinality(Standing(pwd', d)) + One(bootfs' = d)
  BY DEF Named, Standing, One
<1> QED BY <1>1 DEF MountExact, StorageExact, CountsExact, UnmountedClean, CleanWritten, Standing, One

\* Where a process stands or the boot file system is, the disk is mounted.
LEMMA NamedMounted ==
  ASSUME DevAssumption, MountExact
  PROVE  /\ \A p \in Procs : pwd[p] \in Disks => pwd[p] \in mounted /\ root[pwd[p]] > 0
         /\ bootfs \in Disks => bootfs \in mounted /\ root[bootfs] > 0
<1>1. TypeOK /\ CountsExact /\ UnmountedClean
  BY InParts
<1>2. \A d : Cardinality(Standing(pwd, d)) \in Nat
  BY StandingFinite DEF DevAssumption
<1>3. ASSUME NEW p \in Procs, pwd[p] \in Disks PROVE pwd[p] \in mounted /\ root[pwd[p]] > 0
  <2>1. Cardinality(Standing(pwd, pwd[p])) > 0
    BY StandingThere DEF DevAssumption
  <2> QED BY <1>1, <1>2, <1>3, <2>1 DEF CountsExact, UnmountedClean, One
<1>4. ASSUME bootfs \in Disks PROVE bootfs \in mounted /\ root[bootfs] > 0
  BY <1>1, <1>2, <1>4 DEF CountsExact, UnmountedClean, One
<1> QED BY <1>3, <1>4

LEMMA MountInitStep == DevAssumption /\ Init => MountExact
<1> SUFFICES ASSUME DevAssumption, Init PROVE MountExact
  OBVIOUS
<1>1. TypeOK /\ StorageExact /\ UnmountedClean /\ CleanWritten
  BY DEF Init, TypeOK, StorageExact, UnmountedClean, CleanWritten
<1>2. CountsExact
  <2> SUFFICES ASSUME NEW d \in Disks
               PROVE  root[d] = Cardinality(Standing(pwd, d)) + One(bootfs = d)
    BY DEF CountsExact
  <2>1. Standing(pwd, d) = {} /\ bootfs # d /\ root[d] = 0
    BY DEF Init, Standing, DevAssumption
  <2> QED BY <2>1, FS_EmptySet DEF One
<1> QED BY <1>1, <1>2, InParts

\* A mount that fails at step k has freed what the steps before allocated.
LEMMA FreedAll ==
  ASSUME NEW k \in 1 .. 6
  PROVE  ({Steps[i] : i \in 1 .. (k - 1)} \cap Allocated) \ Freed(k) = {}
<1> DEFINE A == {Steps[i] : i \in 1 .. (k - 1)}
<1>1. CASE k = 1
  BY <1>1
<1>2. CASE k = 2
  BY <1>2 DEF Steps, Freed
<1>3. CASE k = 3
  BY <1>3 DEF Steps, Freed
<1>4. CASE k = 4
  BY <1>4 DEF Steps, Freed, Allocated
<1>5. CASE k = 5
  BY <1>5 DEF Steps, Freed, Allocated
<1>6. CASE k = 6
  BY <1>6 DEF Steps, Freed, Allocated
<1> QED BY <1>1, <1>2, <1>3, <1>4, <1>5, <1>6

LEMMA MountStep ==
  ASSUME DevAssumption, MountExact, NEW d \in Disks,
         sfs_mount(d) \/ \E k \in 1 .. 6 : sfs_mount_fails(d, k)
  PROVE  MountExact'
<1>0. TypeOK /\ StorageExact /\ CountsExact /\ UnmountedClean /\ CleanWritten
  BY InParts
<1>1. CASE sfs_mount(d)
  <2>1. TypeOK' /\ StorageExact' /\ UnmountedClean' /\ CleanWritten'
    BY <1>0, <1>1 DEF sfs_mount, TypeOK, StorageExact, UnmountedClean, CleanWritten
  <2>2. CountsExact'
    BY <1>0, <1>1 DEF sfs_mount, CountsExact, Standing, One
  <2> QED BY <2>1, <2>2, InPartsNext
<1>2. ASSUME NEW k \in 1 .. 6, sfs_mount_fails(d, k) PROVE MountExact'
  <2>1. mem[d] = {}
    BY <1>0, <1>2 DEF sfs_mount_fails, StorageExact
  <2>2. mem' = mem
    <3>1. ((mem[d] \cup ({Steps[i] : i \in 1 .. (k - 1)} \cap Allocated)) \ Freed(k)) = {}
      BY <2>1, FreedAll
    <3> QED BY <1>0, <1>2, <2>1, <3>1 DEF sfs_mount_fails, TypeOK
  <2>3. UNCHANGED <<vdev_list, mounted, root, super_dirty, behind, pwd, bootfs>>
    BY <1>2 DEF sfs_mount_fails
  <2>4. TypeOK' /\ StorageExact' /\ UnmountedClean' /\ CleanWritten'
    BY <1>0, <2>2, <2>3 DEF TypeOK, StorageExact, UnmountedClean, CleanWritten
  <2>5. CountsExact'
    BY <1>0, <2>3 DEF CountsExact, Standing, One
  <2> QED BY <2>4, <2>5, InPartsNext
<1> QED BY <1>1, <1>2

\* The disks of D synced, those of them that nobody is on and that all of the
\* writes reached unmounted.
LEMMA UnmountStep ==
  ASSUME DevAssumption, MountExact, NEW D \in SUBSET Disks, NEW U \in SUBSET Disks,
         NEW io \in [Disks -> Outcomes], U \subseteq Leaves(D, io), Unmount(D, U, io)
  PROVE  MountExact'
<1>0. TypeOK /\ StorageExact /\ CountsExact /\ UnmountedClean /\ CleanWritten
  BY InParts
<1>1. /\ super_dirty' \in [Disks -> BOOLEAN] /\ behind' \in [Disks -> SUBSET Parts]
      /\ \A d \in Disks : super_dirty'[d] = (IF d \in D THEN SyncedDirty(d, io[d]) ELSE super_dirty[d])
      /\ \A d \in Disks : behind'[d] = (IF d \in D THEN SyncedBehind(d, io[d]) ELSE behind[d])
  BY <1>0 DEF Unmount, TypeOK, SyncedDirty, SyncedBehind
<1>2. /\ mounted' = mounted \ U /\ UNCHANGED <<vdev_list, root, pwd, bootfs>>
      /\ mem' = [d \in Disks |-> IF d \in U THEN mem[d] \ Allocated ELSE mem[d]]
  BY DEF Unmount
<1>3. \A d \in Disks : super_dirty[d] /\ io[d] = "ok" => SyncedBehind(d, io[d]) = {}
  BY <1>0 DEF SyncedBehind, Written, TypeOK
<1>4. TypeOK'
  BY <1>0, <1>1, <1>2 DEF TypeOK
<1>5. StorageExact'
  BY <1>0, <1>2 DEF StorageExact
<1>6. CleanWritten'
  <2> SUFFICES ASSUME NEW d \in Disks, ~super_dirty'[d] PROVE behind'[d] = {}
    BY DEF CleanWritten
  <2>1. ~super_dirty[d] => behind[d] = {}
    BY <1>0 DEF CleanWritten
  <2>2. CASE d \in D
    BY <1>1, <1>3, <2>1, <2>2 DEF SyncedDirty, SyncedBehind
  <2>3. CASE d \notin D
    BY <1>1, <2>1, <2>3
  <2> QED BY <2>2, <2>3
<1>7. UnmountedClean'
  <2> SUFFICES ASSUME NEW d \in Disks, d \notin mounted' PROVE root'[d] = 0 /\ behind'[d] = {}
    BY DEF UnmountedClean
  <2>1. CASE d \in mounted
    <3>1. d \in D /\ SyncOk(d, io[d]) /\ ~Busy(d)
      BY <1>2, <2>1 DEF Leaves
    <3>2. root'[d] = 0
      BY <1>0, <1>2, <3>1 DEF Busy, TypeOK
    <3>3. behind'[d] = {}
      BY <1>0, <1>1, <1>3, <3>1 DEF SyncOk, SyncedBehind, CleanWritten
    <3> QED BY <3>2, <3>3
  <2>2. CASE d \notin mounted
    BY <1>0, <1>1, <1>2, <2>2 DEF UnmountedClean, SyncedBehind
  <2> QED BY <2>1, <2>2
<1>8. CountsExact'
  BY <1>0, <1>2 DEF CountsExact, Standing, One
<1> QED BY <1>4, <1>5, <1>6, <1>7, <1>8, InPartsNext

\* A working directory moves: the counts follow.
Where(p, e, b) ==
  /\ e \in mounted \cup {None} /\ b \in mounted \cup {None}
  /\ pwd' = [pwd EXCEPT ![p] = e] /\ bootfs' = b
  /\ root' \in [Disks -> Int]
  /\ \A x \in Disks : root'[x] = root[x] + One(x = e) - One(x = pwd[p]) + One(x = b) - One(x = bootfs)
  /\ UNCHANGED <<vdev_list, mounted, mem, super_dirty, behind>>

LEMMA WhereStep ==
  ASSUME DevAssumption, MountExact, NEW p \in Procs, NEW e, NEW b, Where(p, e, b)
  PROVE  MountExact'
<1>0. TypeOK /\ StorageExact /\ CountsExact /\ UnmountedClean /\ CleanWritten
  BY InParts
<1>1. /\ e \in Disks \cup {None} /\ b \in Disks \cup {None} /\ root' \in [Disks -> Int]
      /\ pwd' = [pwd EXCEPT ![p] = e] /\ pwd' \in [Procs -> Disks \cup {None}] /\ bootfs' = b
      /\ UNCHANGED <<vdev_list, mounted, mem, super_dirty, behind>>
  BY <1>0 DEF Where, TypeOK
<1>2. ASSUME NEW x \in Disks
      PROVE  root'[x] = Cardinality(Standing(pwd', x)) + One(bootfs' = x) /\ root'[x] \in Nat
  <2>1. MovesBy(pwd, p, e, x)
    BY <1>0, <1>1, StandingMoves DEF TypeOK, DevAssumption
  <2>2. Cardinality(Standing(pwd', x)) = Cardinality(Standing(pwd, x)) + One(x = e) - One(x = pwd[p])
    BY <1>1, <2>1 DEF MovesBy
  <2>3. root[x] = Cardinality(Standing(pwd, x)) + One(bootfs = x) /\ Cardinality(Standing(pwd, x)) \in Nat
    BY <1>0, StandingFinite DEF CountsExact, DevAssumption
  <2>4. root'[x] = root[x] + One(x = e) - One(x = pwd[p]) + One(x = b) - One(x = bootfs)
    BY DEF Where
  <2>5. Cardinality(Standing(pwd', x)) \in Nat
    BY StandingFinite DEF DevAssumption
  <2>6. root'[x] = Cardinality(Standing(pwd', x)) + One(bootfs' = x)
    BY <1>1, <2>2, <2>3, <2>4 DEF One
  <2>7. One(bootfs' = x) \in Nat
    BY DEF One
  <2> QED BY <2>5, <2>6, <2>7
<1>3. CountsExact'
  BY <1>2 DEF CountsExact, Standing, One
<1>4. TypeOK'
  <2>1. root' \in [Disks -> Nat]
    BY <1>1, <1>2
  <2> QED BY <1>0, <1>1, <2>1 DEF TypeOK
<1>5. StorageExact' /\ CleanWritten'
  BY <1>0, <1>1 DEF StorageExact, CleanWritten
<1>6. UnmountedClean'
  <2> SUFFICES ASSUME NEW x \in Disks, x \notin mounted PROVE root'[x] = 0 /\ behind'[x] = {}
    BY <1>1 DEF UnmountedClean
  <2>1. x # e /\ x # b
    BY DEF Where, DevAssumption
  <2>2. x # pwd[p] /\ x # bootfs
    BY NamedMounted
  <2>3. root[x] = 0 /\ behind[x] = {}
    BY <1>0 DEF UnmountedClean
  <2>4. root'[x] = root[x] + One(x = e) - One(x = pwd[p]) + One(x = b) - One(x = bootfs)
    BY DEF Where
  <2> QED BY <1>1, <2>1, <2>2, <2>3, <2>4 DEF One
<1> QED BY <1>3, <1>4, <1>5, <1>6, InPartsNext

LEMMA MountNextStep == DevAssumption /\ MountExact /\ [Next]_vars => MountExact'
<1> SUFFICES ASSUME DevAssumption, MountExact, [Next]_vars PROVE MountExact'
  OBVIOUS
<1>0. TypeOK /\ StorageExact /\ CountsExact /\ UnmountedClean /\ CleanWritten
  BY InParts
<1>r. root \in [Disks -> Int] /\ bootfs \in Disks \cup {None} /\ None \notin Disks
      /\ \A p \in Procs : pwd[p] \in Disks \cup {None}
  BY <1>0 DEF TypeOK, DevAssumption
<1>n. /\ \A p \in Procs : pwd[p] \in Disks => pwd[p] \in mounted
      /\ bootfs \in Disks => bootfs \in mounted
  BY NamedMounted
<1>1. ASSUME NEW d \in Disks \cup Chars, vfs_add_dev(d) PROVE MountExact'
  <2>1. TypeOK' /\ StorageExact' /\ UnmountedClean' /\ CleanWritten'
    BY <1>0, <1>1 DEF vfs_add_dev, TypeOK, StorageExact, UnmountedClean, CleanWritten
  <2>2. CountsExact'
    BY <1>0, <1>1 DEF vfs_add_dev, CountsExact, Standing, One
  <2> QED BY <2>1, <2>2, InPartsNext
<1>2. ASSUME NEW io \in [Disks -> Outcomes], NEW d \in Disks, vfs_unmount(d, io) PROVE MountExact'
  <2>1. Unmount({d}, Leaves({d}, io), io) /\ {d} \in SUBSET Disks /\ Leaves({d}, io) \in SUBSET Disks
    BY <1>2 DEF vfs_unmount, Leaves
  <2> QED BY <2>1, UnmountStep
<1>3. ASSUME NEW io \in [Disks -> Outcomes], vfs_unmount_all(io) PROVE MountExact'
  <2>1. Unmount(mounted, Leaves(mounted, io), io) /\ mounted \in SUBSET Disks /\ Leaves(mounted, io) \in SUBSET Disks
    BY <1>0, <1>3 DEF vfs_unmount_all, Leaves, TypeOK
  <2> QED BY <2>1, UnmountStep
<1>4. ASSUME NEW io \in [Disks -> Outcomes], vfs_cleanup(io) PROVE MountExact'
  <2>1. Unmount(mounted, {}, io) /\ mounted \in SUBSET Disks
    BY <1>0, <1>4 DEF vfs_cleanup, TypeOK
  <2> QED BY <2>1, UnmountStep
<1>5. ASSUME NEW p \in Procs, NEW d \in Disks, vfs_chdir(p, d) PROVE MountExact'
  <2>1. /\ d \in mounted /\ root' = Chdir(root, p, d) /\ pwd' = [pwd EXCEPT ![p] = d]
        /\ UNCHANGED <<vdev_list, mounted, mem, super_dirty, behind>> /\ bootfs' = bootfs
    BY <1>5 DEF vfs_chdir, HasRoot
  <2>2. root' \in [Disks -> Int] /\ \A x \in Disks : root'[x] = root[x] + One(x = d) - One(x = pwd[p])
    BY <1>r, <2>1, ChdirMoves
  <2>3. \A x \in Disks : root'[x] = root[x] + One(x = d) - One(x = pwd[p]) + One(x = bootfs) - One(x = bootfs)
    BY <1>r, <2>2 DEF One
  <2>4. Where(p, d, bootfs)
    BY <1>r, <1>n, <2>1, <2>2, <2>3 DEF Where
  <2> QED BY <2>4, WhereStep
<1>6. ASSUME NEW p \in Procs, NEW d \in Disks, vfs_set_bootfs(p, d) PROVE MountExact'
  <2> DEFINE C == Chdir(root, p, d)
             E == Inc(C, d)
  <2>1. /\ d \in mounted /\ root' = Dec(E, bootfs) /\ pwd' = [pwd EXCEPT ![p] = d]
        /\ UNCHANGED <<vdev_list, mounted, mem, super_dirty, behind>> /\ bootfs' = d
    BY <1>6 DEF vfs_set_bootfs, HasRoot
  <2>2. C \in [Disks -> Int] /\ \A x \in Disks : C[x] = root[x] + One(x = d) - One(x = pwd[p])
    BY <1>r, ChdirMoves
  <2> HIDE DEF C
  <2>3. E \in [Disks -> Int] /\ \A x \in Disks : E[x] = C[x] + (IF x = d THEN 1 ELSE 0)
    BY <1>r, <2>2, IncMoves DEF MovedOn
  <2> HIDE DEF E
  <2>4. root' \in [Disks -> Int] /\ \A x \in Disks : root'[x] = E[x] + (IF x = bootfs THEN -1 ELSE 0)
    BY <1>r, <2>1, <2>3, DecMoves DEF MovedOn
  <2>5. \A x \in Disks : root'[x] = root[x] + One(x = d) - One(x = pwd[p]) + One(x = d) - One(x = bootfs)
    BY <1>r, <2>2, <2>3, <2>4 DEF One
  <2>6. Where(p, d, d)
    BY <2>1, <2>4, <2>5 DEF Where
  <2> QED BY <2>6, WhereStep
<1>7. ASSUME NEW p \in Procs, files_destroy(p) PROVE MountExact'
  <2>1. /\ root' = Dec(root, pwd[p]) /\ pwd' = [pwd EXCEPT ![p] = None] /\ None \in Disks \cup {None}
        /\ UNCHANGED <<vdev_list, mounted, mem, super_dirty, behind>> /\ bootfs' = bootfs
    BY <1>7 DEF files_destroy
  <2>2. root' \in [Disks -> Int] /\ \A x \in Disks : root'[x] = root[x] + (IF x = pwd[p] THEN -1 ELSE 0)
    BY <1>r, <2>1, DecMoves DEF MovedOn
  <2>3. \A x \in Disks : root'[x] = root[x] + One(x = None) - One(x = pwd[p]) + One(x = bootfs) - One(x = bootfs)
    BY <1>r, <2>2 DEF One
  <2>4. Where(p, None, bootfs)
    BY <1>r, <1>n, <2>1, <2>2, <2>3 DEF Where
  <2> QED BY <2>4, WhereStep
<1>8. ASSUME no_bootfs PROVE MountExact'
  <2>1. /\ bootfs \in Disks /\ root' = Dec(root, bootfs) /\ bootfs' = None
        /\ UNCHANGED <<vdev_list, mounted, mem, super_dirty, behind, pwd>>
    BY <1>8, <1>r DEF no_bootfs
  <2>2. root' \in [Disks -> Int] /\ \A x \in Disks : root'[x] = root[x] + (IF x = bootfs THEN -1 ELSE 0)
    BY <1>r, <2>1, DecMoves DEF MovedOn
  <2>3. ASSUME NEW x \in Disks
        PROVE  root'[x] = Cardinality(Standing(pwd, x)) + One(bootfs' = x) /\ root'[x] \in Nat
    <3>1. root[x] = Cardinality(Standing(pwd, x)) + One(bootfs = x) /\ Cardinality(Standing(pwd, x)) \in Nat
      BY <1>0, StandingFinite DEF CountsExact, DevAssumption
    <3> QED BY <1>r, <2>1, <2>2, <3>1 DEF One
  <2>4. CountsExact'
    BY <2>1, <2>3 DEF CountsExact, Standing, One
  <2>5. TypeOK'
    BY <1>0, <2>1, <2>2, <2>3 DEF TypeOK
  <2>6. UnmountedClean'
    BY <1>0, <1>r, <1>n, <2>1, <2>2 DEF UnmountedClean
  <2>7. StorageExact' /\ CleanWritten'
    BY <1>0, <2>1 DEF StorageExact, CleanWritten
  <2> QED BY <2>4, <2>5, <2>6, <2>7, InPartsNext
<1>9. ASSUME NEW p \in Procs, sfs_block_change(p) PROVE MountExact'
  <2>1. /\ pwd[p] \in mounted /\ pwd[p] \in Disks
        /\ super_dirty' = [super_dirty EXCEPT ![pwd[p]] = TRUE] /\ behind' = [behind EXCEPT ![pwd[p]] = Parts]
        /\ UNCHANGED <<vdev_list, mounted, mem, root, pwd, bootfs>>
    BY <1>9, <1>r, <1>n DEF sfs_block_change
  <2>2. TypeOK' /\ StorageExact' /\ UnmountedClean' /\ CleanWritten'
    BY <1>0, <2>1 DEF TypeOK, StorageExact, UnmountedClean, CleanWritten
  <2>3. CountsExact'
    BY <1>0, <2>1 DEF CountsExact, Standing, One
  <2> QED BY <2>2, <2>3, InPartsNext
<1>10. ASSUME UNCHANGED vars PROVE MountExact'
  <2>1. TypeOK' /\ StorageExact' /\ UnmountedClean' /\ CleanWritten'
    BY <1>0, <1>10 DEF vars, TypeOK, StorageExact, UnmountedClean, CleanWritten
  <2>2. CountsExact'
    BY <1>0, <1>10 DEF vars, CountsExact, Standing, One
  <2> QED BY <2>1, <2>2, InPartsNext
<1> QED BY <1>1, <1>2, <1>3, <1>4, <1>5, <1>6, <1>7, <1>8, <1>9, <1>10, MountStep DEF Next

\* vfsdev.c, vfs.c, vfspath.c and sfs_fs.c: whatever mounts fail half way,
\* whichever writes the disks refuse and wherever the processes stand, the
\* storage, the reference counts of the root directories and the dirty flags
\* are exact.
THEOREM MountsExact == ASSUME DevAssumption PROVE Spec => []MountExact
<1>1. Init => MountExact
  BY MountInitStep
<1>2. MountExact /\ [Next]_vars => MountExact'
  BY MountNextStep
<1> QED BY <1>1, <1>2, PTL DEF Spec

-----------------------------------------------------------------------------
(* The blocks of one file *)

\* The places that name a block: the index-th block of a file for each index,
\* and the index block itself.
Contents == 0 .. (NDIRECT + BLKSIZE - 1)
Places == Contents \cup {-1}
BlockAt(disk, in, i) == IF i = -1 THEN in.indirect ELSE BlockOf(disk, in, i)
NamesIn(disk, in) == [i \in Places |-> BlockAt(disk, in, i)]

\* A file of n blocks, whose places name these blocks, beside the free ones and
\* those of other files: no block is lost, free while in use or used twice.
Fits(names, free, unused, n, others) ==
  /\ names \in [Places -> 0 .. NBlock]
  /\ free \subseteq Blocks /\ others \subseteq Blocks /\ free \cap others = {}
  /\ unused = Cardinality(free)
  /\ n \in 0 .. (NDIRECT + BLKSIZE)
  /\ \A i \in Places : names[i] # 0 => names[i] \notin free \cup others
  /\ \A i, j \in Places : names[i] # 0 /\ names[i] = names[j] => i = j
  /\ \A b \in Blocks : b \in free \cup others \/ \E i \in Places : names[i] = b
  /\ \A i \in Contents : i < n => names[i] # 0

\* What the operators on blocks take and return.
Inodes == [size : 0 .. (MaxSize + BLKSIZE), blocks : 0 .. (NDIRECT + BLKSIZE),
           direct : [0 .. (NDIRECT - 1) -> Nat], indirect : Nat]
Views == [free : SUBSET Blocks, unused : Int, disk : [Blocks -> [Words -> Nat]],
          in : Inodes, dirty : BOOLEAN, err : {"ok", "NO_MEM"} \cup Asserts]

\* The inode k is what the file has on disk if it is not dirty: the blocks that
\* were added since need not be counted there.
SavedAs(in, k) ==
  /\ k.size = in.size /\ k.direct = in.direct /\ k.indirect = in.indirect
  /\ k.blocks <= in.blocks

\* The views that the operators may make of s: what others have is left alone.
Kept(s, others) ==
  {t \in Views :
     /\ Fits(NamesIn(t.disk, t.in), t.free, t.unused, t.in.blocks, others)
     /\ \A b \in others : t.disk[b] = s.disk[b]
     /\ ~t.dirty => ~s.dirty /\ SavedAs(t.in, s.in)}

-----------------------------------------------------------------------------
(* The blocks of all files *)

AllFit(names, free, unused, n) ==
  /\ names \in [Files -> [Places -> 0 .. NBlock]]
  /\ free \subseteq Blocks /\ unused = Cardinality(free)
  /\ n \in [Files -> 0 .. (NDIRECT + BLKSIZE)]
  /\ \A f \in Files : \A i \in Places : names[f][i] # 0 => names[f][i] \notin free
  /\ \A f, g \in Files : \A i, j \in Places : names[f][i] # 0 /\ names[f][i] = names[g][j] => f = g /\ i = j
  /\ \A b \in Blocks : b \in free \/ \E f \in Files : \E i \in Places : names[f][i] = b
  /\ \A f \in Files : \A i \in Contents : i < n[f] => names[f][i] # 0

OthersOf(names, f) == {b \in Blocks : \E g \in Files \ {f} : \E i \in Places : names[g][i] = b}

AllNames(disk, d) == [f \in Files |-> NamesIn(disk, d[f])]
Lengths(d) == [f \in Files |-> d[f].blocks]

SfsTypes ==
  /\ fs \in [free : SUBSET Blocks, unused : Int, disk : [Blocks -> [Words -> Nat]]]
  /\ din \in [Files -> Inodes] /\ ondisk \in [Files -> Inodes]
  /\ dirty \in [Files -> BOOLEAN]
  /\ fd \in [Descs -> {Closed} \cup [file : Files, pos : 0 .. (MaxSize + BLKSIZE)]]

SfsInv ==
  /\ SfsTypes
  /\ AllFit(AllNames(fs.disk, din), fs.free, fs.unused, Lengths(din))
  /\ \A f \in Files : ~dirty[f] => SavedAs(din[f], ondisk[f])

-----------------------------------------------------------------------------
(* Names taken and given back *)

LEMMA FreeFinite ==
  ASSUME SizeAssumption, NEW free, free \subseteq Blocks
  PROVE  IsFiniteSet(free)
<1>1. IsFiniteSet(Blocks)
  BY FS_Interval DEF Blocks, SizeAssumption
<1> QED BY <1>1, FS_Subset

\* bitmap_alloc finds a free block if there is one.
LEMMA AllocFacts ==
  ASSUME SizeAssumption, NEW free, free \subseteq Blocks, free # {}
  PROVE  bitmap_alloc(free) \in free
<1>1. free \subseteq Nat
  BY DEF Blocks, SizeAssumption
<1>2. \E n \in free : \A k \in free : n <= k
  BY <1>1, LeastExists
<1> QED BY <1>2 DEF bitmap_alloc, Min

\* A free block m gets the name p.
LEMMA FitsTake ==
  ASSUME SizeAssumption, NEW names, NEW free, NEW unused, NEW n, NEW others,
         Fits(names, free, unused, n, others),
         NEW m \in free, NEW p \in Places, names[p] = 0
  PROVE  Fits([names EXCEPT ![p] = m], free \ {m}, unused - 1, n, others)
<1> DEFINE x == [names EXCEPT ![p] = m]
           rest == free \ {m}
<1>1. /\ names \in [Places -> 0 .. NBlock] /\ free \subseteq Blocks /\ m \in Blocks /\ m # 0
      /\ m \in 0 .. NBlock
  BY DEF Fits, Blocks, SizeAssumption
<1>2. x \in [Places -> 0 .. NBlock] /\ x[p] = m /\ \A i \in Places : i # p => x[i] = names[i]
  BY <1>1
<1>3. unused - 1 = Cardinality(rest)
  BY <1>1, FreeFinite, FS_RemoveElement DEF Fits
<1>4. \A i \in Places : names[i] # m
  BY <1>1 DEF Fits
<1> HIDE DEF x
<1>5. \A i \in Places : x[i] # 0 => x[i] \notin rest \cup others
  BY <1>2, <1>4 DEF Fits
<1>6. \A i, j \in Places : x[i] # 0 /\ x[i] = x[j] => i = j
  BY <1>2, <1>4 DEF Fits
<1>7. \A b \in Blocks : b \in rest \cup others \/ \E i \in Places : x[i] = b
  <2> SUFFICES ASSUME NEW b \in Blocks, b \notin rest \cup others PROVE \E i \in Places : x[i] = b
    OBVIOUS
  <2>1. CASE b = m
    BY <1>2, <2>1
  <2>2. CASE b # m
    <3>1. PICK i \in Places : names[i] = b
      BY <2>2 DEF Fits
    <3>2. i # p
      BY <3>1, <1>1 DEF Blocks
    <3> QED BY <3>1, <3>2, <1>2
  <2> QED BY <2>1, <2>2
<1>8. \A i \in Contents : i < n => x[i] # 0
  BY <1>1, <1>2 DEF Fits, Places
<1>9. rest \subseteq Blocks /\ rest \cap others = {}
  BY DEF Fits
<1> HIDE DEF rest
<1>10. Fits(x, rest, unused - 1, n, others)
  BY <1>2, <1>3, <1>5, <1>6, <1>7, <1>8, <1>9 DEF Fits
<1> QED BY <1>10 DEF x, rest

\* The block that the last place names is given back.
LEMMA FitsGive ==
  ASSUME SizeAssumption, NEW names, NEW free, NEW unused, NEW n, NEW others,
         Fits(names, free, unused, n, others), n > 0
  PROVE  /\ names[n - 1] \in Blocks \ free
         /\ Fits([names EXCEPT ![n - 1] = 0], free \cup {names[n - 1]}, unused + 1, n - 1, others)
<1> DEFINE p == n - 1
           m == names[p]
           x == [names EXCEPT ![p] = 0]
           more == free \cup {m}
<1>1. /\ names \in [Places -> 0 .. NBlock] /\ free \subseteq Blocks
      /\ p \in Contents /\ p \in Places /\ p < n
  BY DEF Fits, Places, Contents, SizeAssumption
<1>2. m # 0 /\ m \in Blocks /\ m \notin free \cup others
  <2>1. m # 0
    BY <1>1 DEF Fits
  <2> QED BY <1>1, <2>1 DEF Fits, Blocks, SizeAssumption
<1>3. 0 \in 0 .. NBlock
  BY DEF SizeAssumption
<1>4. x \in [Places -> 0 .. NBlock] /\ x[p] = 0 /\ \A i \in Places : i # p => x[i] = names[i]
  BY <1>1, <1>3
<1>5. unused + 1 = Cardinality(more)
  BY <1>1, <1>2, FreeFinite, FS_AddElement DEF Fits
<1> HIDE DEF x
<1>6. \A i \in Places : i # p /\ names[i] # 0 => names[i] # m
  BY <1>1 DEF Fits
<1>7. \A i \in Places : x[i] # 0 => x[i] \notin more \cup others
  BY <1>4, <1>6 DEF Fits
<1>8. \A i, j \in Places : x[i] # 0 /\ x[i] = x[j] => i = j
  BY <1>4 DEF Fits
<1>9. \A b \in Blocks : b \in more \cup others \/ \E i \in Places : x[i] = b
  <2> SUFFICES ASSUME NEW b \in Blocks, b \notin more \cup others PROVE \E i \in Places : x[i] = b
    OBVIOUS
  <2>1. PICK i \in Places : names[i] = b
    BY DEF Fits
  <2> QED BY <2>1, <1>4
<1>10. \A i \in Contents : i < p => x[i] # 0
  BY <1>1, <1>4 DEF Fits, Places, Contents
<1>11. more \subseteq Blocks /\ more \cap others = {} /\ p \in 0 .. (NDIRECT + BLKSIZE)
  BY <1>2, <1>1 DEF Fits, Contents, SizeAssumption
<1>12. others \subseteq Blocks
  BY DEF Fits
<1> HIDE DEF more, m, p
<1>13. Fits(x, more, unused + 1, p, others)
  BY <1>4, <1>5, <1>7, <1>8, <1>9, <1>10, <1>11, <1>12 DEF Fits
<1> QED BY <1>2, <1>13 DEF x, more, m, p

\* One more block is counted.
LEMMA FitsMore ==
  ASSUME SizeAssumption, NEW names, NEW free, NEW unused, NEW n, NEW others,
         Fits(names, free, unused, n, others), n \in Contents, names[n] # 0
  PROVE  Fits(names, free, unused, n + 1, others)
<1>1. n + 1 \in 0 .. (NDIRECT + BLKSIZE)
  BY DEF Contents, SizeAssumption
<1>2. \A i \in Contents : i < n + 1 => names[i] # 0
  <2> SUFFICES ASSUME NEW i \in Contents, i < n + 1 PROVE names[i] # 0
    OBVIOUS
  <2>1. i < n \/ i = n
    BY DEF Contents, SizeAssumption
  <2> QED BY <2>1 DEF Fits
<1> QED BY <1>1, <1>2 DEF Fits

\* One file among the others.
LEMMA FitsFocus ==
  ASSUME SizeAssumption, NEW names, NEW free, NEW unused, NEW n, AllFit(names, free, unused, n), NEW f \in Files
  PROVE  Fits(names[f], free, unused, n[f], OthersOf(names, f))
<1> DEFINE O == OthersOf(names, f)
<1>1. O \subseteq Blocks /\ free \cap O = {}
  BY DEF OthersOf, AllFit, Blocks, SizeAssumption
<1>2. \A i \in Places : names[f][i] # 0 => names[f][i] \notin O
  BY DEF OthersOf, AllFit
<1>3. \A b \in Blocks : b \in free \cup O \/ \E i \in Places : names[f][i] = b
  BY DEF OthersOf, AllFit
<1> HIDE DEF O
<1>4. Fits(names[f], free, unused, n[f], O)
  BY <1>1, <1>2, <1>3 DEF AllFit, Fits
<1> QED BY <1>4 DEF O

LEMMA FitsUnfocus ==
  ASSUME SizeAssumption, NEW names, NEW free, NEW unused, NEW n, AllFit(names, free, unused, n), NEW f \in Files,
         NEW x, NEW free2, NEW unused2, NEW n2, Fits(x, free2, unused2, n2, OthersOf(names, f))
  PROVE  AllFit([names EXCEPT ![f] = x], free2, unused2, [n EXCEPT ![f] = n2])
<1> DEFINE y == [names EXCEPT ![f] = x]
           k == [n EXCEPT ![f] = n2]
<1>1. names \in [Files -> [Places -> 0 .. NBlock]] /\ n \in [Files -> 0 .. (NDIRECT + BLKSIZE)]
  BY DEF AllFit
<1>2. x \in [Places -> 0 .. NBlock] /\ n2 \in 0 .. (NDIRECT + BLKSIZE)
  BY DEF Fits
<1>3. /\ y \in [Files -> [Places -> 0 .. NBlock]] /\ k \in [Files -> 0 .. (NDIRECT + BLKSIZE)]
      /\ y[f] = x /\ k[f] = n2 /\ \A g \in Files : g # f => y[g] = names[g] /\ k[g] = n[g]
  BY <1>1, <1>2
<1> HIDE DEF y, k
<1>4. \A g \in Files : \A i \in Places : g # f /\ names[g][i] # 0 => names[g][i] \in OthersOf(names, f)
  BY <1>1 DEF OthersOf, Blocks, SizeAssumption
<1>5. \A g \in Files : \A i \in Places : y[g][i] # 0 => y[g][i] \notin free2
  BY <1>3, <1>4 DEF Fits
<1>6. \A g, h \in Files : \A i, j \in Places : y[g][i] # 0 /\ y[g][i] = y[h][j] => g = h /\ i = j
  <2> SUFFICES ASSUME NEW g \in Files, NEW h \in Files, NEW i \in Places, NEW j \in Places,
                      y[g][i] # 0, y[g][i] = y[h][j]
               PROVE  g = h /\ i = j
    OBVIOUS
  <2>1. CASE g = f /\ h = f
    BY <2>1, <1>3 DEF Fits
  <2>2. CASE g # f /\ h # f
    BY <2>2, <1>3 DEF AllFit
  <2>3. CASE g = f /\ h # f
    BY <2>3, <1>3, <1>4 DEF Fits
  <2>4. CASE g # f /\ h = f
    BY <2>4, <1>3, <1>4 DEF Fits
  <2> QED BY <2>1, <2>2, <2>3, <2>4
<1>7. \A b \in Blocks : b \in free2 \/ \E g \in Files : \E i \in Places : y[g][i] = b
  <2> SUFFICES ASSUME NEW b \in Blocks, b \notin free2 PROVE \E g \in Files : \E i \in Places : y[g][i] = b
    OBVIOUS
  <2>1. CASE b \in OthersOf(names, f)
    <3>1. PICK g \in Files \ {f} : \E i \in Places : names[g][i] = b
      BY <2>1 DEF OthersOf
    <3> QED BY <3>1, <1>3
  <2>2. CASE b \notin OthersOf(names, f)
    <3>1. PICK i \in Places : x[i] = b
      BY <2>2 DEF Fits
    <3> QED BY <3>1, <1>3
  <2> QED BY <2>1, <2>2
<1>8. \A g \in Files : \A i \in Contents : i < k[g] => y[g][i] # 0
  <2> SUFFICES ASSUME NEW g \in Files, NEW i \in Contents, i < k[g] PROVE y[g][i] # 0
    OBVIOUS
  <2>1. CASE g = f
    BY <2>1, <1>3 DEF Fits
  <2>2. CASE g # f
    BY <2>2, <1>3 DEF AllFit
  <2> QED BY <2>1, <2>2
<1>9. free2 \subseteq Blocks /\ unused2 = Cardinality(free2)
  BY DEF Fits
<1>10. AllFit(y, free2, unused2, k)
  BY <1>3, <1>5, <1>6, <1>7, <1>8, <1>9 DEF AllFit
<1> QED BY <1>10 DEF y, k

-----------------------------------------------------------------------------
(* Blocks allocated and entered *)

Good(t, others) == t \in Kept(t, others)

\* What the places of an inode name.
LEMMA NamesFacts ==
  ASSUME SizeAssumption, NEW disk, NEW in
  PROVE  /\ \A i \in 0 .. (NDIRECT - 1) : i \in Contents /\ i \in Places /\ NamesIn(disk, in)[i] = in.direct[i]
         /\ \A w \in Words : /\ NDIRECT + w \in Contents /\ NDIRECT + w \in Places
                             /\ NamesIn(disk, in)[NDIRECT + w] = IF in.indirect = 0 THEN 0 ELSE disk[in.indirect][w]
         /\ -1 \in Places /\ NamesIn(disk, in)[-1] = in.indirect
<1>1. -1 \in Places /\ NamesIn(disk, in)[-1] = in.indirect
  BY DEF NamesIn, BlockAt, Places
<1>2. ASSUME NEW i \in 0 .. (NDIRECT - 1)
      PROVE  i \in Contents /\ i \in Places /\ NamesIn(disk, in)[i] = in.direct[i]
  <2>1. i \in Contents /\ i \in Places /\ i # -1 /\ i < NDIRECT
    BY DEF Contents, Places, SizeAssumption
  <2> QED BY <2>1 DEF NamesIn, BlockAt, BlockOf
<1>3. ASSUME NEW w \in Words
      PROVE  /\ NDIRECT + w \in Contents /\ NDIRECT + w \in Places
             /\ NamesIn(disk, in)[NDIRECT + w] = IF in.indirect = 0 THEN 0 ELSE disk[in.indirect][w]
  <2> DEFINE i == NDIRECT + w
  <2>1. i \in Contents /\ i \in Places /\ i # -1 /\ ~(i < NDIRECT) /\ i - NDIRECT = w
    BY DEF Contents, Places, Words, SizeAssumption
  <2> HIDE DEF i
  <2>2. NamesIn(disk, in)[i] = IF in.indirect = 0 THEN 0 ELSE disk[in.indirect][w]
    BY <2>1 DEF NamesIn, BlockAt, BlockOf, sfs_rbuf
  <2> QED BY <2>1, <2>2 DEF i
<1> QED BY <1>1, <1>2, <1>3

\* Every place is one of these.
LEMMA PlacesAre ==
  ASSUME SizeAssumption, NEW i \in Places
  PROVE  i = -1 \/ i \in 0 .. (NDIRECT - 1) \/ \E w \in Words : i = NDIRECT + w
<1>1. CASE i = -1
  BY <1>1
<1>2. CASE i \in Contents /\ i < NDIRECT
  BY <1>2 DEF Contents, SizeAssumption
<1>3. CASE i \in Contents /\ ~(i < NDIRECT)
  <2>1. i - NDIRECT \in Words /\ i = NDIRECT + (i - NDIRECT)
    BY <1>3 DEF Contents, Words, SizeAssumption
  <2> QED BY <2>1
<1> QED BY <1>1, <1>2, <1>3 DEF Places

\* An inode names the same blocks on two disks with the same index block.
LEMMA NamesElsewhere ==
  ASSUME SizeAssumption, NEW disk, NEW disk2, NEW in, in.indirect # 0 => disk2[in.indirect] = disk[in.indirect]
  PROVE  NamesIn(disk2, in) = NamesIn(disk, in)
<1>1. \A i \in Places : BlockAt(disk2, in, i) = BlockAt(disk, in, i)
  BY DEF BlockAt, BlockOf, sfs_rbuf
<1> QED BY <1>1 DEF NamesIn

LEMMA KeptFacts ==
  ASSUME NEW s, NEW others, NEW t \in Kept(s, others)
  PROVE  /\ t \in Views /\ t.in \in Inodes
         /\ t.free \subseteq Blocks /\ t.unused \in Int /\ t.disk \in [Blocks -> [Words -> Nat]]
         /\ t.dirty \in BOOLEAN
         /\ t.in.direct \in [0 .. (NDIRECT - 1) -> Nat] /\ t.in.indirect \in Nat
         /\ t.in.blocks \in 0 .. (NDIRECT + BLKSIZE)
         /\ Fits(NamesIn(t.disk, t.in), t.free, t.unused, t.in.blocks, others)
         /\ Good(t, others)
<1>1. t \in Views /\ Fits(NamesIn(t.disk, t.in), t.free, t.unused, t.in.blocks, others)
  BY DEF Kept
<1>2. t.in \in Inodes
  BY <1>1 DEF Views
<1>3. SavedAs(t.in, t.in)
  BY <1>2 DEF SavedAs, Inodes
<1>4. Good(t, others)
  BY <1>1, <1>3 DEF Good, Kept
<1> QED BY <1>1, <1>2, <1>4 DEF Views, Inodes

\* Views made of views made of s are made of s.
LEMMA KeptOn ==
  ASSUME NEW s, s.in.blocks \in Int, NEW others, NEW t \in Kept(s, others), NEW u \in Kept(t, others)
  PROVE  u \in Kept(s, others)
<1>1. u.in.blocks \in Int /\ t.in.blocks \in Int /\ s.in.blocks \in Int
  BY KeptFacts DEF Inodes
<1>2. ~u.dirty => ~s.dirty /\ SavedAs(u.in, s.in)
  <2> SUFFICES ASSUME ~u.dirty PROVE ~s.dirty /\ SavedAs(u.in, s.in)
    OBVIOUS
  <2>1. ~t.dirty /\ SavedAs(u.in, t.in)
    BY DEF Kept
  <2>2. ~s.dirty /\ SavedAs(t.in, s.in)
    BY <2>1 DEF Kept
  <2>3. u.in.blocks >= t.in.blocks /\ t.in.blocks >= s.in.blocks
    BY <2>1, <2>2 DEF SavedAs
  <2> QED BY <1>1, <2>1, <2>2, <2>3 DEF SavedAs
<1>3. \A b \in others : u.disk[b] = s.disk[b]
  BY DEF Kept
<1>4. u \in Views /\ Fits(NamesIn(u.disk, u.in), u.free, u.unused, u.in.blocks, others)
  BY DEF Kept
<1> QED BY <1>2, <1>3, <1>4 DEF Kept

\* sfs_block_alloc takes a block that nobody has and zeroes it.
Fresh(t, b, m) ==
  /\ b.free = t.free \ {m} /\ b.unused = t.unused - 1
  /\ b.disk \in [Blocks -> [Words -> Nat]]
  /\ b.disk[m] = ZeroBlock /\ \A q \in Blocks : q # m => b.disk[q] = t.disk[q]
  /\ b.in = t.in /\ b.dirty = t.dirty /\ b.err = t.err

LEMMA AllocKeeps ==
  ASSUME SizeAssumption, NEW others, NEW t, Good(t, others), t.free # {}, NEW m, m = bitmap_alloc(t.free)
  PROVE  /\ m \in t.free /\ m \in Blocks /\ m # 0 /\ m \notin others /\ m # t.in.indirect
         /\ Fresh(t, sfs_block_alloc(t), m) /\ sfs_block_alloc(t) \in Views
         /\ NamesIn(sfs_block_alloc(t).disk, t.in) = NamesIn(t.disk, t.in)
<1> DEFINE b == sfs_block_alloc(t)
<1>0. /\ t \in Views /\ t.free \subseteq Blocks /\ t.unused \in Int /\ t.disk \in [Blocks -> [Words -> Nat]]
      /\ Fits(NamesIn(t.disk, t.in), t.free, t.unused, t.in.blocks, others)
  BY KeptFacts DEF Good
<1>1. m \in t.free
  BY <1>0, AllocFacts
<1>2. m \in Blocks /\ m # 0 /\ m \notin others
  BY <1>0, <1>1 DEF Fits, Blocks, SizeAssumption
<1>3. m # t.in.indirect
  BY <1>0, <1>1, <1>2, NamesFacts DEF Fits
<1>4. b = [t EXCEPT !.free = t.free \ {m}, !.unused = t.unused - 1, !.disk = sfs_clear_block(t.disk, m)]
  BY <1>0 DEF sfs_block_alloc, Views
<1>5. ZeroBlock \in [Words -> Nat]
  BY DEF ZeroBlock
<1>6. /\ sfs_clear_block(t.disk, m) \in [Blocks -> [Words -> Nat]]
      /\ sfs_clear_block(t.disk, m)[m] = ZeroBlock
      /\ \A q \in Blocks : q # m => sfs_clear_block(t.disk, m)[q] = t.disk[q]
  BY <1>0, <1>2, <1>5 DEF sfs_clear_block
<1>7. /\ b.free = t.free \ {m} /\ b.unused = t.unused - 1 /\ b.disk = sfs_clear_block(t.disk, m)
      /\ b.in = t.in /\ b.dirty = t.dirty /\ b.err = t.err
  BY <1>0, <1>4 DEF Views
<1>8. b \in Views
  <2>1. t.free \ {m} \in SUBSET Blocks /\ t.unused - 1 \in Int
    BY <1>0
  <2> HIDE DEF b
  <2> QED BY <1>0, <1>4, <1>6, <2>1 DEF Views
<1>9. Fresh(t, b, m)
  BY <1>6, <1>7 DEF Fresh
<1>10. t.in.indirect # 0 => t.in.indirect \in Blocks
  BY <1>0, NamesFacts DEF Fits, Blocks, SizeAssumption
<1>11. NamesIn(b.disk, t.in) = NamesIn(t.disk, t.in)
  BY <1>3, <1>6, <1>7, <1>10, NamesElsewhere
<1> QED BY <1>1, <1>2, <1>3, <1>8, <1>9, <1>11

\* A view that gives the fresh block m the name p.
Enters(t, u, m, p) ==
  /\ u.free = t.free \ {m} /\ u.unused = t.unused - 1
  /\ \A q \in Blocks : q # m /\ q # t.in.indirect => u.disk[q] = t.disk[q]
  /\ u.in.blocks = t.in.blocks
  /\ NamesIn(u.disk, u.in) = [NamesIn(t.disk, t.in) EXCEPT ![p] = m]
  /\ ~u.dirty => ~t.dirty /\ SavedAs(u.in, t.in)

LEMMA EntersKept ==
  ASSUME SizeAssumption, NEW others, NEW t, Good(t, others), NEW u \in Views, NEW m \in t.free, NEW p \in Places,
         NamesIn(t.disk, t.in)[p] = 0, Enters(t, u, m, p)
  PROVE  u \in Kept(t, others)
<1>1. Fits(NamesIn(t.disk, t.in), t.free, t.unused, t.in.blocks, others)
  BY KeptFacts DEF Good
<1>2. Fits(NamesIn(u.disk, u.in), u.free, u.unused, u.in.blocks, others)
  <2>1. Fits([NamesIn(t.disk, t.in) EXCEPT ![p] = m], t.free \ {m}, t.unused - 1, t.in.blocks, others)
    BY <1>1, FitsTake
  <2> QED BY <2>1, Zenon DEF Enters
<1>3. \A b \in others : b \in Blocks /\ b # m /\ b # t.in.indirect
  BY <1>1, NamesFacts DEF Fits, Blocks, SizeAssumption
<1>4. \A b \in others : u.disk[b] = t.disk[b]
  BY <1>3 DEF Enters
<1> QED BY <1>2, <1>4 DEF Kept, Enters

\* Two inodes on two disks that differ in the name p.
Differ(disk, in, disk2, in2, p, m) ==
  \A i \in Places : NamesIn(disk2, in2)[i] = IF i = p THEN m ELSE NamesIn(disk, in)[i]

Renamed(disk, in, disk2, in2, p, m) ==
  NamesIn(disk2, in2) = [NamesIn(disk, in) EXCEPT ![p] = m]

LEMMA NamesDiffer ==
  ASSUME NEW disk, NEW in, NEW disk2, NEW in2, NEW p, NEW m, Differ(disk, in, disk2, in2, p, m)
  PROVE  Renamed(disk, in, disk2, in2, p, m)
<1> DEFINE x == NamesIn(disk, in)
           y == NamesIn(disk2, in2)
<1>1. x = [i \in Places |-> x[i]] /\ y = [i \in Places |-> y[i]]
  BY DEF NamesIn
<1> HIDE DEF x, y
<1>2. \A i \in Places : y[i] = IF i = p THEN m ELSE x[i]
  BY DEF x, y, Differ
<1>3. y = [x EXCEPT ![p] = m]
  BY <1>1, <1>2
<1> QED BY <1>3 DEF x, y, Renamed

\* sfs_bmap_get_nolock: a direct entry.
DirectEntry(t, b, m, index) == [b EXCEPT !.in.direct[index] = m, !.dirty = TRUE]

LEMMA DirectEntryKept ==
  ASSUME SizeAssumption, NEW others, NEW t, Good(t, others), NEW b \in Views, NEW m \in t.free,
         NEW index \in 0 .. (NDIRECT - 1), t.in.direct[index] = 0, Fresh(t, b, m), m # t.in.indirect, m \in Nat
  PROVE  /\ DirectEntry(t, b, m, index) \in Kept(t, others)
         /\ Enters(t, DirectEntry(t, b, m, index), m, index)
         /\ DirectEntry(t, b, m, index).err = t.err
<1> DEFINE u == DirectEntry(t, b, m, index)
           d == [t.in.direct EXCEPT ![index] = m]
           in == [t.in EXCEPT !.direct = d]
<1>0. /\ t \in Views /\ t.in \in Inodes /\ t.in.direct \in [0 .. (NDIRECT - 1) -> Nat]
      /\ Fits(NamesIn(t.disk, t.in), t.free, t.unused, t.in.blocks, others)
  BY KeptFacts DEF Good
<1>1. b.in = t.in
  BY DEF Fresh
<1>2. u = [b EXCEPT !.in = in, !.dirty = TRUE]
  BY <1>1 DEF DirectEntry
<1>3. d \in [0 .. (NDIRECT - 1) -> Nat] /\ d[index] = m /\ \A i \in 0 .. (NDIRECT - 1) : i # index => d[i] = t.in.direct[i]
  BY <1>0
<1> HIDE DEF d
<1>4. in \in Inodes /\ in.direct = d /\ in.indirect = t.in.indirect /\ in.blocks = t.in.blocks /\ in.size = t.in.size
  BY <1>0, <1>3 DEF Inodes
<1> HIDE DEF in, u
<1>5. u \in Views /\ u.in = in /\ u.dirty = TRUE /\ u.free = b.free /\ u.unused = b.unused /\ u.disk = b.disk /\ u.err = b.err
  BY <1>2, <1>4 DEF Views
<1>6. in.indirect # 0 => b.disk[in.indirect] = t.disk[in.indirect]
  <2>1. t.in.indirect \in 0 .. NBlock
    BY <1>0, NamesFacts DEF Fits
  <2> QED BY <2>1, <1>4 DEF Fresh, Blocks, SizeAssumption
<1>7. \A i \in Places : NamesIn(b.disk, in)[i] = IF i = index THEN m ELSE NamesIn(t.disk, t.in)[i]
  <2> SUFFICES ASSUME NEW i \in Places PROVE NamesIn(b.disk, in)[i] = IF i = index THEN m ELSE NamesIn(t.disk, t.in)[i]
    OBVIOUS
  <2>1. CASE i = -1
    BY <2>1, <1>4, NamesFacts
  <2>2. CASE i \in 0 .. (NDIRECT - 1)
    <3>1. NamesIn(b.disk, in)[i] = in.direct[i] /\ NamesIn(t.disk, t.in)[i] = t.in.direct[i]
      BY <2>2, NamesFacts
    <3> QED BY <2>2, <3>1, <1>3, <1>4
  <2>3. ASSUME NEW w \in Words, i = NDIRECT + w PROVE NamesIn(b.disk, in)[i] = IF i = index THEN m ELSE NamesIn(t.disk, t.in)[i]
    <3>1. i # index
      BY <2>3 DEF Words, SizeAssumption
    <3>2. /\ NamesIn(b.disk, in)[i] = IF in.indirect = 0 THEN 0 ELSE b.disk[in.indirect][w]
          /\ NamesIn(t.disk, t.in)[i] = IF t.in.indirect = 0 THEN 0 ELSE t.disk[t.in.indirect][w]
      BY <2>3, NamesFacts
    <3> QED BY <3>1, <3>2, <1>4, <1>6
  <2> QED BY <2>1, <2>2, <2>3, PlacesAre
<1>8. index \in Places /\ NamesIn(t.disk, t.in)[index] = 0
  BY NamesFacts
<1>9. NamesIn(u.disk, u.in) = [NamesIn(t.disk, t.in) EXCEPT ![index] = m]
  <2>1. Differ(t.disk, t.in, b.disk, in, index, m)
    BY <1>7 DEF Differ
  <2>2. Renamed(t.disk, t.in, b.disk, in, index, m)
    BY <2>1, NamesDiffer, Zenon
  <2> QED BY <1>5, <2>2 DEF Renamed
<1>10. Enters(t, u, m, index)
  BY <1>4, <1>5, <1>9 DEF Enters, Fresh
<1>11. u \in Kept(t, others)
  BY <1>5, <1>8, <1>10, EntersKept
<1> QED BY <1>5, <1>10, <1>11 DEF u, Fresh

\* sfs_bmap_get_sub_nolock: the index block.
IndexBlock(b, m) == [b EXCEPT !.in.indirect = m, !.dirty = TRUE]

LEMMA IndexBlockKept ==
  ASSUME SizeAssumption, NEW others, NEW t, Good(t, others), NEW b \in Views, NEW m \in t.free,
         t.in.indirect = 0, Fresh(t, b, m), m \in Nat, m # 0
  PROVE  /\ IndexBlock(b, m) \in Kept(t, others)
         /\ IndexBlock(b, m).free = t.free \ {m}
         /\ IndexBlock(b, m).in.indirect = m
         /\ IndexBlock(b, m).in.blocks = t.in.blocks
         /\ IndexBlock(b, m).disk[m] = ZeroBlock
         /\ IndexBlock(b, m).err = t.err
<1> DEFINE u == IndexBlock(b, m)
           in == [t.in EXCEPT !.indirect = m]
<1>0. /\ t \in Views /\ t.in \in Inodes
      /\ Fits(NamesIn(t.disk, t.in), t.free, t.unused, t.in.blocks, others)
  BY KeptFacts DEF Good
<1>1. b.in = t.in
  BY DEF Fresh
<1>2. u = [b EXCEPT !.in = in, !.dirty = TRUE]
  BY <1>1 DEF IndexBlock
<1>4. in \in Inodes /\ in.direct = t.in.direct /\ in.indirect = m /\ in.blocks = t.in.blocks /\ in.size = t.in.size
  BY <1>0 DEF Inodes
<1> HIDE DEF in, u
<1>5. u \in Views /\ u.in = in /\ u.dirty = TRUE /\ u.free = b.free /\ u.unused = b.unused /\ u.disk = b.disk /\ u.err = b.err
  BY <1>2, <1>4 DEF Views
<1>6. b.disk[m] = ZeroBlock
  BY DEF Fresh
<1>7. \A i \in Places : NamesIn(b.disk, in)[i] = IF i = -1 THEN m ELSE NamesIn(t.disk, t.in)[i]
  <2> SUFFICES ASSUME NEW i \in Places PROVE NamesIn(b.disk, in)[i] = IF i = -1 THEN m ELSE NamesIn(t.disk, t.in)[i]
    OBVIOUS
  <2>1. CASE i = -1
    BY <2>1, <1>4, NamesFacts
  <2>2. CASE i \in 0 .. (NDIRECT - 1)
    <3>1. NamesIn(b.disk, in)[i] = in.direct[i] /\ NamesIn(t.disk, t.in)[i] = t.in.direct[i]
      BY <2>2, NamesFacts
    <3> QED BY <2>2, <3>1, <1>4
  <2>3. ASSUME NEW w \in Words, i = NDIRECT + w PROVE NamesIn(b.disk, in)[i] = IF i = -1 THEN m ELSE NamesIn(t.disk, t.in)[i]
    <3>1. i # -1
      BY <2>3 DEF Words, SizeAssumption
    <3>2. /\ NamesIn(b.disk, in)[i] = IF in.indirect = 0 THEN 0 ELSE b.disk[in.indirect][w]
          /\ NamesIn(t.disk, t.in)[i] = IF t.in.indirect = 0 THEN 0 ELSE t.disk[t.in.indirect][w]
      BY <2>3, NamesFacts
    <3>3. b.disk[m][w] = 0
      BY <1>6 DEF ZeroBlock
    <3> QED BY <3>1, <3>2, <3>3, <1>4
  <2> QED BY <2>1, <2>2, <2>3, PlacesAre
<1>8. -1 \in Places /\ NamesIn(t.disk, t.in)[-1] = 0
  BY NamesFacts
<1>9. NamesIn(u.disk, u.in) = [NamesIn(t.disk, t.in) EXCEPT ![-1] = m]
  <2>1. Differ(t.disk, t.in, b.disk, in, -1, m)
    BY <1>7 DEF Differ
  <2>2. Renamed(t.disk, t.in, b.disk, in, -1, m)
    BY <2>1, NamesDiffer, Zenon
  <2> QED BY <1>5, <2>2 DEF Renamed
<1>10. Enters(t, u, m, -1)
  BY <1>4, <1>5, <1>9 DEF Enters, Fresh
<1>11. u \in Kept(t, others)
  BY <1>5, <1>8, <1>10, EntersKept
<1> QED BY <1>4, <1>5, <1>6, <1>11 DEF u, Fresh

\* sfs_bmap_get_sub_nolock: an entry of the index block.
IndexEntry(t, b, m, w) == [b EXCEPT !.disk = sfs_wbuf(@, t.in.indirect, {w}, m)]

Rewritten(disk, q, words, v) ==
  /\ sfs_wbuf(disk, q, words, v) \in [Blocks -> [Words -> Nat]]
  /\ \A w \in Words : sfs_wbuf(disk, q, words, v)[q][w] = IF w \in words THEN v ELSE disk[q][w]
  /\ \A r \in Blocks : r # q => sfs_wbuf(disk, q, words, v)[r] = disk[r]

LEMMA WriteFacts ==
  ASSUME NEW disk \in [Blocks -> [Words -> Nat]], NEW q \in Blocks, NEW words, NEW v \in Nat
  PROVE  Rewritten(disk, q, words, v)
<1> DEFINE x == [w \in Words |-> IF w \in words THEN v ELSE disk[q][w]]
<1>1. x \in [Words -> Nat] /\ \A w \in Words : x[w] = IF w \in words THEN v ELSE disk[q][w]
  OBVIOUS
<1>2. sfs_wbuf(disk, q, words, v) = [disk EXCEPT ![q] = x]
  BY DEF sfs_wbuf
<1> HIDE DEF x
<1> QED BY <1>1, <1>2 DEF Rewritten

LEMMA IndexEntryKept ==
  ASSUME SizeAssumption, NEW others, NEW t, Good(t, others), NEW b \in Views, NEW m \in t.free, m \in Nat,
         NEW w \in Words, t.in.indirect # 0, t.disk[t.in.indirect][w] = 0, Fresh(t, b, m), m # t.in.indirect
  PROVE  /\ IndexEntry(t, b, m, w) \in Kept(t, others)
         /\ Enters(t, IndexEntry(t, b, m, w), m, NDIRECT + w)
         /\ IndexEntry(t, b, m, w).err = t.err
<1> DEFINE u == IndexEntry(t, b, m, w)
           q == t.in.indirect
           p == NDIRECT + w
           disk == sfs_wbuf(b.disk, q, {w}, m)
<1>0. /\ t \in Views /\ t.in \in Inodes
      /\ Fits(NamesIn(t.disk, t.in), t.free, t.unused, t.in.blocks, others)
  BY KeptFacts DEF Good
<1>1. q \in Blocks
  <2>1. q \in 0 .. NBlock
    BY <1>0, NamesFacts DEF Fits
  <2> QED BY <2>1 DEF Blocks, SizeAssumption
<1>2. b.disk \in [Blocks -> [Words -> Nat]] /\ b.disk[q] = t.disk[q]
  BY <1>1 DEF Fresh
<1>3. /\ disk \in [Blocks -> [Words -> Nat]]
      /\ \A x \in Words : disk[q][x] = IF x = w THEN m ELSE t.disk[q][x]
      /\ \A r \in Blocks : r # q => disk[r] = b.disk[r]
  BY <1>1, <1>2, WriteFacts DEF Rewritten
<1>4. u = [b EXCEPT !.disk = disk]
  BY DEF IndexEntry
<1> HIDE DEF disk, u
<1>5. u \in Views /\ u.in = t.in /\ u.dirty = t.dirty /\ u.free = b.free /\ u.unused = b.unused /\ u.disk = disk /\ u.err = t.err
  BY <1>3, <1>4 DEF Views, Fresh
<1>7. \A i \in Places : NamesIn(disk, t.in)[i] = IF i = p THEN m ELSE NamesIn(t.disk, t.in)[i]
  <2> SUFFICES ASSUME NEW i \in Places PROVE NamesIn(disk, t.in)[i] = IF i = p THEN m ELSE NamesIn(t.disk, t.in)[i]
    OBVIOUS
  <2>0. p \in Int /\ p >= NDIRECT
    BY DEF Words, SizeAssumption
  <2>1. CASE i = -1
    BY <2>0, <2>1, NamesFacts DEF SizeAssumption
  <2>2. CASE i \in 0 .. (NDIRECT - 1)
    <3>1. NamesIn(disk, t.in)[i] = t.in.direct[i] /\ NamesIn(t.disk, t.in)[i] = t.in.direct[i]
      BY <2>2, NamesFacts
    <3>2. i # p
      BY <2>0, <2>2 DEF SizeAssumption
    <3> QED BY <3>1, <3>2
  <2>3. ASSUME NEW x \in Words, i = NDIRECT + x PROVE NamesIn(disk, t.in)[i] = IF i = p THEN m ELSE NamesIn(t.disk, t.in)[i]
    <3>1. i = p <=> x = w
      BY <2>3 DEF Words, SizeAssumption
    <3>2. /\ NamesIn(disk, t.in)[i] = disk[q][x]
          /\ NamesIn(t.disk, t.in)[i] = t.disk[q][x]
      BY <2>3, NamesFacts
    <3> QED BY <3>1, <3>2, <1>3
  <2> QED BY <2>1, <2>2, <2>3, PlacesAre
<1>8. p \in Places /\ NamesIn(t.disk, t.in)[p] = 0
  BY NamesFacts
<1>9. NamesIn(u.disk, u.in) = [NamesIn(t.disk, t.in) EXCEPT ![p] = m]
  <2>1. Differ(t.disk, t.in, disk, t.in, p, m)
    BY <1>7 DEF Differ
  <2>2. Renamed(t.disk, t.in, disk, t.in, p, m)
    BY <2>1, NamesDiffer, Zenon
  <2> QED BY <1>5, <2>2 DEF Renamed
<1>10. Enters(t, u, m, p)
  <2>1. SavedAs(t.in, t.in)
    BY <1>0 DEF SavedAs, Inodes
  <2> QED BY <1>3, <1>5, <1>9, <2>1 DEF Enters, Fresh
<1>11. u \in Kept(t, others)
  BY <1>5, <1>8, <1>10, EntersKept
<1> QED BY <1>5, <1>10, <1>11 DEF u

\* A call that found no room changes nothing but the contents of a free block.
LEMMA NoRoomKept ==
  ASSUME SizeAssumption, NEW others, NEW t, Good(t, others), NEW u \in Views,
         u.free = t.free, u.unused = t.unused, u.in = t.in, u.dirty = t.dirty,
         NamesIn(u.disk, t.in) = NamesIn(t.disk, t.in), \A b \in others : u.disk[b] = t.disk[b]
  PROVE  u \in Kept(t, others)
<1>1. t.in \in Inodes /\ Fits(NamesIn(t.disk, t.in), t.free, t.unused, t.in.blocks, others)
  BY KeptFacts DEF Good
<1>2. SavedAs(t.in, t.in)
  BY <1>1 DEF SavedAs, Inodes
<1>3. Fits(NamesIn(u.disk, u.in), u.free, u.unused, u.in.blocks, others)
  BY <1>1
<1> QED BY <1>2, <1>3 DEF Kept

LEMMA RefusedKept ==
  ASSUME SizeAssumption, NEW others, NEW t, Good(t, others), NEW e \in {"ok", "NO_MEM"} \cup Asserts
  PROVE  [t EXCEPT !.err = e] \in Kept(t, others)
<1> DEFINE u == [t EXCEPT !.err = e]
<1>1. t \in Views
  BY KeptFacts DEF Good
<1>2. u \in Views /\ u.free = t.free /\ u.unused = t.unused /\ u.disk = t.disk /\ u.in = t.in /\ u.dirty = t.dirty
  BY <1>1 DEF Views
<1> HIDE DEF u
<1>3. u \in Kept(t, others)
  BY <1>2, NoRoomKept
<1> QED BY <1>3 DEF u

\* What a call that is to provide the index-th block leaves.
Entered(t, r, index, others) ==
  /\ r \in Kept(t, others)
  /\ r.in.blocks = t.in.blocks
  /\ Ok(r) => NamesIn(r.disk, r.in)[index] # 0

LEMMA NoRoomEntered ==
  ASSUME SizeAssumption, NEW others, NEW t, Good(t, others), t.free = {}, NEW index
  PROVE  Entered(t, sfs_block_alloc(t), index, others) /\ ~Ok(sfs_block_alloc(t))
<1> DEFINE u == [t EXCEPT !.err = "NO_MEM"]
<1>1. sfs_block_alloc(t) = u
  BY DEF sfs_block_alloc
<1>2. u \in Kept(t, others)
  BY RefusedKept
<1>3. t \in Views
  BY KeptFacts DEF Good
<1>4. u.in = t.in /\ u.err = "NO_MEM"
  BY <1>3 DEF Views
<1> QED BY <1>1, <1>2, <1>4 DEF Entered, Ok

\* The place that a fresh block entered has a block.
LEMMA EntersNames ==
  ASSUME SizeAssumption, NEW others, NEW t, Good(t, others), NEW u, NEW m, m # 0, NEW p \in Places, Enters(t, u, m, p)
  PROVE  NamesIn(u.disk, u.in)[p] # 0
<1>1. NamesIn(t.disk, t.in) \in [Places -> 0 .. NBlock]
  BY KeptFacts DEF Good, Fits
<1> QED BY <1>1 DEF Enters

LEMMA GetSubKept ==
  ASSUME SizeAssumption, NEW others, NEW t, Good(t, others), Ok(t), NEW w \in Words
  PROVE  Entered(t, sfs_bmap_get_sub_nolock(t, w, TRUE), NDIRECT + w, others)
<1> DEFINE p == NDIRECT + w
           r == sfs_bmap_get_sub_nolock(t, w, TRUE)
           m == bitmap_alloc(t.free)
           e == sfs_block_alloc(t)
<1>0. /\ t \in Views /\ t.in \in Inodes /\ t.unused \in Int /\ t.free \subseteq Blocks
      /\ t.disk \in [Blocks -> [Words -> Nat]]
      /\ Fits(NamesIn(t.disk, t.in), t.free, t.unused, t.in.blocks, others)
  BY KeptFacts DEF Good
<1>1. p \in Places /\ NamesIn(t.disk, t.in)[p] = IF t.in.indirect = 0 THEN 0 ELSE t.disk[t.in.indirect][w]
  BY NamesFacts
<1> HIDE DEF p
<1>2. CASE t.in.indirect # 0 /\ t.disk[t.in.indirect][w] # 0
  <2>1. r = t
    BY <1>2 DEF sfs_bmap_get_sub_nolock, sfs_rbuf
  <2> QED BY <1>1, <1>2, <2>1 DEF Entered, Good, p
<1>3. CASE t.in.indirect # 0 /\ t.disk[t.in.indirect][w] = 0 /\ t.free = {}
  <2>1. ~Ok(e) /\ Entered(t, e, p, others)
    BY <1>3, NoRoomEntered
  <2>2. r = e
    BY <1>3, <2>1 DEF sfs_bmap_get_sub_nolock, sfs_rbuf, Ok
  <2> QED BY <2>1, <2>2 DEF p
<1>4. CASE t.in.indirect # 0 /\ t.disk[t.in.indirect][w] = 0 /\ t.free # {}
  <2>1. /\ m \in t.free /\ m \in Blocks /\ m # 0 /\ m \notin others /\ m # t.in.indirect
        /\ Fresh(t, e, m) /\ e \in Views
    BY <1>4, AllocKeeps
  <2>2. Ok(e) /\ e.in = t.in
    BY <2>1 DEF Ok, Fresh
  <2>3. r = [e EXCEPT !.disk = sfs_wbuf(@, t.in.indirect, {w}, m), !.in.indirect = t.in.indirect, !.dirty = @ \/ FALSE]
    BY <1>4, <2>2 DEF sfs_bmap_get_sub_nolock, sfs_rbuf
  <2>4. r = IndexEntry(t, e, m, w)
    <3>1. [e.in EXCEPT !.indirect = t.in.indirect] = e.in
      BY <2>2, <1>0 DEF Inodes
    <3>2. (e.dirty \/ FALSE) = e.dirty
      BY <2>1, <1>0 DEF Fresh, Views
    <3>3. DOMAIN e = {"free", "unused", "disk", "in", "dirty", "err"}
      BY <2>1 DEF Views
    <3> QED BY <2>1, <2>3, <3>1, <3>2, <3>3 DEF IndexEntry, Views
  <2>5. m \in Nat
    BY <2>1 DEF Blocks, SizeAssumption
  <2>6. r \in Kept(t, others) /\ Enters(t, r, m, p)
    <3>1. IndexEntry(t, e, m, w) \in Kept(t, others) /\ Enters(t, IndexEntry(t, e, m, w), m, p)
      BY <1>4, <2>1, <2>5, IndexEntryKept DEF p
    <3> QED BY <2>4, <3>1
  <2>7. NamesIn(r.disk, r.in)[p] # 0
    BY <1>1, <2>1, <2>6, EntersNames
  <2> QED BY <2>6, <2>7 DEF Entered, Enters, p
<1>5. CASE t.in.indirect = 0 /\ t.free = {}
  <2>1. ~Ok(e) /\ Entered(t, e, p, others)
    BY <1>5, NoRoomEntered
  <2>2. r = e
    BY <1>5, <2>1 DEF sfs_bmap_get_sub_nolock
  <2> QED BY <2>1, <2>2 DEF p
<1>6. CASE t.in.indirect = 0 /\ t.free # {}
  <2> DEFINE b == sfs_block_alloc(e)
             n == bitmap_alloc(e.free)
             x == IndexBlock(e, m)
             y == sfs_block_alloc(x)
  <2>1. /\ m \in t.free /\ m \in Blocks /\ m # 0 /\ m \notin others
        /\ Fresh(t, e, m) /\ e \in Views /\ NamesIn(e.disk, t.in) = NamesIn(t.disk, t.in)
    BY <1>6, AllocKeeps
  <2>2. Ok(e) /\ e.in = t.in /\ m \in Nat /\ e.dirty = t.dirty
    BY <2>1 DEF Ok, Fresh, Blocks, SizeAssumption
  <2>3. /\ x \in Kept(t, others) /\ x.free = t.free \ {m} /\ x.in.indirect = m /\ x.disk[m] = ZeroBlock
        /\ x.in.blocks = t.in.blocks /\ x.err = t.err
    BY <1>6, <2>1, <2>2, IndexBlockKept
  <2>4. Good(x, others) /\ x \in Views /\ x.in \in Inodes
    BY <2>3, KeptFacts
  <2>5. e.free = t.free \ {m} /\ e.unused = t.unused - 1 /\ e.disk \in [Blocks -> [Words -> Nat]]
    BY <2>1 DEF Fresh
  <2>6. CASE e.free = {}
    <3>1. b = [e EXCEPT !.err = "NO_MEM"] /\ ~Ok(b)
      BY <2>1, <2>6 DEF sfs_block_alloc, Ok, Views
    <3>2. r = sfs_block_free(b, m)
      BY <1>6, <2>2, <3>1 DEF sfs_bmap_get_sub_nolock
    <3>3. r = [e EXCEPT !.err = "NO_MEM", !.free = e.free \cup {m}, !.unused = e.unused + 1]
      BY <2>1, <3>1, <3>2 DEF sfs_block_free, bitmap_free, Views
    <3>4. e.free \cup {m} = t.free /\ e.unused + 1 = t.unused
      BY <1>0, <2>1, <2>5
    <3>5. r \in Views /\ r.free = t.free /\ r.unused = t.unused /\ r.in = t.in /\ r.dirty = t.dirty /\ r.disk = e.disk /\ r.err = "NO_MEM"
      BY <1>0, <2>1, <2>2, <3>3, <3>4 DEF Views
    <3>6. others \subseteq Blocks
      BY <1>0 DEF Fits
    <3>7. \A q \in others : r.disk[q] = t.disk[q]
      BY <2>1, <3>5, <3>6 DEF Fresh
    <3>8. r \in Kept(t, others)
      BY <2>1, <3>5, <3>7, NoRoomKept
    <3> QED BY <3>5, <3>8 DEF Entered, Ok
  <2>7. CASE e.free # {}
    <3>1. x.free # {} /\ bitmap_alloc(x.free) = n
      BY <2>3, <2>5, <2>7
    <3>2. /\ n \in x.free /\ n \in Blocks /\ n # 0 /\ n # x.in.indirect
          /\ Fresh(x, y, n) /\ y \in Views
      BY <2>4, <3>1, AllocKeeps
    <3>3. n \in Nat
      BY <3>2 DEF Blocks, SizeAssumption
    <3>4. x.in.indirect # 0 /\ x.disk[x.in.indirect][w] = 0
      BY <2>1, <2>3 DEF ZeroBlock
    <3>5. IndexEntry(x, y, n, w) \in Kept(x, others) /\ Enters(x, IndexEntry(x, y, n, w), n, p)
      BY <2>4, <3>2, <3>3, <3>4, IndexEntryKept DEF p
    <3>6. r = IndexEntry(x, y, n, w)
      <4>1. b = [e EXCEPT !.free = @ \ {n}, !.unused = @ - 1, !.disk = sfs_clear_block(@, n)]
        BY <2>7 DEF sfs_block_alloc
      <4>2. b.err = e.err /\ b.disk = sfs_clear_block(e.disk, n) /\ b.dirty = e.dirty /\ b.in = e.in
        BY <2>1, <4>1 DEF Views
      <4>3. Ok(b)
        BY <2>2, <4>2 DEF Ok
      <4>4. r = [b EXCEPT !.disk = sfs_wbuf(@, m, {w}, n), !.in.indirect = m, !.dirty = @ \/ TRUE]
        BY <1>6, <2>2, <4>3 DEF sfs_bmap_get_sub_nolock
      <4>5. x = [e EXCEPT !.in = [e.in EXCEPT !.indirect = m], !.dirty = TRUE]
        BY DEF IndexBlock
      <4>6. y = [x EXCEPT !.free = @ \ {n}, !.unused = @ - 1, !.disk = sfs_clear_block(@, n)]
        BY <3>1 DEF sfs_block_alloc
      <4>7. r = [free |-> e.free \ {n}, unused |-> e.unused - 1, disk |-> sfs_wbuf(sfs_clear_block(e.disk, n), m, {w}, n),
                 in |-> [e.in EXCEPT !.indirect = m], dirty |-> TRUE, err |-> e.err]
        BY <2>1, <4>1, <4>2, <4>4 DEF Views
      <4>8. IndexEntry(x, y, n, w) = [y EXCEPT !.disk = sfs_wbuf(@, m, {w}, n)]
        BY <2>3 DEF IndexEntry
      <4>9. IndexEntry(x, y, n, w) =
              [free |-> e.free \ {n}, unused |-> e.unused - 1, disk |-> sfs_wbuf(sfs_clear_block(e.disk, n), m, {w}, n),
                 in |-> [e.in EXCEPT !.indirect = m], dirty |-> TRUE, err |-> e.err]
        <5>1. x = [free |-> e.free, unused |-> e.unused, disk |-> e.disk, in |-> [e.in EXCEPT !.indirect = m],
                   dirty |-> TRUE, err |-> e.err]
          BY <2>1, <4>5 DEF Views
        <5> HIDE DEF x
        <5>2. y = [free |-> e.free \ {n}, unused |-> e.unused - 1, disk |-> sfs_clear_block(e.disk, n),
                   in |-> [e.in EXCEPT !.indirect = m], dirty |-> TRUE, err |-> e.err]
          BY <4>6, <5>1
        <5> HIDE DEF y
        <5> QED BY <4>8, <5>2
      <4> QED BY <4>7, <4>9
    <3>7. r \in Kept(x, others) /\ r.in.blocks = x.in.blocks
      BY <3>5, <3>6 DEF Enters
    <3>8. t.in.blocks \in Int
      BY <1>0 DEF Inodes
    <3>9. r \in Kept(t, others)
      BY <2>3, <3>7, <3>8, KeptOn
    <3>10. NamesIn(r.disk, r.in)[p] # 0
      BY <1>1, <2>4, <3>2, <3>5, <3>6, EntersNames
    <3> QED BY <2>3, <3>7, <3>9, <3>10 DEF Entered, p
  <2> QED BY <2>6, <2>7
<1> QED BY <1>2, <1>3, <1>4, <1>5, <1>6 DEF p

LEMMA GetKept ==
  ASSUME SizeAssumption, NEW others, NEW t, Good(t, others), Ok(t), NEW index \in Contents
  PROVE  Entered(t, sfs_bmap_get_nolock(t, index, TRUE), index, others)
<1> DEFINE r == sfs_bmap_get_nolock(t, index, TRUE)
           m == bitmap_alloc(t.free)
           b == sfs_block_alloc(t)
<1>0. t \in Views
  BY KeptFacts DEF Good
<1>1. CASE index >= NDIRECT
  <2>1. index - NDIRECT \in Words /\ NDIRECT + (index - NDIRECT) = index
    BY <1>1 DEF Contents, Words, SizeAssumption
  <2>2. r = sfs_bmap_get_sub_nolock(t, index - NDIRECT, TRUE)
    BY <1>1 DEF sfs_bmap_get_nolock
  <2>3. Entered(t, sfs_bmap_get_sub_nolock(t, index - NDIRECT, TRUE), NDIRECT + (index - NDIRECT), others)
    BY <2>1, GetSubKept
  <2> QED BY <2>1, <2>2, <2>3
<1>2. CASE ~(index >= NDIRECT)
  <2>1. index \in 0 .. (NDIRECT - 1) /\ index \in Places /\ NamesIn(t.disk, t.in)[index] = t.in.direct[index]
    <3>1. index \in 0 .. (NDIRECT - 1)
      BY <1>2 DEF Contents, SizeAssumption
    <3> QED BY <3>1, NamesFacts
  <2>2. CASE t.in.direct[index] # 0
    <3>1. r = t
      BY <1>2, <2>2 DEF sfs_bmap_get_nolock
    <3> QED BY <2>1, <2>2, <3>1 DEF Entered, Good
  <2>3. CASE t.in.direct[index] = 0 /\ t.free = {}
    <3>1. Entered(t, b, index, others) /\ ~Ok(b)
      BY <2>3, NoRoomEntered
    <3>2. r = b
      BY <1>2, <2>3, <3>1 DEF sfs_bmap_get_nolock
    <3> QED BY <3>1, <3>2
  <2>4. CASE t.in.direct[index] = 0 /\ t.free # {}
    <3>1. /\ m \in t.free /\ m \in Blocks /\ m # 0 /\ m # t.in.indirect
          /\ Fresh(t, b, m) /\ b \in Views
      BY <2>4, AllocKeeps
    <3>2. Ok(b) /\ m \in Nat
      BY <3>1 DEF Ok, Fresh, Blocks, SizeAssumption
    <3>3. r = DirectEntry(t, b, m, index)
      BY <1>2, <2>4, <3>2 DEF sfs_bmap_get_nolock, DirectEntry
    <3>4. DirectEntry(t, b, m, index) \in Kept(t, others) /\ Enters(t, DirectEntry(t, b, m, index), m, index)
      BY <2>1, <2>4, <3>1, <3>2, DirectEntryKept
    <3> HIDE DEF r, m, b
    <3>5. r \in Kept(t, others) /\ Enters(t, r, m, index)
      BY <3>3, <3>4
    <3>6. NamesIn(r.disk, r.in)[index] # 0
      BY <2>1, <3>1, <3>5, EntersNames
    <3>7. Entered(t, r, index, others)
      BY <3>5, <3>6 DEF Entered, Enters
    <3> QED BY <3>7 DEF r
  <2> QED BY <2>2, <2>3, <2>4
<1> QED BY <1>1, <1>2

\* One more block is counted, and the inode need not become dirty.
LEMMA CountKept ==
  ASSUME SizeAssumption, NEW others, NEW t, Good(t, others), t.in.blocks \in Contents,
         NamesIn(t.disk, t.in)[t.in.blocks] # 0
  PROVE  /\ [t EXCEPT !.in.blocks = @ + 1] \in Kept(t, others)
         /\ [t EXCEPT !.in.blocks = @ + 1].in.blocks = t.in.blocks + 1
         /\ [t EXCEPT !.in.blocks = @ + 1].err = t.err
<1> DEFINE in == [t.in EXCEPT !.blocks = t.in.blocks + 1]
           u == [t EXCEPT !.in.blocks = @ + 1]
<1>0. t \in Views /\ t.in \in Inodes /\ Fits(NamesIn(t.disk, t.in), t.free, t.unused, t.in.blocks, others)
  BY KeptFacts DEF Good
<1>1. u = [t EXCEPT !.in = in]
  OBVIOUS
<1>2. t.in.blocks + 1 \in 0 .. (NDIRECT + BLKSIZE) /\ t.in.blocks <= t.in.blocks + 1
  BY DEF Contents, SizeAssumption
<1>3. in \in Inodes /\ in.blocks = t.in.blocks + 1 /\ in.size = t.in.size /\ in.direct = t.in.direct /\ in.indirect = t.in.indirect
  BY <1>0, <1>2 DEF Inodes
<1> HIDE DEF in, u
<1>4. u \in Views /\ u.free = t.free /\ u.unused = t.unused /\ u.disk = t.disk /\ u.in = in /\ u.dirty = t.dirty /\ u.err = t.err
  BY <1>0, <1>1, <1>3 DEF Views
<1>5. NamesIn(t.disk, in) = NamesIn(t.disk, t.in)
  BY <1>3 DEF NamesIn, BlockAt, BlockOf
<1>6. Fits(NamesIn(t.disk, t.in), t.free, t.unused, t.in.blocks + 1, others)
  BY <1>0, FitsMore
<1>7. Fits(NamesIn(u.disk, u.in), u.free, u.unused, u.in.blocks, others)
  BY <1>3, <1>4, <1>5, <1>6
<1>8. SavedAs(u.in, t.in)
  BY <1>2, <1>3, <1>4 DEF SavedAs
<1>9. u \in Kept(t, others)
  BY <1>4, <1>7, <1>8 DEF Kept
<1> QED BY <1>3, <1>4, <1>9 DEF u

LEMMA LoadCases ==
  ASSUME NEW t, NEW index
  PROVE  /\ index > t.in.blocks => sfs_bmap_load_nolock(t, index) = [t EXCEPT !.err = "index <= din->blocks"]
         /\ ~(index > t.in.blocks) /\ index # t.in.blocks =>
              sfs_bmap_load_nolock(t, index) = sfs_bmap_get_nolock(t, index, FALSE)
         /\ ~(index > t.in.blocks) /\ index = t.in.blocks =>
              sfs_bmap_load_nolock(t, index)
                = IF Ok(sfs_bmap_get_nolock(t, index, TRUE))
                  THEN [sfs_bmap_get_nolock(t, index, TRUE) EXCEPT !.in.blocks = @ + 1]
                  ELSE sfs_bmap_get_nolock(t, index, TRUE)
<1> DEFINE got(c) == IF Ok(sfs_bmap_get_nolock(t, index, c)) /\ c
                     THEN [sfs_bmap_get_nolock(t, index, c) EXCEPT !.in.blocks = @ + 1]
                     ELSE sfs_bmap_get_nolock(t, index, c)
           c == index = t.in.blocks
<1>1. sfs_bmap_load_nolock(t, index) =
        IF index > t.in.blocks THEN [t EXCEPT !.err = "index <= din->blocks"] ELSE got(c)
  BY Zenon DEF sfs_bmap_load_nolock
<1>2. c \in BOOLEAN
  BY Zenon
<1> HIDE DEF c
<1>3. c => c = TRUE
  BY <1>2, Zenon
<1>4. ~c => c = FALSE
  BY <1>2, Zenon
<1>5. c => got(c) = got(TRUE)
  BY <1>3, Zenon
<1>6. ~c => got(c) = sfs_bmap_get_nolock(t, index, FALSE)
  BY <1>4, Zenon
<1> QED BY <1>1, <1>5, <1>6, Zenon DEF c

\* sfs_bmap_load_nolock: the block is there, or the call says why not.
LEMMA LoadKept ==
  ASSUME SizeAssumption, NEW others, NEW t, Good(t, others), Ok(t), NEW index \in Contents
  PROVE  /\ sfs_bmap_load_nolock(t, index) \in Kept(t, others)
         /\ Ok(sfs_bmap_load_nolock(t, index)) => index < sfs_bmap_load_nolock(t, index).in.blocks
<1> DEFINE r == sfs_bmap_load_nolock(t, index)
           b == sfs_bmap_get_nolock(t, index, TRUE)
<1>0. t \in Views /\ t.in.blocks \in Int /\ index \in Int
  BY KeptFacts DEF Good, Contents, SizeAssumption
<1>1. CASE index > t.in.blocks
  <2> DEFINE u == [t EXCEPT !.err = "index <= din->blocks"]
  <2>1. r = u
    BY <1>1, LoadCases, Zenon
  <2>2. u \in Kept(t, others)
    <3>1. "index <= din->blocks" \in {"ok", "NO_MEM"} \cup Asserts
      BY DEF Asserts
    <3> HIDE DEF u
    <3> QED BY <3>1, RefusedKept, Zenon DEF u
  <2>3. u.err = "index <= din->blocks"
    BY <1>0 DEF Views
  <2>4. ~Ok(u)
    BY <2>3 DEF Ok
  <2> HIDE DEF u, r
  <2>5. r \in Kept(t, others) /\ ~Ok(r)
    BY <2>1, <2>2, <2>4, Zenon
  <2> QED BY <2>5, Zenon DEF r
<1>2. CASE index < t.in.blocks
  <2>1. ~(index > t.in.blocks) /\ ~(index = t.in.blocks)
    BY <1>0, <1>2
  <2>2. sfs_bmap_get_nolock(t, index, FALSE) = t
    BY DEF sfs_bmap_get_nolock, sfs_bmap_get_sub_nolock
  <2>3. r = t
    BY <2>1, <2>2, LoadCases, Zenon
  <2> QED BY <1>2, <2>3 DEF Good
<1>3. CASE index = t.in.blocks
  <2>1. ~(index > t.in.blocks)
    BY <1>0, <1>3
  <2>2. Entered(t, b, index, others)
    BY GetKept
  <2>3. r = IF Ok(b) THEN [b EXCEPT !.in.blocks = @ + 1] ELSE b
    BY <1>3, <2>1, LoadCases, Zenon
  <2> HIDE DEF r, b
  <2>4. CASE ~Ok(b)
    BY <2>2, <2>3, <2>4 DEF Entered, r
  <2>5. CASE Ok(b)
    <3>1. Good(b, others) /\ b.in.blocks = t.in.blocks /\ b \in Kept(t, others) /\ NamesIn(b.disk, b.in)[b.in.blocks] # 0
      BY <1>3, <2>2, <2>5, KeptFacts DEF Entered
    <3>2. r \in Kept(b, others) /\ r.in.blocks = b.in.blocks + 1
      BY <1>3, <2>3, <2>5, <3>1, CountKept
    <3>3. r \in Kept(t, others)
      BY <1>0, <3>1, <3>2, KeptOn
    <3> QED BY <1>0, <1>3, <3>1, <3>2, <3>3 DEF r
  <2> QED BY <2>4, <2>5
<1> QED BY <1>0, <1>1, <1>2, <1>3

-----------------------------------------------------------------------------
(* Blocks given back and written *)

\* A view in which the last block is given back.
Gives(t, u) ==
  LET p == t.in.blocks - 1
      q == NamesIn(t.disk, t.in)[p]
  IN  /\ u.free = t.free \cup {q} /\ u.unused = t.unused + 1
      /\ \A r \in Blocks : r # t.in.indirect => u.disk[r] = t.disk[r]
      /\ u.in.blocks = p
      /\ Renamed(t.disk, t.in, u.disk, u.in, p, 0)
      /\ u.dirty

LEMMA GivesKept ==
  ASSUME SizeAssumption, NEW others, NEW t, Good(t, others), t.in.blocks > 0, NEW u \in Views, Gives(t, u)
  PROVE  u \in Kept(t, others)
<1>1. Fits(NamesIn(t.disk, t.in), t.free, t.unused, t.in.blocks, others)
  BY KeptFacts DEF Good
<1>2. Fits(NamesIn(u.disk, u.in), u.free, u.unused, u.in.blocks, others)
  <2> DEFINE p == t.in.blocks - 1
             x == NamesIn(t.disk, t.in)
  <2>1. Fits([x EXCEPT ![p] = 0], t.free \cup {x[p]}, t.unused + 1, p, others)
    BY <1>1, FitsGive
  <2>2. NamesIn(u.disk, u.in) = [x EXCEPT ![p] = 0] /\ u.free = t.free \cup {x[p]} /\ u.unused = t.unused + 1 /\ u.in.blocks = p
    BY Zenon DEF Gives, Renamed
  <2> QED BY <2>1, <2>2
<1>3. \A b \in others : b \in Blocks /\ b # t.in.indirect
  BY <1>1, NamesFacts DEF Fits, Blocks, SizeAssumption
<1>4. \A b \in others : u.disk[b] = t.disk[b]
  BY <1>3 DEF Gives
<1> QED BY <1>2, <1>4 DEF Kept, Gives

\* sfs_bmap_truncate_nolock gives the last block back.
LEMMA TruncateKept ==
  ASSUME SizeAssumption, NEW others, NEW t, Good(t, others), t.in.blocks > 0
  PROVE  /\ sfs_bmap_truncate_nolock(t) \in Kept(t, others)
         /\ sfs_bmap_truncate_nolock(t).in.blocks = t.in.blocks - 1
         /\ sfs_bmap_truncate_nolock(t).err = t.err
<1> DEFINE p == t.in.blocks - 1
           u == sfs_bmap_free_nolock(t, p)
           r == sfs_bmap_truncate_nolock(t)
           x == NamesIn(t.disk, t.in)
           q == x[p]
<1>0. /\ t \in Views /\ t.in \in Inodes /\ t.unused \in Int /\ t.free \subseteq Blocks
      /\ t.disk \in [Blocks -> [Words -> Nat]] /\ t.in.direct \in [0 .. (NDIRECT - 1) -> Nat]
      /\ t.in.blocks \in 0 .. (NDIRECT + BLKSIZE)
      /\ Fits(NamesIn(t.disk, t.in), t.free, t.unused, t.in.blocks, others)
  BY KeptFacts DEF Good
<1>1. p \in Contents /\ p \in 0 .. (NDIRECT + BLKSIZE)
  BY <1>0 DEF Contents, SizeAssumption
<1>2. q \in Blocks /\ q # 0
  <2>1. x[t.in.blocks - 1] \in Blocks \ t.free
    BY <1>0, FitsGive
  <2> QED BY <2>1 DEF Blocks, SizeAssumption
<1>3. r = [u EXCEPT !.in.blocks = @ - 1, !.dirty = TRUE]
  BY DEF sfs_bmap_truncate_nolock
<1>4. t.free \cup {q} \in SUBSET Blocks /\ t.unused + 1 \in Int
  BY <1>0, <1>2
<1>5. ASSUME NEW disk \in [Blocks -> [Words -> Nat]], NEW in \in Inodes,
             r = [free |-> t.free \cup {q}, unused |-> t.unused + 1, disk |-> disk, in |-> in, dirty |-> TRUE, err |-> t.err],
             \A b \in Blocks : b # t.in.indirect => disk[b] = t.disk[b], in.blocks = p,
             Differ(t.disk, t.in, disk, in, p, 0)
      PROVE  r \in Kept(t, others) /\ r.in.blocks = p /\ r.err = t.err
  <2> HIDE DEF r, p, u, q
  <2>1. /\ r.free = t.free \cup {q} /\ r.unused = t.unused + 1 /\ r.disk = disk /\ r.in = in
        /\ r.dirty = TRUE /\ r.err = t.err
    BY <1>5
  <2>2. r \in Views
    BY <1>0, <1>4, <1>5 DEF Views
  <2>3. Renamed(t.disk, t.in, disk, in, p, 0)
    BY <1>5, NamesDiffer, Zenon
  <2>4. Gives(t, r)
    BY <1>5, <2>1, <2>3 DEF Gives, p, q
  <2>5. r \in Kept(t, others)
    BY <2>2, <2>4, GivesKept
  <2> QED BY <1>5, <2>1, <2>5
<1> DEFINE in1 == [t.in EXCEPT !.blocks = p]
<1>6. CASE p < NDIRECT
  <2> DEFINE d == [t.in.direct EXCEPT ![p] = 0]
             in == [in1 EXCEPT !.direct = d]
  <2>1. p \in 0 .. (NDIRECT - 1) /\ ~(p >= NDIRECT)
    BY <1>1, <1>6 DEF SizeAssumption, Contents
  <2>2. q = t.in.direct[p]
    BY <2>1, NamesFacts
  <2>3. d \in [0 .. (NDIRECT - 1) -> Nat] /\ d[p] = 0 /\ \A i \in 0 .. (NDIRECT - 1) : i # p => d[i] = t.in.direct[i]
    BY <1>0, <2>1
  <2>4. u = [sfs_block_free(t, q) EXCEPT !.in.direct[p] = 0, !.dirty = TRUE]
    BY <1>2, <2>1, <2>2 DEF sfs_bmap_free_nolock
  <2>5. u = [free |-> t.free \cup {q}, unused |-> t.unused + 1, disk |-> t.disk,
             in |-> [t.in EXCEPT !.direct = d], dirty |-> TRUE, err |-> t.err]
    <3> HIDE DEF u, q
    <3> QED BY <1>0, <2>4 DEF sfs_block_free, bitmap_free, Views
  <2> HIDE DEF d
  <2>6. in \in Inodes /\ in.direct = d /\ in.indirect = t.in.indirect /\ in.blocks = p /\ in.size = t.in.size
    BY <1>0, <1>1, <2>3 DEF Inodes
  <2>7. [[t.in EXCEPT !.direct = d] EXCEPT !.blocks = @ - 1] = in
    BY <1>0 DEF Inodes
  <2>8. r = [free |-> t.free \cup {q}, unused |-> t.unused + 1, disk |-> t.disk, in |-> in, dirty |-> TRUE, err |-> t.err]
    <3> HIDE DEF u, in, q, r
    <3> QED BY <1>3, <2>5, <2>7
  <2> HIDE DEF in
  <2>9. Differ(t.disk, t.in, t.disk, in, p, 0)
    <3> SUFFICES ASSUME NEW i \in Places PROVE NamesIn(t.disk, in)[i] = IF i = p THEN 0 ELSE x[i]
      BY DEF Differ
    <3>1. CASE i = -1
      BY <3>1, <2>1, <2>6, NamesFacts
    <3>2. CASE i \in 0 .. (NDIRECT - 1)
      <4>1. NamesIn(t.disk, in)[i] = in.direct[i] /\ x[i] = t.in.direct[i]
        BY <3>2, NamesFacts
      <4> QED BY <3>2, <4>1, <2>3, <2>6
    <3>3. ASSUME NEW w \in Words, i = NDIRECT + w PROVE NamesIn(t.disk, in)[i] = IF i = p THEN 0 ELSE x[i]
      <4>1. i # p
        BY <1>6, <1>1, <3>3 DEF Words, SizeAssumption
      <4>2. /\ NamesIn(t.disk, in)[i] = IF in.indirect = 0 THEN 0 ELSE t.disk[in.indirect][w]
            /\ x[i] = IF t.in.indirect = 0 THEN 0 ELSE t.disk[t.in.indirect][w]
        BY <3>3, NamesFacts
      <4> QED BY <4>1, <4>2, <2>6
    <3> QED BY <3>1, <3>2, <3>3, PlacesAre
  <2> HIDE DEF r, q
  <2>10. r \in Kept(t, others) /\ r.in.blocks = p /\ r.err = t.err
    BY <1>0, <1>5, <2>6, <2>8, <2>9
  <2> QED BY <2>10 DEF r
<1>7. CASE ~(p < NDIRECT)
  <2>0. PICK w : w = p - NDIRECT
    OBVIOUS
  <2> DEFINE k == t.in.indirect
             disk == sfs_wbuf(t.disk, k, {w}, 0)
  <2>1. w \in Words /\ NDIRECT + w = p /\ p >= NDIRECT
    BY <1>1, <1>7, <2>0 DEF SizeAssumption, Contents, Words
  <2>2. q = IF k = 0 THEN 0 ELSE t.disk[k][w]
    BY <2>1, NamesFacts
  <2>3. k # 0 /\ q = t.disk[k][w]
    BY <1>2, <2>2
  <2>4. k \in Blocks
    <3>1. k \in 0 .. NBlock
      BY <1>0, NamesFacts DEF Fits
    <3> QED BY <2>3, <3>1 DEF Blocks, SizeAssumption
  <2>5. /\ disk \in [Blocks -> [Words -> Nat]]
        /\ \A y \in Words : disk[k][y] = IF y = w THEN 0 ELSE t.disk[k][y]
        /\ \A b \in Blocks : b # k => disk[b] = t.disk[b]
    <3>1. 0 \in Nat
      OBVIOUS
    <3>2. /\ disk \in [Blocks -> [Words -> Nat]]
          /\ \A y \in Words : disk[k][y] = IF y \in {w} THEN 0 ELSE t.disk[k][y]
          /\ \A b \in Blocks : b # k => disk[b] = t.disk[b]
      <4>1. Rewritten(t.disk, k, {w}, 0)
        BY <1>0, <2>4, <3>1, WriteFacts
      <4> QED BY <4>1, Zenon DEF Rewritten
    <3> HIDE DEF disk
    <3> QED BY <3>2
  <2>6. u = sfs_block_free([t EXCEPT !.disk = disk], q)
    BY <1>2, <2>0, <2>1, <2>3 DEF sfs_bmap_free_nolock, sfs_bmap_free_sub_nolock, sfs_rbuf
  <2> HIDE DEF disk
  <2>7. u = [free |-> t.free \cup {q}, unused |-> t.unused + 1, disk |-> disk,
             in |-> t.in, dirty |-> t.dirty, err |-> t.err]
    <3> HIDE DEF u, q
    <3> QED BY <1>0, <2>6 DEF sfs_block_free, bitmap_free, Views
  <2>8. in1 \in Inodes /\ in1.direct = t.in.direct /\ in1.indirect = k /\ in1.blocks = p
    BY <1>0, <1>1 DEF Inodes
  <2>9. r = [free |-> t.free \cup {q}, unused |-> t.unused + 1, disk |-> disk, in |-> in1, dirty |-> TRUE, err |-> t.err]
    <3> HIDE DEF u, q, r
    <3> QED BY <1>3, <2>7
  <2> HIDE DEF in1
  <2>10. Differ(t.disk, t.in, disk, in1, p, 0)
    <3> SUFFICES ASSUME NEW i \in Places PROVE NamesIn(disk, in1)[i] = IF i = p THEN 0 ELSE x[i]
      BY DEF Differ
    <3>1. CASE i = -1
      BY <3>1, <1>1, <2>8, NamesFacts DEF Contents, SizeAssumption
    <3>2. CASE i \in 0 .. (NDIRECT - 1)
      <4>1. NamesIn(disk, in1)[i] = in1.direct[i] /\ x[i] = t.in.direct[i]
        BY <3>2, NamesFacts
      <4>2. i # p
        BY <3>2, <2>1, <1>1 DEF SizeAssumption
      <4> QED BY <4>1, <4>2, <2>8
    <3>3. ASSUME NEW y \in Words, i = NDIRECT + y PROVE NamesIn(disk, in1)[i] = IF i = p THEN 0 ELSE x[i]
      <4>1. i = p <=> y = w
        <5>1. NDIRECT \in Int /\ y \in Int /\ w \in Int
          BY <2>1 DEF Words, SizeAssumption
        <5> HIDE DEF p
        <5> QED BY <5>1, <3>3, <2>1
      <4>2. /\ NamesIn(disk, in1)[i] = disk[k][y]
            /\ x[i] = t.disk[k][y]
        BY <2>3, <2>8, <3>3, NamesFacts
      <4> QED BY <4>1, <4>2, <2>5
    <3> QED BY <3>1, <3>2, <3>3, PlacesAre
  <2> HIDE DEF r, q
  <2>11. r \in Kept(t, others) /\ r.in.blocks = p /\ r.err = t.err
    BY <1>5, <2>5, <2>8, <2>9, <2>10
  <2> QED BY <2>11 DEF r
<1> QED BY <1>6, <1>7

\* sfs_wbuf and sfs_wblock write what the file has.
LEMMA MovedKept ==
  ASSUME SizeAssumption, NEW others, NEW t, Good(t, others), NEW index \in Contents, index < t.in.blocks,
         NEW from, NEW to, NEW write \in BOOLEAN, NEW v \in Nat
  PROVE  /\ Moved(t, index, from, to, write, v) \in Kept(t, others)
         /\ Moved(t, index, from, to, write, v).in = t.in
         /\ Moved(t, index, from, to, write, v).err = t.err
<1> DEFINE u == Moved(t, index, from, to, write, v)
           q == BlockOf(t.disk, t.in, index)
           words == {w \in Words : index * BLKSIZE + w \in from .. (to - 1)}
           disk == sfs_wbuf(t.disk, q, words, v)
<1>0. /\ t \in Views /\ t.disk \in [Blocks -> [Words -> Nat]]
      /\ Fits(NamesIn(t.disk, t.in), t.free, t.unused, t.in.blocks, others)
  BY KeptFacts DEF Good
<1>1. CASE ~write
  BY <1>1 DEF Moved, Good
<1>2. CASE write
  <2>1. u = [t EXCEPT !.disk = disk]
    BY <1>2 DEF Moved
  <2>2. NamesIn(t.disk, t.in)[index] = q /\ index # -1 /\ index \in Places
    BY DEF NamesIn, BlockAt, Places, Contents, SizeAssumption
  <2>3. q \in Blocks /\ q \notin others /\ q # t.in.indirect
    <3>1. q # 0 /\ q \in 0 .. NBlock
      BY <1>0, <2>2 DEF Fits
    <3>2. q \notin others
      BY <1>0, <2>2, <3>1 DEF Fits
    <3>3. q # t.in.indirect
      <4>1. -1 \in Places /\ NamesIn(t.disk, t.in)[-1] = t.in.indirect
        BY NamesFacts
      <4> QED BY <1>0, <2>2, <3>1, <4>1 DEF Fits
    <3> QED BY <3>1, <3>2, <3>3 DEF Blocks, SizeAssumption
  <2>4. disk \in [Blocks -> [Words -> Nat]] /\ \A b \in Blocks : b # q => disk[b] = t.disk[b]
    BY <1>0, <2>3, WriteFacts DEF Rewritten
  <2> HIDE DEF disk, u
  <2>5. /\ u \in Views /\ u.free = t.free /\ u.unused = t.unused /\ u.in = t.in /\ u.dirty = t.dirty
        /\ u.disk = disk /\ u.err = t.err
    BY <1>0, <2>1, <2>4 DEF Views
  <2>6. others \subseteq Blocks
    BY <1>0 DEF Fits
  <2>7. \A b \in others : u.disk[b] = t.disk[b]
    BY <2>3, <2>4, <2>5, <2>6
  <2>8. t.in.indirect # 0 => disk[t.in.indirect] = t.disk[t.in.indirect]
    <3>1. t.in.indirect \in 0 .. NBlock
      BY <1>0, NamesFacts DEF Fits
    <3> QED BY <2>3, <2>4, <3>1 DEF Blocks, SizeAssumption
  <2>9. NamesIn(disk, t.in) = NamesIn(t.disk, t.in)
    BY <2>8, NamesElsewhere
  <2>10. u \in Kept(t, others)
    BY <2>5, <2>7, <2>9, NoRoomKept
  <2> QED BY <2>5, <2>10 DEF u
<1> QED BY <1>1, <1>2

-----------------------------------------------------------------------------
(* Files cut and enlarged *)

\* A new size makes the inode dirty.
Resized(t, size) == [t EXCEPT !.in.size = size, !.dirty = TRUE]

LEMMA ResizedKept ==
  ASSUME SizeAssumption, NEW others, NEW t, Good(t, others), NEW size \in 0 .. (MaxSize + BLKSIZE)
  PROVE  Resized(t, size) \in Kept(t, others)
<1> DEFINE in == [t.in EXCEPT !.size = size]
           u == Resized(t, size)
<1>0. t \in Views /\ t.in \in Inodes /\ Fits(NamesIn(t.disk, t.in), t.free, t.unused, t.in.blocks, others)
  BY KeptFacts DEF Good
<1>1. u = [t EXCEPT !.in = in, !.dirty = TRUE]
  BY DEF Resized
<1>2. in \in Inodes /\ in.blocks = t.in.blocks /\ in.direct = t.in.direct /\ in.indirect = t.in.indirect
  BY <1>0 DEF Inodes
<1> HIDE DEF in, u
<1>3. u \in Views /\ u.free = t.free /\ u.unused = t.unused /\ u.disk = t.disk /\ u.in = in /\ u.dirty = TRUE
  BY <1>0, <1>1, <1>2 DEF Views
<1>4. NamesIn(t.disk, in) = NamesIn(t.disk, t.in)
  BY <1>2 DEF NamesIn, BlockAt, BlockOf
<1>5. Fits(NamesIn(u.disk, u.in), u.free, u.unused, u.in.blocks, others)
  BY <1>0, <1>2, <1>3, <1>4
<1>6. u \in Kept(t, others)
  BY <1>3, <1>5 DEF Kept
<1> QED BY <1>6 DEF u

\* Loaded of sfs_truncfile, up to n blocks.
LoadTurn(t, k, y) ==
  IF k <= t.in.blocks THEN t
  ELSE IF ~Ok(y) THEN y
  ELSE sfs_bmap_load_nolock(y, k - 1)
Loads(t, n, f) == f = [k \in 0 .. n |-> LoadTurn(t, k, f[k - 1])]
LoadsOf(t, n) == CHOOSE f : Loads(t, n, f)

LEMMA LoadTurnKept ==
  ASSUME SizeAssumption, NEW others, NEW t, Good(t, others), NEW k \in 1 .. (NDIRECT + BLKSIZE), NEW y \in Kept(t, others)
  PROVE  LoadTurn(t, k, y) \in Kept(t, others)
<1>1. CASE k <= t.in.blocks
  BY <1>1 DEF LoadTurn, Good
<1>2. CASE ~(k <= t.in.blocks) /\ ~Ok(y)
  BY <1>2 DEF LoadTurn
<1>3. CASE ~(k <= t.in.blocks) /\ Ok(y)
  <2>1. k - 1 \in Contents /\ t.in.blocks \in Int
    BY KeptFacts DEF Good, Contents, SizeAssumption
  <2>2. Good(y, others)
    BY KeptFacts
  <2>3. sfs_bmap_load_nolock(y, k - 1) \in Kept(y, others)
    BY <1>3, <2>1, <2>2, LoadKept
  <2>4. sfs_bmap_load_nolock(y, k - 1) \in Kept(t, others)
    BY <2>1, <2>3, KeptOn
  <2> QED BY <1>3, <2>4 DEF LoadTurn
<1> QED BY <1>1, <1>2, <1>3

LEMMA LoadsKept ==
  ASSUME SizeAssumption, NEW others, NEW t, Good(t, others), NEW n \in 0 .. (NDIRECT + BLKSIZE)
  PROVE  LoadsOf(t, n)[n] \in Kept(t, others)
<1> DEFINE X == Kept(t, others)
           G == [k \in 1 .. n |-> [y \in X |-> LoadTurn(t, k, y)]]
<1>0. n \in Nat /\ t \in X /\ \A k \in 1 .. n : k \in 1 .. (NDIRECT + BLKSIZE)
  BY DEF Good, SizeAssumption
<1>1. \A k \in 1 .. n : \A y \in X : LoadTurn(t, k, y) \in X
  BY <1>0, LoadTurnKept
<1>2. \A y : LoadTurn(t, 0, y) = t
  <2>1. 0 <= t.in.blocks
    BY KeptFacts DEF Good
  <2> QED BY <2>1 DEF LoadTurn
<1> HIDE DEF X
<1>3. G \in [1 .. n -> [X -> X]]
  BY <1>1
<1>4. PICK f \in [0 .. n -> X] : IsLoop(f, n, t, G)
  <2> HIDE DEF G
  <2> QED BY <1>0, <1>3, LoopRuns
<1>5. Loads(t, n, f)
  <2> SUFFICES ASSUME NEW k \in 0 .. n PROVE f[k] = LoadTurn(t, k, f[k - 1])
    BY DEF Loads
  <2>1. f[k] = IF k = 0 THEN t ELSE G[k][f[k - 1]]
    BY <1>4 DEF IsLoop
  <2>2. CASE k = 0
    BY <1>2, <2>1, <2>2
  <2>3. CASE k # 0
    <3>1. k \in 1 .. n /\ k - 1 \in 0 .. n
      BY <1>0, <2>3
    <3>2. f[k - 1] \in X
      BY <3>1
    <3> QED BY <2>1, <2>3, <3>1, <3>2
  <2> QED BY <2>2, <2>3
<1>6. PICK g : g = LoadsOf(t, n)
  OBVIOUS
<1>7. Loads(t, n, g)
  BY <1>5, <1>6, Zenon DEF LoadsOf
<1>8. \A k \in 0 .. n : g[k] = LoadTurn(t, k, g[k - 1])
  BY <1>7, Zenon DEF Loads
<1> DEFINE S == {k \in Nat : g[k] \in X}
<1>9. 0 \in S
  BY <1>0, <1>2, <1>8
<1>10. ASSUME NEW k \in 1 .. n, k - 1 \in S PROVE k \in S
  <2>1. k \in 0 .. n /\ k \in Nat /\ g[k - 1] \in X
    BY <1>0, <1>10
  <2>2. g[k] = LoadTurn(t, k, g[k - 1])
    BY <1>8, <2>1, Zenon
  <2>3. LoadTurn(t, k, g[k - 1]) \in X
    BY <1>1, <2>1
  <2> QED BY <2>1, <2>2, <2>3
<1>11. 0 .. n \subseteq S
  <2> HIDE DEF S
  <2> QED BY <1>0, <1>9, <1>10, LoopInduction
<1> QED BY <1>0, <1>6, <1>11 DEF X

\* Cut of sfs_truncfile.
Cuts(t, f) == f = [k \in 0 .. t.in.blocks |-> IF k = 0 THEN t ELSE sfs_bmap_truncate_nolock(f[k - 1])]
CutsOf(t) == CHOOSE f : Cuts(t, f)

\* After k turns.
CutTo(t, y, k, others) == y \in Kept(t, others) /\ y.in.blocks = t.in.blocks - k

LEMMA CutTurnKept ==
  ASSUME SizeAssumption, NEW others, NEW t, Good(t, others), NEW k \in 1 .. t.in.blocks, NEW y, CutTo(t, y, k - 1, others)
  PROVE  CutTo(t, sfs_bmap_truncate_nolock(y), k, others)
<1>1. t.in.blocks \in Int /\ Good(y, others) /\ y \in Kept(t, others) /\ y.in.blocks = t.in.blocks - (k - 1)
  BY KeptFacts DEF Good, CutTo
<1>2. y.in.blocks > 0 /\ y.in.blocks - 1 = t.in.blocks - k
  BY <1>1
<1>3. /\ sfs_bmap_truncate_nolock(y) \in Kept(y, others)
      /\ sfs_bmap_truncate_nolock(y).in.blocks = y.in.blocks - 1
  BY <1>1, <1>2, TruncateKept
<1>4. sfs_bmap_truncate_nolock(y) \in Kept(t, others)
  BY <1>1, <1>3, KeptOn
<1> QED BY <1>2, <1>3, <1>4 DEF CutTo

LEMMA CutsKept ==
  ASSUME SizeAssumption, NEW others, NEW t, Good(t, others), NEW m \in 0 .. t.in.blocks
  PROVE  CutsOf(t)[m] \in Kept(t, others)
<1> DEFINE X == Kept(t, others)
           n == t.in.blocks
           G == [k \in 1 .. n |-> [y \in X |-> IF CutTo(t, y, k - 1, others) THEN sfs_bmap_truncate_nolock(y) ELSE y]]
<1>0. n \in Nat /\ t \in X /\ CutTo(t, t, 0, others)
  BY KeptFacts DEF Good, SizeAssumption, CutTo
<1>1. \A k \in 1 .. n : \A y : CutTo(t, y, k - 1, others) => CutTo(t, sfs_bmap_truncate_nolock(y), k, others)
  BY CutTurnKept
<1>2. \A y, k : CutTo(t, y, k, others) => y \in X
  BY DEF CutTo
<1> HIDE DEF X, n
<1>3. G \in [1 .. n -> [X -> X]]
  BY <1>1, <1>2
<1>4. PICK f \in [0 .. n -> X] : IsLoop(f, n, t, G)
  <2> HIDE DEF G
  <2> QED BY <1>0, <1>3, LoopRuns
<1>5. \A k \in 0 .. n : f[k] = IF k = 0 THEN t ELSE G[k][f[k - 1]]
  BY <1>4 DEF IsLoop
<1> DEFINE R == {k \in Nat : CutTo(t, f[k], k, others)}
<1>6. 0 \in R
  <2>1. 0 \in 0 .. n
    BY <1>0
  <2>2. f[0] = t
    BY <1>5, <2>1, Zenon
  <2> QED BY <1>0, <2>2
<1>7. ASSUME NEW k \in 1 .. n, k - 1 \in R PROVE k \in R /\ f[k] = sfs_bmap_truncate_nolock(f[k - 1])
  <2>1. k \in 0 .. n /\ k # 0 /\ k \in Nat /\ k - 1 \in 0 .. n
    BY <1>0
  <2>2. CutTo(t, f[k - 1], k - 1, others) /\ f[k - 1] \in X
    BY <1>2, <1>7
  <2>3. f[k] = G[k][f[k - 1]]
    BY <1>5, <2>1
  <2>4. f[k] = sfs_bmap_truncate_nolock(f[k - 1])
    BY <2>2, <2>3
  <2>5. CutTo(t, f[k], k, others)
    BY <1>1, <2>2, <2>4
  <2> QED BY <2>1, <2>4, <2>5
<1>8. 0 .. n \subseteq R
  <2> HIDE DEF R
  <2> QED BY <1>0, <1>6, <1>7, LoopInduction
<1>9. Cuts(t, f)
  <2> SUFFICES ASSUME NEW k \in 0 .. n PROVE f[k] = IF k = 0 THEN t ELSE sfs_bmap_truncate_nolock(f[k - 1])
    BY DEF Cuts, n
  <2>1. CASE k # 0
    <3>1. k \in 1 .. n /\ k - 1 \in 0 .. n
      BY <1>0, <2>1
    <3>2. k - 1 \in R
      BY <1>8, <3>1
    <3> QED BY <1>7, <2>1, <3>1, <3>2
  <2> QED BY <1>5, <2>1
<1>10. PICK g : g = CutsOf(t)
  OBVIOUS
<1>11. Cuts(t, g)
  BY <1>9, <1>10, Zenon DEF CutsOf
<1>12. \A k \in 0 .. n : g[k] = IF k = 0 THEN t ELSE sfs_bmap_truncate_nolock(g[k - 1])
  BY <1>11, Zenon DEF Cuts, n
<1> DEFINE S == {k \in Nat : CutTo(t, g[k], k, others)}
<1>13. 0 \in S
  BY <1>0, <1>12
<1>14. ASSUME NEW k \in 1 .. n, k - 1 \in S PROVE k \in S
  <2>1. k \in 0 .. n /\ k # 0 /\ k \in Nat /\ CutTo(t, g[k - 1], k - 1, others)
    BY <1>0, <1>14
  <2>2. g[k] = sfs_bmap_truncate_nolock(g[k - 1])
    BY <1>12, <2>1, Zenon
  <2>3. CutTo(t, g[k], k, others)
    BY <1>1, <2>1, <2>2
  <2> QED BY <2>1, <2>3
<1>15. 0 .. n \subseteq S
  <2> HIDE DEF S
  <2> QED BY <1>0, <1>13, <1>14, LoopInduction
<1>16. CutTo(t, g[m], m, others)
  BY <1>15 DEF n
<1> QED BY <1>2, <1>10, <1>16 DEF X

\* RoundUpDiv counts the blocks of n words.
LEMMA RoundUpFacts ==
  ASSUME SizeAssumption, NEW n \in 0 .. MaxSize
  PROVE  RoundUpDiv(n) \in 0 .. (NDIRECT + BLKSIZE)
<1> DEFINE q == RoundUpDiv(n)
           c == NDIRECT + BLKSIZE
<1>1. BLKSIZE \in Nat \ {0} /\ n \in Nat /\ c \in Nat /\ n + BLKSIZE - 1 \in Nat /\ n <= c * BLKSIZE
  BY DEF SizeAssumption
<1>2. q \in Nat /\ q * BLKSIZE <= n + BLKSIZE - 1
  BY <1>1 DEF RoundUpDiv
<1> HIDE DEF c, q
<1>3. q * BLKSIZE < (c + 1) * BLKSIZE
  <2>1. (c + 1) * BLKSIZE = c * BLKSIZE + BLKSIZE
    BY <1>1
  <2> QED BY <1>1, <1>2, <2>1
<1>4. q < c + 1
  BY <1>1, <1>2, <1>3
<1> QED BY <1>1, <1>2, <1>4 DEF q, c

\* sfs_truncfile, whether it finds room or not.
LEMMA TruncFileKept ==
  ASSUME SizeAssumption, NEW others, NEW t, Good(t, others), NEW len \in 0 .. MaxSize
  PROVE  sfs_truncfile(t, len) \in Kept(t, others)
<1> DEFINE n == RoundUpDiv(len)
           had == t.in.blocks
           u == IF had < n THEN LoadsOf(t, n)[n] ELSE CutsOf(t)[had - n]
           e == [t EXCEPT !.err = "tblks == din->blocks"]
<1>1. sfs_truncfile(t, len) =
        IF t.in.size = len THEN (IF n = had THEN t ELSE e)
        ELSE IF Ok(u) THEN Resized(u, len) ELSE u
  BY Zenon DEF sfs_truncfile, LoadsOf, Loads, LoadTurn, CutsOf, Cuts, Resized
<1>2. n \in 0 .. (NDIRECT + BLKSIZE) /\ had \in Nat /\ n \in Nat
  BY RoundUpFacts, KeptFacts DEF Good, SizeAssumption
<1> HIDE DEF n
<1>3. u \in Kept(t, others)
  <2>1. CASE had < n
    BY <1>2, <2>1, LoadsKept
  <2>2. CASE ~(had < n)
    <3>1. had - n \in 0 .. t.in.blocks
      BY <1>2, <2>2
    <3> QED BY <2>2, <3>1, CutsKept
  <2> QED BY <2>1, <2>2
<1> HIDE DEF u
<1>4. Resized(u, len) \in Kept(t, others)
  <2>1. len \in 0 .. (MaxSize + BLKSIZE)
    BY DEF SizeAssumption
  <2>2. Good(u, others)
    BY <1>3, KeptFacts
  <2>3. Resized(u, len) \in Kept(u, others)
    BY <2>1, <2>2, ResizedKept
  <2> QED BY <1>2, <1>3, <2>3, KeptOn
<1>5. e \in Kept(t, others)
  <2>1. "tblks == din->blocks" \in {"ok", "NO_MEM"} \cup Asserts
    BY DEF Asserts
  <2> HIDE DEF e
  <2> QED BY <2>1, RefusedKept, Zenon DEF e
<1> HIDE DEF had, e
<1>6. t \in Kept(t, others)
  BY DEF Good
<1> QED BY <1>1, <1>3, <1>4, <1>5, <1>6

-----------------------------------------------------------------------------
(* Transfers *)

LEMMA LesserOf ==
  ASSUME NEW a \in Int, NEW b \in Int
  PROVE  Min({a, b}) = IF a <= b THEN a ELSE b
BY DEF Min

\* The words of the k-th block of a transfer.
From(offset, k) == IF k = 1 THEN offset ELSE (offset \div BLKSIZE + k - 1) * BLKSIZE
To(offset, endpos, k) == Min({(offset \div BLKSIZE + k) * BLKSIZE, endpos})
CountOf(offset, endpos) == RoundUpDiv(endpos) - offset \div BLKSIZE

\* The blocks of a transfer lie in the file one after the other.
LEMMA TransferFacts ==
  ASSUME SizeAssumption, NEW offset \in Nat, NEW endpos \in 0 .. MaxSize, offset < endpos
  PROVE  /\ CountOf(offset, endpos) \in Nat
         /\ \A k \in 1 .. CountOf(offset, endpos) :
              /\ offset \div BLKSIZE + k - 1 \in Contents
              /\ From(offset, k) \in Int /\ To(offset, endpos, k) \in Int
              /\ From(offset, k) = IF k = 1 THEN offset ELSE To(offset, endpos, k - 1)
              /\ From(offset, k) <= To(offset, endpos, k) /\ To(offset, endpos, k) <= endpos
         /\ To(offset, endpos, 1) \in offset .. endpos
         /\ To(offset, endpos, 1) <= offset + BLKSIZE
<1> DEFINE B == BLKSIZE
           first == offset \div B
           last == RoundUpDiv(endpos)
<1>1. B \in Nat \ {0} /\ endpos \in Nat
  BY DEF SizeAssumption
<1>2. first \in Nat /\ first * B <= offset /\ offset < first * B + B
  BY <1>1
<1>3. last \in Nat /\ last <= NDIRECT + BLKSIZE
  BY RoundUpFacts DEF SizeAssumption
<1>4. endpos <= last * B /\ last * B < endpos + B
  <2>1. endpos + B - 1 \in Nat /\ last = (endpos + B - 1) \div B
    BY <1>1 DEF RoundUpDiv
  <2> HIDE DEF last
  <2>2. last * B <= endpos + B - 1 /\ endpos + B - 1 < last * B + B
    BY <1>1, <2>1
  <2> QED BY <1>1, <1>3, <2>2
<1> HIDE DEF B, first, last
<1>5. first < last
  BY <1>1, <1>2, <1>3, <1>4
<1>6. CountOf(offset, endpos) = last - first
  BY DEF CountOf, last, first, B
<1>7. \A k \in Nat : (first + k) * B \in Int
  BY <1>1, <1>2
<1>8. \A k \in Nat : To(offset, endpos, k) = IF (first + k) * B <= endpos THEN (first + k) * B ELSE endpos
  BY <1>1, <1>7, LesserOf DEF To, first, B
<1>9. \A k : From(offset, k) = IF k = 1 THEN offset ELSE (first + k - 1) * B
  BY DEF From, first, B
<1>10. (first + 1) * B = first * B + B
  BY <1>1, <1>2
<1>11. To(offset, endpos, 1) \in offset .. endpos /\ To(offset, endpos, 1) <= offset + B
  BY <1>1, <1>2, <1>8, <1>10
<1>12. ASSUME NEW k \in 1 .. (last - first)
       PROVE  /\ first + k - 1 \in Contents
              /\ From(offset, k) \in Int /\ To(offset, endpos, k) \in Int
              /\ From(offset, k) = IF k = 1 THEN offset ELSE To(offset, endpos, k - 1)
              /\ From(offset, k) <= To(offset, endpos, k) /\ To(offset, endpos, k) <= endpos
  <2>1. first + k - 1 \in Contents
    BY <1>2, <1>3 DEF Contents, SizeAssumption
  <2>2. (first + k) * B = (first + k - 1) * B + B /\ (first + k - 1) * B \in Int
    BY <1>1, <1>2
  <2>3. (first + k - 1) * B <= (last - 1) * B
    BY <1>1, <1>2, <1>3
  <2>4. (last - 1) * B = last * B - B
    BY <1>1, <1>3
  <2>5. (first + k - 1) * B < endpos
    BY <1>1, <1>3, <1>4, <2>2, <2>3, <2>4
  <2>6. k \in Nat /\ (first + k) * B \in Int
    BY <1>7
  <2>7. To(offset, endpos, k) \in Int /\ To(offset, endpos, k) <= endpos
    BY <1>1, <1>8, <2>6
  <2>8. CASE k = 1
    BY <1>9, <1>11, <2>1, <2>7, <2>8
  <2>9. CASE k # 1
    <3>1. From(offset, k) = (first + k - 1) * B
      BY <1>9, <2>9
    <3>2. k - 1 \in Nat /\ first + (k - 1) = first + k - 1
      BY <1>2
    <3>3. To(offset, endpos, k - 1) = (first + k - 1) * B
      <4>1. To(offset, endpos, k - 1) = IF (first + (k - 1)) * B <= endpos THEN (first + (k - 1)) * B ELSE endpos
        BY <1>8, <3>2
      <4> QED BY <1>1, <2>2, <2>5, <3>2, <4>1
    <3>4. From(offset, k) <= To(offset, endpos, k)
      <4>1. To(offset, endpos, k) = IF (first + k) * B <= endpos THEN (first + k) * B ELSE endpos
        BY <1>8, <2>6
      <4> QED BY <1>1, <2>2, <2>5, <3>1, <4>1
    <3> QED BY <2>1, <2>2, <2>7, <2>9, <3>1, <3>3, <3>4
  <2> QED BY <2>8, <2>9
<1> QED BY <1>1, <1>3, <1>2, <1>5, <1>6, <1>11, <1>12 DEF first, B

\* Part of sfs_io_nolock.
ShareTurn(offset, endpos, write, v, k, y) ==
  IF ~Ok(y.t) THEN y
  ELSE LET u == sfs_bmap_load_nolock(y.t, offset \div BLKSIZE + k - 1)
       IN  IF ~Ok(u) THEN [y EXCEPT !.t = u]
           ELSE [t |-> Moved(u, offset \div BLKSIZE + k - 1, From(offset, k), To(offset, endpos, k), write, v),
                 alen |-> y.alen + To(offset, endpos, k) - From(offset, k)]
Shares(t, offset, endpos, write, v, f) ==
  f = [k \in 0 .. CountOf(offset, endpos) |->
         IF k = 0 THEN [t |-> t, alen |-> 0] ELSE ShareTurn(offset, endpos, write, v, k, f[k - 1])]
SharesOf(t, offset, endpos, write, v) == CHOOSE f : Shares(t, offset, endpos, write, v, f)

Done(t, others) == [t : Kept(t, others), alen : Int]

\* What the k-th block leaves of the transfer's length.
MovedTo(offset, endpos, k) == IF k = 0 THEN 0 ELSE To(offset, endpos, k) - offset

LEMMA ShareTurnKept ==
  ASSUME SizeAssumption, NEW others, NEW t, Good(t, others), NEW offset \in Nat, NEW endpos \in 0 .. MaxSize,
         offset < endpos, NEW write \in BOOLEAN, NEW v \in Nat,
         NEW k \in 1 .. CountOf(offset, endpos), NEW y \in Done(t, others)
  PROVE  /\ ShareTurn(offset, endpos, write, v, k, y) \in Done(t, others)
         /\ y.alen \in 0 .. MovedTo(offset, endpos, k - 1)
              => ShareTurn(offset, endpos, write, v, k, y).alen \in 0 .. MovedTo(offset, endpos, k)
<1> DEFINE index == offset \div BLKSIZE + k - 1
           a == From(offset, k)
           b == To(offset, endpos, k)
           u == sfs_bmap_load_nolock(y.t, index)
           w == Moved(u, index, a, b, write, v)
           z == ShareTurn(offset, endpos, write, v, k, y)
<1>0. y.t \in Kept(t, others) /\ y.alen \in Int /\ y = [t |-> y.t, alen |-> y.alen]
  BY DEF Done
<1>1. /\ index \in Contents /\ a \in Int /\ b \in Int /\ a <= b /\ b <= endpos
      /\ a = IF k = 1 THEN offset ELSE To(offset, endpos, k - 1)
      /\ k \in Nat /\ CountOf(offset, endpos) \in Nat
  BY TransferFacts
<1>2. k # 1 => To(offset, endpos, k - 1) \in Int
  BY <1>1
<1>3. t.in.blocks \in Int /\ Good(y.t, others)
  BY <1>0, KeptFacts DEF Good
<1>4. /\ MovedTo(offset, endpos, k) = b - offset
      /\ MovedTo(offset, endpos, k - 1) = a - offset
  BY <1>1, <1>2 DEF MovedTo
<1>5. CASE ~Ok(y.t)
  <2>1. z = y
    BY <1>5 DEF ShareTurn
  <2> HIDE DEF z, a, b
  <2> QED BY <1>0, <1>1, <1>4, <2>1 DEF z
<1>6. CASE Ok(y.t)
  <2>1. u \in Kept(y.t, others) /\ (Ok(u) => index < u.in.blocks)
    BY <1>1, <1>3, <1>6, LoadKept
  <2>2. u \in Kept(t, others)
    BY <1>0, <1>3, <2>1, KeptOn
  <2>3. CASE ~Ok(u)
    <3>1. z = [y EXCEPT !.t = u]
      BY <1>6, <2>3 DEF ShareTurn
    <3>2. z = [t |-> u, alen |-> y.alen]
      <4> HIDE DEF z, u
      <4> QED BY <1>0, <3>1
    <3> HIDE DEF z, u, a, b
    <3>3. z \in Done(t, others) /\ z.alen = y.alen
      BY <1>0, <2>2, <3>2 DEF Done
    <3> QED BY <1>0, <1>1, <1>4, <3>3 DEF z
  <2>4. CASE Ok(u)
    <3>1. z = [t |-> w, alen |-> y.alen + b - a]
      BY <1>6, <2>4 DEF ShareTurn
    <3>2. w \in Kept(t, others)
      <4>1. Good(u, others)
        BY <2>2, KeptFacts
      <4>2. w \in Kept(u, others)
        BY <1>1, <2>1, <2>4, <4>1, MovedKept
      <4> QED BY <1>3, <2>2, <4>2, KeptOn
    <3> HIDE DEF z, u, a, b, w
    <3>3. y.alen + b - a \in Int
      BY <1>0, <1>1
    <3>4. z \in Done(t, others) /\ z.alen = y.alen + b - a
      BY <3>1, <3>2, <3>3 DEF Done
    <3> QED BY <1>0, <1>1, <1>4, <3>4 DEF z
  <2> QED BY <2>3, <2>4
<1> QED BY <1>5, <1>6

LEMMA SharesKept ==
  ASSUME SizeAssumption, NEW others, NEW t, Good(t, others), NEW offset \in Nat, NEW endpos \in 0 .. MaxSize,
         offset < endpos, NEW write \in BOOLEAN, NEW v \in Nat,
         NEW z, z = SharesOf(t, offset, endpos, write, v)[CountOf(offset, endpos)]
  PROVE  z.t \in Kept(t, others) /\ z.alen \in 0 .. (endpos - offset) /\ z = [t |-> z.t, alen |-> z.alen]
<1> DEFINE X == Done(t, others)
           n == CountOf(offset, endpos)
           x == [t |-> t, alen |-> 0]
           turn(k, y) == ShareTurn(offset, endpos, write, v, k, y)
           G == [k \in 1 .. n |-> [y \in X |-> turn(k, y)]]
<1>0. n \in Nat /\ x \in X /\ x.alen = 0
  BY TransferFacts DEF Good, Done
<1>1. \A k \in 1 .. n : \A y \in X :
        /\ turn(k, y) \in X
        /\ y.alen \in 0 .. MovedTo(offset, endpos, k - 1) => turn(k, y).alen \in 0 .. MovedTo(offset, endpos, k)
  BY ShareTurnKept
<1> HIDE DEF X, n, x
<1>3. G \in [1 .. n -> [X -> X]]
  <2> HIDE DEF turn
  <2> QED BY <1>1
<1>4. PICK f \in [0 .. n -> X] : IsLoop(f, n, x, G)
  <2> HIDE DEF G
  <2> QED BY <1>0, <1>3, LoopRuns
<1>5. Shares(t, offset, endpos, write, v, f)
  <2> SUFFICES ASSUME NEW k \in 0 .. n PROVE f[k] = IF k = 0 THEN x ELSE turn(k, f[k - 1])
    BY DEF Shares, n, x
  <2> HIDE DEF turn
  <2>1. f[k] = IF k = 0 THEN x ELSE G[k][f[k - 1]]
    BY <1>4 DEF IsLoop
  <2>3. CASE k # 0
    <3>1. k \in 1 .. n /\ k - 1 \in 0 .. n
      BY <1>0, <2>3
    <3>2. f[k - 1] \in X
      BY <3>1
    <3> QED BY <2>1, <2>3, <3>1, <3>2
  <2> QED BY <2>1, <2>3
<1>6. PICK g : g = SharesOf(t, offset, endpos, write, v)
  OBVIOUS
<1>7. Shares(t, offset, endpos, write, v, g)
  BY <1>5, <1>6, Zenon DEF SharesOf
<1>8. \A k \in 0 .. n : g[k] = IF k = 0 THEN x ELSE turn(k, g[k - 1])
  BY <1>7, Zenon DEF Shares, n, x
<1> HIDE DEF turn
<1> DEFINE S == {k \in Nat : g[k] \in X /\ g[k].alen \in 0 .. MovedTo(offset, endpos, k)}
<1>9. 0 \in S
  <2>1. 0 \in 0 .. n
    BY <1>0
  <2>2. g[0] = x
    BY <1>8, <2>1, Zenon
  <2>3. x.alen \in 0 .. MovedTo(offset, endpos, 0)
    BY <1>0 DEF MovedTo
  <2> QED BY <1>0, <2>2, <2>3
<1>10. ASSUME NEW k \in 1 .. n, k - 1 \in S PROVE k \in S
  <2>1. k \in 0 .. n /\ k # 0 /\ k \in Nat /\ g[k - 1] \in X /\ g[k - 1].alen \in 0 .. MovedTo(offset, endpos, k - 1)
    BY <1>0, <1>10
  <2>2. g[k] = turn(k, g[k - 1])
    BY <1>8, <2>1, Zenon
  <2>3. PICK y : y = g[k - 1]
    OBVIOUS
  <2>4. turn(k, y) \in X /\ turn(k, y).alen \in 0 .. MovedTo(offset, endpos, k)
    BY <1>1, <2>1, <2>3
  <2> QED BY <2>1, <2>2, <2>3, <2>4
<1>11. 0 .. n \subseteq S
  <2> HIDE DEF S
  <2> QED BY <1>0, <1>9, <1>10, LoopInduction
<1>12. z \in X /\ z.alen \in 0 .. MovedTo(offset, endpos, n)
  <2>1. n \in 0 .. n
    BY <1>0
  <2>2. n \in S /\ z = g[n]
    BY <1>6, <1>11, <2>1 DEF n
  <2> QED BY <2>2
<1>13. MovedTo(offset, endpos, n) \in Int /\ MovedTo(offset, endpos, n) <= endpos - offset
  <2>1. CASE n = 0
    BY <2>1 DEF MovedTo, SizeAssumption
  <2>2. CASE n # 0
    <3>1. n \in 1 .. n
      BY <1>0, <2>2
    <3>2. To(offset, endpos, n) \in Int /\ To(offset, endpos, n) <= endpos
      BY <3>1, TransferFacts DEF n
    <3> QED BY <2>2, <3>2 DEF MovedTo, SizeAssumption
  <2> QED BY <2>1, <2>2
<1>14. z.alen \in Nat /\ z.alen <= MovedTo(offset, endpos, n) /\ endpos - offset \in Int
  BY <1>12, <1>13 DEF SizeAssumption
<1> QED BY <1>12, <1>13, <1>14 DEF X, Done

\* sfs_io_nolock: a transfer stays within the longest file, and the size that it
\* sets does not exceed that by more than a block.
LEMMA TransferKept ==
  ASSUME SizeAssumption, NEW others, NEW t, Good(t, others), NEW offset \in Nat, NEW len \in Nat,
         NEW write \in BOOLEAN, NEW v \in Nat, NEW r, r = sfs_io_nolock(t, offset, len, write, v)
  PROVE  /\ r.t \in Kept(t, others)
         /\ r.alen \in Nat /\ (r.alen = 0 \/ offset + r.alen <= MaxSize)
<1> DEFINE endpos == EndPos(t, offset, len, write)
           z == SharesOf(t, offset, endpos, write, v)[CountOf(offset, endpos)]
           next == To(offset, endpos, 1)
<1>1. r = IF offset >= endpos THEN [t |-> t, alen |-> 0] ELSE Sized(z, offset, next)
  BY Zenon DEF sfs_io_nolock, SharesOf, Shares, ShareTurn, To, From, CountOf
<1>2. endpos \in 0 .. MaxSize
  <2>1. t.in.size \in Nat /\ offset + len \in Nat /\ MaxSize \in Nat
    BY KeptFacts DEF Good, Inodes, SizeAssumption
  <2>2. Min({offset + len, MaxSize}) \in 0 .. MaxSize
    BY <2>1, LesserOf
  <2>3. Min({Min({offset + len, MaxSize}), t.in.size}) \in 0 .. MaxSize
    <3>1. PICK m : m = Min({offset + len, MaxSize})
      OBVIOUS
    <3> QED BY <2>1, <2>2, <3>1, LesserOf
  <2> QED BY <2>2, <2>3 DEF EndPos
<1> HIDE DEF endpos
<1>3. CASE offset >= endpos
  <2>1. r = [t |-> t, alen |-> 0]
    BY <1>1, <1>3
  <2> QED BY <2>1 DEF Good
<1>4. CASE ~(offset >= endpos)
  <2>0. r = Sized(z, offset, next) /\ offset < endpos
    BY <1>1, <1>2, <1>4 DEF SizeAssumption
  <2>1. z.t \in Kept(t, others) /\ z.alen \in 0 .. (endpos - offset) /\ z = [t |-> z.t, alen |-> z.alen]
    BY <1>2, <2>0, SharesKept
  <2>2. next \in offset .. endpos /\ next <= offset + BLKSIZE
    BY <1>2, <2>0, TransferFacts
  <2> HIDE DEF z, next
  <2> DEFINE reached == (IF offset % BLKSIZE # 0 /\ z.alen > 0 THEN next ELSE offset) + z.alen
  <2>3. reached \in 0 .. (MaxSize + BLKSIZE)
    <3>1. endpos \in Nat /\ endpos <= MaxSize /\ MaxSize \in Nat /\ BLKSIZE \in Nat
      BY <1>2 DEF SizeAssumption
    <3>2. z.alen \in Nat /\ offset + z.alen <= endpos /\ next \in Nat
      BY <2>1, <2>2, <3>1
    <3> QED BY <2>2, <3>1, <3>2
  <2>4. z.alen \in Nat /\ offset + z.alen <= MaxSize
    BY <1>2, <2>1 DEF SizeAssumption
  <2>5. r = IF reached > z.t.in.size THEN [z EXCEPT !.t.in.size = reached, !.t.dirty = TRUE] ELSE z
    BY <2>0 DEF Sized
  <2> HIDE DEF reached
  <2>6. CASE reached > z.t.in.size
    <3>1. [z EXCEPT !.t.in.size = reached, !.t.dirty = TRUE] = [t |-> Resized(z.t, reached), alen |-> z.alen]
      <4>0. PICK a, b : z = [t |-> a, alen |-> b] /\ a = z.t /\ b = z.alen
        BY <2>1
      <4>1. [z EXCEPT !.t.in.size = reached] = [t |-> [a EXCEPT !.in.size = reached], alen |-> b]
        BY <4>0
      <4>2. [[z EXCEPT !.t.in.size = reached] EXCEPT !.t.dirty = TRUE]
              = [t |-> [[a EXCEPT !.in.size = reached] EXCEPT !.dirty = TRUE], alen |-> b]
        <5>1. PICK y, c : y = [z EXCEPT !.t.in.size = reached] /\ c = [a EXCEPT !.in.size = reached]
          OBVIOUS
        <5>2. y = [t |-> c, alen |-> b]
          BY <4>1, <5>1
        <5>3. [y EXCEPT !.t.dirty = TRUE] = [t |-> [c EXCEPT !.dirty = TRUE], alen |-> b]
          <6>1. y.t = c /\ y.alen = b /\ DOMAIN y = {"t", "alen"}
            BY <5>2
          <6>2. PICK d : d = [c EXCEPT !.dirty = TRUE]
            OBVIOUS
          <6>3. [y EXCEPT !.t.dirty = TRUE] = [y EXCEPT !.t = d]
            BY <6>1, <6>2, Zenon
          <6>4. [y EXCEPT !.t = d] = [t |-> d, alen |-> b]
            BY <5>2
          <6> QED BY <6>2, <6>3, <6>4
        <5> QED BY <5>1, <5>3
      <4>3. a \in Views
        BY <2>1, <4>0, KeptFacts
      <4>4. [[a EXCEPT !.in.size = reached] EXCEPT !.dirty = TRUE] = Resized(a, reached)
        BY <4>3 DEF Resized, Views
      <4>5. [z EXCEPT !.t.in.size = reached, !.t.dirty = TRUE] = [[z EXCEPT !.t.in.size = reached] EXCEPT !.t.dirty = TRUE]
        BY <4>0
      <4> QED BY <4>0, <4>2, <4>4, <4>5
    <3>2. r = [t |-> Resized(z.t, reached), alen |-> z.alen]
      BY <2>5, <2>6, <3>1
    <3>3. Good(z.t, others) /\ t.in.blocks \in Int
      BY <2>1, KeptFacts DEF Good
    <3>4. Resized(z.t, reached) \in Kept(z.t, others)
      BY <2>3, <3>3, ResizedKept
    <3>5. Resized(z.t, reached) \in Kept(t, others)
      BY <2>1, <3>3, <3>4, KeptOn
    <3> QED BY <2>4, <3>2, <3>5
  <2>7. CASE ~(reached > z.t.in.size)
    BY <2>1, <2>4, <2>5, <2>7
  <2> QED BY <2>6, <2>7
<1> QED BY <1>3, <1>4

-----------------------------------------------------------------------------
(* Every step *)

Others(f) == OthersOf(AllNames(fs.disk, din), f)
Open == {Closed} \cup [file : Files, pos : 0 .. (MaxSize + BLKSIZE)]

LEMMA ViewGood ==
  ASSUME SizeAssumption, SfsInv, NEW f \in Files
  PROVE  Good(View(f), Others(f))
<1> DEFINE t == View(f)
<1>1. /\ fs.free \in SUBSET Blocks /\ fs.unused \in Int /\ fs.disk \in [Blocks -> [Words -> Nat]]
      /\ din[f] \in Inodes /\ dirty[f] \in BOOLEAN
  BY DEF SfsInv, SfsTypes
<1>2. t \in Views
  BY <1>1 DEF View, Views
<1>3. t.disk = fs.disk /\ t.in = din[f] /\ t.free = fs.free /\ t.unused = fs.unused
  BY DEF View
<1>4. Fits(NamesIn(fs.disk, din[f]), fs.free, fs.unused, din[f].blocks, Others(f))
  <2>1. AllFit(AllNames(fs.disk, din), fs.free, fs.unused, Lengths(din))
    BY DEF SfsInv
  <2>2. AllNames(fs.disk, din)[f] = NamesIn(fs.disk, din[f]) /\ Lengths(din)[f] = din[f].blocks
    BY DEF AllNames, Lengths
  <2>3. Fits(AllNames(fs.disk, din)[f], fs.free, fs.unused, Lengths(din)[f], Others(f))
    BY <2>1, FitsFocus DEF Others
  <2> QED BY <2>2, <2>3
<1>5. SavedAs(din[f], din[f])
  BY <1>1 DEF SavedAs, Inodes
<1> HIDE DEF t
<1>6. Good(t, Others(f))
  BY <1>2, <1>3, <1>4, <1>5 DEF Good, Kept
<1> QED BY <1>6 DEF t

\* Finish leaves t as the file system and the inode of f.
Applied(f, t) ==
  /\ fs' = [free |-> t.free, unused |-> t.unused, disk |-> t.disk]
  /\ din' = [din EXCEPT ![f] = t.in]
  /\ dirty' = [dirty EXCEPT ![f] = t.dirty]
  /\ ondisk' = ondisk

\* Names of the other files are not touched.
LEMMA NamesStay ==
  ASSUME SizeAssumption, SfsInv, NEW f \in Files, NEW t \in Kept(View(f), Others(f))
  PROVE  AllNames(t.disk, [din EXCEPT ![f] = t.in]) = [AllNames(fs.disk, din) EXCEPT ![f] = NamesIn(t.disk, t.in)]
<1>1. din \in [Files -> Inodes]
  BY DEF SfsInv, SfsTypes
<1>2. \A b \in Others(f) : t.disk[b] = fs.disk[b]
  BY DEF Kept, View
<1>3. ASSUME NEW g \in Files, g # f PROVE NamesIn(t.disk, din[g]) = NamesIn(fs.disk, din[g])
  <2>1. -1 \in Places /\ NamesIn(fs.disk, din[g])[-1] = din[g].indirect
    BY NamesFacts
  <2>2. AllNames(fs.disk, din)[g] = NamesIn(fs.disk, din[g])
    BY DEF AllNames
  <2>3. din[g].indirect \in 0 .. NBlock
    <3>1. AllNames(fs.disk, din)[g] \in [Places -> 0 .. NBlock]
      BY DEF SfsInv, AllFit
    <3> QED BY <2>1, <2>2, <3>1
  <2>4. din[g].indirect # 0 => din[g].indirect \in Others(f)
    <3> SUFFICES ASSUME din[g].indirect # 0 PROVE din[g].indirect \in Others(f)
      OBVIOUS
    <3>1. din[g].indirect \in Blocks
      BY <2>3 DEF Blocks, SizeAssumption
    <3>2. g \in Files \ {f} /\ AllNames(fs.disk, din)[g][-1] = din[g].indirect
      BY <1>3, <2>1, <2>2
    <3> QED BY <2>1, <3>1, <3>2 DEF Others, OthersOf
  <2> QED BY <1>2, <2>4, NamesElsewhere
<1>4. ASSUME NEW g \in Files
      PROVE  NamesIn(t.disk, [din EXCEPT ![f] = t.in][g]) = IF g = f THEN NamesIn(t.disk, t.in) ELSE NamesIn(fs.disk, din[g])
  <2>1. [din EXCEPT ![f] = t.in][g] = IF g = f THEN t.in ELSE din[g]
    BY <1>1
  <2> QED BY <1>3, <2>1
<1>5. PICK x : x = NamesIn(t.disk, t.in)
  OBVIOUS
<1>6. PICK y : y = [g \in Files |-> NamesIn(fs.disk, din[g])]
  OBVIOUS
<1>7. AllNames(t.disk, [din EXCEPT ![f] = t.in]) = [g \in Files |-> IF g = f THEN x ELSE y[g]]
  BY <1>4, <1>5, <1>6, Zenon DEF AllNames
<1>8. [g \in Files |-> IF g = f THEN x ELSE y[g]] = [y EXCEPT ![f] = x]
  BY <1>6
<1> QED BY <1>5, <1>6, <1>7, <1>8, Zenon DEF AllNames

LEMMA AppliedKeeps ==
  ASSUME SizeAssumption, SfsInv, NEW f \in Files, NEW t \in Kept(View(f), Others(f)), Applied(f, t), fd' \in [Descs -> Open]
  PROVE  SfsInv'
<1>0. /\ din \in [Files -> Inodes] /\ ondisk \in [Files -> Inodes] /\ dirty \in [Files -> BOOLEAN]
      /\ AllFit(AllNames(fs.disk, din), fs.free, fs.unused, Lengths(din))
  BY DEF SfsInv, SfsTypes
<1>1. /\ t.free \in SUBSET Blocks /\ t.unused \in Int /\ t.disk \in [Blocks -> [Words -> Nat]]
      /\ t.in \in Inodes /\ t.dirty \in BOOLEAN
      /\ Fits(NamesIn(t.disk, t.in), t.free, t.unused, t.in.blocks, Others(f))
  BY KeptFacts
<1>2. fs'.free = t.free /\ fs'.unused = t.unused /\ fs'.disk = t.disk
  BY DEF Applied
<1>3. din' = [din EXCEPT ![f] = t.in] /\ dirty' = [dirty EXCEPT ![f] = t.dirty] /\ ondisk' = ondisk
  BY DEF Applied
<1>4. SfsTypes'
  <2>1. fs' \in [free : SUBSET Blocks, unused : Int, disk : [Blocks -> [Words -> Nat]]]
    BY <1>1 DEF Applied
  <2>2. din' \in [Files -> Inodes] /\ dirty' \in [Files -> BOOLEAN] /\ ondisk' \in [Files -> Inodes]
    BY <1>0, <1>1, <1>3
  <2> QED BY <2>1, <2>2 DEF SfsTypes, Open
<1>5. AllFit(AllNames(fs'.disk, din'), fs'.free, fs'.unused, Lengths(din'))
  <2>1. AllNames(fs'.disk, din') = [AllNames(fs.disk, din) EXCEPT ![f] = NamesIn(t.disk, t.in)]
    BY <1>2, <1>3, NamesStay
  <2>2. Lengths(din') = [Lengths(din) EXCEPT ![f] = t.in.blocks]
    BY <1>0, <1>3 DEF Lengths
  <2>3. AllFit([AllNames(fs.disk, din) EXCEPT ![f] = NamesIn(t.disk, t.in)], t.free, t.unused,
               [Lengths(din) EXCEPT ![f] = t.in.blocks])
    BY <1>0, <1>1, FitsUnfocus DEF Others
  <2> QED BY <1>2, <2>1, <2>2, <2>3
<1>6. \A g \in Files : ~dirty'[g] => SavedAs(din'[g], ondisk'[g])
  <2> SUFFICES ASSUME NEW g \in Files, ~dirty'[g] PROVE SavedAs(din'[g], ondisk'[g])
    OBVIOUS
  <2>1. CASE g # f
    BY <1>0, <1>3, <2>1 DEF SfsInv
  <2>2. CASE g = f
    <3>1. din'[g] = t.in /\ ~t.dirty /\ ondisk'[g] = ondisk[f]
      BY <1>0, <1>3, <2>2
    <3>2. ~dirty[f] /\ SavedAs(t.in, din[f])
      BY <3>1 DEF Kept, View
    <3>3. SavedAs(din[f], ondisk[f])
      BY <3>2 DEF SfsInv
    <3>4. t.in.blocks \in Int /\ din[f].blocks \in Int /\ ondisk[f].blocks \in Int
      BY <1>0, <1>1 DEF Inodes
    <3>5. SavedAs(t.in, ondisk[f])
      BY <3>2, <3>3, <3>4 DEF SavedAs
    <3> QED BY <3>1, <3>5
  <2> QED BY <2>1, <2>2
<1> QED BY <1>4, <1>5, <1>6 DEF SfsInv

LEMMA RestKeeps ==
  ASSUME SfsInv, UNCHANGED <<fs, din, ondisk, dirty>>, fd' \in [Descs -> Open]
  PROVE  SfsInv'
BY DEF SfsInv, SfsTypes, Open

LEMMA FinishKeeps ==
  ASSUME SizeAssumption, SfsInv, NEW f \in Files, NEW t \in Kept(View(f), Others(f)),
         NEW x \in [Descs -> Open], NEW y, NEW z, Finish(f, t, x, y, z)
  PROVE  SfsInv'
<1>1. CASE t.err \in Asserts
  <2>1. UNCHANGED <<fs, din, ondisk, dirty, fd>>
    BY <1>1 DEF Finish
  <2>2. fd' \in [Descs -> Open]
    BY <2>1 DEF SfsInv, SfsTypes, Open
  <2> QED BY <2>1, <2>2, RestKeeps
<1>2. CASE t.err \notin Asserts
  <2>1. Applied(f, t) /\ fd' = x
    BY <1>2 DEF Finish, Applied
  <2> QED BY <2>1, AppliedKeeps
<1> QED BY <1>1, <1>2

LEMMA UsableFacts ==
  ASSUME SfsInv, NEW d \in Descs, Usable(d)
  PROVE  /\ fd \in [Descs -> Open] /\ fd[d].file \in Files /\ fd[d].pos \in 0 .. (MaxSize + BLKSIZE)
         /\ fd[d] \in [file : Files, pos : 0 .. (MaxSize + BLKSIZE)]
<1>1. fd \in [Descs -> Open] /\ fd[d] # Closed
  BY DEF SfsInv, SfsTypes, Usable, Open
<1>2. fd[d] \in [file : Files, pos : 0 .. (MaxSize + BLKSIZE)]
  BY <1>1 DEF Open
<1> QED BY <1>1, <1>2

LEMMA PositionMoved ==
  ASSUME SfsInv, NEW d \in Descs, Usable(d), NEW p \in 0 .. (MaxSize + BLKSIZE)
  PROVE  [fd EXCEPT ![d].pos = p] \in [Descs -> Open]
<1>1. /\ fd \in [Descs -> Open] /\ fd[d] \in [file : Files, pos : 0 .. (MaxSize + BLKSIZE)]
  BY UsableFacts
<1>2. PICK e : e = [fd[d] EXCEPT !.pos = p]
  OBVIOUS
<1>3. e \in Open
  BY <1>1, <1>2 DEF Open
<1>4. [fd EXCEPT ![d] = e] \in [Descs -> Open]
  BY <1>1, <1>3
<1>5. [fd EXCEPT ![d].pos = p] = [fd EXCEPT ![d] = e]
  BY <1>2
<1> QED BY <1>4, <1>5

LEMMA OpenStep ==
  ASSUME SizeAssumption, SfsInv, NEW d \in Descs, NEW f \in Files, NEW how, file_open(d, f, how)
  PROVE  SfsInv'
<1>1. PICK t \in {IF how = "trunc" THEN sfs_truncfile(View(f), 0) ELSE View(f)} :
        Finish(f, t, [fd EXCEPT ![d] = [file |-> f, pos |-> IF how = "append" THEN t.in.size ELSE 0]],
               IF how = "trunc" THEN [end EXCEPT ![f] = 0] ELSE end, <<>>)
  BY DEF file_open
<1>2. Good(View(f), Others(f))
  BY ViewGood
<1>3. 0 \in 0 .. MaxSize
  BY DEF SizeAssumption
<1>4. sfs_truncfile(View(f), 0) \in Kept(View(f), Others(f))
  BY <1>2, <1>3, TruncFileKept
<1>5. t \in Kept(View(f), Others(f))
  BY <1>1, <1>2, <1>4 DEF Good
<1>6. PICK p : p = IF how = "append" THEN t.in.size ELSE 0
  OBVIOUS
<1>7. t.in \in Inodes
  BY <1>5, KeptFacts
<1>8. p \in 0 .. (MaxSize + BLKSIZE)
  BY <1>6, <1>7 DEF Inodes, SizeAssumption
<1>9. [fd EXCEPT ![d] = [file |-> f, pos |-> p]] \in [Descs -> Open]
  BY <1>8 DEF SfsInv, SfsTypes, Open
<1>10. PICK y : y = IF how = "trunc" THEN [end EXCEPT ![f] = 0] ELSE end
  OBVIOUS
<1>11. Finish(f, t, [fd EXCEPT ![d] = [file |-> f, pos |-> p]], y, <<>>)
  BY <1>1, <1>6, <1>10
<1> QED BY <1>5, <1>9, <1>11, FinishKeeps

LEMMA ReadStep ==
  ASSUME SizeAssumption, SfsInv, NEW d \in Descs, NEW n \in 1 .. MaxLen, file_read(d, n)
  PROVE  SfsInv'
<1>1. Usable(d)
  BY DEF file_read
<1>2. PICK f : f = fd[d].file
  OBVIOUS
<1>3. PICK o : o = fd[d].pos
  OBVIOUS
<1>4. f \in Files /\ o \in 0 .. (MaxSize + BLKSIZE)
  BY <1>1, <1>2, <1>3, UsableFacts
<1>5. PICK r \in {sfs_io_nolock(View(f), o, n, FALSE, 0)} :
        Finish(f, r.t, [fd EXCEPT ![d].pos = @ + r.alen], end, WordsOf(r.t.disk, r.t.in, fd[d].pos, r.alen))
  BY <1>2, <1>3 DEF file_read
<1>6. Good(View(f), Others(f))
  BY <1>4, ViewGood
<1>7. r.t \in Kept(View(f), Others(f)) /\ r.alen \in Nat /\ (r.alen = 0 \/ o + r.alen <= MaxSize)
  <2>1. n \in Nat /\ o \in Nat
    BY <1>4 DEF SizeAssumption
  <2>2. r = sfs_io_nolock(View(f), o, n, FALSE, 0)
    BY <1>5
  <2> QED BY <1>4, <1>6, <2>1, <2>2, TransferKept
<1>8. PICK p : p = o + r.alen
  OBVIOUS
<1>9. p \in 0 .. (MaxSize + BLKSIZE)
  <2>1. MaxSize \in Nat /\ BLKSIZE \in Nat
    BY DEF SizeAssumption
  <2>2. PICK a \in Nat : a = r.alen
    BY <1>7
  <2>3. p = o + a /\ (a = 0 \/ o + a <= MaxSize)
    BY <1>7, <1>8, <2>2
  <2>4. CASE a = 0
    BY <1>4, <2>1, <2>3, <2>4
  <2>5. CASE o + a <= MaxSize
    BY <1>4, <2>1, <2>3, <2>5
  <2> QED BY <2>3, <2>4, <2>5
<1>10. [fd EXCEPT ![d].pos = @ + r.alen] = [fd EXCEPT ![d].pos = p]
  BY <1>3, <1>8
<1>11. [fd EXCEPT ![d].pos = p] \in [Descs -> Open]
  BY <1>1, <1>9, PositionMoved
<1> QED BY <1>4, <1>5, <1>7, <1>10, <1>11, FinishKeeps

LEMMA WriteStep ==
  ASSUME SizeAssumption, SfsInv, NEW d \in Descs, NEW n \in 1 .. MaxLen, NEW v \in Values, file_write(d, n, v)
  PROVE  SfsInv'
<1>1. Usable(d)
  BY DEF file_write
<1>2. PICK f : f = fd[d].file
  OBVIOUS
<1>3. PICK o : o = fd[d].pos
  OBVIOUS
<1>4. f \in Files /\ o \in 0 .. (MaxSize + BLKSIZE)
  BY <1>1, <1>2, <1>3, UsableFacts
<1>5. PICK r \in {sfs_io_nolock(View(f), o, n, TRUE, v)} :
        Finish(f, r.t, [fd EXCEPT ![d].pos = @ + r.alen], [end EXCEPT ![f] = Max({@, fd[d].pos + r.alen})], <<>>)
  BY <1>2, <1>3 DEF file_write
<1>6. Good(View(f), Others(f))
  BY <1>4, ViewGood
<1>7. r.t \in Kept(View(f), Others(f)) /\ r.alen \in Nat /\ (r.alen = 0 \/ o + r.alen <= MaxSize)
  <2>1. n \in Nat /\ o \in Nat /\ v \in Nat
    BY <1>4 DEF SizeAssumption
  <2>2. r = sfs_io_nolock(View(f), o, n, TRUE, v)
    BY <1>5
  <2> QED BY <1>4, <1>6, <2>1, <2>2, TransferKept
<1>8. PICK p : p = o + r.alen
  OBVIOUS
<1>9. p \in 0 .. (MaxSize + BLKSIZE)
  <2>1. MaxSize \in Nat /\ BLKSIZE \in Nat
    BY DEF SizeAssumption
  <2>2. PICK a \in Nat : a = r.alen
    BY <1>7
  <2>3. p = o + a /\ (a = 0 \/ o + a <= MaxSize)
    BY <1>7, <1>8, <2>2
  <2>4. CASE a = 0
    BY <1>4, <2>1, <2>3, <2>4
  <2>5. CASE o + a <= MaxSize
    BY <1>4, <2>1, <2>3, <2>5
  <2> QED BY <2>3, <2>4, <2>5
<1>10. [fd EXCEPT ![d].pos = @ + r.alen] = [fd EXCEPT ![d].pos = p]
  BY <1>3, <1>8
<1>11. [fd EXCEPT ![d].pos = p] \in [Descs -> Open]
  BY <1>1, <1>9, PositionMoved
<1> QED BY <1>4, <1>5, <1>7, <1>10, <1>11, FinishKeeps

LEMMA SeekStep ==
  ASSUME SizeAssumption, SfsInv, NEW d \in Descs, NEW pos \in 0 .. (MaxSize - 1), file_seek(d, pos)
  PROVE  SfsInv'
<1>1. Usable(d)
  BY DEF file_seek
<1>2. PICK f : f = fd[d].file
  OBVIOUS
<1>3. f \in Files /\ fd \in [Descs -> Open]
  BY <1>1, <1>2, UsableFacts
<1>4. PICK t \in {IF pos > din[f].size THEN sfs_truncfile(View(f), pos) ELSE View(f)} :
        Finish(f, t, IF Ok(t) THEN [fd EXCEPT ![d].pos = pos] ELSE fd,
               IF Ok(t) THEN [end EXCEPT ![f] = Max({@, pos})] ELSE end, <<>>)
  BY <1>2 DEF file_seek
<1>5. Good(View(f), Others(f))
  BY <1>3, ViewGood
<1>6. pos \in 0 .. MaxSize /\ pos \in 0 .. (MaxSize + BLKSIZE)
  BY DEF SizeAssumption
<1>7. sfs_truncfile(View(f), pos) \in Kept(View(f), Others(f))
  BY <1>5, <1>6, TruncFileKept
<1>8. t \in Kept(View(f), Others(f))
  BY <1>4, <1>5, <1>7 DEF Good
<1>9. PICK x : x = IF Ok(t) THEN [fd EXCEPT ![d].pos = pos] ELSE fd
  OBVIOUS
<1>10. PICK y : y = IF Ok(t) THEN [end EXCEPT ![f] = Max({@, pos})] ELSE end
  OBVIOUS
<1>11. [fd EXCEPT ![d].pos = pos] \in [Descs -> Open]
  BY <1>1, <1>6, PositionMoved
<1>12. x \in [Descs -> Open]
  BY <1>3, <1>9, <1>11
<1>13. Finish(f, t, x, y, <<>>)
  BY <1>4, <1>9, <1>10
<1> QED BY <1>3, <1>8, <1>12, <1>13, FinishKeeps

\* An inode written to the disk is what it was in memory.
LEMMA SyncStep ==
  ASSUME SizeAssumption, SfsInv, NEW d \in Descs, file_fsync(d)
  PROVE  SfsInv'
<1>1. PICK f : f = fd[d].file
  OBVIOUS
<1>2. f \in Files /\ fd \in [Descs -> Open]
  BY <1>1, UsableFacts DEF file_fsync
<1>3. /\ ondisk' = Saved(f) /\ dirty' = [dirty EXCEPT ![f] = FALSE]
      /\ UNCHANGED <<fs, din, fd>>
  BY <1>1 DEF file_fsync
<1>4. /\ din \in [Files -> Inodes] /\ ondisk \in [Files -> Inodes] /\ dirty \in [Files -> BOOLEAN]
  BY DEF SfsInv, SfsTypes
<1>5. ondisk' \in [Files -> Inodes] /\ \A g \in Files : ondisk'[g] = IF g = f /\ dirty[f] THEN din[f] ELSE ondisk[g]
  BY <1>2, <1>3, <1>4 DEF Saved
<1>6. dirty' \in [Files -> BOOLEAN] /\ \A g \in Files : g # f => dirty'[g] = dirty[g]
  BY <1>2, <1>3, <1>4
<1>7. \A g \in Files : ~dirty'[g] => SavedAs(din[g], ondisk'[g])
  <2> SUFFICES ASSUME NEW g \in Files, ~dirty'[g] PROVE SavedAs(din[g], ondisk'[g])
    OBVIOUS
  <2>1. CASE ondisk'[g] = din[g]
    <3>1. din[g].blocks \in Int
      BY <1>4 DEF Inodes
    <3> QED BY <2>1, <3>1 DEF SavedAs
  <2>2. CASE ondisk'[g] = ondisk[g] /\ ~dirty[g]
    BY <2>2 DEF SfsInv
  <2> QED BY <1>5, <1>6, <2>1, <2>2
<1> QED BY <1>3, <1>5, <1>6, <1>7 DEF SfsInv, SfsTypes

\* With fewer blocks counted in f the names still fit.
LEMMA FewerCounted ==
  ASSUME SizeAssumption, NEW names, NEW free, NEW unused, NEW n, NEW k, AllFit(names, free, unused, n),
         k \in [Files -> 0 .. (NDIRECT + BLKSIZE)], \A f \in Files : k[f] <= n[f]
  PROVE  AllFit(names, free, unused, k)
<1>1. \A f \in Files : \A i \in Contents : i < k[f] => i < n[f]
  <2> SUFFICES ASSUME NEW f \in Files, NEW i \in Contents, i < k[f] PROVE i < n[f]
    OBVIOUS
  <2>1. i \in Int /\ k[f] \in Int /\ n[f] \in Int
    BY DEF Contents, AllFit, SizeAssumption
  <2> QED BY <2>1
<1> QED BY <1>1 DEF AllFit

LEMMA CloseStep ==
  ASSUME SizeAssumption, SfsInv, NEW d \in Descs, file_close(d)
  PROVE  SfsInv'
<1>1. PICK f : f = fd[d].file
  OBVIOUS
<1>2. PICK last \in BOOLEAN : last <=> \A e \in Descs \ {d} : fd[e].file # f
  OBVIOUS
<1>3. f \in Files /\ fd \in [Descs -> Open]
  BY <1>1, UsableFacts DEF file_close
<1>4. /\ din \in [Files -> Inodes] /\ ondisk \in [Files -> Inodes] /\ dirty \in [Files -> BOOLEAN]
  BY DEF SfsInv, SfsTypes
<1>5. fd' \in [Descs -> Open] /\ fs' = fs
  BY <1>3 DEF file_close, Open
<1>6. CASE ~last
  <2>1. ondisk' = ondisk /\ din' = din /\ dirty' = [dirty EXCEPT ![f] = @ /\ ~(\A e \in Descs \ {d} : fd[e].file # f)]
    BY <1>1, <1>2, <1>6 DEF file_close
  <2>2. dirty[f] \in BOOLEAN /\ (dirty[f] /\ ~(\A e \in Descs \ {d} : fd[e].file # f)) = dirty[f]
    BY <1>2, <1>3, <1>4, <1>6
  <2>3. dirty' = [dirty EXCEPT ![f] = dirty[f]]
    BY <2>1, <2>2
  <2>4. dirty' = dirty
    BY <1>3, <1>4, <2>3
  <2> QED BY <1>5, <2>1, <2>4, RestKeeps
<1>7. CASE last
  <2>1. /\ ondisk' = Saved(f) /\ din' = [din EXCEPT ![f] = ondisk'[f]]
        /\ dirty' = [dirty EXCEPT ![f] = @ /\ ~(\A e \in Descs \ {d} : fd[e].file # f)]
    BY <1>1, <1>2, <1>7 DEF file_close
  <2>2. (dirty[f] /\ ~(\A e \in Descs \ {d} : fd[e].file # f)) = FALSE
    BY <1>2, <1>7
  <2>3. dirty' = [dirty EXCEPT ![f] = FALSE]
    BY <2>1, <2>2
  <2>4. ondisk' \in [Files -> Inodes] /\ \A g \in Files : ondisk'[g] = IF g = f /\ dirty[f] THEN din[f] ELSE ondisk[g]
    BY <1>3, <1>4, <2>1 DEF Saved
  <2>5. dirty' \in [Files -> BOOLEAN] /\ \A g \in Files : g # f => dirty'[g] = dirty[g]
    BY <1>3, <1>4, <2>3
  <2>6. din' \in [Files -> Inodes] /\ din'[f] = ondisk'[f] /\ \A g \in Files : g # f => din'[g] = din[g]
    BY <1>3, <1>4, <2>1, <2>4
  <2>7. \A g \in Files : SavedAs(din[g], din'[g])
    <3> SUFFICES ASSUME NEW g \in Files PROVE SavedAs(din[g], din'[g])
      OBVIOUS
    <3>1. CASE din'[g] = din[g]
      <4>1. din[g].blocks \in Int
        BY <1>4 DEF Inodes
      <4> QED BY <3>1, <4>1 DEF SavedAs
    <3>2. CASE din'[g] = ondisk[g] /\ ~dirty[g]
      BY <3>2 DEF SfsInv
    <3> QED BY <2>4, <2>6, <3>1, <3>2
  <2>8. AllNames(fs.disk, din') = AllNames(fs.disk, din)
    <3>1. \A g \in Files : NamesIn(fs.disk, din'[g]) = NamesIn(fs.disk, din[g])
      <4> SUFFICES ASSUME NEW g \in Files PROVE NamesIn(fs.disk, din'[g]) = NamesIn(fs.disk, din[g])
        OBVIOUS
      <4>1. din'[g].direct = din[g].direct /\ din'[g].indirect = din[g].indirect
        BY <2>7 DEF SavedAs
      <4> QED BY <4>1 DEF NamesIn, BlockAt, BlockOf
    <3> QED BY <3>1, Zenon DEF AllNames
  <2>9. AllFit(AllNames(fs.disk, din), fs.free, fs.unused, Lengths(din'))
    <3>1. Lengths(din') \in [Files -> 0 .. (NDIRECT + BLKSIZE)]
      BY <2>6 DEF Lengths, Inodes
    <3>2. \A g \in Files : Lengths(din')[g] <= Lengths(din)[g]
      BY <2>7 DEF Lengths, SavedAs
    <3>3. AllFit(AllNames(fs.disk, din), fs.free, fs.unused, Lengths(din))
      BY DEF SfsInv
    <3> QED BY <3>1, <3>2, <3>3, FewerCounted
  <2>10. \A g \in Files : ~dirty'[g] => SavedAs(din'[g], ondisk'[g])
    <3> SUFFICES ASSUME NEW g \in Files, ~dirty'[g] PROVE SavedAs(din'[g], ondisk'[g])
      OBVIOUS
    <3>1. CASE g = f
      <4>1. ondisk'[g].blocks \in Int
        BY <2>4 DEF Inodes
      <4> QED BY <2>6, <3>1, <4>1 DEF SavedAs
    <3>2. CASE g # f
      BY <2>4, <2>5, <2>6, <3>2 DEF SfsInv
    <3> QED BY <3>1, <3>2
  <2>11. AllFit(AllNames(fs'.disk, din'), fs'.free, fs'.unused, Lengths(din'))
    BY <1>5, <2>8, <2>9
  <2>12. SfsTypes'
    BY <1>5, <2>4, <2>5, <2>6 DEF SfsInv, SfsTypes, Open
  <2> QED BY <2>10, <2>11, <2>12 DEF SfsInv
<1> QED BY <1>2, <1>6, <1>7

LEMMA SfsNextStep ==
  ASSUME SizeAssumption, SfsInv, [SfsNext]_sfs_vars
  PROVE  SfsInv'
<1>1. CASE UNCHANGED sfs_vars
  BY <1>1 DEF SfsInv, SfsTypes, sfs_vars
<1>2. CASE SfsNext
  <2>1. PICK d \in Descs : Transfer(d) \/ Other(d)
    BY <1>2 DEF SfsNext
  <2>2. CASE \E n \in 1 .. MaxLen : file_read(d, n)
    BY <2>2, ReadStep
  <2>3. CASE \E n \in 1 .. MaxLen, v \in Values : file_write(d, n, v)
    BY <2>3, WriteStep
  <2>4. CASE \E f \in Files, how \in {"plain", "trunc", "append"} : file_open(d, f, how)
    BY <2>4, OpenStep
  <2>5. CASE file_close(d)
    BY <2>5, CloseStep
  <2>6. CASE file_fsync(d)
    BY <2>6, SyncStep
  <2>7. CASE \E pos \in 0 .. (MaxSize - 1) : file_seek(d, pos)
    BY <2>7, SeekStep
  <2> QED BY <2>1, <2>2, <2>3, <2>4, <2>5, <2>6, <2>7 DEF Transfer, Other
<1> QED BY <1>1, <1>2

LEMMA SfsInitStep ==
  ASSUME SizeAssumption, SfsInit
  PROVE  SfsInv
<1>0. NBlock \in Nat /\ BLKSIZE \in Nat \ {0} /\ NDIRECT \in Nat /\ MaxSize \in Nat
  BY DEF SizeAssumption
<1>1. PICK e : e = EmptyInode
  OBVIOUS
<1>2. e \in Inodes /\ e.size = 0 /\ e.blocks = 0 /\ e.indirect = 0 /\ \A i \in 0 .. (NDIRECT - 1) : e.direct[i] = 0
  BY <1>0, <1>1 DEF Inodes, EmptyInode
<1>3. din \in [Files -> Inodes] /\ ondisk = din /\ \A f \in Files : din[f] = e
  BY <1>1, <1>2 DEF SfsInit
<1>4. /\ fs.free = Blocks /\ fs.unused = NBlock /\ fs.disk = [b \in Blocks |-> ZeroBlock]
      /\ fs = [free |-> Blocks, unused |-> NBlock, disk |-> [b \in Blocks |-> ZeroBlock]]
  BY DEF SfsInit
<1>5. fs.disk \in [Blocks -> [Words -> Nat]]
  BY <1>4 DEF ZeroBlock
<1>6. SfsTypes
  <2>1. fs \in [free : SUBSET Blocks, unused : Int, disk : [Blocks -> [Words -> Nat]]]
    BY <1>0, <1>4, <1>5
  <2>2. dirty \in [Files -> BOOLEAN] /\ fd \in [Descs -> {Closed} \cup [file : Files, pos : 0 .. (MaxSize + BLKSIZE)]]
    BY DEF SfsInit
  <2> QED BY <1>3, <2>1, <2>2 DEF SfsTypes
<1>7. \A i \in Places : BlockAt(fs.disk, e, i) = 0
  <2> SUFFICES ASSUME NEW i \in Places PROVE BlockAt(fs.disk, e, i) = 0
    OBVIOUS
  <2>1. i = -1 \/ i \in Contents
    BY DEF Places
  <2>2. CASE i = -1
    BY <1>2, <2>2 DEF BlockAt
  <2>3. CASE i \in Contents /\ i < NDIRECT
    <3>1. i \in 0 .. (NDIRECT - 1) /\ i # -1
      BY <1>0, <2>3 DEF Contents
    <3> QED BY <1>2, <2>3, <3>1 DEF BlockAt, BlockOf
  <2>4. CASE i \in Contents /\ ~(i < NDIRECT)
    BY <1>0, <1>2, <2>4 DEF BlockAt, BlockOf, Contents
  <2> QED BY <2>1, <2>2, <2>3, <2>4
<1>8. \A f \in Files : \A i \in Places : AllNames(fs.disk, din)[f][i] = 0
  BY <1>3, <1>7 DEF AllNames, NamesIn
<1>9. AllNames(fs.disk, din) \in [Files -> [Places -> 0 .. NBlock]]
  <2>1. 0 \in 0 .. NBlock
    BY <1>0
  <2>2. \A f \in Files : NamesIn(fs.disk, din[f]) \in [Places -> 0 .. NBlock]
    BY <1>3, <1>7, <2>1 DEF NamesIn
  <2> QED BY <2>2 DEF AllNames
<1>10. \A f \in Files : Lengths(din)[f] = 0
  BY <1>2, <1>3 DEF Lengths
<1>11. Lengths(din) \in [Files -> 0 .. (NDIRECT + BLKSIZE)]
  BY <1>0, <1>2, <1>3 DEF Lengths
<1>12. fs.unused = Cardinality(fs.free)
  <2>1. Cardinality(1 .. NBlock) = NBlock
    <3>1. Cardinality(1 .. NBlock) = IF 1 > NBlock THEN 0 ELSE NBlock - 1 + 1
      BY <1>0, FS_Interval
    <3> QED BY <1>0, <3>1
  <2> QED BY <1>4, <2>1 DEF Blocks
<1>13. \A f \in Files : \A i \in Contents : ~(i < Lengths(din)[f])
  BY <1>0, <1>10 DEF Contents
<1>14. AllFit(AllNames(fs.disk, din), fs.free, fs.unused, Lengths(din))
  BY <1>4, <1>8, <1>9, <1>11, <1>12, <1>13 DEF AllFit
<1>15. \A f \in Files : SavedAs(din[f], ondisk[f])
  BY <1>2, <1>3 DEF SavedAs
<1> QED BY <1>6, <1>14, <1>15 DEF SfsInv

-----------------------------------------------------------------------------
(* What the invariant says of the blocks *)

NameOf(f, i) == AllNames(fs.disk, din)[f][i]

\* A block's owner is a file and a place that names it.
LEMMA OwnersAre ==
  ASSUME SizeAssumption
  PROVE  /\ \A f \in Files : \A i \in Places : NameOf(f, i) # 0 => <<f, i, NameOf(f, i)>> \in AllOwned
         /\ \A o \in AllOwned : \E f \in Files : \E i \in Places : o = <<f, i, NameOf(f, i)>> /\ NameOf(f, i) # 0
<1>0. BLKSIZE \in Nat /\ NDIRECT \in Nat
  BY DEF SizeAssumption
<1>1. ASSUME NEW f \in Files, NEW i \in Contents
      PROVE  i \in Places /\ i # -1 /\ NameOf(f, i) = BlockOf(fs.disk, din[f], i)
  BY <1>0 DEF NameOf, AllNames, NamesIn, BlockAt, Places, Contents
<1>2. ASSUME NEW f \in Files
      PROVE  -1 \in Places /\ NameOf(f, -1) = din[f].indirect
  BY DEF NameOf, AllNames, NamesIn, BlockAt, Places
<1>3. ASSUME NEW f \in Files, NEW i \in Places, NameOf(f, i) # 0
      PROVE  <<f, i, NameOf(f, i)>> \in AllOwned
  <2>1. PICK b : b = NameOf(f, i)
    OBVIOUS
  <2>2. <<f, i, b>> \in Owned(f)
    <3>1. CASE i = -1
      BY <1>2, <2>1, <3>1 DEF Owned
    <3>2. CASE i \in Contents
      BY <1>1, <2>1, <3>2 DEF Owned, Contents
    <3> QED BY <3>1, <3>2 DEF Places
  <2>3. <<f, i, b>>[3] # 0
    BY <1>3, <2>1
  <2>4. <<f, i, b>> \in UNION {Owned(g) : g \in Files}
    BY <2>2
  <2> QED BY <2>1, <2>3, <2>4 DEF AllOwned
<1>4. ASSUME NEW o \in AllOwned
      PROVE  \E f \in Files : \E i \in Places : o = <<f, i, NameOf(f, i)>> /\ NameOf(f, i) # 0
  <2>1. PICK f \in Files : o \in Owned(f)
    BY <1>4 DEF AllOwned
  <2>2. o[3] # 0
    BY <1>4 DEF AllOwned
  <2>3. CASE o = <<f, -1, din[f].indirect>>
    <3>1. o = <<f, -1, NameOf(f, -1)>> /\ NameOf(f, -1) # 0
      BY <1>2, <2>2, <2>3
    <3> QED BY <1>2, <3>1
  <2>4. CASE \E i \in Contents : o = <<f, i, BlockOf(fs.disk, din[f], i)>>
    <3>1. PICK i \in Contents : o = <<f, i, BlockOf(fs.disk, din[f], i)>>
      BY <2>4
    <3>2. o = <<f, i, NameOf(f, i)>> /\ NameOf(f, i) # 0
      BY <1>1, <2>2, <3>1
    <3> QED BY <1>1, <3>2
  <2> QED BY <2>1, <2>3, <2>4 DEF Owned, Contents
<1> QED BY <1>3, <1>4

LEMMA InvBlocks ==
  ASSUME SizeAssumption, SfsInv
  PROVE  BlocksExact
<1>0. NBlock \in Nat /\ BLKSIZE \in Nat \ {0} /\ NDIRECT \in Nat /\ MaxSize \in Nat
  BY DEF SizeAssumption
<1>1. /\ fs.free \subseteq Blocks /\ fs.unused = Cardinality(fs.free)
      /\ \A f \in Files : \A i \in Places : NameOf(f, i) # 0 => NameOf(f, i) \notin fs.free
      /\ \A f, g \in Files : \A i, j \in Places : NameOf(f, i) # 0 /\ NameOf(f, i) = NameOf(g, j) => f = g /\ i = j
      /\ \A b \in Blocks : b \in fs.free \/ \E f \in Files : \E i \in Places : NameOf(f, i) = b
  BY DEF SfsInv, AllFit, NameOf
<1>2. SfsTypeOK
  <2>1. fs.unused \in 0 .. NBlock
    <3>1. IsFiniteSet(Blocks) /\ Cardinality(Blocks) = NBlock
      <4>1. IsFiniteSet(1 .. NBlock) /\ Cardinality(1 .. NBlock) = IF 1 > NBlock THEN 0 ELSE NBlock - 1 + 1
        BY <1>0, FS_Interval
      <4> QED BY <1>0, <4>1 DEF Blocks
    <3>2. Cardinality(fs.free) <= NBlock /\ IsFiniteSet(fs.free)
      BY <1>1, <3>1, FS_Subset
    <3>3. Cardinality(fs.free) \in Nat
      BY <3>2, FS_CardinalityType
    <3> QED BY <1>0, <1>1, <3>2, <3>3
  <2>2. \A f \in Files : din[f].size \in 0 .. (MaxSize + BLKSIZE) /\ din[f].blocks \in Nat
    BY <1>0 DEF SfsInv, SfsTypes, Inodes
  <2>3. \A d \in Descs : fd[d].pos \in 0 .. (MaxSize + BLKSIZE)
    <3> SUFFICES ASSUME NEW d \in Descs PROVE fd[d].pos \in 0 .. (MaxSize + BLKSIZE)
      OBVIOUS
    <3>1. CASE fd[d] = Closed
      BY <1>0, <3>1 DEF Closed
    <3>2. CASE fd[d] \in [file : Files, pos : 0 .. (MaxSize + BLKSIZE)]
      BY <3>2
    <3> QED BY <3>1, <3>2 DEF SfsInv, SfsTypes
  <2> QED BY <1>1, <2>1, <2>2, <2>3 DEF SfsTypeOK
<1>3. ASSUME NEW b \in Blocks, b \in fs.free, NEW o \in AllOwned
      PROVE  o[3] # b
  <2>1. PICK f \in Files, i \in Places : o = <<f, i, NameOf(f, i)>> /\ NameOf(f, i) # 0
    BY OwnersAre
  <2>2. o[3] = NameOf(f, i)
    BY <2>1
  <2> QED BY <1>1, <1>3, <2>1, <2>2
<1>4. ASSUME NEW b \in Blocks, b \notin fs.free
      PROVE  \E o \in AllOwned : o[3] = b /\ \A q \in AllOwned : q[3] = b => q = o
  <2>1. PICK f \in Files, i \in Places : NameOf(f, i) = b
    BY <1>1, <1>4
  <2>2. b # 0
    BY <1>0 DEF Blocks
  <2>3. <<f, i, b>> \in AllOwned
    BY <2>1, <2>2, OwnersAre
  <2>4. ASSUME NEW q \in AllOwned, q[3] = b PROVE q = <<f, i, b>>
    <3>1. PICK g \in Files, j \in Places : q = <<g, j, NameOf(g, j)>> /\ NameOf(g, j) # 0
      BY OwnersAre
    <3>2. NameOf(g, j) = b
      BY <2>4, <3>1
    <3>3. f = g /\ i = j
      BY <1>1, <2>1, <2>2, <3>2
    <3> QED BY <3>1, <3>2, <3>3
  <2>5. <<f, i, b>>[3] = b
    OBVIOUS
  <2> QED BY <2>3, <2>4, <2>5
<1>5. ASSUME NEW f \in Files, NEW i \in Contents, i < din[f].blocks
      PROVE  BlockOf(fs.disk, din[f], i) # 0
  <2>1. Lengths(din)[f] = din[f].blocks
    BY DEF Lengths
  <2>2. NameOf(f, i) # 0
    BY <1>5, <2>1 DEF SfsInv, AllFit, NameOf
  <2>3. NameOf(f, i) = BlockOf(fs.disk, din[f], i)
    BY <1>0 DEF NameOf, AllNames, NamesIn, BlockAt, Places, Contents
  <2> QED BY <2>2, <2>3
<1> QED BY <1>1, <1>2, <1>3, <1>4, <1>5 DEF BlocksExact, Contents

\* BlocksExact of SfsFile, for any number of files, descriptors and blocks, any
\* block size and any limit on the size of a file that its block map can hold:
\* whatever open, truncate, seek, read and write do, and however they are cut
\* short by a full disk, no block of the file system is lost, given out twice or
\* free while a file names it, and super.unused_blocks counts the free ones.
THEOREM BlocksAlwaysExact ==
  ASSUME SizeAssumption
  PROVE  SfsSpec => []BlocksExact
<1>1. SfsInit => SfsInv
  BY SfsInitStep
<1>2. SfsInv /\ [SfsNext]_sfs_vars => SfsInv'
  BY SfsNextStep
<1>3. SfsInv => BlocksExact
  BY InvBlocks
<1> QED BY <1>1, <1>2, <1>3, PTL DEF SfsSpec
=============================================================================
