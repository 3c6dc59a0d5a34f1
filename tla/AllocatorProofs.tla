-------------------------- MODULE AllocatorProofs ---------------------------
(***************************************************************************)
(* Two allocators, for every size.                                         *)
(*                                                                         *)
(* get_pid gives a pid that nobody has, for every MAX_PID > MAX_PROCESS.   *)
(* The invariant is what the scan has learnt of the part of the list it    *)
(* has passed (ScanKnows), and what of that stays true between two calls   *)
(* while processes come and go (CacheSafe).                                *)
(*                                                                         *)
(* alloc_pages and free_pages over raw list links give and take the places *)
(* of PageAlloc, for any number of pages.  The invariant says that next    *)
(* and prev hold the flagged pages in order (Linked), that their blocks    *)
(* rise in memory with a page between two of them (Rise, Gaps) and that    *)
(* they and the held ones divide it (Covered, HeldApart).                  *)
(***************************************************************************)
EXTENDS PidAlloc, DefaultPmm, QueueLemmas, SequenceTheorems, FiniteSetTheorems, TLAPS

\* Adding at the head: the old list moves up by one.
LEMMA PrependFacts ==
  ASSUME NEW S, NEW s \in Seq(S), NEW x \in S
  PROVE  /\ <<x>> \o s \in Seq(S)
         /\ Len(<<x>> \o s) = Len(s) + 1
         /\ (<<x>> \o s)[1] = x
         /\ \A i \in 2 .. Len(s) + 1 : (<<x>> \o s)[i] = s[i - 1]
<1>1. <<x>> \in Seq(S) /\ Len(<<x>>) = 1 /\ <<x>>[1] = x
  OBVIOUS
<1> QED BY <1>1, ConcatProperties, LenProperties

\* Removing the i-th: what was after it moves down by one.
LEMMA RemovedFacts ==
  ASSUME NEW S, NEW s \in Seq(S), NEW i \in 1 .. Len(s)
  PROVE  /\ RemoveAt(s, i) \in Seq(S)
         /\ Len(RemoveAt(s, i)) = Len(s) - 1
         /\ \A j \in 1 .. Len(s) - 1 :
              RemoveAt(s, i)[j] = IF j < i THEN s[j] ELSE s[j + 1]
<1> DEFINE a == SubSeq(s, 1, i - 1)
           b == SubSeq(s, i + 1, Len(s))
<1>1. Len(s) \in Nat
  BY LenProperties
<1>2. /\ a \in Seq(S) /\ Len(a) = i - 1
      /\ \A j \in 1 .. i - 1 : a[j] = s[j]
  BY <1>1, SubSeqProperties
<1>3. /\ b \in Seq(S) /\ Len(b) = Len(s) - i
      /\ \A j \in 1 .. Len(s) - i : b[j] = s[i + j]
  <2>1. CASE i < Len(s)
    BY <2>1, <1>1, SubSeqProperties
  <2>2. CASE i = Len(s)
    BY <2>2, <1>1, SubSeqProperties
  <2> QED BY <2>1, <2>2, <1>1
<1> HIDE DEF a, b
<1>4. /\ a \o b \in Seq(S) /\ Len(a \o b) = Len(s) - 1
      /\ \A j \in 1 .. Len(a) + Len(b) :
           (a \o b)[j] = IF j <= Len(a) THEN a[j] ELSE b[j - Len(a)]
  <2>1. Len(a) + Len(b) = Len(s) - 1
    BY <1>1, <1>2, <1>3
  <2> QED BY <2>1, <1>2, <1>3, ConcatProperties
<1>5. ASSUME NEW j \in 1 .. Len(s) - 1
      PROVE  (a \o b)[j] = IF j < i THEN s[j] ELSE s[j + 1]
  <2>0. j \in 1 .. Len(a) + Len(b) /\ i \in Nat /\ j \in Nat
    BY <1>1, <1>2, <1>3
  <2>1. CASE j < i
    <3>1. j <= Len(a) /\ j \in 1 .. i - 1
      BY <2>0, <2>1, <1>1, <1>2
    <3> QED BY <2>0, <2>1, <3>1, <1>2, <1>4
  <2>2. CASE ~ (j < i)
    <3>1. ~ (j <= Len(a)) /\ j - Len(a) \in 1 .. Len(s) - i /\ i + (j - Len(a)) = j + 1
      BY <2>0, <2>2, <1>1, <1>2
    <3>2. (a \o b)[j] = b[j - Len(a)]
      BY <2>0, <3>1, <1>4
    <3>3. b[j - Len(a)] = s[i + (j - Len(a))]
      BY <3>1, <1>3
    <3> QED BY <2>2, <3>1, <3>2, <3>3
  <2> QED BY <2>1, <2>2
<1> QED BY <1>4, <1>5 DEF RemoveAt, a, b
-----------------------------------------------------------------------------
\* Before the first fork.
LEMMA InitOK == Init => IInv
BY PidAssumption, EmptySeq
   DEF Init, IInv, TypeOK, PidUnique, InitIsOne, ScanKnows, CacheSafe, FirstIsOne

\* A scan that starts over knows nothing yet, and needs nothing.
LEMMA RescanStep ==
  ASSUME IInv, NEW pid \in 1 .. MAX_PID - 1, Rescan(pid), proc_list = <<>> => pid = 1
  PROVE  IInv'
BY PidAssumption, LenProperties
   DEF Rescan, IInv, TypeOK, PidUnique, InitIsOne, ScanKnows, CacheSafe, FirstIsOne

\* The call of get_pid: either the cache answers, or a scan starts.
LEMMA GetPidStep == ASSUME IInv, get_pid PROVE IInv'
<1>1. CASE last_pid + 1 >= MAX_PID /\ Rescan(1)
  BY <1>1, PidAssumption, RescanStep
<1>2. CASE last_pid + 1 < MAX_PID /\ last_pid + 1 >= next_safe /\ Rescan(last_pid + 1)
  <2>1. last_pid + 1 \in 1 .. MAX_PID - 1
    BY <1>2, PidAssumption DEF IInv, TypeOK
  <2>2. proc_list # <<>>
    BY <1>2, PidAssumption DEF get_pid, IInv, TypeOK, FirstIsOne
  <2> QED BY <1>2, <2>1, <2>2, RescanStep
<1>3. CASE /\ last_pid + 1 < MAX_PID /\ last_pid + 1 < next_safe
           /\ last_pid' = last_pid + 1
           /\ pc' = "got"
           /\ UNCHANGED <<proc_list, next_safe, le>>
  <2>1. proc_list # <<>>
    BY <1>3, PidAssumption DEF get_pid, IInv, TypeOK, FirstIsOne
  <2>2. \A i \in 1 .. Len(proc_list) : proc_list[i] \in Nat
    BY ElementOfSeq, PidAssumption DEF IInv, TypeOK
  <2>3. \A i \in 1 .. Len(proc_list) : Clear(i)'
    BY <1>3, <2>2, PidAssumption DEF get_pid, IInv, TypeOK, CacheSafe, Clear
  <2> QED
    BY <1>3, <2>1, <2>3, PidAssumption
       DEF get_pid, IInv, TypeOK, PidUnique, InitIsOne, ScanKnows, CacheSafe, FirstIsOne
<1> QED BY <1>1, <1>2, <1>3 DEF get_pid

\* One turn of the loop on a process that has last_pid.
LEMMA TakenStep == ASSUME IInv, scan_taken PROVE IInv'
<1>1. proc_list # <<>> /\ Len(proc_list) \in Nat
  <2>1. proc_list = <<>> => Len(proc_list) = 0
    OBVIOUS
  <2> QED BY <2>1, LenProperties DEF scan_taken, IInv, TypeOK
<1>2. CASE last_pid + 1 >= next_safe /\ Rescan(Wrapped(last_pid + 1))
  <2>1. Wrapped(last_pid + 1) \in 1 .. MAX_PID - 1
    BY PidAssumption DEF IInv, TypeOK, Wrapped
  <2> QED BY <1>1, <1>2, <2>1, RescanStep
<1>3. CASE /\ last_pid + 1 < next_safe
           /\ last_pid' = last_pid + 1
           /\ le' = le + 1
           /\ UNCHANGED <<proc_list, next_safe, pc>>
  <2>1. \A i \in 1 .. Len(proc_list) : proc_list[i] \in Nat
    BY ElementOfSeq, PidAssumption DEF IInv, TypeOK
  <2>2. ASSUME NEW i \in 1 .. Len(proc_list), i < le + 1 PROVE Clear(i)'
    <3>1. CASE i < le
      BY <1>3, <2>1, <3>1, PidAssumption DEF scan_taken, IInv, TypeOK, ScanKnows, Clear
    <3>2. CASE i = le
      BY <1>3, <2>1, <3>2, PidAssumption DEF scan_taken, IInv, TypeOK, Clear
    <3> QED BY <1>1, <2>2, <3>1, <3>2 DEF IInv, TypeOK
  <2>3. TypeOK'
    BY <1>1, <1>3, PidAssumption DEF scan_taken, IInv, TypeOK
  <2>4. ScanKnows'
    BY <1>3, <2>2 DEF scan_taken, ScanKnows
  <2> QED
    BY <1>1, <1>3, <2>3, <2>4 DEF scan_taken, IInv, PidUnique, InitIsOne, CacheSafe, FirstIsOne
<1> QED BY <1>2, <1>3 DEF scan_taken

\* One turn of the loop on another process.
LEMMA OtherStep == ASSUME IInv, scan_other PROVE IInv'
<1>1. Len(proc_list) \in Nat /\ le \in 1 .. Len(proc_list)
  BY LenProperties DEF scan_other, IInv, TypeOK
<1>2. \A i \in 1 .. Len(proc_list) : proc_list[i] \in 1 .. MAX_PID - 1
  BY ElementOfSeq DEF IInv, TypeOK
<1>3. /\ next_safe' = Lowered(proc_list[le])
      /\ le' = le + 1 /\ pc = "scan" /\ proc_list[le] # last_pid
      /\ UNCHANGED <<proc_list, last_pid, pc>>
  BY DEF scan_other
<1>4. /\ next_safe' \in 1 .. MAX_PID /\ last_pid < next_safe' /\ next_safe' <= next_safe
      /\ ~ (last_pid < proc_list[le] /\ proc_list[le] < next_safe')
  BY <1>1, <1>2, <1>3, PidAssumption DEF Lowered, IInv, TypeOK, ScanKnows
<1>5. ASSUME NEW i \in 1 .. Len(proc_list), i < le + 1 PROVE Clear(i)'
  <2>1. CASE i < le
    BY <1>1, <1>2, <1>3, <1>4, <2>1, PidAssumption DEF IInv, TypeOK, ScanKnows, Clear
  <2>2. CASE i = le
    BY <1>3, <1>4, <2>2 DEF Clear
  <2> QED BY <1>1, <1>5, <2>1, <2>2
<1>6. TypeOK'
  BY <1>1, <1>3, <1>4 DEF IInv, TypeOK
<1>7. ScanKnows'
  BY <1>3, <1>4, <1>5 DEF ScanKnows
<1> QED
  BY <1>3, <1>6, <1>7 DEF IInv, PidUnique, InitIsOne, CacheSafe, FirstIsOne

\* The end of the loop: every process is known to be clear.
LEMMA EndStep == ASSUME IInv, scan_end PROVE IInv'
<1>1. Len(proc_list) \in Nat
  BY LenProperties DEF IInv, TypeOK
<1> QED
  BY <1>1, PidAssumption
     DEF scan_end, IInv, TypeOK, PidUnique, InitIsOne, ScanKnows, Clear, CacheSafe, FirstIsOne

\* The new process is linked: its pid was clear of all the others.
LEMMA LinkStep == ASSUME IInv, set_links PROVE IInv'
<1> DEFINE l == <<last_pid>> \o proc_list
<1>1. /\ proc_list' = l /\ pc = "got" /\ pc' = "out" /\ le' = 1
      /\ UNCHANGED <<last_pid, next_safe>>
  BY DEF set_links
<1>2. last_pid \in 1 .. MAX_PID - 1 /\ proc_list \in Seq(1 .. MAX_PID - 1) /\ Len(proc_list) \in Nat
  BY <1>1, LenProperties, PidAssumption DEF IInv, TypeOK, ScanKnows
<1>3. /\ l \in Seq(1 .. MAX_PID - 1) /\ Len(l) = Len(proc_list) + 1 /\ l[1] = last_pid
      /\ \A i \in 2 .. Len(l) : l[i] = proc_list[i - 1]
  BY <1>2, PrependFacts
<1>4. \A i \in 1 .. Len(proc_list) : Clear(i)
  BY <1>1 DEF IInv, ScanKnows
<1>5. TypeOK'
  BY <1>1, <1>2, <1>3 DEF IInv, TypeOK
<1>6. PidUnique'
  <2>1. SUFFICES ASSUME NEW i \in 1 .. Len(l), NEW j \in 1 .. Len(l), l[i] = l[j] PROVE i = j
    BY <1>1 DEF PidUnique
  <2>2. CASE i = 1 /\ j # 1
    <3>1. j - 1 \in 1 .. Len(proc_list) /\ l[j] = proc_list[j - 1]
      BY <1>2, <1>3, <2>2
    <3> QED BY <1>3, <1>4, <2>1, <2>2, <3>1 DEF Clear
  <2>3. CASE i # 1 /\ j = 1
    <3>1. i - 1 \in 1 .. Len(proc_list) /\ l[i] = proc_list[i - 1]
      BY <1>2, <1>3, <2>3
    <3> QED BY <1>3, <1>4, <2>1, <2>3, <3>1 DEF Clear
  <2>4. CASE i # 1 /\ j # 1
    <3>1. /\ i - 1 \in 1 .. Len(proc_list) /\ l[i] = proc_list[i - 1]
          /\ j - 1 \in 1 .. Len(proc_list) /\ l[j] = proc_list[j - 1]
      BY <1>2, <1>3, <2>4
    <3>2. i - 1 = j - 1
      BY <2>1, <3>1 DEF IInv, PidUnique
    <3> QED BY <3>2, <1>2, <1>3
  <2> QED BY <2>2, <2>3, <2>4
<1>7. InitIsOne'
  <2>1. CASE proc_list = <<>>
    BY <1>1, <1>3, <2>1 DEF IInv, InitIsOne, FirstIsOne
  <2>2. CASE proc_list # <<>>
    <3>1. Len(proc_list) # 0
      BY <1>2, <2>2, EmptySeq
    <3> QED BY <1>1, <1>2, <1>3, <2>2, <3>1 DEF IInv, InitIsOne
  <2> QED BY <2>1, <2>2
<1>8. CacheSafe'
  <2>1. SUFFICES ASSUME NEW i \in 1 .. Len(l)
                 PROVE  ~ (last_pid < l[i] /\ l[i] < next_safe)
    BY <1>1 DEF CacheSafe
  <2>2. CASE i = 1
    BY <1>2, <1>3, <2>2
  <2>3. CASE i # 1
    <3>1. i - 1 \in 1 .. Len(proc_list) /\ l[i] = proc_list[i - 1]
      BY <1>2, <1>3, <2>3
    <3> QED BY <1>4, <3>1 DEF Clear
  <2> QED BY <2>2, <2>3
<1>9. FirstIsOne'
  <2>1. l # <<>>
    BY <1>2, <1>3
  <2> QED BY <1>1, <2>1 DEF FirstIsOne
<1> QED BY <1>1, <1>5, <1>6, <1>7, <1>8, <1>9 DEF IInv, ScanKnows

\* copy_files failed: the pid is lost, the list is as it was.
LEMMA DropStep == ASSUME IInv, bad_fork_cleanup_fs PROVE IInv'
<1>1. Len(proc_list) \in Nat
  BY LenProperties DEF IInv, TypeOK
<1> QED
  BY <1>1, PidAssumption
     DEF bad_fork_cleanup_fs, IInv, TypeOK, PidUnique, InitIsOne, ScanKnows, Clear, CacheSafe, FirstIsOne

\* A process is reaped: the list loses one that is not the last.
LEMMA RemoveStep == ASSUME IInv, remove_links PROVE IInv'
<1>1. Len(proc_list) \in Nat /\ proc_list \in Seq(1 .. MAX_PID - 1)
  BY LenProperties DEF IInv, TypeOK
<1>2. PICK k \in 1 .. Len(proc_list) - 1 : proc_list' = RemoveAt(proc_list, k)
  BY DEF remove_links
<1> DEFINE l == RemoveAt(proc_list, k)
<1>3. /\ proc_list' = l /\ pc = "out" /\ le' = 1
      /\ UNCHANGED <<last_pid, next_safe, pc>>
  BY <1>2 DEF remove_links
<1>4. /\ l \in Seq(1 .. MAX_PID - 1) /\ Len(l) = Len(proc_list) - 1
      /\ \A j \in 1 .. Len(l) : l[j] = IF j < k THEN proc_list[j] ELSE proc_list[j + 1]
  <2>1. k \in 1 .. Len(proc_list)
    BY <1>1
  <2> QED BY <1>1, <2>1, RemovedFacts
<1> HIDE DEF l
<1>5. TypeOK'
  BY <1>1, <1>3, <1>4 DEF IInv, TypeOK
<1>6. PidUnique'
  <2>1. SUFFICES ASSUME NEW i \in 1 .. Len(l), NEW j \in 1 .. Len(l), l[i] = l[j] PROVE i = j
    BY <1>3 DEF PidUnique
  <2> DEFINE from(x) == IF x < k THEN x ELSE x + 1
  <2>2. /\ from(i) \in 1 .. Len(proc_list) /\ l[i] = proc_list[from(i)]
        /\ from(j) \in 1 .. Len(proc_list) /\ l[j] = proc_list[from(j)]
    BY <1>1, <1>4
  <2>3. from(i) = from(j)
    BY <2>1, <2>2 DEF IInv, PidUnique
  <2> QED BY <2>3, <1>1, <1>4
<1>7. InitIsOne' /\ FirstIsOne'
  <2>1. Len(l) \in 1 .. Len(proc_list) - 1 /\ k <= Len(l) /\ proc_list # <<>>
    BY <1>1, <1>4
  <2>2. l[Len(l)] = proc_list[Len(proc_list)]
    BY <1>1, <1>4, <2>1
  <2>3. l # <<>>
    BY <2>1
  <2> QED BY <1>3, <2>1, <2>2, <2>3 DEF IInv, InitIsOne, FirstIsOne
<1>8. CacheSafe'
  <2>1. SUFFICES ASSUME NEW i \in 1 .. Len(l)
                 PROVE  ~ (last_pid < l[i] /\ l[i] < next_safe)
    BY <1>3 DEF CacheSafe
  <2>2. PICK j \in 1 .. Len(proc_list) : l[i] = proc_list[j]
    BY <1>1, <1>4
  <2> QED BY <1>3, <2>2 DEF IInv, CacheSafe
<1> QED BY <1>3, <1>5, <1>6, <1>7, <1>8 DEF IInv, ScanKnows

\* Every step of PidAlloc keeps the invariant.
LEMMA StepOK == IInv /\ [Next]_vars => IInv'
<1> SUFFICES ASSUME IInv, [Next]_vars PROVE IInv'
  OBVIOUS
<1>1. CASE UNCHANGED vars
  BY <1>1 DEF vars, IInv, TypeOK, PidUnique, InitIsOne, ScanKnows, Clear, CacheSafe, FirstIsOne
<1> QED
  BY <1>1, GetPidStep, TakenStep, OtherStep, EndStep, LinkStep, DropStep, RemoveStep DEF Next, Scan

\* The invariant of get_pid holds in every reachable state.
THEOREM Invariance == Spec => []IInv
BY InitOK, StepOK, PTL DEF Spec

\* Two processes never share a pid, for every MAX_PID > MAX_PROCESS.
THEOREM PidsUnique == Spec => []PidUnique
<1>1. IInv => PidUnique
  BY DEF IInv
<1> QED BY <1>1, Invariance, PTL

\* initproc keeps pid 1, as proc_init asserts.
THEOREM InitPid == Spec => []InitIsOne
<1>1. IInv => InitIsOne
  BY DEF IInv
<1> QED BY <1>1, Invariance, PTL

\* No pid is given again before get_pid's counter has gone through its range.
THEOREM PidsCycleHolds == Spec => PidsCycle
<1>1. IInv /\ [Next]_vars => [PidsCycleStep]_vars
  <2> SUFFICES ASSUME IInv, Next PROVE PidsCycleStep
    BY DEF vars
  <2>1. CASE get_pid
    BY <2>1, PidAssumption DEF get_pid, Rescan, PidsCycleStep, IInv, TypeOK
  <2>2. CASE scan_taken
    BY <2>2, PidAssumption DEF scan_taken, Rescan, Wrapped, PidsCycleStep, IInv, TypeOK, ScanKnows
  <2> QED
    BY <2>1, <2>2
       DEF Next, Scan, scan_other, scan_end, set_links, bad_fork_cleanup_fs, remove_links, PidsCycleStep
<1> QED BY <1>1, Invariance, PTL DEF Spec, PidsCycle

-----------------------------------------------------------------------------
Links == [next : [0 .. NPage -> 0 .. NPage], prev : [0 .. NPage -> 0 .. NPage]]

\* A doubly linked list of pages.
IsList(L, F) == L \in Links /\ F \subseteq Pages /\ Linked(L, F)

LEMMA PagesFacts == NPage \in Nat \ {0} /\ Pages = 0 .. (NPage - 1) /\ free_list = NPage
BY NPageAssumption DEF Pages, free_list

LEMMA LinksFacts ==
  ASSUME NEW L \in Links
  PROVE  /\ L.next \in [0 .. NPage -> 0 .. NPage] /\ L.prev \in [0 .. NPage -> 0 .. NPage]
         /\ L = [next |-> L.next, prev |-> L.prev]
BY DEF Links

\* A walk along next, as the recursive definition has it.
IsWalk(W, L) ==
  /\ W \in [0 .. (NPage + 1) -> 0 .. NPage]
  /\ W[0] = free_list
  /\ \A k \in 1 .. (NPage + 1) : W[k] = L.next[W[k - 1]]

\* What Entries is for the list of F: F in order.
Listed(E, L, F) ==
  /\ E \in Seq(F)
  /\ \A i, j \in 1 .. Len(E) : i < j => E[i] < E[j]
  /\ \A f \in F : \E k \in 1 .. Len(E) : E[k] = f
  /\ list_empty(L) <=> Len(E) = 0
  /\ Len(E) > 0 => L.next[E[Len(E)]] = free_list

\* Entries is what a walk meets before it is back at the head.
LEMMA EntriesIs ==
  ASSUME NEW L \in Links
  PROVE  \E W : /\ IsWalk(W, L)
                /\ LET B == {k \in 1 .. (NPage + 1) : W[k] = free_list}
                   IN  Entries(L) = [k \in 1 .. (IF B = {} THEN NPage + 1 ELSE Min(B) - 1) |-> W[k]]
<1> DEFINE n == NPage + 1
           X == 0 .. NPage
           IsAt(f) == f = [k \in 0 .. n |-> IF k = 0 THEN free_list ELSE L.next[f[k - 1]]]
           W == CHOOSE f : IsAt(f)
           G == [k \in 1 .. n |-> L.next]
<1>1. \E f \in [0 .. n -> X] : IsLoop(f, n, free_list, G)
  <2>1. n \in Nat /\ free_list \in X
    BY PagesFacts
  <2>a. L.next \in [X -> X]
    BY LinksFacts
  <2>2. G \in [1 .. n -> [X -> X]]
    BY <2>a
  <2> HIDE DEF G, n, X
  <2> QED BY <2>1, <2>a, <2>2, LoopRuns
<1>2. PICK f \in [0 .. n -> X] : IsLoop(f, n, free_list, G)
  BY <1>1
<1>3. IsAt(f)
  <2>1. f = [k \in 0 .. n |-> IF k = 0 THEN free_list ELSE G[k][f[k - 1]]]
    BY <1>2 DEF IsLoop
  <2>2. \A k \in 0 .. n : k # 0 => G[k] = L.next
    BY PagesFacts
  <2> HIDE DEF G
  <2> QED BY <2>1, <2>2
<1>4. IsAt(W)
  BY <1>3
<1>5. W \in [0 .. n -> X]
  <2>1. W[0] \in X
    <3>1. 0 \in 0 .. n /\ free_list \in X
      BY PagesFacts
    <3>2. W[0] = free_list
      BY <1>4, <3>1
    <3> QED BY <3>1, <3>2
  <2>2. ASSUME NEW k \in 1 .. n, W[k - 1] \in X PROVE W[k] \in X
    <3>1. k \in 0 .. n /\ k # 0
      BY PagesFacts
    <3>2. W[k] = L.next[W[k - 1]]
      BY <1>4, <3>1
    <3> QED BY <2>2, <3>2, LinksFacts
  <2> DEFINE S == {k \in 0 .. n : W[k] \in X}
  <2>3. 0 .. n \subseteq S
    <3>1. n \in Nat /\ 0 \in S
      BY <2>1, PagesFacts
    <3>2. \A k \in 1 .. n : k - 1 \in S => k \in S
      <4> HIDE DEF W
      <4> QED BY <2>2
    <3> HIDE DEF S, n
    <3> QED BY <3>1, <3>2, LoopInduction
  <2>4. \A k \in 0 .. n : W[k] \in X
    BY <2>3
  <2>5. DOMAIN W = 0 .. n /\ W = [k \in 0 .. n |-> W[k]]
    BY <1>4
  <2> HIDE DEF W
  <2> QED BY <2>4, <2>5
<1>6. IsWalk(W, L)
  <2>1. \A k \in 0 .. n : W[k] = IF k = 0 THEN free_list ELSE L.next[W[k - 1]]
    BY <1>4
  <2>2. \A k \in 1 .. n : k \in 0 .. n /\ k # 0
    BY PagesFacts
  <2>3. W[0] = free_list
    <3>1. 0 \in 0 .. n
      BY PagesFacts
    <3> QED BY <1>4, <3>1
  <2> HIDE DEF W
  <2> QED BY <1>5, <2>1, <2>2, <2>3 DEF IsWalk
<1>7. LET B == {k \in 1 .. (NPage + 1) : W[k] = free_list}
      IN  Entries(L) = [k \in 1 .. (IF B = {} THEN NPage + 1 ELSE Min(B) - 1) |-> W[k]]
  BY DEF Entries
<1> HIDE DEF W
<1> QED BY <1>6, <1>7

\* Min and Max of FiniteSetsExt, where there is one.
LEMMA MinIs ==
  ASSUME NEW S, S \subseteq Int, NEW m \in S, \A x \in S : m <= x
  PROVE  Min(S) = m
<1>1. \E x \in S : \A y \in S : x <= y
  OBVIOUS
<1>2. Min(S) \in S /\ \A y \in S : Min(S) <= y
  BY <1>1 DEF Min
<1> DEFINE k == Min(S)
<1>3. k \in S /\ (\A y \in S : k <= y) /\ S \subseteq Int
  BY <1>2
<1> HIDE DEF k
<1>4. k = m
  BY <1>3
<1> QED BY <1>4 DEF k

LEMMA MaxIs ==
  ASSUME NEW S, S \subseteq Int, NEW m \in S, \A x \in S : x <= m
  PROVE  Max(S) = m
<1>1. \E x \in S : \A y \in S : x >= y
  OBVIOUS
<1>2. Max(S) \in S /\ \A y \in S : Max(S) >= y
  BY <1>1 DEF Max
<1> DEFINE k == Max(S)
<1>3. k \in S /\ (\A y \in S : k >= y) /\ S \subseteq Int
  BY <1>2
<1> HIDE DEF k
<1>4. k = m
  BY <1>3
<1> QED BY <1>4 DEF k

LEMMA MinNat ==
  ASSUME NEW S, S \subseteq Nat, S # {}
  PROVE  Min(S) \in S /\ \A x \in S : Min(S) <= x
<1>1. PICK m \in S : \A x \in S : m <= x
  BY LeastExists
<1>2. S \subseteq Int
  OBVIOUS
<1>3. Min(S) = m
  BY <1>1, <1>2, MinIs
<1> QED BY <1>1, <1>3

\* What is known of the walk's k-th entry while the head is not met again.
Reached(W, F, k) ==
  (\A j \in 1 .. k : W[j] # free_list) =>
    /\ W[k] \in F \cup {free_list} /\ Low(W[k]) >= k - 1
    /\ \A j \in 1 .. k : W[j] \in F
    /\ \A i, j \in 1 .. k : i < j => W[i] < W[j]
    /\ \A f \in F : f <= Low(W[k]) => \E j \in 1 .. k : W[j] = f

\* The walk passes the entries in order and leaves none out.
LEMMA WalkReaches ==
  ASSUME NEW L, NEW F, IsList(L, F), NEW W, IsWalk(W, L)
  PROVE  \A k \in 0 .. (NPage + 1) : Reached(W, F, k)
<1> DEFINE n == NPage + 1
           S == {k \in 0 .. n : Reached(W, F, k)}
<1>0. /\ n \in Nat /\ F \subseteq 0 .. (NPage - 1) /\ NPage \in Nat /\ free_list = NPage
      /\ W[0] = free_list /\ \A k \in 0 .. n : W[k] \in 0 .. NPage
  BY PagesFacts DEF IsList, IsWalk
<1>1. Reached(W, F, 0)
  <2>1. Low(W[0]) = -1
    BY <1>0 DEF Low
  <2> QED BY <1>0, <2>1 DEF Reached
<1>2. ASSUME NEW k \in 1 .. n, Reached(W, F, k - 1) PROVE Reached(W, F, k)
  <2> SUFFICES ASSUME \A j \in 1 .. k : W[j] # free_list
               PROVE  /\ W[k] \in F \cup {free_list} /\ Low(W[k]) >= k - 1
                      /\ \A j \in 1 .. k : W[j] \in F
                      /\ \A i, j \in 1 .. k : i < j => W[i] < W[j]
                      /\ \A f \in F : f <= Low(W[k]) => \E j \in 1 .. k : W[j] = f
    BY DEF Reached
  <2>0. k \in Nat /\ k - 1 \in 0 .. n /\ k \in 0 .. n
    BY <1>0
  <2>1. /\ W[k - 1] \in F \cup {free_list} /\ Low(W[k - 1]) >= k - 2
        /\ \A j \in 1 .. (k - 1) : W[j] \in F
        /\ \A i, j \in 1 .. (k - 1) : i < j => W[i] < W[j]
        /\ \A f \in F : f <= Low(W[k - 1]) => \E j \in 1 .. (k - 1) : W[j] = f
    <3>1. \A j \in 1 .. (k - 1) : W[j] # free_list
      BY <2>0
    <3>2. (k - 1) - 1 = k - 2
      BY <2>0
    <3> QED BY <1>2, <3>1, <3>2 DEF Reached
  <2>2. /\ W[k] = L.next[W[k - 1]] /\ W[k] # free_list /\ W[k] \in F
        /\ Low(W[k - 1]) < W[k] /\ \A f \in F : Low(W[k - 1]) < f => W[k] <= f
    <3>1. W[k] = L.next[W[k - 1]] /\ W[k] # free_list
      BY <2>0 DEF IsWalk
    <3>2. Follows(F, Low(W[k - 1]), L.next[W[k - 1]])
      BY <2>1 DEF IsList, Linked
    <3> QED BY <3>1, <3>2 DEF Follows
  <2>3. Low(W[k]) = W[k] /\ W[k] \in Nat /\ Low(W[k - 1]) \in Int
    BY <1>0, <2>0, <2>1, <2>2 DEF Low
  <2>4. Low(W[k]) >= k - 1
    BY <2>0, <2>1, <2>2, <2>3
  <2>5. \A j \in 1 .. k : W[j] \in F
    BY <2>0, <2>1, <2>2
  <2>6. ASSUME NEW i \in 1 .. k, NEW j \in 1 .. k, i < j PROVE W[i] < W[j]
    <3>1. CASE j < k
      BY <2>0, <2>1, <2>6, <3>1
    <3>2. CASE j = k
      <4>1. i \in 1 .. (k - 1) /\ k - 1 \in 1 .. (k - 1)
        BY <2>0, <2>6, <3>2
      <4>2. W[k - 1] \in F /\ W[i] \in F /\ (i = k - 1 \/ W[i] < W[k - 1])
        BY <2>0, <2>1, <4>1
      <4>3. Low(W[k - 1]) = W[k - 1]
        BY <1>0, <4>2 DEF Low
      <4>4. W[k - 1] < W[k] /\ W[i] \in Int /\ W[k - 1] \in Int /\ W[k] \in Int
        BY <1>0, <2>2, <4>2, <4>3
      <4> HIDE <1>0, <2>1, <2>2
      <4> QED BY <3>2, <4>2, <4>4
    <3> QED BY <2>0, <3>1, <3>2
  <2>7. ASSUME NEW f \in F, f <= Low(W[k]) PROVE \E j \in 1 .. k : W[j] = f
    <3>1. CASE f <= Low(W[k - 1])
      <4>1. PICK j \in 1 .. (k - 1) : W[j] = f
        BY <2>1, <3>1
      <4> QED BY <2>0, <4>1
    <3>2. CASE ~(f <= Low(W[k - 1]))
      <4>1. f \in Int /\ Low(W[k - 1]) < f
        BY <1>0, <2>3, <3>2
      <4>2. W[k] = f
        BY <2>2, <2>3, <2>7, <4>1
      <4> QED BY <2>0, <4>2
    <3> QED BY <3>1, <3>2
  <2> QED BY <2>2, <2>4, <2>5, <2>6, <2>7
<1>3. 0 .. n \subseteq S
  <2>1. 0 \in S
    BY <1>0, <1>1
  <2>2. \A k \in 1 .. n : k - 1 \in S => k \in S
    <3>1. ASSUME NEW k \in 1 .. n, k - 1 \in S PROVE k \in S
      <4>1. k \in 0 .. n /\ Reached(W, F, k - 1)
        BY <1>0, <3>1
      <4> QED BY <4>1, <1>2
    <3> QED BY <3>1
  <2> HIDE DEF S, n
  <2> QED BY <1>0, <2>1, <2>2, LoopInduction
<1> QED BY <1>3

\* Entries of the list of F is F in order.
LEMMA EntriesFacts ==
  ASSUME NEW L, NEW F, IsList(L, F)
  PROVE  Listed(Entries(L), L, F)
<1>1. PICK W : /\ IsWalk(W, L)
               /\ LET B == {k \in 1 .. (NPage + 1) : W[k] = free_list}
                  IN  Entries(L) = [k \in 1 .. (IF B = {} THEN NPage + 1 ELSE Min(B) - 1) |-> W[k]]
  BY EntriesIs DEF IsList
<1> DEFINE n == NPage + 1
           B == {k \in 1 .. n : W[k] = free_list}
           m == Min(B)
           E == [k \in 1 .. (m - 1) |-> W[k]]
<1>0. /\ n \in Nat /\ NPage \in Nat /\ F \subseteq 0 .. (NPage - 1) /\ free_list = NPage
      /\ \A k \in 0 .. n : W[k] \in 0 .. NPage /\ Reached(W, F, k)
  <2>1. \A k \in 0 .. n : Reached(W, F, k)
    BY <1>1, WalkReaches
  <2>2. \A k \in 0 .. n : W[k] \in 0 .. NPage
    BY <1>1 DEF IsWalk
  <2> QED BY <2>1, <2>2, PagesFacts DEF IsList
<1>2. B # {}
  <2> SUFFICES ASSUME B = {} PROVE FALSE
    OBVIOUS
  <2>1. \A j \in 1 .. n : W[j] # free_list
    OBVIOUS
  <2>2. n \in 0 .. n /\ n \in 1 .. n
    BY <1>0
  <2>3. W[n] \in F /\ Low(W[n]) >= n - 1
    BY <1>0, <2>1, <2>2 DEF Reached
  <2>4. Low(W[n]) = W[n]
    BY <1>0, <2>1, <2>2 DEF Low
  <2> QED BY <1>0, <2>3, <2>4
<1>3. m \in B /\ \A k \in B : m <= k
  <2>1. B \subseteq Nat
    BY <1>0
  <2> HIDE DEF B
  <2> QED BY <1>2, <2>1, MinNat
<1>4. Entries(L) = E
  BY <1>1, <1>2
<1>5. m \in 1 .. n /\ W[m] = free_list /\ \A j \in 1 .. (m - 1) : W[j] # free_list
  <2>1. m \in 1 .. n /\ W[m] = free_list
    BY <1>3
  <2>2. ASSUME NEW j \in 1 .. (m - 1), W[j] = free_list PROVE FALSE
    <3> HIDE DEF m
    <3>1. j \in 1 .. n /\ ~(m <= j)
      BY <1>0, <2>1
    <3> QED BY <1>3, <2>2, <3>1
  <2> QED BY <2>1, <2>2
<1> HIDE DEF m, B
<1> DEFINE l == m - 1
<1>6. l \in 0 .. n /\ l + 1 = m /\ l \in Nat
  BY <1>0, <1>5
<1>7. /\ W[l] \in F \cup {free_list}
      /\ \A j \in 1 .. l : W[j] \in F
      /\ \A i, j \in 1 .. l : i < j => W[i] < W[j]
      /\ \A f \in F : f <= Low(W[l]) => \E j \in 1 .. l : W[j] = f
  BY <1>0, <1>5, <1>6 DEF Reached
<1>8. L.next[W[l]] = free_list /\ \A f \in F : f <= Low(W[l])
  <2>1. L.next[W[l]] = W[m]
    BY <1>1, <1>5 DEF IsWalk
  <2>2. Follows(F, Low(W[l]), L.next[W[l]])
    BY <1>7 DEF IsList, Linked
  <2>3. Low(W[l]) \in Int
    BY <1>0, <1>6 DEF Low
  <2>4. ASSUME NEW f \in F PROVE f <= Low(W[l])
    <3>1. ~(Low(W[l]) < f)
      <4>1. ~(free_list <= f)
        BY <1>0
      <4> QED BY <1>5, <2>1, <2>2, <4>1 DEF Follows
    <3> QED BY <1>0, <2>3, <3>1
  <2> QED BY <1>5, <2>1, <2>4
<1>9. E \in Seq(F) /\ Len(E) = l /\ \A k \in 1 .. l : E[k] = W[k]
  <2>1. E \in [1 .. l -> F]
    BY <1>7
  <2>2. E \in Seq(F)
    BY <1>6, <2>1, SeqDef
  <2>3. DOMAIN E = 1 .. l
    OBVIOUS
  <2>4. DOMAIN E = 1 .. Len(E) /\ Len(E) \in Nat
    BY <2>2, LenProperties
  <2> HIDE DEF E, l
  <2>5. Len(E) = l
    BY <1>6, <2>3, <2>4
  <2> QED BY <2>2, <2>5 DEF E, l
<1> HIDE DEF E
<1>10. \A f \in F : \E k \in 1 .. l : E[k] = f
  <2> TAKE f \in F
  <2>1. PICK k \in 1 .. l : W[k] = f
    BY <1>7, <1>8
  <2> QED BY <1>9, <2>1
<1>11. list_empty(L) <=> l = 0
  <2>1. CASE l = 0
    <3>1. W[0] = free_list
      BY <1>1 DEF IsWalk
    <3> QED BY <1>8, <2>1, <3>1 DEF list_empty
  <2>2. CASE l # 0
    <3>1. 1 \in 1 .. l /\ 1 \in 1 .. n /\ 1 - 1 = 0
      BY <1>0, <1>6, <2>2
    <3>2. W[0] = free_list /\ W[1] = L.next[W[0]]
      BY <1>1, <3>1 DEF IsWalk
    <3>3. W[1] # free_list
      BY <1>5, <3>1
    <3> QED BY <2>2, <3>2, <3>3 DEF list_empty
  <2> QED BY <2>1, <2>2
<1>12. l > 0 => L.next[E[l]] = free_list
  BY <1>6, <1>8, <1>9
<1>13. \A i, j \in 1 .. l : i < j => E[i] < E[j]
  BY <1>7, <1>9
<1> HIDE DEF l
<1>14. Listed(E, L, F)
  BY <1>9, <1>10, <1>11, <1>12, <1>13 DEF Listed
<1> QED BY <1>4, <1>14

\* The places of some entries, and the first of them.
PlacesOf(K, E, T) == K = {k \in 1 .. Len(E) : E[k] \in T}
FirstIs(K, E, T) ==
  /\ K # {} /\ Min(K) \in 1 .. Len(E)
  /\ E[Min(K)] \in T /\ \A t \in T : E[Min(K)] <= t

\* The first entry of a kind is the least page of that kind.
LEMMA FirstEntry ==
  ASSUME NEW L, NEW F, F \subseteq Nat, NEW E, Listed(E, L, F), NEW T, T \subseteq F, T # {},
         NEW K, PlacesOf(K, E, T)
  PROVE  FirstIs(K, E, T)
<1>0. K = {k \in 1 .. Len(E) : E[k] \in T}
  BY DEF PlacesOf
<1> DEFINE m == Min(K)
<1>1. Len(E) \in Nat /\ \A k \in 1 .. Len(E) : E[k] \in F
  BY LenProperties, ElementOfSeq DEF Listed
<1>2. K # {} /\ K \subseteq Nat
  <2>1. PICK t \in T : TRUE
    OBVIOUS
  <2>2. \E k \in 1 .. Len(E) : E[k] = t
    BY <2>1 DEF Listed
  <2> QED BY <1>0, <1>1, <2>2
<1>3. m \in K /\ \A k \in K : m <= k
  BY <1>2, MinNat
<1> HIDE DEF m
<1>4. m \in 1 .. Len(E) /\ E[m] \in T
  BY <1>0, <1>3
<1>5. ASSUME NEW t \in T PROVE E[m] <= t
  <2>1. PICK k \in 1 .. Len(E) : E[k] = t
    BY DEF Listed
  <2>2. m <= k /\ E[m] \in Nat /\ E[k] \in Nat
    BY <1>0, <1>1, <1>3, <1>4, <2>1
  <2>3. m = k \/ m < k
    BY <1>1, <1>4, <2>2
  <2>4. m < k => E[m] < E[k]
    BY <1>4 DEF Listed
  <2> QED BY <2>1, <2>2, <2>3, <2>4
<1> QED BY <1>2, <1>4, <1>5 DEF m, FirstIs

-----------------------------------------------------------------------------
(* libs/list.h *)

\* Linked, for the two fields of a list by themselves.
Tied(N, P, F) ==
  \A e \in F \cup {free_list} :
    /\ N[e] \in F \cup {free_list} /\ Low(e) < N[e]
    /\ \A f \in F : Low(e) < f => N[e] <= f
    /\ P[N[e]] = e /\ P[e] \in F \cup {free_list} /\ N[P[e]] = e

LEMMA LowFacts ==
  ASSUME NEW F, F \subseteq Pages
  PROVE  /\ F \cup {free_list} \subseteq 0 .. NPage /\ free_list \notin F
         /\ \A e \in F : e \in Int /\ Low(e) = e
         /\ Low(free_list) = -1
<1>1. NPage \in Nat /\ free_list = NPage /\ F \subseteq 0 .. (NPage - 1)
  BY PagesFacts
<1>2. free_list \notin F
  BY <1>1
<1> QED BY <1>1, <1>2 DEF Low

\* __list_add between two neighbours, on next and prev alone.
LEMMA AddTied ==
  ASSUME NEW F, F \subseteq Pages, NEW N \in [0 .. NPage -> 0 .. NPage],
         NEW P \in [0 .. NPage -> 0 .. NPage], Tied(N, P, F), NEW b \in Pages, b \notin F,
         NEW p \in F \cup {free_list}, NEW n, n = N[p], Low(p) < b, b < n,
         NEW N2, N2 = [N EXCEPT ![p] = b, ![b] = n],
         NEW P2, P2 = [P EXCEPT ![n] = b, ![b] = p]
  PROVE  Tied(N2, P2, F \cup {b})
<1> DEFINE H == F \cup {free_list}
<1>0. /\ NPage \in Nat /\ free_list = NPage /\ F \subseteq 0 .. (NPage - 1) /\ b \in 0 .. (NPage - 1)
  BY PagesFacts
<1>1. \A e \in H : /\ N[e] \in H /\ Low(e) < N[e] /\ (\A f \in F : Low(e) < f => N[e] <= f)
                   /\ P[N[e]] = e /\ P[e] \in H /\ N[P[e]] = e
  BY DEF Tied
<1>a. /\ p \in H /\ n \in H /\ \A e \in F : Low(e) = e /\ e \in Int /\ e \in H
      /\ Low(free_list) = -1 /\ free_list \notin F /\ H \subseteq 0 .. NPage
  BY <1>1, LowFacts
<1>4. /\ b \notin H /\ b \in 0 .. NPage /\ Low(b) = b /\ b \in Int /\ n \in Int
      /\ \A e \in H : Low(e) \in Int /\ (e = free_list \/ (e \in F /\ Low(e) = e)) /\ N[e] \in Int
                       /\ Low(e) >= -1
  <2>1. b # free_list /\ b \in 0 .. NPage
    BY <1>0
  <2>2. b \notin H /\ Low(b) = b /\ b \in Int
    BY <1>0, <2>1 DEF Low
  <2>3. n \in Int
    BY <1>a
  <2>4. ASSUME NEW e \in H PROVE Low(e) \in Int /\ (e = free_list \/ (e \in F /\ Low(e) = e)) /\ N[e] \in Int
                                    /\ Low(e) >= -1
    <3>1. N[e] \in 0 .. NPage
      BY <1>1, <1>a
    <3>2. CASE e = free_list
      BY <1>a, <3>1, <3>2
    <3>3. CASE e # free_list
      <4>1. e \in F /\ e \in 0 .. (NPage - 1)
        BY <1>0, <3>3
      <4>2. Low(e) = e /\ e \in Int
        BY <1>a, <4>1
      <4> QED BY <1>0, <3>1, <4>1, <4>2
    <3> QED BY <3>2, <3>3
  <2> QED BY <2>1, <2>2, <2>3, <2>4
<1>5. /\ N2[p] = b /\ N2[b] = n /\ \A e \in H : e # p => N2[e] = N[e]
      /\ P2[n] = b /\ P2[b] = p /\ \A e \in H : e # n => P2[e] = P[e]
  BY <1>0, <1>a, <1>4
<1> HIDE DEF H
<1>6. \A e \in H : e # p => N[e] # n /\ (Low(e) < b => N[e] <= b)
  <2> TAKE e \in H
  <2> HAVE e # p
  <2>1. N[e] # n
    <3>1. P[N[e]] = e /\ P[n] = p
      BY <1>1, <1>a
    <3> QED BY <3>1
  <2>2. ASSUME Low(e) < b PROVE N[e] <= b
    <3>0. Low(e) \in Int /\ Low(p) \in Int /\ N[e] \in Int /\ b \in Int
      BY <1>4, <1>a
    <3>1. Low(e) < Low(p) \/ Low(p) < Low(e)
      <4>1. CASE e = free_list
        <5>1. p \in F /\ Low(p) = p /\ p \in 0 .. (NPage - 1)
          BY <1>0, <1>4, <1>a, <4>1
        <5> QED BY <1>a, <4>1, <5>1
      <4>2. CASE e # free_list
        <5>1. e \in F /\ Low(e) = e /\ e \in 0 .. (NPage - 1)
          BY <1>0, <1>4, <4>2
        <5>2. p = free_list \/ Low(p) = p
          BY <1>4, <1>a
        <5> QED BY <1>a, <5>1, <5>2, <3>0
      <4> QED BY <4>1, <4>2
    <3>2. CASE Low(e) < Low(p)
      <4>1. p \in F /\ Low(p) = p
        <5>1. CASE p = free_list
          <6>1. Low(e) < -1
            BY <1>a, <3>2, <5>1
          <6>2. Low(e) \in Int /\ Low(e) >= -1
            BY <1>4
          <6> QED BY <6>1, <6>2
        <5> QED BY <1>4, <1>a, <5>1
      <4>2. N[e] <= p /\ p \in Int
        BY <1>1, <1>a, <3>2, <4>1
      <4>3. p < b
        BY <4>1
      <4> HIDE <1>1
      <4> QED BY <3>0, <4>2, <4>3
    <3>3. CASE Low(p) < Low(e)
      <4>1. e \in F /\ Low(e) = e
        <5>1. CASE e = free_list
          <6>1. Low(p) < -1
            BY <1>a, <3>3, <5>1
          <6>2. Low(p) \in Int /\ Low(p) >= -1
            BY <1>4, <1>a
          <6> QED BY <6>1, <6>2
        <5> QED BY <1>4, <5>1
      <4>2. n <= e /\ e \in Int
        BY <1>1, <1>a, <3>3, <4>1
      <4>3. e < b
        BY <2>2, <4>1
      <4> QED BY <1>4, <4>2, <4>3
    <3> QED BY <3>1, <3>2, <3>3
  <2> QED BY <2>1, <2>2
<1> DEFINE G == F \cup {b}
           I == G \cup {free_list}
<1>7. \A e \in I : /\ N2[e] \in I /\ Low(e) < N2[e] /\ (\A f \in G : Low(e) < f => N2[e] <= f)
                   /\ P2[N2[e]] = e /\ P2[e] \in I /\ N2[P2[e]] = e
  <2> TAKE e \in I
  <2>0. I = H \cup {b} /\ b \in I /\ n \in I /\ p \in I
    BY <1>a DEF H
  <2>1. CASE e = b
    <3>1. N2[e] = n /\ P2[e] = p /\ P2[n] = b /\ N2[p] = b /\ Low(e) = b
      BY <1>4, <1>5, <2>1
    <3>2. ASSUME NEW f \in G, b < f PROVE n <= f
      <4>1. f \in F /\ f \in Int
        BY <1>4, <1>a, <3>2
      <4>2. Low(p) < f
        BY <1>4, <1>a, <3>2, <4>1
      <4> QED BY <1>1, <1>a, <4>1, <4>2
    <3> QED BY <2>0, <2>1, <3>1, <3>2
  <2>2. CASE e = p
    <3>1. N2[e] = b /\ Low(e) < b /\ P2[b] = p
      BY <1>5, <2>2
    <3>2. ASSUME NEW f \in G, Low(p) < f PROVE b <= f
      <4>1. CASE f = b
        BY <1>4, <4>1
      <4>2. CASE f # b
        <5>1. f \in F /\ f \in Int
          BY <1>a, <4>2
        <5>2. n <= f
          BY <1>1, <1>a, <3>2, <5>1
        <5> QED BY <5>1, <5>2, <1>4
      <4> QED BY <4>1, <4>2
    <3>3. P2[e] \in I /\ N2[P2[e]] = e
      <4>1. CASE e = n
        BY <1>5, <2>0, <4>1
      <4>2. CASE e # n
        <5>1. P2[e] = P[e] /\ P[e] \in H /\ N[P[e]] = e
          BY <1>1, <1>a, <1>5, <2>2, <4>2
        <5>2. P[e] # p
          BY <4>2, <5>1
        <5>3. P[e] \in I /\ N2[P[e]] = N[P[e]]
          BY <1>5, <2>0, <5>1, <5>2
        <5> QED BY <5>1, <5>3
      <4> QED BY <4>1, <4>2
    <3> QED BY <2>0, <2>2, <3>1, <3>2, <3>3
  <2>3. CASE e # b /\ e # p
    <3>1. e \in H /\ N2[e] = N[e] /\ N[e] \in H /\ N[e] # n /\ Low(e) < N[e]
      BY <1>1, <1>5, <1>6, <2>0, <2>3
    <3>2. P2[N2[e]] = e
      <4>1. P2[N[e]] = P[N[e]] /\ P[N[e]] = e
        BY <1>1, <1>5, <3>1
      <4> QED BY <3>1, <4>1
    <3>3. ASSUME NEW f \in G, Low(e) < f PROVE N[e] <= f
      <4>1. CASE f = b
        BY <1>6, <2>3, <3>1, <3>3, <4>1
      <4>2. CASE f # b
        BY <1>1, <3>1, <3>3, <4>2
      <4> QED BY <4>1, <4>2
    <3>4. P2[e] \in I /\ N2[P2[e]] = e
      <4>1. CASE e = n
        BY <1>5, <2>0, <4>1
      <4>2. CASE e # n
        <5>1. P2[e] = P[e] /\ P[e] \in H /\ N[P[e]] = e
          BY <1>1, <1>5, <3>1, <4>2
        <5>2. P[e] # p
          BY <4>2, <5>1
        <5>3. P[e] \in I /\ N2[P[e]] = N[P[e]]
          BY <1>5, <2>0, <5>1, <5>2
        <5> QED BY <5>1, <5>3
      <4> QED BY <4>1, <4>2
    <3> QED BY <2>0, <3>1, <3>2, <3>3, <3>4
  <2> QED BY <2>1, <2>2, <2>3
<1> HIDE DEF G
<1> QED BY <1>7 DEF Tied, G

LEMMA TiedIs ==
  ASSUME NEW L, NEW F
  PROVE  Linked(L, F) <=> Tied(L.next, L.prev, F)
BY DEF Linked, Tied, Follows

\* __list_add between two neighbours keeps the list.
LEMMA AddKeeps ==
  ASSUME NEW L, NEW F, IsList(L, F), NEW b \in Pages, b \notin F,
         NEW p \in F \cup {free_list}, Low(p) < b, b < L.next[p]
  PROVE  IsList(__list_add(L, b, p, L.next[p]), F \cup {b})
<1>1. PICK N, P, n : N = L.next /\ P = L.prev /\ n = L.next[p]
  OBVIOUS
<1>2. PICK N2, P2 : N2 = [N EXCEPT ![p] = b, ![b] = n] /\ P2 = [P EXCEPT ![n] = b, ![b] = p]
  OBVIOUS
<1>3. /\ N \in [0 .. NPage -> 0 .. NPage] /\ P \in [0 .. NPage -> 0 .. NPage]
      /\ F \subseteq Pages /\ Tied(N, P, F)
  BY <1>1, LinksFacts, TiedIs DEF IsList
<1>4. p \in 0 .. NPage /\ b \in 0 .. NPage /\ n \in 0 .. NPage
  BY <1>1, <1>3, LowFacts, PagesFacts
<1>5. Tied(N2, P2, F \cup {b})
  BY <1>1, <1>2, <1>3, AddTied
<1>6. __list_add(L, b, p, L.next[p]) = [next |-> N2, prev |-> P2]
  BY <1>1, <1>2 DEF __list_add
<1>7. N2 \in [0 .. NPage -> 0 .. NPage] /\ P2 \in [0 .. NPage -> 0 .. NPage]
  BY <1>2, <1>3, <1>4
<1>8. PICK M : M = [next |-> N2, prev |-> P2]
  OBVIOUS
<1>9. M \in Links /\ M.next = N2 /\ M.prev = P2
  BY <1>7, <1>8 DEF Links
<1>10. IsList(M, F \cup {b})
  BY <1>3, <1>5, <1>9, TiedIs DEF IsList
<1> QED BY <1>6, <1>8, <1>10

\* list_del on next and prev alone.
LEMMA DelTied ==
  ASSUME NEW F, F \subseteq Pages, NEW N \in [0 .. NPage -> 0 .. NPage],
         NEW P \in [0 .. NPage -> 0 .. NPage], Tied(N, P, F), NEW e \in F,
         NEW p, p = P[e], NEW n, n = N[e],
         NEW N2, N2 = [N EXCEPT ![p] = n], NEW P2, P2 = [P EXCEPT ![n] = p]
  PROVE  Tied(N2, P2, F \ {e})
<1> DEFINE H == F \cup {free_list}
           I == (F \ {e}) \cup {free_list}
<1>1. \A x \in H : /\ N[x] \in H /\ Low(x) < N[x] /\ (\A f \in F : Low(x) < f => N[x] <= f)
                   /\ P[N[x]] = x /\ P[x] \in H /\ N[P[x]] = x
  BY DEF Tied
<1>2. /\ e \in H /\ p \in H /\ n \in H /\ \A x \in F : Low(x) = x /\ x \in Int /\ x \in H
      /\ Low(free_list) = -1 /\ free_list \notin F /\ H \subseteq 0 .. NPage
  BY <1>1, LowFacts
<1>3. \A x \in H : x \in Int /\ Low(x) \in Int
  <2> TAKE x \in H
  <2>1. x \in Int
    BY <1>2
  <2>2. x = free_list \/ x \in F
    OBVIOUS
  <2>3. -1 \in Int
    OBVIOUS
  <2> HIDE DEF H
  <2> QED BY <1>2, <2>1, <2>2, <2>3
<1>4. I = H \ {e}
  BY <1>2
<1>5. Low(e) = e /\ e < n /\ N[p] = e /\ Low(p) < e /\ P[n] = e
  BY <1>1, <1>2
<1>6. n # e /\ p # e
  <2>1. p # e
    <3>1. CASE p = e
      BY <1>3, <1>2, <1>5, <3>1
    <3> QED BY <3>1
  <2> QED BY <1>2, <1>3, <1>5, <2>1
<1>7. /\ N2[p] = n /\ \A x \in H : x # p => N2[x] = N[x]
      /\ P2[n] = p /\ \A x \in H : x # n => P2[x] = P[x]
  BY <1>2
<1> HIDE DEF H, I
<1>8. \A x \in I : /\ N2[x] \in I /\ Low(x) < N2[x] /\ (\A f \in F \ {e} : Low(x) < f => N2[x] <= f)
                   /\ P2[N2[x]] = x
  <2> TAKE x \in I
  <2>0. x \in H /\ x # e
    BY <1>4
  <2>1. CASE x = p
    <3>1. N2[x] = n /\ n \in I /\ P2[n] = x
      BY <1>2, <1>4, <1>6, <1>7, <2>1
    <3>2. Low(x) < n
      BY <1>2, <1>3, <1>5, <2>0, <2>1
    <3>3. ASSUME NEW f \in F \ {e}, Low(x) < f PROVE n <= f
      <4>1. e <= f /\ f # e /\ e \in Int /\ f \in Int
        BY <1>1, <1>2, <1>5, <2>0, <2>1, <3>3
      <4>2. Low(e) < f
        BY <1>5, <4>1
      <4> QED BY <1>1, <1>2, <4>2
    <3> QED BY <3>1, <3>2, <3>3
  <2>2. CASE x # p
    <3>1. N2[x] = N[x] /\ N[x] \in H /\ P[N[x]] = x /\ Low(x) < N[x]
      BY <1>1, <1>7, <2>0, <2>2
    <3>2. N[x] # e /\ N[x] # n
      BY <1>5, <2>0, <2>2, <3>1
    <3>3. N[x] \in I /\ P2[N[x]] = x
      BY <1>4, <1>7, <3>1, <3>2
    <3>4. \A f \in F \ {e} : Low(x) < f => N[x] <= f
      BY <1>1, <2>0
    <3> QED BY <3>1, <3>3, <3>4
  <2> QED BY <2>1, <2>2
<1>9. \A x \in I : P2[x] \in I /\ N2[P2[x]] = x
  <2> TAKE x \in I
  <2>0. x \in H /\ x # e
    BY <1>4
  <2>1. CASE x = n
    BY <1>2, <1>4, <1>6, <1>7, <2>1
  <2>2. CASE x # n
    <3>1. P2[x] = P[x] /\ P[x] \in H /\ N[P[x]] = x
      BY <1>1, <1>7, <2>0, <2>2
    <3>2. P[x] # e /\ P[x] # p
      BY <1>5, <2>0, <2>2, <3>1
    <3>3. P[x] \in I /\ N2[P[x]] = N[P[x]]
      BY <1>4, <1>7, <3>1, <3>2
    <3> QED BY <3>1, <3>3
  <2> QED BY <2>1, <2>2
<1> QED BY <1>8, <1>9 DEF Tied, I

\* list_del keeps the list.
LEMMA DelKeeps ==
  ASSUME NEW L, NEW F, IsList(L, F), NEW e \in F
  PROVE  IsList(list_del(L, e), F \ {e})
<1>1. PICK N, P, n, p : N = L.next /\ P = L.prev /\ n = L.next[e] /\ p = L.prev[e]
  OBVIOUS
<1>2. PICK N2, P2 : N2 = [N EXCEPT ![p] = n] /\ P2 = [P EXCEPT ![n] = p]
  OBVIOUS
<1>3. /\ N \in [0 .. NPage -> 0 .. NPage] /\ P \in [0 .. NPage -> 0 .. NPage]
      /\ F \subseteq Pages /\ Tied(N, P, F)
  BY <1>1, LinksFacts, TiedIs DEF IsList
<1>4. p \in 0 .. NPage /\ n \in 0 .. NPage
  BY <1>1, <1>3, LowFacts
<1>5. Tied(N2, P2, F \ {e})
  BY <1>1, <1>2, <1>3, DelTied
<1>6. list_del(L, e) = [next |-> N2, prev |-> P2]
  BY <1>1, <1>2 DEF list_del
<1>7. N2 \in [0 .. NPage -> 0 .. NPage] /\ P2 \in [0 .. NPage -> 0 .. NPage]
  BY <1>2, <1>3, <1>4
<1>8. PICK M : M = [next |-> N2, prev |-> P2]
  OBVIOUS
<1>9. M \in Links /\ M.next = N2 /\ M.prev = P2
  BY <1>7, <1>8 DEF Links
<1>10. IsList(M, F \ {e})
  <2>1. F \ {e} \subseteq Pages
    BY <1>3
  <2> QED BY <2>1, <1>5, <1>9, TiedIs DEF IsList
<1> QED BY <1>6, <1>8, <1>10

-----------------------------------------------------------------------------
(* default_free_pages: the block goes into its place in the list *)

\* The loop of default_free_pages finds the place of base and links it there,
\* once: under first fit because an entry lies above it.
LEMMA InsertKeeps ==
  ASSUME IsList(links, flagged), NEW base \in Pages, base \notin flagged,
         BestFit \/ \E f \in flagged : base < f
  PROVE  IsList(Inserted(base), flagged \cup {base})
<1>1. PICK L, F, E : L = links /\ F = flagged /\ E = Entries(links)
  OBVIOUS
<1> DEFINE T == {f \in F : base < f}
           K == {k \in 1 .. Len(E) : base < E[k]}
           H == F \cup {free_list}
<1>2. IsList(L, F) /\ Listed(E, L, F) /\ base \notin F
  BY <1>1, EntriesFacts
<1>3. /\ F \subseteq Pages /\ F \subseteq Nat /\ base \in Int /\ base < free_list /\ -1 < base
      /\ free_list \notin F /\ Low(free_list) = -1 /\ \A e \in F : Low(e) = e /\ e \in Int
  <2>1. F \subseteq Pages
    BY <1>2 DEF IsList
  <2>2. NPage \in Nat /\ F \subseteq 0 .. (NPage - 1) /\ base \in 0 .. (NPage - 1) /\ free_list = NPage
    BY <2>1, PagesFacts
  <2> QED BY <2>1, <2>2, LowFacts
<1>4. \A e \in H : /\ Low(e) < L.next[e]
                   /\ L.prev[e] \in H /\ L.next[L.prev[e]] = e
  BY <1>2 DEF IsList, Linked, Follows
<1>5. \A k \in 1 .. Len(E) : E[k] \in F
  BY <1>2, ElementOfSeq DEF Listed
<1>6. Len(E) \in Nat
  BY <1>2, LenProperties DEF Listed
<1>7. Inserted(base) =
        IF list_empty(L) THEN list_add(L, free_list, base)
        ELSE IF K # {} THEN list_add_before(L, E[Min(K)], base)
        ELSE IF BestFit THEN list_add(L, E[Len(E)], base)
        ELSE list_add(list_add(L, E[Len(E)], base), base, base)
  BY <1>1 DEF Inserted
<1>8. CASE list_empty(L)
  <2>1. L.next[free_list] = free_list
    BY <1>8 DEF list_empty
  <2>2. IsList(__list_add(L, base, free_list, L.next[free_list]), F \cup {base})
    BY <1>2, <1>3, <2>1, AddKeeps
  <2> QED BY <1>1, <1>7, <1>8, <2>2 DEF list_add
<1>9. CASE ~list_empty(L) /\ T # {}
  <2>1. PlacesOf(K, E, T)
    BY <1>5 DEF PlacesOf
  <2>2. T \subseteq F
    OBVIOUS
  <2>3. PICK n : n = E[Min(K)]
    OBVIOUS
  <2> HIDE DEF T, K
  <2>4. K # {} /\ n \in T /\ \A t \in T : n <= t
    <3>1. F \subseteq Nat /\ Listed(E, L, F) /\ T # {}
      BY <1>2, <1>3, <1>9
    <3>2. FirstIs(K, E, T)
      BY <3>1, <2>1, <2>2, FirstEntry
    <3> QED BY <2>3, <3>2 DEF FirstIs
  <2> USE DEF T
  <2>5. PICK p : p = L.prev[n]
    OBVIOUS
  <2>6. p \in H /\ L.next[p] = n /\ Low(p) < n
    BY <1>4, <2>4, <2>5
  <2>7. Low(p) < base
    <3>1. CASE p = free_list
      BY <1>3, <3>1
    <3>2. CASE p # free_list
      <4>1. p \in F /\ Low(p) = p /\ p \in Int /\ p # base
        BY <1>2, <1>3, <2>6, <3>2
      <4>2. ~(base < p)
        <5>1. base < p => n <= p
          BY <2>4, <4>1
        <5>2. n \in Int /\ p < n
          BY <1>3, <2>4, <2>6, <4>1
        <5> QED BY <4>1, <5>1, <5>2
      <4> QED BY <1>3, <4>1, <4>2
    <3> QED BY <3>1, <3>2
  <2>8. base < n
    BY <2>4
  <2>9. IsList(__list_add(L, base, p, L.next[p]), F \cup {base})
    BY <1>2, <2>6, <2>7, <2>8, AddKeeps
  <2> QED BY <1>1, <1>7, <1>9, <2>3, <2>4, <2>5, <2>6, <2>9 DEF list_add_before
<1>10. CASE ~list_empty(L) /\ T = {}
  <2>1. BestFit
    BY <1>1, <1>10
  <2>2. K = {}
    BY <1>5, <1>10
  <2>3. PICK l : l = E[Len(E)]
    OBVIOUS
  <2>4. l \in F /\ L.next[l] = free_list
    <3>1. Len(E) > 0 /\ Len(E) \in 1 .. Len(E)
      BY <1>2, <1>6, <1>10 DEF Listed
    <3> QED BY <1>2, <1>5, <2>3, <3>1 DEF Listed
  <2>5. Low(l) < base
    <3>1. l # base /\ ~(base < l) /\ l \in Int /\ Low(l) = l
      BY <1>2, <1>3, <1>10, <2>4
    <3> QED BY <1>3, <3>1
  <2>6. IsList(__list_add(L, base, l, L.next[l]), F \cup {base})
    BY <1>2, <1>3, <2>4, <2>5, AddKeeps
  <2> QED BY <1>1, <1>7, <1>10, <2>1, <2>2, <2>3, <2>6 DEF list_add
<1> QED BY <1>8, <1>9, <1>10

-----------------------------------------------------------------------------
(* default_free_pages: two neighbours become one *)

\* A page of a block.
LEMMA BlockIs ==
  ASSUME NEW b \in Int, NEW n \in Int
  PROVE  Block(b, n) = {x \in Int : b <= x /\ x < b + n}
BY DEF Block

LEMMA CoveredIs ==
  ASSUME NEW z, NEW F, NEW x
  PROVE  x \in Covered(z, F) <=> \E e \in F : x \in Block(e, z[e])
BY DEF Covered

\* The blocks of F, of sizes z: in order, and with gaps unless the lower one is b.
IsHeap(z, F, b) ==
  z \in [Pages -> 0 .. NPage] /\ F \subseteq Pages /\ Rise(z, F) /\ Gaps(z, F, b)

\* What Joined does, without the list.
Together(z, low, high) == [z EXCEPT ![low] = @ + z[high]]

\* Joining two blocks that touch keeps the order and what they cover.
LEMMA JoinFacts ==
  ASSUME NEW z \in [Pages -> 0 .. NPage], NEW F, F \subseteq Pages, Rise(z, F),
         NEW low \in F, NEW high \in F, low + z[low] = high,
         NEW y, y = Together(z, low, high), NEW G, G = F \ {high}
  PROVE  /\ y \in [Pages -> 0 .. NPage] /\ G \subseteq Pages /\ Rise(y, G)
         /\ Covered(y, G) = Covered(z, F)
         /\ \A e, f \in G : e < f /\ e + y[e] = f =>
              IF e = low THEN high + z[high] = f ELSE e + z[e] = f
<1>0. /\ NPage \in Nat /\ \A e \in F : e \in 0 .. (NPage - 1) /\ z[e] \in 0 .. NPage
  BY PagesFacts
<1>1. /\ z[low] >= 1 /\ z[high] >= 1 /\ low < high /\ high + z[high] <= NPage
  BY <1>0 DEF Rise
<1>2. y[low] = z[low] + z[high] /\ \A e \in F : e # low => y[e] = z[e]
  BY <1>0 DEF Together
<1>3. y \in [Pages -> 0 .. NPage] /\ G \subseteq Pages
  <2>1. z[low] + z[high] \in 0 .. NPage
    BY <1>0, <1>1
  <2> QED BY <2>1 DEF Together
<1>4. Rise(y, G)
  <2> SUFFICES ASSUME NEW e \in G
               PROVE  y[e] >= 1 /\ e + y[e] <= NPage /\ \A f \in G : e < f => e + y[e] <= f
    BY DEF Rise
  <2>1. CASE e = low
    <3>1. ASSUME NEW f \in G, low < f PROVE low + y[low] <= f
      <4>1. low + z[low] <= f /\ f # high /\ f \in F
        BY <3>1 DEF Rise
      <4>2. high < f
        BY <1>0, <4>1
      <4>3. high + z[high] <= f
        BY <4>1, <4>2 DEF Rise
      <4> QED BY <1>0, <1>2, <4>1, <4>3
    <3>2. y[low] >= 1 /\ low + y[low] <= NPage
      BY <1>0, <1>1, <1>2
    <3> QED BY <2>1, <3>1, <3>2
  <2>2. CASE e # low
    <3>1. e \in F /\ y[e] = z[e]
      BY <1>2, <2>2
    <3>2. z[e] >= 1 /\ e + z[e] <= NPage /\ \A f \in F : e < f => e + z[e] <= f
      BY <3>1 DEF Rise
    <3> QED BY <3>1, <3>2
  <2> QED BY <2>1, <2>2
<1>5. Covered(y, G) = Covered(z, F)
  <2>1. ASSUME NEW x \in Covered(y, G) PROVE x \in Covered(z, F)
    <3>1. PICK e \in G : x \in Block(e, y[e])
      BY <2>1, CoveredIs
    <3>2. CASE e = low
      <4>1. x \in Int /\ low <= x /\ x < low + (z[low] + z[high])
        BY <1>0, <1>2, <3>1, <3>2 DEF Block
      <4>2. x \in Block(low, z[low]) \/ x \in Block(high, z[high])
        BY <1>0, <4>1 DEF Block
      <4> QED BY <4>2, CoveredIs
    <3>3. CASE e # low
      <4>1. e \in F /\ x \in Block(e, z[e])
        BY <1>2, <3>1, <3>3
      <4> QED BY <4>1, CoveredIs
    <3> QED BY <3>2, <3>3
  <2>2. ASSUME NEW x \in Covered(z, F) PROVE x \in Covered(y, G)
    <3>1. PICK e \in F : x \in Block(e, z[e])
      BY <2>2, CoveredIs
    <3>2. CASE e = low \/ e = high
      <4>1. x \in Int /\ low <= x /\ x < low + (z[low] + z[high])
        BY <1>0, <1>1, <3>1, <3>2 DEF Block
      <4>2. x \in Block(low, y[low]) /\ low \in G
        BY <1>0, <1>1, <1>2, <4>1 DEF Block
      <4> QED BY <4>2, CoveredIs
    <3>3. CASE e # low /\ e # high
      <4>1. e \in G /\ x \in Block(e, y[e])
        BY <1>2, <3>1, <3>3
      <4> QED BY <4>1, CoveredIs
    <3> QED BY <3>2, <3>3
  <2> QED BY <2>1, <2>2
<1>6. ASSUME NEW e \in G, NEW f \in G, e < f, e + y[e] = f
      PROVE  IF e = low THEN high + z[high] = f ELSE e + z[e] = f
  <2>1. CASE e = low
    BY <1>0, <1>2, <1>6, <2>1
  <2>2. CASE e # low
    BY <1>2, <1>6, <2>2
  <2> QED BY <2>1, <2>2
<1> QED BY <1>3, <1>4, <1>5, <1>6

\* The merges work on the list, the sizes and the flags together.
State(L, z, F) == [L |-> L, size |-> z, flags |-> F]

\* The blocks are in order, and a pair without a gap is one of b's.
Near(z, F, b) == \A e, f \in F : e < f /\ e + z[e] = f => e = b \/ f = b

LEMMA JoinList ==
  ASSUME NEW L, NEW z, NEW F, IsList(L, F), NEW low, NEW high \in F
  PROVE  /\ Joined(State(L, z, F), low, high)
              = State(list_del(L, high), Together(z, low, high), F \ {high})
         /\ IsList(list_del(L, high), F \ {high})
BY DelKeeps DEF Joined, State, Together

\* What a merge leaves, with b the block that may still touch its successor.
Merged(t, b, C) ==
  \E L, z, F : /\ t = State(L, z, F) /\ IsList(L, F) /\ IsHeap(z, F, b)
               /\ Covered(z, F) = C

\* The first merge: no gap is missing any more but above the merged block.
LEMMA MergeDown ==
  ASSUME NEW L, NEW z \in [Pages -> 0 .. NPage], NEW F, IsList(L, F), Rise(z, F),
         NEW b \in F, Near(z, F, b), NEW s, s = State(L, z, F)
  PROVE  /\ Merged(MergedDown(s, b), Lower(s, b), Covered(z, F))
         /\ Lower(s, b) \in MergedDown(s, b).flags
<1>1. PICK p : p = L.prev[b]
  OBVIOUS
<1>2. s.L = L /\ s.size = z /\ s.flags = F
  BY DEF State
<1>3. F \subseteq Pages /\ p \in F \cup {free_list} /\ L.next[p] = b
  BY <1>1 DEF IsList, Linked
<1>9. z \in [Pages -> 0 .. NPage] /\ Rise(z, F)
  OBVIOUS
<1>4. /\ NPage \in Nat /\ free_list = NPage
      /\ \A e \in F : e \in 0 .. (NPage - 1) /\ z[e] \in 0 .. NPage /\ e # free_list
  BY <1>3, PagesFacts
<1>5. Low(p) < b /\ \A f \in F : Low(p) < f => b <= f
  BY <1>3 DEF IsList, Linked, Follows
<1>6. Touch(s, p, b) <=> p # free_list /\ p + z[p] = b
  BY <1>2, <1>4 DEF Touch
<1>7. CASE Touch(s, p, b)
  <2>1. p \in F /\ p + z[p] = b
    BY <1>3, <1>6, <1>7
  <2>2. MergedDown(s, b) = Joined(s, p, b) /\ Lower(s, b) = p
    BY <1>1, <1>2, <1>7 DEF MergedDown, Lower
  <2>3. PICK y, G, M : y = Together(z, p, b) /\ G = F \ {b} /\ M = list_del(L, b)
    OBVIOUS
  <2>4. Joined(s, p, b) = State(M, y, G) /\ IsList(M, G)
    BY <2>3, JoinList
  <2>5. /\ y \in [Pages -> 0 .. NPage] /\ G \subseteq Pages /\ Rise(y, G)
        /\ Covered(y, G) = Covered(z, F)
        /\ \A e, f \in G : e < f /\ e + y[e] = f =>
             IF e = p THEN b + z[b] = f ELSE e + z[e] = f
    BY <1>3, <1>9, <2>1, <2>3, JoinFacts
  <2>6. ASSUME NEW e \in G, NEW f \in G, e < f, e + y[e] = f PROVE e = p
    <3> SUFFICES ASSUME e # p PROVE FALSE
      OBVIOUS
    <3>1. e + z[e] = f /\ e \in F /\ f \in F /\ e # b /\ f # b
      BY <2>3, <2>5, <2>6
    <3> QED BY <2>6, <3>1 DEF Near
  <2>7. IsHeap(y, G, p)
    BY <2>5, <2>6 DEF IsHeap, Gaps
  <2>8. p \in G
    <3>1. p # b
      BY <1>4, <2>1 DEF Rise
    <3> QED BY <2>1, <2>3, <3>1
  <2>9. Joined(s, p, b).flags = G
    BY <2>4 DEF State
  <2> QED BY <2>2, <2>4, <2>5, <2>7, <2>8, <2>9 DEF Merged
<1>8. CASE ~Touch(s, p, b)
  <2>1. MergedDown(s, b) = s /\ Lower(s, b) = b
    BY <1>1, <1>2, <1>8 DEF MergedDown, Lower
  <2>2. ASSUME NEW e \in F, NEW f \in F, e < f, e + z[e] = f PROVE e = b
    <3> SUFFICES ASSUME e # b PROVE FALSE
      OBVIOUS
    <3>1. f = b /\ e \in Int /\ b \in Int /\ z[e] \in Int
      BY <1>4, <2>2 DEF Near
    <3>2. ~(Low(p) < e)
      BY <1>5, <2>2, <3>1
    <3>3. p # free_list /\ p \in F /\ Low(p) = p /\ p \in Int
      <4>1. CASE p = free_list
        <5>1. Low(p) = -1 /\ e \in 0 .. (NPage - 1)
          BY <1>4, <4>1 DEF Low
        <5> QED BY <3>2, <5>1
      <4> QED BY <1>3, <1>4, <4>1 DEF Low
    <3>4. e <= p /\ p < b
      BY <1>5, <3>1, <3>2, <3>3
    <3>5. CASE e = p
      BY <1>6, <1>8, <2>2, <3>1, <3>3, <3>5
    <3>6. CASE e < p
      <4>1. e + z[e] <= p
        BY <3>3, <3>6 DEF Rise
      <4> QED BY <2>2, <3>1, <3>3, <3>4, <4>1
    <3> QED BY <3>1, <3>3, <3>4, <3>5, <3>6
  <2>3. IsHeap(z, F, b)
    BY <1>3, <2>2 DEF IsHeap, Gaps
  <2> QED BY <1>2, <2>1, <2>3 DEF Merged
<1> QED BY <1>7, <1>8

\* The second merge: no gap is missing.
LEMMA MergeUp ==
  ASSUME NEW L, NEW z, NEW F, IsList(L, F), NEW b \in F, IsHeap(z, F, b),
         NEW s, s = State(L, z, F)
  PROVE  Merged(MergedUp(s, b), -1, Covered(z, F))
<1>1. PICK n : n = L.next[b]
  OBVIOUS
<1>2. s.L = L /\ s.size = z /\ s.flags = F
  BY DEF State
<1>3. F \subseteq Pages /\ z \in [Pages -> 0 .. NPage] /\ Rise(z, F)
  BY DEF IsHeap
<1>4. /\ NPage \in Nat /\ free_list = NPage
      /\ \A e \in F : e \in 0 .. (NPage - 1) /\ z[e] \in 0 .. NPage /\ e # free_list
  BY <1>3, PagesFacts
<1>5. n \in F \cup {free_list} /\ b < n /\ \A f \in F : b < f => n <= f
  <2>1. Low(b) = b
    BY <1>4 DEF Low
  <2> QED BY <1>1, <2>1 DEF IsList, Linked, Follows
<1>6. Touch(s, b, n) <=> n # free_list /\ b + z[b] = n
  BY <1>2, <1>4 DEF Touch
<1>7. CASE Touch(s, b, n)
  <2>1. n \in F /\ b + z[b] = n
    BY <1>5, <1>6, <1>7
  <2>2. MergedUp(s, b) = Joined(s, b, n)
    BY <1>1, <1>2, <1>7 DEF MergedUp
  <2>3. PICK y, G, M : y = Together(z, b, n) /\ G = F \ {n} /\ M = list_del(L, n)
    OBVIOUS
  <2>4. Joined(s, b, n) = State(M, y, G) /\ IsList(M, G)
    BY <2>1, <2>3, JoinList
  <2>5. /\ y \in [Pages -> 0 .. NPage] /\ G \subseteq Pages /\ Rise(y, G)
        /\ Covered(y, G) = Covered(z, F)
        /\ \A e, f \in G : e < f /\ e + y[e] = f =>
             IF e = b THEN n + z[n] = f ELSE e + z[e] = f
    BY <1>3, <2>1, <2>3, JoinFacts
  <2>6. ASSUME NEW e \in G, NEW f \in G, e < f, e + y[e] = f PROVE FALSE
    <3>1. e \in F /\ f \in F /\ e # n
      BY <2>3
    <3>2. CASE e = b
      <4>1. n + z[n] = f /\ n < f
        BY <1>3, <1>4, <2>1, <2>5, <2>6, <3>1, <3>2 DEF Rise
      <4>2. n = b
        BY <2>1, <3>1, <4>1 DEF IsHeap, Gaps
      <4> QED BY <3>1, <3>2, <4>2
    <3>3. CASE e # b
      <4>1. e + z[e] = f
        BY <2>5, <2>6, <3>3
      <4> QED BY <2>6, <3>1, <3>3, <4>1 DEF IsHeap, Gaps
    <3> QED BY <3>2, <3>3
  <2>7. IsHeap(y, G, -1)
    BY <2>5, <2>6 DEF IsHeap, Gaps
  <2> QED BY <2>2, <2>4, <2>5, <2>7 DEF Merged
<1>8. CASE ~Touch(s, b, n)
  <2>1. MergedUp(s, b) = s
    BY <1>1, <1>2, <1>8 DEF MergedUp
  <2>2. ASSUME NEW e \in F, NEW f \in F, e < f, e + z[e] = f PROVE FALSE
    <3>0. e = b
      BY <2>2 DEF IsHeap, Gaps
    <3>1. e = b /\ n <= f /\ b + z[b] = f
      BY <1>5, <2>2, <3>0
    <3>2. n # free_list /\ n \in F
      <4>1. n # free_list
        BY <1>4, <3>1
      <4> QED BY <1>5, <4>1
    <3>3. b + z[b] <= n
      BY <1>3, <1>5, <3>2 DEF Rise
    <3> QED BY <1>4, <1>6, <1>8, <3>1, <3>2, <3>3
  <2>3. IsHeap(z, F, -1)
    BY <1>3, <2>2 DEF IsHeap, Gaps
  <2> QED BY <2>1, <2>3 DEF Merged
<1> QED BY <1>7, <1>8

-----------------------------------------------------------------------------
(* The pages the kernel holds, and how many are free *)

HeldOf(h) == UNION {Block(x[1], x[2]) : x \in h}
Blocks == Pages \X (1 .. NPage)

\* HeldApart, of any set of blocks.
ApartOf(h) ==
  /\ h \subseteq Blocks
  /\ \A x \in h : x[1] + x[2] <= NPage
  /\ \A x, y \in h : x # y => Block(x[1], x[2]) \cap Block(y[1], y[2]) = {}

LEMMA HeldOfIs ==
  ASSUME NEW h, NEW p
  PROVE  p \in HeldOf(h) <=> \E x \in h : p \in Block(x[1], x[2])
BY DEF HeldOf

\* A block within memory has n pages.
LEMMA BlockFacts ==
  ASSUME NEW b \in Pages, NEW n \in 1 .. NPage, b + n <= NPage
  PROVE  /\ Block(b, n) \subseteq Pages /\ b \in Block(b, n)
         /\ \A p : p \in Block(b, n) <=> p \in Int /\ b <= p /\ p < b + n
         /\ IsFiniteSet(Block(b, n)) /\ Cardinality(Block(b, n)) = n
<1>1. NPage \in Nat /\ b \in Int /\ n \in Int /\ 0 <= b /\ 1 <= n
  BY PagesFacts
<1>2. /\ IsFiniteSet(b .. (b + n - 1))
      /\ Cardinality(b .. (b + n - 1)) = IF b > b + n - 1 THEN 0 ELSE (b + n - 1) - b + 1
  BY <1>1, FS_Interval
<1>3. IsFiniteSet(Block(b, n)) /\ Cardinality(Block(b, n)) = n
  BY <1>1, <1>2 DEF Block
<1>4. \A p : p \in Block(b, n) <=> p \in Int /\ b <= p /\ p < b + n
  BY <1>1 DEF Block
<1> QED BY <1>1, <1>3, <1>4, PagesFacts

\* Counting pages.
LEMMA CountFacts ==
  ASSUME NEW S, S \subseteq Pages, NEW B, IsFiniteSet(B)
  PROVE  /\ Cardinality(S) \in Nat
         /\ B \subseteq S => Cardinality(S \ B) = Cardinality(S) - Cardinality(B)
         /\ B \subseteq S => Cardinality(B) <= Cardinality(S)
         /\ B \cap S = {} => Cardinality(S \cup B) = Cardinality(S) + Cardinality(B)
         /\ Cardinality(S) <= NPage
<1>1. IsFiniteSet(Pages) /\ Cardinality(Pages) = NPage
  <2>1. NPage \in Nat /\ NPage >= 1 /\ Pages = 0 .. (NPage - 1) /\ 0 \in Int /\ NPage - 1 \in Int
    BY PagesFacts
  <2>2. /\ IsFiniteSet(0 .. (NPage - 1))
        /\ Cardinality(0 .. (NPage - 1)) = IF 0 > NPage - 1 THEN 0 ELSE (NPage - 1) - 0 + 1
    BY <2>1, FS_Interval
  <2> QED BY <2>1, <2>2
<1>2. IsFiniteSet(S) /\ Cardinality(S) <= NPage
  BY <1>1, FS_Subset
<1>3. Cardinality(S) \in Nat /\ Cardinality(B) \in Nat
  BY <1>2, FS_CardinalityType
<1>4. ASSUME B \subseteq S
      PROVE  Cardinality(S \ B) = Cardinality(S) - Cardinality(B) /\ Cardinality(B) <= Cardinality(S)
  <2>1. S \cap B = B
    BY <1>4
  <2>2. Cardinality(S \ B) = Cardinality(S) - Cardinality(S \cap B)
    BY <1>2, FS_Difference
  <2>3. Cardinality(B) <= Cardinality(S)
    BY <1>2, <1>4, FS_Subset
  <2> QED BY <2>1, <2>2, <2>3
<1>5. ASSUME B \cap S = {} PROVE Cardinality(S \cup B) = Cardinality(S) + Cardinality(B)
  <2>1. Cardinality(S \cup B) = Cardinality(S) + Cardinality(B) - Cardinality(S \cap B)
    BY <1>2, FS_Union
  <2>2. S \cap B = {}
    BY <1>5
  <2>3. Cardinality(S \cap B) = 0
    BY <2>2, FS_EmptySet
  <2> QED BY <1>3, <2>1, <2>3
<1> QED BY <1>2, <1>3, <1>4, <1>5

\* What the invariant says of the list L, the sizes z, the flags F, the count c
\* and the blocks h that are held.
Exact(L, z, F, c, h) ==
  /\ IsList(L, F) /\ IsHeap(z, F, -1) /\ ApartOf(h)
  /\ Covered(z, F) = Pages \ HeldOf(h)
  /\ c = Cardinality(Pages \ HeldOf(h))

\* A block comes back.
LEMMA HeldFreed ==
  ASSUME NEW h, ApartOf(h), NEW b, NEW n, <<b, n>> \in h, NEW k, k = h \ {<<b, n>>}
  PROVE  /\ b \in Pages /\ n \in 1 .. NPage /\ b + n <= NPage
         /\ Block(b, n) \cap (Pages \ HeldOf(h)) = {}
         /\ ApartOf(k)
         /\ Pages \ HeldOf(k) = (Pages \ HeldOf(h)) \cup Block(b, n)
<1>1. b \in Pages /\ n \in 1 .. NPage /\ b + n <= NPage
  <2>1. <<b, n>> \in Blocks /\ <<b, n>>[1] + <<b, n>>[2] <= NPage
    BY DEF ApartOf
  <2> QED BY <2>1 DEF Blocks
<1>2. Block(b, n) \subseteq Pages
  BY <1>1, BlockFacts
<1>3. \A p \in Block(b, n) : p \in HeldOf(h)
  <2> TAKE p \in Block(b, n)
  <2>1. p \in Block(<<b, n>>[1], <<b, n>>[2])
    OBVIOUS
  <2> QED BY <2>1, HeldOfIs
<1>4. ApartOf(k)
  BY DEF ApartOf
<1>5. \A p \in Block(b, n) : p \notin HeldOf(k)
  <2> SUFFICES ASSUME NEW p \in Block(b, n), p \in HeldOf(k) PROVE FALSE
    OBVIOUS
  <2>1. PICK x \in k : p \in Block(x[1], x[2])
    BY HeldOfIs
  <2>2. x \in h /\ x # <<b, n>> /\ <<b, n>>[1] = b /\ <<b, n>>[2] = n
    OBVIOUS
  <2>3. Block(x[1], x[2]) \cap Block(<<b, n>>[1], <<b, n>>[2]) = {}
    BY <2>2 DEF ApartOf
  <2> QED BY <2>1, <2>2, <2>3
<1>6. \A p : p \in HeldOf(h) /\ p \notin Block(b, n) => p \in HeldOf(k)
  <2> SUFFICES ASSUME NEW p, p \in HeldOf(h), p \notin Block(b, n) PROVE p \in HeldOf(k)
    OBVIOUS
  <2>1. PICK x \in h : p \in Block(x[1], x[2])
    BY HeldOfIs
  <2>2. x # <<b, n>>
    BY <2>1
  <2> QED BY <2>1, <2>2, HeldOfIs
<1>7. \A p : p \in HeldOf(k) => p \in HeldOf(h)
  BY HeldOfIs
<1> QED BY <1>1, <1>2, <1>3, <1>4, <1>5, <1>6, <1>7

\* A block of free pages goes out.
LEMMA HeldGiven ==
  ASSUME NEW h, ApartOf(h), NEW b \in Pages, NEW n \in 1 .. NPage, b + n <= NPage,
         Block(b, n) \cap HeldOf(h) = {}, NEW k, k = h \cup {<<b, n>>}
  PROVE  /\ ApartOf(k)
         /\ Pages \ HeldOf(k) = (Pages \ HeldOf(h)) \ Block(b, n)
<1> DEFINE x == <<b, n>>
<1>1. x[1] = b /\ x[2] = n /\ x \in Blocks
  BY DEF Blocks
<1>2. \A p : p \in HeldOf(k) <=> p \in HeldOf(h) \/ p \in Block(b, n)
  BY <1>1, HeldOfIs
<1>3. \A y \in h : Block(y[1], y[2]) \cap Block(b, n) = {}
  <2> SUFFICES ASSUME NEW y \in h, NEW p \in Block(y[1], y[2]), p \in Block(b, n) PROVE FALSE
    OBVIOUS
  <2>1. p \in HeldOf(h)
    BY HeldOfIs
  <2> QED BY <2>1
<1>4. ApartOf(k)
  <2>1. k \subseteq Blocks
    BY <1>1 DEF ApartOf
  <2>2. \A y \in k : y[1] + y[2] <= NPage
    BY <1>1 DEF ApartOf
  <2>3. \A y, w \in k : y # w => Block(y[1], y[2]) \cap Block(w[1], w[2]) = {}
    <3> SUFFICES ASSUME NEW y \in k, NEW w \in k, y # w
                 PROVE  Block(y[1], y[2]) \cap Block(w[1], w[2]) = {}
      OBVIOUS
    <3>1. CASE y = x
      <4>1. w \in h
        BY <3>1
      <4> QED BY <1>1, <1>3, <3>1, <4>1
    <3>2. CASE w = x
      <4>1. y \in h
        BY <3>2
      <4> QED BY <1>1, <1>3, <3>2, <4>1
    <3>3. CASE y # x /\ w # x
      BY <3>3 DEF ApartOf
    <3> QED BY <3>1, <3>2, <3>3
  <2> QED BY <2>1, <2>2, <2>3 DEF ApartOf
<1> QED BY <1>2, <1>4

\* The invariant about the links, sizes, flags, counter and blocks themselves.
LEMMA InvIs ==
  ASSUME PmmIInv
  PROVE  Exact(links, property, flagged, nr_free, held)
<1>1. IsList(links, flagged) /\ IsHeap(property, flagged, -1)
  BY DEF PmmIInv, PmmTypeOK, IsList, IsHeap, Links
<1>2. HeldPages = HeldOf(held) /\ ApartOf(held)
  BY DEF PmmIInv, PmmTypeOK, HeldPages, HeldOf, HeldApart, ApartOf, Blocks
<1> QED BY <1>1, <1>2 DEF PmmIInv, Exact

\* The list, the sizes and the flags once the block is in its place.
Placed(base, n) ==
  State(Inserted(base), [Cleared(base, n) EXCEPT ![base] = n], flagged \cup {base})

\* The freed block in its place: it may touch both its neighbours.
LEMMA PlacedFacts ==
  ASSUME PmmIInv, NEW b, NEW n, <<b, n>> \in held
  PROVE  /\ Block(b, n) \cap flagged = {}
         /\ \E L, z, F :
              /\ Placed(b, n) = State(L, z, F) /\ b \in F /\ z \in [Pages -> 0 .. NPage]
              /\ IsList(L, F) /\ Rise(z, F) /\ Near(z, F, b)
              /\ Covered(z, F) = (Pages \ HeldOf(held)) \cup Block(b, n)
<1>1. PICK L, z, F, h : /\ L = links /\ z = property /\ F = flagged /\ h = held
                        /\ Exact(L, z, F, nr_free, h)
  BY InvIs
<1>2. /\ b \in Pages /\ n \in 1 .. NPage /\ b + n <= NPage
      /\ Block(b, n) \cap Covered(z, F) = {}
  <2>1. PICK k : k = h \ {<<b, n>>}
    OBVIOUS
  <2>2. ApartOf(h) /\ <<b, n>> \in h /\ Covered(z, F) = Pages \ HeldOf(h)
    BY <1>1 DEF Exact
  <2>3. /\ b \in Pages /\ n \in 1 .. NPage /\ b + n <= NPage
        /\ Block(b, n) \cap (Pages \ HeldOf(h)) = {}
    BY <2>1, <2>2, HeldFreed
  <2> QED BY <2>2, <2>3
<1>3. /\ NPage \in Nat /\ b \in Nat /\ n \in Nat /\ F \subseteq Pages
      /\ \A e \in F : e \in Nat /\ z[e] \in Nat /\ z[e] >= 1 /\ e + z[e] <= NPage
      /\ z \in [Pages -> 0 .. NPage] /\ Rise(z, F)
  <2>1. F \subseteq Pages /\ z \in [Pages -> 0 .. NPage] /\ Rise(z, F)
    BY <1>1 DEF Exact, IsHeap
  <2>2. ASSUME NEW e \in F PROVE e \in Nat /\ z[e] \in Nat /\ z[e] >= 1 /\ e + z[e] <= NPage
    BY <2>1, PagesFacts DEF Rise
  <2> QED BY <1>2, <2>1, <2>2, PagesFacts
<1>4. \A e \in F, p \in Int : e <= p /\ p < e + z[e] => p \notin Block(b, n)
  <2> SUFFICES ASSUME NEW e \in F, NEW p \in Int, e <= p, p < e + z[e], p \in Block(b, n) PROVE FALSE
    OBVIOUS
  <2>1. p \in Block(e, z[e])
    BY <1>3 DEF Block
  <2>2. p \in Covered(z, F)
    BY <2>1, CoveredIs
  <2> QED BY <1>2, <2>2
<1>5. \A e \in F : e \notin Block(b, n)
  BY <1>3, <1>4
<1>6. \A p \in Int : p \in Block(b, n) <=> b <= p /\ p < b + n
  BY <1>2, BlockFacts
<1>7. \A e \in F : (e < b => e + z[e] <= b) /\ (b <= e => b + n <= e) /\ e # b
  <2> TAKE e \in F
  <2>1. e < b => e + z[e] <= b
    BY <1>2, <1>3, <1>4, <1>6
  <2>2. b <= e => b + n <= e
    BY <1>3, <1>5, <1>6
  <2>3. e # b
    BY <1>2, <1>3, <1>5, <1>6
  <2> QED BY <2>1, <2>2, <2>3
<1>8. b \notin F
  BY <1>7
<1> DEFINE y == [Cleared(b, n) EXCEPT ![b] = n]
           G == F \cup {b}
<1>9. /\ y \in [Pages -> 0 .. NPage] /\ y[b] = n /\ \A e \in F : y[e] = z[e]
  <2>1. Cleared(b, n) \in [Pages -> 0 .. NPage] /\ \A e \in F : Cleared(b, n)[e] = z[e]
    BY <1>1, <1>3, <1>5 DEF Cleared
  <2> HIDE DEF G
  <2>2. y \in [Pages -> 0 .. NPage] /\ y[b] = n
    BY <1>2, <1>3, <2>1
  <2>3. \A e \in F : y[e] = Cleared(b, n)[e]
    BY <1>3, <1>7, <2>1
  <2> QED BY <2>1, <2>2, <2>3
<1> HIDE DEF y, G
<1>10. BestFit \/ \E f \in F : b < f
  <2>1. CASE TopFree
    <3>1. NPage - 1 \in Covered(z, F)
      <4>1. NPage - 1 \in Pages
        BY PagesFacts
      <4>2. NPage - 1 \notin HeldOf(h)
        BY <1>1, <2>1, HeldOfIs DEF TopFree
      <4> QED BY <1>1, <4>1, <4>2 DEF Exact
    <3>2. PICK f \in F : NPage - 1 \in Block(f, z[f])
      BY <3>1, CoveredIs
    <3>3. NPage - 1 < f + z[f]
      BY <1>3, <3>2 DEF Block
    <3>4. f >= b
      <4> SUFFICES ASSUME f < b PROVE FALSE
        BY <1>3
      <4>1. f + z[f] <= b
        BY <1>7
      <4> QED BY <1>2, <1>3, <3>3, <4>1
    <3>5. b < f
      BY <1>3, <1>7, <3>4
    <3> QED BY <3>5
  <2> QED BY <2>1 DEF PmmIInv
<1>11. IsList(Inserted(b), G)
  <2>1. IsList(links, flagged)
    BY <1>1 DEF Exact
  <2>2. IsList(Inserted(b), flagged \cup {b})
    BY <1>1, <1>2, <1>8, <1>10, <2>1, InsertKeeps
  <2> QED BY <1>1, <2>2 DEF G
<1>12. Rise(y, G)
  <2> SUFFICES ASSUME NEW e \in G
               PROVE  y[e] >= 1 /\ e + y[e] <= NPage /\ \A f \in G : e < f => e + y[e] <= f
    BY DEF Rise
  <2>1. CASE e = b
    <3>1. \A f \in G : b < f => b + n <= f
      BY <1>3, <1>7 DEF G
    <3> QED BY <1>2, <1>9, <2>1, <3>1
  <2>2. CASE e # b
    <3>1. e \in F /\ y[e] = z[e]
      BY <1>9, <2>2 DEF G
    <3>2. \A f \in G : e < f => e + z[e] <= f
      BY <1>3, <1>7, <3>1 DEF G, Rise
    <3> QED BY <1>3, <3>1, <3>2
  <2> QED BY <2>1, <2>2
<1>13. Near(y, G, b)
  <2> SUFFICES ASSUME NEW e \in G, NEW f \in G, e < f, e + y[e] = f, e # b, f # b PROVE FALSE
    BY DEF Near
  <2>1. e \in F /\ f \in F /\ e + z[e] = f
    BY <1>9 DEF G
  <2>2. e = -1
    BY <1>1, <2>1 DEF Exact, IsHeap, Gaps
  <2> QED BY <1>3, <2>1, <2>2
<1>14. Covered(y, G) = Covered(z, F) \cup Block(b, n)
  <2>1. ASSUME NEW x PROVE x \in Covered(y, G) <=> x \in Covered(z, F) \/ x \in Block(b, n)
    <3>1. x \in Covered(y, G) <=> \E e \in G : x \in Block(e, y[e])
      BY CoveredIs
    <3>2. x \in Covered(z, F) <=> \E e \in F : x \in Block(e, z[e])
      BY CoveredIs
    <3>3. \A e \in F : e \in G /\ y[e] = z[e]
      BY <1>9 DEF G
    <3>4. b \in G /\ y[b] = n /\ \A e \in G : e \in F \/ e = b
      BY <1>9 DEF G
    <3> QED BY <3>1, <3>2, <3>3, <3>4
  <2> QED BY <2>1
<1>15. b \in G /\ Placed(b, n) = State(Inserted(b), y, G)
  BY <1>1 DEF G, y, Placed
<1>16. Covered(y, G) = (Pages \ HeldOf(held)) \cup Block(b, n)
  BY <1>1, <1>14 DEF Exact
<1>17. Block(b, n) \cap flagged = {}
  BY <1>1, <1>5
<1> QED BY <1>9, <1>11, <1>12, <1>13, <1>15, <1>16, <1>17

\* After both merges everything is exact again.
LEMMA FreeKeeps ==
  ASSUME PmmIInv, NEW b, NEW n, <<b, n>> \in held
  PROVE  \E L, z, F :
           /\ MergedUp(MergedDown(Placed(b, n), b), Lower(Placed(b, n), b)) = State(L, z, F)
           /\ Exact(L, z, F, nr_free + n, held \ {<<b, n>>})
<1>1. PICK s, k, C : /\ s = Placed(b, n) /\ k = held \ {<<b, n>>}
                     /\ C = (Pages \ HeldOf(held)) \cup Block(b, n)
  OBVIOUS
<1>2. PICK L, z, F :
        /\ s = State(L, z, F) /\ b \in F /\ z \in [Pages -> 0 .. NPage]
        /\ IsList(L, F) /\ Rise(z, F) /\ Near(z, F, b) /\ Covered(z, F) = C
  BY <1>1, PlacedFacts
<1>3. PICK t, c : t = MergedDown(s, b) /\ c = Lower(s, b)
  OBVIOUS
<1>4. Merged(t, c, C) /\ c \in t.flags
  BY <1>2, <1>3, MergeDown
<1>5. PICK M, y, G : t = State(M, y, G) /\ IsList(M, G) /\ IsHeap(y, G, c) /\ Covered(y, G) = C
  BY <1>4 DEF Merged
<1>6. c \in G
  BY <1>4, <1>5 DEF State
<1>7. Merged(MergedUp(t, c), -1, C)
  BY <1>5, <1>6, MergeUp
<1>8. PICK N, w, H : /\ MergedUp(t, c) = State(N, w, H) /\ IsList(N, H) /\ IsHeap(w, H, -1)
                     /\ Covered(w, H) = C
  BY <1>7 DEF Merged
<1>9. Exact(links, property, flagged, nr_free, held)
  BY InvIs
<1>10. /\ b \in Pages /\ n \in 1 .. NPage /\ b + n <= NPage
       /\ Block(b, n) \cap (Pages \ HeldOf(held)) = {}
       /\ ApartOf(k) /\ Pages \ HeldOf(k) = C
  BY <1>1, <1>9, HeldFreed DEF Exact
<1>11. Cardinality(C) = nr_free + n
  <2>1. IsFiniteSet(Block(b, n)) /\ Cardinality(Block(b, n)) = n
    BY <1>10, BlockFacts
  <2>2. Cardinality(C) = Cardinality(Pages \ HeldOf(held)) + Cardinality(Block(b, n))
    BY <1>1, <1>10, <2>1, CountFacts
  <2> QED BY <1>9, <2>1, <2>2 DEF Exact
<1>12. Exact(N, w, H, nr_free + n, k)
  BY <1>8, <1>10, <1>11 DEF Exact
<1> QED BY <1>1, <1>3, <1>8, <1>12

-----------------------------------------------------------------------------
(* default_alloc_pages *)

\* The block that a policy chooses of those that are large enough.
IsChosen(page, z, F, n) ==
  /\ page \in F /\ z[page] >= n
  /\ IF BestFit
     THEN \A e \in F : z[e] >= n => z[page] <= z[e] /\ (z[e] = z[page] => page <= e)
     ELSE \A e \in F : z[e] >= n => page <= e

\* Fits in terms of the entries.
LEMMA FitsIs ==
  ASSUME PmmIInv, NEW n
  PROVE  /\ Listed(Entries(links), links, flagged)
         /\ \A k \in 1 .. Len(Entries(links)) :
              /\ Entries(links)[k] \in flagged
              /\ k \in Fits(n) <=> property[Entries(links)[k]] >= n
         /\ Fits(n) = {} <=> \A e \in flagged : ~(property[e] >= n)
<1>1. PICK E : E = Entries(links)
  OBVIOUS
<1>2. Listed(E, links, flagged)
  BY <1>1, InvIs, EntriesFacts DEF Exact
<1>3. \A k \in 1 .. Len(E) : E[k] \in flagged
  BY <1>2, ElementOfSeq DEF Listed
<1>4. Fits(n) = {k \in 1 .. Len(E) : property[E[k]] >= n}
  BY <1>1 DEF Fits
<1>5. \A e \in flagged : \E k \in 1 .. Len(E) : E[k] = e
  BY <1>2 DEF Listed
<1>6. Fits(n) = {} <=> \A e \in flagged : ~(property[e] >= n)
  <2>1. ASSUME Fits(n) = {}, NEW e \in flagged, property[e] >= n PROVE FALSE
    <3>1. PICK k \in 1 .. Len(E) : E[k] = e
      BY <1>5
    <3>2. k \in Fits(n)
      BY <1>4, <2>1, <3>1
    <3> QED BY <2>1, <3>2
  <2>2. ASSUME \A e \in flagged : ~(property[e] >= n), NEW k \in Fits(n) PROVE FALSE
    <3>1. k \in 1 .. Len(E) /\ property[E[k]] >= n
      BY <1>4
    <3> QED BY <1>3, <2>2, <3>1
  <2> QED BY <2>1, <2>2
<1> QED BY <1>1, <1>2, <1>3, <1>4, <1>6

\* The block alloc_pages takes: the first that fits, or the first of the least.
LEMMA ChosenIs ==
  ASSUME PmmIInv, NEW n, Fits(n) # {}
  PROVE  IsChosen(Chosen(n), property, flagged, n)
<1>1. PICK E, z, F, fits : E = Entries(links) /\ z = property /\ F = flagged /\ fits = Fits(n)
  OBVIOUS
<1> DEFINE S == {e \in F : z[e] >= n}
           T == {e \in S : \A f \in S : z[e] <= z[f]}
           K == {k \in fits : \A j \in fits : z[E[k]] <= z[E[j]]}
<1>2. /\ Listed(E, links, F)
      /\ \A k \in 1 .. Len(E) : E[k] \in F /\ (k \in fits <=> z[E[k]] >= n)
      /\ S # {} /\ fits = {k \in 1 .. Len(E) : z[E[k]] >= n}
  <2>1. fits = {k \in 1 .. Len(E) : z[E[k]] >= n}
    BY <1>1 DEF Fits
  <2>2. S # {}
    BY <1>1, FitsIs
  <2> QED BY <1>1, <2>1, <2>2, FitsIs
<1>3. F \subseteq Nat /\ \A e \in F : z[e] \in Nat /\ e \in Nat
  BY <1>1, InvIs, PagesFacts DEF Exact, IsHeap
<1>4. Chosen(n) = E[IF BestFit THEN Min(K) ELSE Min(fits)]
  BY <1>1 DEF Chosen, Best
<1>5. CASE BestFit
  <2>1. T # {}
    <3> DEFINE Z == {z[e] : e \in S}
    <3>1. Z \subseteq Nat /\ Z # {}
      BY <1>2, <1>3
    <3> HIDE DEF Z
    <3>2. PICK m \in Z : \A y \in Z : m <= y
      BY <3>1, LeastExists
    <3> USE DEF Z
    <3>3. PICK e \in S : z[e] = m
      OBVIOUS
    <3>4. e \in T
      BY <3>2, <3>3
    <3> QED BY <3>4
  <2>2. T \subseteq F
    OBVIOUS
  <2>3. PlacesOf(K, E, T)
    <3>1. ASSUME NEW k \in 1 .. Len(E) PROVE k \in K <=> E[k] \in T
      <4>1. ASSUME k \in K PROVE E[k] \in T
        <5>1. E[k] \in S
          BY <1>2, <4>1
        <5>2. ASSUME NEW f \in S PROVE z[E[k]] <= z[f]
          <6>1. PICK j \in 1 .. Len(E) : E[j] = f
            BY <1>2 DEF Listed
          <6>2. j \in fits
            BY <1>2, <6>1
          <6> QED BY <4>1, <6>1, <6>2
        <5> QED BY <5>1, <5>2
      <4>2. ASSUME E[k] \in T PROVE k \in K
        <5>1. k \in fits
          BY <1>2, <4>2
        <5>2. ASSUME NEW j \in fits PROVE z[E[k]] <= z[E[j]]
          <6>1. E[j] \in S
            BY <1>2
          <6> QED BY <4>2, <6>1
        <5> QED BY <5>1, <5>2
      <4> QED BY <4>1, <4>2
    <3>2. K \subseteq 1 .. Len(E)
      BY <1>2
    <3> HIDE DEF K, T
    <3> QED BY <3>1, <3>2 DEF PlacesOf
  <2> HIDE DEF K, T
  <2>4. FirstIs(K, E, T)
    BY <1>2, <1>3, <2>1, <2>2, <2>3, FirstEntry
  <2>5. PICK p : p = E[Min(K)]
    OBVIOUS
  <2>6. p \in T /\ \A t \in T : p <= t
    BY <2>4, <2>5 DEF FirstIs
  <2>7. p \in F /\ z[p] >= n /\ \A f \in S : z[p] <= z[f]
    BY <2>6 DEF T
  <2>8. ASSUME NEW e \in F, z[e] >= n, z[e] = z[p] PROVE p <= e
    <3>1. e \in T
      BY <2>7, <2>8 DEF T
    <3> QED BY <2>6, <3>1
  <2>9. Chosen(n) = p
    BY <1>4, <1>5, <2>5
  <2> QED BY <1>1, <1>5, <2>7, <2>8, <2>9 DEF IsChosen
<1>6. CASE ~BestFit
  <2>1. PlacesOf(fits, E, S)
    BY <1>2 DEF PlacesOf
  <2>2. S \subseteq F
    OBVIOUS
  <2> HIDE DEF S
  <2>3. FirstIs(fits, E, S)
    BY <1>2, <1>3, <2>1, <2>2, FirstEntry
  <2>4. PICK p : p = E[Min(fits)]
    OBVIOUS
  <2>5. p \in S /\ \A t \in S : p <= t
    BY <2>3, <2>4 DEF FirstIs
  <2>6. Chosen(n) = p
    BY <1>4, <1>6, <2>4
  <2> QED BY <1>1, <1>6, <2>5, <2>6 DEF IsChosen, S
<1> QED BY <1>5, <1>6

\* What is left of the chosen block.
Rest(page, n) == IF property[page] > n THEN {page + n} ELSE {}

\* The rest of a block goes where the block was.
LEMMA CarvedKeeps ==
  ASSUME NEW L, NEW z, NEW F, IsList(L, F), IsHeap(z, F, -1), NEW page \in F,
         NEW n \in 1 .. NPage, z[page] > n
  PROVE  /\ page + n \in Pages /\ page + n \notin F
         /\ IsList(list_add(list_del(L, page), L.prev[page], page + n),
                   (F \ {page}) \cup {page + n})
<1>1. PICK p, q, b, M, G : /\ p = L.prev[page] /\ q = L.next[page] /\ b = page + n
                           /\ M = list_del(L, page) /\ G = F \ {page}
  OBVIOUS
<1>2. /\ F \subseteq Pages /\ NPage \in Nat /\ n \in Nat /\ n >= 1 /\ free_list = NPage
      /\ \A e \in F : e \in 0 .. (NPage - 1) /\ z[e] \in Nat /\ e + z[e] <= NPage
      /\ \A e, f \in F : e < f => e + z[e] <= f
      /\ L \in Links
  BY PagesFacts DEF IsHeap, IsList, Rise
<1>3. b \in Pages /\ page < b /\ b < page + z[page] /\ page + z[page] <= NPage /\ b \in Int
  BY <1>1, <1>2, PagesFacts
<1>4. b \notin F
  BY <1>2, <1>3
<1>5. /\ p \in F \cup {free_list} /\ L.next[p] = page /\ Low(page) = page
      /\ q \in F \cup {free_list} /\ page < q /\ Low(p) < page
  <2>1. Low(page) = page
    BY <1>2 DEF Low
  <2>2. page \in F \cup {free_list} /\ p \in F \cup {free_list} /\ L.next[p] = page
    BY <1>1 DEF IsList, Linked
  <2>3. q \in F \cup {free_list} /\ page < q
    BY <1>1, <2>1, <2>2 DEF IsList, Linked, Follows
  <2>4. Low(p) < page
    BY <2>2 DEF IsList, Linked, Follows
  <2> QED BY <2>1, <2>2, <2>3, <2>4
<1>6. p \in G \cup {free_list}
  <2>1. p # page
    <3>1. CASE p = page
      BY <1>2, <1>5, <3>1
    <3> QED BY <3>1
  <2> QED BY <1>1, <1>5, <2>1
<1>7. IsList(M, G)
  BY <1>1, DelKeeps
<1>8. M.next[p] = q
  <2>1. M.next = [L.next EXCEPT ![p] = q]
    BY <1>1 DEF list_del
  <2>2. L.next \in [0 .. NPage -> 0 .. NPage] /\ p \in 0 .. NPage
    BY <1>2, <1>5, LinksFacts, LowFacts
  <2> QED BY <2>1, <2>2
<1>9. Low(p) < b
  <2>1. Low(p) \in Int
    <3>1. p = free_list \/ p \in F
      BY <1>5
    <3> QED BY <1>2, <3>1, LowFacts
  <2> QED BY <1>2, <1>3, <1>5, <2>1
<1>10. b < q
  <2>1. CASE q = free_list
    BY <1>2, <1>3, <2>1
  <2>2. CASE q # free_list
    <3>1. q \in F
      BY <1>5, <2>2
    <3>2. page + z[page] <= q
      BY <1>2, <1>5, <3>1
    <3> QED BY <1>2, <1>3, <3>1, <3>2
  <2> QED BY <2>1, <2>2
<1>11. IsList(__list_add(M, b, p, M.next[p]), G \cup {b})
  <2>1. b \notin G
    BY <1>1, <1>4
  <2> QED BY <1>3, <1>6, <1>7, <1>8, <1>9, <1>10, <2>1, AddKeeps
<1> QED BY <1>1, <1>3, <1>4, <1>11 DEF list_add

\* After an allocation everything is exact again.
LEMMA AllocKeeps ==
  ASSUME PmmIInv, NEW n \in 1 .. NPage, NEW page, IsChosen(page, property, flagged, n)
  PROVE  /\ page \in Pages /\ page + n <= NPage /\ Block(page, n) \subseteq Pages \ HeldOf(held)
         /\ Exact(Carved(page, n),
                  [p \in Pages |-> IF p \in Rest(page, n) THEN property[page] - n ELSE property[p]],
                  (flagged \cup Rest(page, n)) \ {page}, nr_free - n, held \cup {<<page, n>>})
<1>1. PICK L, z, F, h : /\ L = links /\ z = property /\ F = flagged /\ h = held
                        /\ Exact(L, z, F, nr_free, h)
  BY InvIs
<1>2. PICK l, y, G, k, b : /\ l = Rest(page, n) /\ k = h \cup {<<page, n>>} /\ b = page + n
                           /\ y = [p \in Pages |-> IF p \in l THEN z[page] - n ELSE z[p]]
                           /\ G = (F \cup l) \ {page}
  OBVIOUS
<1>3. page \in F /\ z[page] >= n
  BY <1>1 DEF IsChosen
<1>4. /\ F \subseteq Pages /\ z \in [Pages -> 0 .. NPage]
      /\ NPage \in Nat /\ n \in Nat /\ n >= 1
      /\ \A e \in F : e \in 0 .. (NPage - 1) /\ z[e] \in Nat /\ z[e] >= 1 /\ e + z[e] <= NPage
      /\ \A e, f \in F : e < f => e + z[e] <= f /\ e + z[e] # f
  <2>1. F \subseteq Pages /\ z \in [Pages -> 0 .. NPage] /\ NPage \in Nat /\ n \in Nat /\ n >= 1
    BY <1>1, PagesFacts DEF Exact, IsHeap
  <2>2. \A e \in F : e \in 0 .. (NPage - 1) /\ z[e] \in Nat
    BY <2>1, PagesFacts
  <2>3. \A e \in F : z[e] >= 1 /\ e + z[e] <= NPage /\ \A f \in F : e < f => e + z[e] <= f
    BY <1>1 DEF Exact, IsHeap, Rise
  <2>4. \A e, f \in F : e < f /\ e + z[e] = f => e = -1
    BY <1>1 DEF Exact, IsHeap, Gaps
  <2>5. \A e \in F : e # -1
    BY <2>2
  <2> QED BY <2>1, <2>2, <2>3, <2>4, <2>5
<1>5. page \in Pages /\ page + n <= NPage /\ b \in Int /\ page < b
  BY <1>2, <1>3, <1>4, PagesFacts
<1>6. l = IF z[page] > n THEN {b} ELSE {}
  BY <1>1, <1>2 DEF Rest
<1>7. z[page] > n => b \in Pages /\ b \notin F
  <2>1. IsList(L, F) /\ IsHeap(z, F, -1)
    BY <1>1 DEF Exact
  <2> QED BY <1>2, <1>3, <2>1, CarvedKeeps
<1>8. IsList(Carved(page, n), G)
  <2>1. IsList(L, F) /\ IsHeap(z, F, -1)
    BY <1>1 DEF Exact
  <2>2. CASE z[page] > n
    <3>1. IsList(list_add(list_del(L, page), L.prev[page], page + n), (F \ {page}) \cup {page + n})
      BY <1>3, <2>1, <2>2, CarvedKeeps
    <3>2. (F \ {page}) \cup {page + n} = G
      BY <1>2, <1>3, <1>5, <1>6, <2>2
    <3>3. Carved(page, n) = list_add(list_del(L, page), L.prev[page], page + n)
      BY <1>1, <2>2 DEF Carved
    <3> QED BY <3>1, <3>2, <3>3
  <2>3. CASE ~(z[page] > n)
    <3>1. Carved(page, n) = list_del(L, page) /\ G = F \ {page}
      BY <1>1, <1>2, <1>6, <2>3 DEF Carved
    <3> QED BY <1>3, <2>1, <3>1, DelKeeps
  <2> QED BY <2>2, <2>3
<1>9. /\ y \in [Pages -> 0 .. NPage] /\ G \subseteq Pages
      /\ \A e \in G : \/ e \in F /\ e # page /\ y[e] = z[e]
                      \/ e = b /\ z[page] > n /\ y[b] = z[page] - n
      /\ \A e \in F : e # page => e \in G /\ y[e] = z[e]
      /\ z[page] > n => b \in G /\ y[b] = z[page] - n
  <2>0. z[page] \in 0 .. NPage
    BY <1>4, <1>5
  <2>1. y \in [Pages -> 0 .. NPage]
    <3>1. l # {} => z[page] - n \in 0 .. NPage
      BY <1>4, <1>6, <2>0
    <3> QED BY <1>2, <1>4, <3>1
  <2>2. G \subseteq Pages
    BY <1>2, <1>4, <1>6, <1>7
  <2>3. \A e \in F : e \notin l /\ y[e] = z[e]
    BY <1>2, <1>4, <1>6, <1>7
  <2>4. z[page] > n => b \in G /\ y[b] = z[page] - n
    BY <1>2, <1>5, <1>6, <1>7
  <2>5. \A e \in F : e # page => e \in G
    BY <1>2
  <2>6. \A e \in G : (e \in F /\ e # page) \/ (e = b /\ z[page] > n)
    BY <1>2, <1>6
  <2> QED BY <2>1, <2>2, <2>3, <2>4, <2>5, <2>6
<1>10. IsHeap(y, G, -1)
  <2>1. ASSUME NEW e \in G
        PROVE  /\ y[e] >= 1 /\ e + y[e] <= NPage
               /\ \A f \in G : e < f => e + y[e] <= f /\ e + y[e] # f
    <3>1. CASE e \in F /\ e # page /\ y[e] = z[e]
      <4>1. ASSUME NEW f \in G, e < f PROVE e + z[e] <= f /\ e + z[e] # f
        <5>1. CASE f \in F
          BY <1>4, <3>1, <4>1, <5>1
        <5>2. CASE f = b /\ z[page] > n
          <6>1. ~(page < e)
            <7> SUFFICES ASSUME page < e PROVE FALSE
              OBVIOUS
            <7>1. page + z[page] <= e
              BY <1>3, <1>4, <3>1
            <7> QED BY <1>2, <1>3, <1>4, <3>1, <4>1, <5>2, <7>1
          <6>2. e < page
            BY <1>3, <1>4, <3>1, <6>1
          <6>3. e + z[e] <= page
            BY <1>3, <1>4, <3>1, <6>2
          <6> QED BY <1>3, <1>4, <1>5, <3>1, <5>2, <6>3
        <5> QED BY <1>9, <5>1, <5>2
      <4> QED BY <1>4, <3>1, <4>1
    <3>2. CASE e = b /\ z[page] > n /\ y[b] = z[page] - n
      <4>1. e + y[e] = page + z[page] /\ y[e] >= 1
        BY <1>2, <1>3, <1>4, <3>2
      <4>2. ASSUME NEW f \in G, e < f PROVE page + z[page] <= f /\ page + z[page] # f
        <5>1. f \in F /\ f \in Int /\ page < f
          <6>1. f # b /\ page \in Int
            BY <1>3, <1>4, <1>5, <3>2, <4>2
          <6>2. f \in F
            BY <1>9, <6>1
          <6> QED BY <1>4, <1>5, <3>2, <4>2, <6>1, <6>2
        <5> QED BY <1>3, <1>4, <5>1
      <4> QED BY <1>3, <1>4, <4>1, <4>2
    <3> QED BY <1>9, <3>1, <3>2
  <2> QED BY <1>9, <2>1 DEF IsHeap, Rise, Gaps
<1>11. Covered(y, G) = Covered(z, F) \ Block(page, n)
  <2>1. \A x : x \in Block(page, n) <=> x \in Int /\ page <= x /\ x < page + n
    BY <1>4, <1>5, BlockFacts
  <2>2. ASSUME NEW x \in Covered(y, G) PROVE x \in Covered(z, F) /\ x \notin Block(page, n)
    <3>1. PICK e \in G : x \in Block(e, y[e])
      BY <2>2, CoveredIs
    <3>2. CASE e \in F /\ e # page /\ y[e] = z[e]
      <4>1. x \in Int /\ e <= x /\ x < e + z[e]
        BY <1>4, <3>1, <3>2 DEF Block
      <4>2. e + z[e] <= page \/ page + z[page] <= e
        BY <1>3, <1>4, <3>2
      <4>3. x \notin Block(page, n)
        BY <1>3, <1>4, <2>1, <3>2, <4>1, <4>2
      <4> QED BY <3>1, <3>2, <4>3, CoveredIs
    <3>3. CASE e = b /\ z[page] > n /\ y[b] = z[page] - n
      <4>1. x \in Int /\ page + n <= x /\ x < page + z[page]
        BY <1>2, <1>3, <1>4, <3>1, <3>3 DEF Block
      <4>2. x \in Block(page, z[page]) /\ x \notin Block(page, n)
        BY <1>3, <1>4, <2>1, <4>1 DEF Block
      <4> QED BY <1>3, <4>2, CoveredIs
    <3> QED BY <1>9, <3>2, <3>3
  <2>3. ASSUME NEW x \in Covered(z, F), x \notin Block(page, n) PROVE x \in Covered(y, G)
    <3>1. PICK e \in F : x \in Block(e, z[e])
      BY <2>3, CoveredIs
    <3>2. CASE e # page
      BY <1>9, <3>1, <3>2, CoveredIs
    <3>3. CASE e = page
      <4>1. x \in Int /\ page <= x /\ x < page + z[page]
        BY <1>3, <1>4, <3>1, <3>3 DEF Block
      <4>2. page + n <= x
        BY <1>3, <1>4, <2>1, <2>3, <4>1
      <4>3. z[page] > n
        BY <1>3, <1>4, <4>1, <4>2
      <4>4. x \in Block(b, y[b]) /\ b \in G
        BY <1>2, <1>3, <1>4, <1>9, <4>1, <4>2, <4>3 DEF Block
      <4> QED BY <4>4, CoveredIs
    <3> QED BY <3>2, <3>3
  <2> QED BY <2>2, <2>3
<1>12. Block(page, n) \subseteq Pages \ HeldOf(h)
  <2>1. ASSUME NEW x \in Block(page, n) PROVE x \in Covered(z, F)
    <3>1. x \in Block(page, z[page])
      BY <1>3, <1>4 DEF Block
    <3> QED BY <1>3, <3>1, CoveredIs
  <2> QED BY <1>1, <2>1 DEF Exact
<1>13. ApartOf(k) /\ Pages \ HeldOf(k) = (Pages \ HeldOf(h)) \ Block(page, n)
  <2>1. ApartOf(h) /\ Block(page, n) \cap HeldOf(h) = {}
    BY <1>1, <1>12 DEF Exact
  <2> QED BY <1>2, <1>5, <2>1, HeldGiven
<1>14. nr_free - n = Cardinality(Pages \ HeldOf(k))
  <2>1. IsFiniteSet(Block(page, n)) /\ Cardinality(Block(page, n)) = n
    BY <1>5, BlockFacts
  <2>2. Pages \ HeldOf(h) \subseteq Pages
    OBVIOUS
  <2>3. Cardinality((Pages \ HeldOf(h)) \ Block(page, n))
          = Cardinality(Pages \ HeldOf(h)) - Cardinality(Block(page, n))
    BY <1>12, <2>1, <2>2, CountFacts
  <2> QED BY <1>1, <1>13, <2>1, <2>3 DEF Exact
<1>15. Covered(y, G) = Pages \ HeldOf(k)
  BY <1>1, <1>11, <1>13 DEF Exact
<1>16. Exact(Carved(page, n), y, G, nr_free - n, k)
  BY <1>8, <1>10, <1>13, <1>14, <1>15 DEF Exact
<1> QED BY <1>1, <1>2, <1>5, <1>12, <1>16

-----------------------------------------------------------------------------
(* The invariant holds *)

\* The one block of default_init_memmap.
LEMMA InitExact ==
  ASSUME PmmInit
  PROVE  Exact(links, property, flagged, nr_free, held)
<1>0. NPage \in Nat /\ NPage >= 1 /\ free_list = NPage /\ Pages = 0 .. (NPage - 1)
  BY PagesFacts
<1>1. IsList(links, flagged)
  <2>1. links \in Links /\ flagged = {0} /\ flagged \subseteq Pages
    BY <1>0 DEF PmmInit, Links
  <2>2. /\ links.next[0] = free_list /\ links.next[free_list] = 0
        /\ links.prev[0] = free_list /\ links.prev[free_list] = 0
    BY <1>0 DEF PmmInit
  <2>3. Low(0) = 0 /\ Low(free_list) = -1
    BY <1>0 DEF Low
  <2>4. Linked(links, {0})
    BY <1>0, <2>2, <2>3 DEF Linked, Follows
  <2> QED BY <2>1, <2>4 DEF IsList
<1>2. IsHeap(property, flagged, -1)
  <2>1. /\ property \in [Pages -> 0 .. NPage] /\ property[0] = NPage
        /\ flagged = {0} /\ flagged \subseteq Pages
    BY <1>0 DEF PmmInit
  <2> QED BY <1>0, <2>1 DEF IsHeap, Rise, Gaps
<1>3. ApartOf(held) /\ HeldOf(held) = {}
  BY DEF PmmInit, ApartOf, HeldOf
<1>4. Covered(property, flagged) = Pages
  <2>1. flagged = {0} /\ property[0] = NPage
    BY <1>0 DEF PmmInit
  <2>2. Covered(property, flagged) = Block(0, NPage)
    BY <2>1 DEF Covered
  <2> QED BY <1>0, <2>2 DEF Block
<1>5. nr_free = Cardinality(Pages)
  <2>1. 0 \in Int /\ NPage - 1 \in Int /\ 0 <= NPage - 1
    BY <1>0
  <2>2. Cardinality(0 .. (NPage - 1)) = IF 0 > NPage - 1 THEN 0 ELSE (NPage - 1) - 0 + 1
    BY <2>1, FS_Interval
  <2> QED BY <1>0, <2>2 DEF PmmInit
<1>6. Pages \ HeldOf(held) = Pages
  BY <1>3
<1> QED BY <1>1, <1>2, <1>3, <1>4, <1>5, <1>6 DEF Exact

LEMMA ExactIs ==
  ASSUME Exact(links, property, flagged, nr_free, held), res \in Pages \cup {-1}, BestFit \/ TopFree
  PROVE  PmmIInv
<1>1. HeldPages = HeldOf(held) /\ HeldApart /\ held \subseteq Pages \X (1 .. NPage)
  BY DEF Exact, HeldPages, HeldOf, HeldApart, ApartOf, Blocks
<1>2. nr_free \in 0 .. NPage
  <2>1. Pages \ HeldOf(held) \subseteq Pages /\ IsFiniteSet({})
    BY FS_EmptySet
  <2>2. /\ Cardinality(Pages \ HeldOf(held)) \in Nat
        /\ Cardinality(Pages \ HeldOf(held)) <= NPage
    BY <2>1, CountFacts
  <2> QED BY <2>2, PagesFacts DEF Exact
<1>3. PmmTypeOK
  BY <1>1, <1>2 DEF PmmTypeOK, Exact, IsList, IsHeap, Links
<1> QED BY <1>1, <1>3 DEF PmmIInv, Exact, IsList, IsHeap

\* The same of the next state.
LEMMA ExactIsNext ==
  ASSUME Exact(links', property', flagged', nr_free', held'), res' \in Pages \cup {-1},
         BestFit \/ TopFree'
  PROVE  PmmIInv'
<1>1. HeldPages' = HeldOf(held') /\ HeldApart' /\ held' \subseteq Pages \X (1 .. NPage)
  BY DEF Exact, HeldPages, HeldOf, HeldApart, ApartOf, Blocks
<1>2. nr_free' \in 0 .. NPage
  <2>1. Pages \ HeldOf(held') \subseteq Pages /\ IsFiniteSet({})
    BY FS_EmptySet
  <2>2. /\ Cardinality(Pages \ HeldOf(held')) \in Nat
        /\ Cardinality(Pages \ HeldOf(held')) <= NPage
    BY <2>1, CountFacts
  <2> QED BY <2>2, PagesFacts DEF Exact
<1>3. PmmTypeOK'
  BY <1>1, <1>2 DEF PmmTypeOK, Exact, IsList, IsHeap, Links
<1> QED BY <1>1, <1>3 DEF PmmIInv, Exact, IsList, IsHeap

\* default_alloc_pages keeps the invariant.
LEMMA AllocStep ==
  ASSUME PmmIInv, NEW n \in 1 .. NPage, default_alloc_pages(n), BestFit \/ TopFree'
  PROVE  PmmIInv'
<1>1. PICK page : page = Chosen(n)
  OBVIOUS
<1>2. IsChosen(page, property, flagged, n)
  BY <1>1, ChosenIs DEF default_alloc_pages
<1>3. /\ links' = Carved(page, n)
      /\ property' = [p \in Pages |-> IF p \in Rest(page, n) THEN property[page] - n ELSE property[p]]
      /\ flagged' = (flagged \cup Rest(page, n)) \ {page}
      /\ nr_free' = nr_free - n /\ held' = held \cup {<<page, n>>} /\ res' = page
  BY <1>1 DEF default_alloc_pages, Rest
<1>4. page \in Pages /\ Exact(links', property', flagged', nr_free', held')
  BY <1>2, <1>3, AllocKeeps
<1> QED BY <1>3, <1>4, ExactIsNext

\* default_free_pages keeps the invariant.
LEMMA FreeStep ==
  ASSUME PmmIInv, NEW b, NEW n, default_free_pages(b, n), BestFit \/ TopFree'
  PROVE  PmmIInv'
<1>1. PICK t : t = MergedUp(MergedDown(Placed(b, n), b), Lower(Placed(b, n), b))
  OBVIOUS
<1>2. /\ <<b, n>> \in held
      /\ links' = t.L /\ property' = t.size /\ flagged' = t.flags
      /\ nr_free' = nr_free + n /\ held' = held \ {<<b, n>>} /\ res' = res
  BY <1>1 DEF default_free_pages, Placed, State, Counted
<1>3. PICK L, z, F : t = State(L, z, F) /\ Exact(L, z, F, nr_free + n, held \ {<<b, n>>})
  BY <1>1, <1>2, FreeKeeps
<1>4. links' = L /\ property' = z /\ flagged' = F
  BY <1>2, <1>3 DEF State
<1>5. Exact(links', property', flagged', nr_free', held')
  BY <1>2, <1>3, <1>4
<1>6. res' \in Pages \cup {-1}
  BY <1>2 DEF PmmIInv, PmmTypeOK
<1> QED BY <1>5, <1>6, ExactIsNext

\* default_init, alloc_pages and free_pages keep the list, the sizes, the flags
\* and the counter exact for any number of pages: under best fit always, under
\* first fit as long as the last page is free between any two calls.
THEOREM PmmInvariance == TopSpec => []PmmIInv
<1>1. PmmInit => PmmIInv
  <2> SUFFICES ASSUME PmmInit PROVE PmmIInv
    OBVIOUS
  <2>1. Exact(links, property, flagged, nr_free, held)
    BY InitExact
  <2>2. res \in Pages \cup {-1} /\ TopFree
    BY DEF PmmInit, TopFree
  <2> QED BY <2>1, <2>2, ExactIs
<1>2. PmmIInv /\ [PmmNext /\ (BestFit \/ TopFree')]_pmm => PmmIInv'
  <2> SUFFICES ASSUME PmmIInv, [PmmNext /\ (BestFit \/ TopFree')]_pmm PROVE PmmIInv'
    OBVIOUS
  <2>1. CASE UNCHANGED pmm
    <3>1. /\ links' = links /\ property' = property /\ flagged' = flagged
          /\ nr_free' = nr_free /\ held' = held /\ res' = res
      BY <2>1 DEF pmm
    <3>2. Exact(links', property', flagged', nr_free', held')
      BY <3>1, InvIs
    <3>3. res' \in Pages \cup {-1}
      BY <3>1 DEF PmmIInv, PmmTypeOK
    <3>4. BestFit \/ TopFree'
      BY <3>1 DEF PmmIInv, TopFree
    <3> QED BY <3>2, <3>3, <3>4, ExactIsNext
  <2>2. ASSUME NEW n \in 1 .. NPage, alloc_fails(n), BestFit \/ TopFree' PROVE PmmIInv'
    <3>1. /\ links' = links /\ property' = property /\ flagged' = flagged
          /\ nr_free' = nr_free /\ held' = held /\ res' = -1
      BY <2>2 DEF alloc_fails
    <3>2. Exact(links', property', flagged', nr_free', held')
      BY <3>1, InvIs
    <3> QED BY <2>2, <3>1, <3>2, ExactIsNext
  <2>3. ASSUME NEW n \in 1 .. NPage, default_alloc_pages(n), BestFit \/ TopFree' PROVE PmmIInv'
    BY <2>3, AllocStep
  <2>4. ASSUME NEW x \in held, default_free_pages(x[1], x[2]), BestFit \/ TopFree' PROVE PmmIInv'
    BY <2>4, FreeStep
  <2> QED BY <2>1, <2>2, <2>3, <2>4 DEF PmmNext
<1> QED BY <1>1, <1>2, PTL DEF TopSpec

\* The list that a walk from its head meets is exact after every call.
THEOREM ListAlwaysExact == TopSpec => []ListExact
<1>1. PmmIInv => ListExact
  <2> SUFFICES ASSUME PmmIInv PROVE ListExact
    OBVIOUS
  <2>1. PICK E, S : E = Entries(links) /\ S = {E[k] : k \in 1 .. Len(E)}
    OBVIOUS
  <2>2. Exact(links, property, flagged, nr_free, held)
    BY InvIs
  <2>3. Listed(E, links, flagged)
    BY <2>1, <2>2, EntriesFacts DEF Exact
  <2>4. Len(E) \in Nat /\ \A k \in 1 .. Len(E) : E[k] \in flagged
    BY <2>3, LenProperties, ElementOfSeq DEF Listed
  <2>5. S = flagged
    <3>1. \A f \in flagged : f \in S
      BY <2>1, <2>3 DEF Listed
    <3> QED BY <2>1, <2>4, <3>1
  <2>6. \A e \in S \cup {free_list} : links.prev[links.next[e]] = e
    BY <2>5 DEF PmmIInv, Linked
  <2>7. ASSUME NEW k \in 1 .. (Len(E) - 1) PROVE E[k] + property[E[k]] < E[k + 1]
    <3>1. k \in 1 .. Len(E) /\ k + 1 \in 1 .. Len(E) /\ k < k + 1
      BY <2>4
    <3>2. PICK e, f : e = E[k] /\ f = E[k + 1]
      OBVIOUS
    <3>3. e \in flagged /\ f \in flagged /\ e < f
      BY <2>3, <2>4, <3>1, <3>2 DEF Listed
    <3>4. e + property[e] <= f
      BY <3>3 DEF PmmIInv, Rise
    <3>5. e + property[e] # f
      <4>1. e # -1
        BY <2>2, <3>3, PagesFacts DEF Exact, IsHeap
      <4> QED BY <3>3, <4>1 DEF PmmIInv, Gaps
    <3>6. e \in Int /\ f \in Int /\ property[e] \in Int
      BY <2>2, <3>3, PagesFacts DEF Exact, IsHeap
    <3> QED BY <3>2, <3>4, <3>5, <3>6
  <2>8. UNION {Block(e, property[e]) : e \in S} = Pages \ HeldPages
    BY <2>5 DEF PmmIInv, Covered
  <2> QED BY <2>1, <2>5, <2>6, <2>7, <2>8 DEF PmmIInv, ListExact
<1> QED BY <1>1, PmmInvariance, PTL

-----------------------------------------------------------------------------
(* The list implements PageAlloc *)

FreeNow == Pages \ HeldPages

\* A run of free pages lies inside one block.
LEMMA RunInBlock ==
  ASSUME PmmIInv, NEW b \in Pages, NEW n \in 1 .. NPage, Block(b, n) \subseteq FreeNow
  PROVE  \E e \in flagged : e <= b /\ b + n <= e + property[e]
<1>1. PICK z, F : z = property /\ F = flagged
  OBVIOUS
<1>2. /\ NPage \in Nat /\ n \in Nat /\ n >= 1 /\ b \in Nat
      /\ \A e \in F : e \in Nat /\ z[e] \in Nat
      /\ \A e, f \in F : e < f => e + z[e] <= f /\ e + z[e] # f
  <2>1. F \subseteq Pages /\ z \in [Pages -> 0 .. NPage] /\ Rise(z, F) /\ Gaps(z, F, -1)
    BY <1>1, InvIs DEF Exact, IsHeap
  <2>2. \A e \in F : e \in Nat /\ z[e] \in Nat
    BY <2>1, PagesFacts
  <2>3. \A e, f \in F : e < f => e + z[e] <= f
    BY <2>1 DEF Rise
  <2>4. \A e, f \in F : e < f => e + z[e] # f
    BY <2>1, <2>2 DEF Gaps
  <2> QED BY <2>2, <2>3, <2>4, PagesFacts
<1>3. \A x \in Block(b, n) : \E e \in F : x \in Block(e, z[e])
  <2> TAKE x \in Block(b, n)
  <2>1. x \in Covered(z, F)
    BY <1>1 DEF FreeNow, PmmIInv
  <2> QED BY <2>1, CoveredIs
<1>4. PICK e \in F : b \in Block(e, z[e])
  <2>1. b \in Block(b, n)
    BY <1>2 DEF Block
  <2> QED BY <1>3, <2>1
<1>5. e <= b /\ b < e + z[e]
  BY <1>2, <1>4 DEF Block
<1>6. b + n <= e + z[e]
  <2> SUFFICES ASSUME e + z[e] < b + n PROVE FALSE
    BY <1>2
  <2>1. e + z[e] \in Block(b, n)
    BY <1>2, <1>5 DEF Block
  <2>2. PICK f \in F : e + z[e] \in Block(f, z[f])
    BY <1>3, <2>1
  <2>3. f <= e + z[e] /\ e + z[e] < f + z[f]
    BY <1>2, <2>2 DEF Block
  <2>4. CASE e < f
    BY <1>2, <2>3, <2>4
  <2>5. CASE f < e
    <3>1. f + z[f] <= e
      BY <1>2, <2>5
    <3> QED BY <1>2, <2>3, <3>1
  <2>6. CASE e = f
    BY <1>2, <2>3, <2>6
  <2> QED BY <1>2, <2>4, <2>5, <2>6
<1> QED BY <1>1, <1>5, <1>6

\* And every part of a block is a run of free pages.
LEMMA BlockIsRun ==
  ASSUME PmmIInv, NEW e \in flagged, NEW n \in 1 .. NPage, property[e] >= n
  PROVE  e \in 0 .. (NPage - n) /\ Block(e, n) \subseteq FreeNow
<1>1. e \in Nat /\ e + property[e] <= NPage /\ property[e] \in Nat /\ NPage \in Nat /\ n \in Nat
  BY InvIs, PagesFacts DEF Exact, IsHeap, Rise
<1>2. ASSUME NEW x \in Block(e, n) PROVE x \in FreeNow
  <2>1. x \in Block(e, property[e])
    BY <1>1 DEF Block
  <2>2. x \in Covered(property, flagged)
    BY <2>1, CoveredIs
  <2> QED BY <2>2 DEF PmmIInv, FreeNow
<1> QED BY <1>1, <1>2

\* Before a block there is no free page.
LEMMA BeforeBlock ==
  ASSUME PmmIInv, NEW e \in flagged
  PROVE  e - 1 \notin FreeNow
<1> SUFFICES ASSUME e - 1 \in FreeNow PROVE FALSE
  OBVIOUS
<1>1. /\ \A f \in flagged : f \in Nat /\ property[f] \in Nat
      /\ \A f \in flagged : f < e => f + property[f] <= e /\ f + property[f] # e
      /\ \A f \in flagged : e < f => e + property[e] <= f
  <2>1. /\ flagged \subseteq Pages /\ property \in [Pages -> 0 .. NPage]
        /\ Rise(property, flagged) /\ Gaps(property, flagged, -1)
    BY InvIs DEF Exact, IsHeap
  <2>2. \A f \in flagged : f \in Nat /\ property[f] \in Nat
    BY <2>1, PagesFacts
  <2>3. \A f \in flagged : f < e => f + property[f] <= e
    BY <2>1 DEF Rise
  <2>4. \A f \in flagged : e < f => e + property[e] <= f
    BY <2>1 DEF Rise
  <2>5. \A f \in flagged : f < e => f + property[f] # e
    BY <2>1, <2>2 DEF Gaps
  <2> QED BY <2>2, <2>3, <2>4, <2>5
<1>2. PICK f \in flagged : e - 1 \in Block(f, property[f])
  <2>1. e - 1 \in Covered(property, flagged)
    BY DEF FreeNow, PmmIInv
  <2> QED BY <2>1, CoveredIs
<1>3. f <= e - 1 /\ e - 1 < f + property[f]
  BY <1>1, <1>2 DEF Block
<1> QED BY <1>1, <1>3

\* The stretch of free pages that begins with a block is the block.
LEMMA StretchIs ==
  ASSUME PmmIInv, NEW e \in flagged
  PROVE  Stretch(FreeNow, e) = property[e]
<1> DEFINE S == {k \in 1 .. (NPage - e) : Block(e, k) \subseteq FreeNow}
<1>1. PICK m : m = property[e]
  OBVIOUS
<1>2. /\ e \in Pages /\ e \in Nat /\ m \in Nat /\ m >= 1 /\ e + m <= NPage /\ NPage \in Nat
      /\ \A f \in flagged : f \in Nat /\ property[f] \in Nat
      /\ \A f \in flagged : f < e => f + property[f] <= e
  <2>1. /\ flagged \subseteq Pages /\ property \in [Pages -> 0 .. NPage] /\ Rise(property, flagged)
    BY InvIs DEF Exact, IsHeap
  <2>2. \A f \in flagged : f \in Nat /\ property[f] \in Nat
    BY <2>1, PagesFacts
  <2>3. \A f \in flagged : f < e => f + property[f] <= e
    BY <2>1 DEF Rise
  <2> QED BY <1>1, <2>1, <2>2, <2>3, PagesFacts DEF Rise
<1>3. m \in S
  <2>1. m \in 1 .. NPage /\ m \in 1 .. (NPage - e) /\ property[e] >= m
    BY <1>1, <1>2
  <2>2. Block(e, m) \subseteq FreeNow
    BY <2>1, BlockIsRun
  <2> QED BY <2>1, <2>2
<1>4. ASSUME NEW k \in S PROVE k <= m
  <2>1. k \in 1 .. NPage /\ Block(e, k) \subseteq FreeNow
    BY <1>2
  <2>2. PICK f \in flagged : f <= e /\ e + k <= f + property[f]
    BY <1>2, <2>1, RunInBlock
  <2>3. CASE f < e
    BY <1>2, <2>1, <2>2, <2>3
  <2>4. CASE f = e
    BY <1>1, <1>2, <2>1, <2>2, <2>4
  <2> QED BY <1>2, <2>2, <2>3, <2>4
<1>5. S \subseteq Int
  OBVIOUS
<1> HIDE DEF S
<1>6. Max(S) = m
  BY <1>3, <1>4, <1>5, MaxIs
<1> QED BY <1>1, <1>6 DEF Stretch, S

Runs(n) == {b \in 0 .. (NPage - n) : Block(b, n) \subseteq FreeNow}
Starts(n) == {b \in Runs(n) : b - 1 \notin FreeNow}

LEMMA PlacesAre ==
  ASSUME NEW n
  PROVE  Places(FreeNow, n) =
           IF BestFit
           THEN {b \in Starts(n) : \A c \in Starts(n) : Stretch(FreeNow, b) <= Stretch(FreeNow, c)}
           ELSE Runs(n)
BY DEF Places, Runs, Starts

\* A run of n free pages lies in a block of the list that fits.
LEMMA RunFits ==
  ASSUME PmmIInv, NEW n \in 1 .. NPage, NEW b \in Runs(n)
  PROVE  /\ \E e \in flagged : e <= b /\ b + n <= e + property[e] /\ property[e] >= n
         /\ b \in Int /\ n <= nr_free
<1>1. b \in Pages /\ b \in Nat /\ b + n <= NPage /\ n \in Nat /\ Block(b, n) \subseteq FreeNow
  BY PagesFacts DEF Runs
<1>2. PICK e \in flagged : e <= b /\ b + n <= e + property[e]
  BY <1>1, RunInBlock
<1>3. e \in Nat /\ property[e] \in Nat
  BY InvIs, PagesFacts DEF Exact, IsHeap
<1>4. n <= nr_free
  <2>1. IsFiniteSet(Block(b, n)) /\ Cardinality(Block(b, n)) = n
    BY <1>1, BlockFacts
  <2>2. FreeNow \subseteq Pages /\ nr_free = Cardinality(FreeNow)
    BY DEF FreeNow, PmmIInv
  <2> QED BY <1>1, <2>1, <2>2, CountFacts
<1> QED BY <1>1, <1>2, <1>3, <1>4

\* The starts of the stretches that fit are the blocks that fit.
LEMMA StartsAre ==
  ASSUME PmmIInv, NEW n \in 1 .. NPage
  PROVE  \A b : b \in Starts(n) <=> b \in flagged /\ property[b] >= n
<1>1. ASSUME NEW b \in flagged, property[b] >= n PROVE b \in Starts(n)
  <2>1. b \in 0 .. (NPage - n) /\ Block(b, n) \subseteq FreeNow /\ b - 1 \notin FreeNow
    BY <1>1, BlockIsRun, BeforeBlock
  <2> QED BY <2>1 DEF Starts, Runs
<1>2. ASSUME NEW b \in Starts(n) PROVE b \in flagged /\ property[b] >= n
  <2>1. b \in Runs(n) /\ b - 1 \notin FreeNow
    BY DEF Starts
  <2>2. PICK e \in flagged : e <= b /\ b + n <= e + property[e] /\ property[e] >= n
    BY <2>1, RunFits
  <2>3. b \in Int /\ n \in Nat /\ n >= 1
    BY <2>1, RunFits
  <2>4. e \in Nat /\ property[e] \in Nat
    BY InvIs, PagesFacts DEF Exact, IsHeap
  <2>5. ~(e < b)
    <3> SUFFICES ASSUME e < b PROVE FALSE
      OBVIOUS
    <3>1. b - 1 \in Block(e, property[e])
      BY <2>2, <2>3, <2>4 DEF Block
    <3>2. b - 1 \in Covered(property, flagged)
      BY <3>1, CoveredIs
    <3> QED BY <2>1, <3>2 DEF PmmIInv, FreeNow
  <2>6. e = b
    BY <2>2, <2>3, <2>4, <2>5
  <2> QED BY <2>2, <2>6
<1> QED BY <1>1, <1>2

\* NULL is returned only when there is no place.
LEMMA NoPlace ==
  ASSUME PmmIInv, NEW n \in 1 .. NPage, n > nr_free \/ Fits(n) = {}
  PROVE  Places(FreeNow, n) = {}
<1>1. Runs(n) = {}
  <2> SUFFICES ASSUME NEW b \in Runs(n) PROVE FALSE
    OBVIOUS
  <2>1. n <= nr_free /\ \E e \in flagged : property[e] >= n
    BY RunFits
  <2>2. nr_free \in Int
    BY DEF PmmIInv, PmmTypeOK
  <2>3. Fits(n) # {}
    BY <2>1, FitsIs
  <2> QED BY <2>1, <2>2, <2>3
<1> QED BY <1>1, PlacesAre DEF Starts

\* The block that is chosen begins at the place that was promised.
LEMMA PlaceIs ==
  ASSUME PmmIInv, NEW n \in 1 .. NPage, NEW page, IsChosen(page, property, flagged, n)
  PROVE  Places(FreeNow, n) # {} /\ Min(Places(FreeNow, n)) = page
<1>1. /\ page \in flagged /\ property[page] >= n /\ NPage \in Nat
      /\ \A e \in flagged : e \in Nat /\ property[e] \in Nat
  BY InvIs, PagesFacts DEF Exact, IsHeap, IsChosen
<1>2. page \in Starts(n) /\ page \in Runs(n)
  BY <1>1, StartsAre DEF Starts
<1>3. page \in Places(FreeNow, n) /\ \A b \in Places(FreeNow, n) : page <= b
  <2>1. CASE BestFit
    <3>1. \A c \in Starts(n) : c \in flagged /\ Stretch(FreeNow, c) = property[c] /\ property[c] >= n
      BY StartsAre, StretchIs
    <3>2. \A c \in flagged : property[c] >= n =>
            property[page] <= property[c] /\ (property[c] = property[page] => page <= c)
      BY <2>1 DEF IsChosen
    <3>3. \A c \in Starts(n) : Stretch(FreeNow, page) <= Stretch(FreeNow, c)
      BY <1>2, <3>1, <3>2
    <3>4. ASSUME NEW b \in Starts(n), \A c \in Starts(n) : Stretch(FreeNow, b) <= Stretch(FreeNow, c)
          PROVE  page <= b
      <4>1. property[b] <= property[page] /\ property[page] <= property[b] /\ b \in flagged
        BY <1>2, <3>1, <3>2, <3>4
      <4>2. property[b] = property[page]
        BY <1>1, <4>1
      <4> QED BY <3>1, <3>2, <4>1, <4>2
    <3> QED BY <1>2, <2>1, <3>3, <3>4, PlacesAre
  <2>2. CASE ~BestFit
    <3>1. ASSUME NEW b \in Runs(n) PROVE page <= b
      <4>1. PICK e \in flagged : e <= b /\ property[e] >= n
        BY RunFits
      <4>2. page <= e
        BY <2>2, <4>1 DEF IsChosen
      <4>3. b \in Int
        BY RunFits
      <4> QED BY <1>1, <4>1, <4>2, <4>3
    <3> QED BY <1>2, <2>2, <3>1, PlacesAre
  <2> QED BY <2>1, <2>2
<1>4. Places(FreeNow, n) \subseteq Int
  <2>1. Runs(n) \subseteq Int /\ Starts(n) \subseteq Runs(n)
    BY DEF Runs, Starts
  <2> QED BY <2>1, PlacesAre
<1>5. Min(Places(FreeNow, n)) = page
  BY <1>3, <1>4, MinIs
<1> QED BY <1>3, <1>5

\* alloc_pages and free_pages give and take the places of PageAlloc: the lowest
\* run for first fit, the shortest sufficient stretch for best fit, NULL only
\* where there is none, for any number of pages.
THEOREM PageAllocImplemented == TopSpec => ImplementsPageAlloc
<1>1. PmmInit => A!Init
  BY PagesFacts DEF PmmInit, A!Init, HeldPages
<1>2. PmmIInv /\ [PmmNext /\ (BestFit \/ TopFree')]_pmm => [A!Next]_(A!vars)
  <2> SUFFICES ASSUME PmmIInv, [PmmNext /\ (BestFit \/ TopFree')]_pmm PROVE [A!Next]_(A!vars)
    OBVIOUS
  <2>1. CASE UNCHANGED pmm
    BY <2>1 DEF pmm, A!vars, HeldPages
  <2>2. ASSUME NEW n \in 1 .. NPage, alloc_fails(n) PROVE A!Next
    <3>1. Places(Pages \ HeldPages, n) = {}
      BY <2>2, NoPlace DEF alloc_fails, FreeNow
    <3>2. A!Alloc(n)
      BY <2>2, <3>1 DEF A!Alloc, Rounded, alloc_fails, HeldPages
    <3> QED BY <3>2 DEF A!Next
  <2>3. ASSUME NEW n \in 1 .. NPage, default_alloc_pages(n) PROVE A!Next
    <3>1. PICK page : page = Chosen(n) /\ IsChosen(page, property, flagged, n)
      BY <2>3, ChosenIs DEF default_alloc_pages
    <3>2. res' = page /\ held' = held \cup {<<page, n>>}
      BY <2>3, <3>1 DEF default_alloc_pages
    <3>3. Places(Pages \ HeldPages, n) # {} /\ Min(Places(Pages \ HeldPages, n)) = page
      BY <3>1, PlaceIs DEF FreeNow
    <3>4. Pages \ HeldPages' = (Pages \ HeldPages) \ Block(page, n)
      <4>1. /\ page \in Pages /\ page + n <= NPage /\ Block(page, n) \subseteq Pages \ HeldOf(held)
            /\ ApartOf(held)
        BY <3>1, InvIs, AllocKeeps DEF Exact
      <4>2. Block(page, n) \cap HeldOf(held) = {}
        BY <4>1
      <4>3. Pages \ HeldOf(held') = (Pages \ HeldOf(held)) \ Block(page, n)
        BY <3>2, <4>1, <4>2, HeldGiven
      <4> QED BY <4>3 DEF HeldPages, HeldOf
    <3>5. A!Min(Places(Pages \ HeldPages, n)) = page
      BY <3>3 DEF A!Min, Min
    <3>6. A!Alloc(n)
      <4>1. PICK q : q = Places(Pages \ HeldPages, n)
        OBVIOUS
      <4>2. q # {} /\ A!Min(q) = page
        BY <3>3, <3>5, <4>1
      <4> QED BY <3>2, <3>4, <4>1, <4>2 DEF A!Alloc, A!Block, Rounded, Block
    <3> QED BY <3>6 DEF A!Next
  <2>4. ASSUME NEW x \in held, default_free_pages(x[1], x[2]) PROVE A!Next
    <3>1. PICK b, n : b = x[1] /\ n = x[2]
      OBVIOUS
    <3>2. <<b, n>> \in held /\ held' = held \ {<<b, n>>} /\ res' = res
      BY <2>4, <3>1 DEF default_free_pages
    <3>3. Pages \ HeldOf(held') = (Pages \ HeldOf(held)) \cup Block(b, n)
      BY <3>2, InvIs, HeldFreed DEF Exact
    <3>4. Pages \ HeldPages' = (Pages \ HeldPages) \cup Block(b, n)
      BY <3>3 DEF HeldPages, HeldOf
    <3>5. A!Free(b, n)
      BY <3>2, <3>4 DEF A!Free, A!Block, Block
    <3> QED BY <3>1, <3>5 DEF A!Next
  <2> QED BY <2>1, <2>2, <2>3, <2>4 DEF PmmNext
<1> QED BY <1>1, <1>2, PmmInvariance, PTL DEF TopSpec, ImplementsPageAlloc, A!Spec
=============================================================================
