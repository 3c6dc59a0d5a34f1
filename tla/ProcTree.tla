------------------------------ MODULE ProcTree ------------------------------
(***************************************************************************)
(* The links between proc_structs of kern/process/proc.c: cptr, a          *)
(* process's youngest child, and optr and yptr, its older and younger      *)
(* sibling, as set_links (do_fork), the adoption loop of do_exit and       *)
(* remove_links (do_wait) keep them.  Each runs with interrupts off; the   *)
(* loop of do_exit is one action per turn.                                 *)
(***************************************************************************)
EXTENDS Naturals, Sequences, SequencesExt, FiniteSets

CONSTANTS
  initproc,  \* the init process
  Slots,     \* the proc_structs do_fork can get from alloc_proc
  NULL       \* the null pointer

TreeAssumption ==
  /\ initproc \notin Slots /\ NULL \notin Slots \cup {initproc}
  /\ IsFiniteSet(Slots)  \* at most MAX_PROCESS

VARIABLES
  life,      \* "none" when there is no proc_struct, "zombie" after do_exit
  parent, cptr, optr, yptr,  \* the pointers of each proc_struct
  nr_process,                \* counts idle and init too
  exiting    \* the process in do_exit's loop, or NULL

vars == <<life, parent, cptr, optr, yptr, nr_process, exiting>>

Procs == Slots \cup {initproc}
Alive(p) == p = initproc \/ (p \in Slots /\ life[p] = "live")

TypeOK ==
  /\ life \in [Slots -> {"none", "live", "zombie"}]
  /\ parent \in [Procs -> Procs \cup {NULL}]
  /\ cptr \in [Procs -> Slots \cup {NULL}]
  /\ optr \in [Procs -> Slots \cup {NULL}]
  /\ yptr \in [Procs -> Slots \cup {NULL}]
  /\ nr_process \in Nat
  /\ exiting \in Slots \cup {NULL}

\* init is there; its parent, idle, is not shown.
Init ==
  /\ life = [p \in Slots |-> "none"]
  /\ parent = [p \in Procs |-> NULL]
  /\ cptr = [p \in Procs |-> NULL]
  /\ optr = [p \in Procs |-> NULL]
  /\ yptr = [p \in Procs |-> NULL]
  /\ nr_process = 2
  /\ exiting = NULL

\* Puts x into the field f of q, if there is a q.
Store(f, q, x) == IF q = NULL THEN f ELSE [f EXCEPT ![q] = x]

\* What do_wait(0) walks over from p's youngest child on, along optr.
Walks(p) ==
  {s \in SeqOf(Slots, Cardinality(Slots)) :
     s # <<>> /\ s[1] = cptr[p] /\ \A i \in 1 .. (Len(s) - 1) : s[i + 1] = optr[s[i]]}

\* do_fork by p: q becomes the youngest child.
set_links(p, q) ==
  /\ exiting = NULL
  /\ Alive(p) /\ life[q] = "none"
  /\ life' = [life EXCEPT ![q] = "live"]
  /\ parent' = [parent EXCEPT ![q] = p]
  /\ optr' = [optr EXCEPT ![q] = cptr[p]]
  /\ yptr' = Store([yptr EXCEPT ![q] = NULL], cptr[p], q)
  /\ cptr' = [cptr EXCEPT ![p] = q, ![q] = NULL]
  /\ nr_process' = nr_process + 1
  /\ UNCHANGED exiting

do_exit(p) ==
  /\ exiting = NULL
  /\ life[p] = "live"
  /\ life' = [life EXCEPT ![p] = "zombie"]
  /\ exiting' = p
  /\ UNCHANGED <<parent, cptr, optr, yptr, nr_process>>

\* One turn of the loop: the youngest child left goes to init, as its youngest.
Heir_grand == parent[exiting]
Heir == initproc
Elder == cptr[Heir]
Adopted(q) == Store([yptr EXCEPT ![q] = NULL], Elder, q)

adopt ==
  LET q == cptr[exiting]
  IN  /\ exiting # NULL
      /\ q # NULL
      /\ cptr' = [cptr EXCEPT ![exiting] = optr[q], ![Heir] = q]
      /\ yptr' = Adopted(q)
      /\ optr' = [optr EXCEPT ![q] = Elder]
      /\ parent' = [parent EXCEPT ![q] = Heir]
      /\ UNCHANGED <<life, nr_process, exiting>>

exit_done ==
  /\ exiting # NULL
  /\ cptr[exiting] = NULL
  /\ exiting' = NULL
  /\ UNCHANGED <<life, parent, cptr, optr, yptr, nr_process>>

\* Who takes q's place as the child its parent points to.
NewFirst_stuck(q) == cptr
NewFirst(q) == IF yptr[q] = NULL THEN [cptr EXCEPT ![parent[q]] = optr[q]] ELSE cptr

Uncount == nr_process - 1

remove_links(q) ==
  /\ yptr' = [Store(yptr, optr[q], yptr[q]) EXCEPT ![q] = NULL]
  /\ optr' = [Store(optr, yptr[q], optr[q]) EXCEPT ![q] = NULL]
  /\ cptr' = NewFirst(q)
  /\ nr_process' = Uncount
  /\ life' = [life EXCEPT ![q] = "none"]
  /\ parent' = [parent EXCEPT ![q] = NULL]
  /\ UNCHANGED exiting

\* do_wait(pid) goes by the parent pointer of the process with that pid.
wait_pid(p, q) ==
  /\ exiting = NULL
  /\ Alive(p) /\ life[q] = "zombie" /\ parent[q] = p
  /\ remove_links(q)

\* do_wait(0) walks the chain up to the first zombie.
wait_any(p) ==
  /\ exiting = NULL
  /\ Alive(p)
  /\ \E s \in Walks(p) :
       /\ \A i \in 1 .. Len(s) : (life[s[i]] = "zombie") <=> (i = Len(s))
       /\ remove_links(s[Len(s)])

Next ==
  \/ \E p \in Procs, q \in Slots : set_links(p, q) \/ wait_pid(p, q)
  \/ \E p \in Procs : wait_any(p)
  \/ \E p \in Slots : do_exit(p)
  \/ adopt
  \/ exit_done

Spec == Init /\ [][Next]_vars
-----------------------------------------------------------------------------
(* Properties *)

Children(p) == {q \in Slots : life[q] # "none" /\ parent[q] = p}

\* s is the list from the pointer x on, to the end.
Lists(s, x) ==
  /\ x = (IF s = <<>> THEN NULL ELSE s[1])
  /\ \A i \in DOMAIN s : optr[s[i]] = (IF i = Len(s) THEN NULL ELSE s[i + 1])

\* do_wait(0) walks over every child, once, and over nothing else; so it never
\* reports "no child" while there is one.
ChainIsChildren ==
  \A p \in Procs : Alive(p) => \E s \in SetToSeqs(Children(p)) : Lists(s, cptr[p])

\* Outside the loop of do_exit the two sibling pointers undo each other, and
\* stay within one family.
SiblingsAgree ==
  \A q \in Slots : exiting = NULL /\ life[q] # "none" =>
    /\ optr[q] # NULL => yptr[optr[q]] = q /\ parent[optr[q]] = parent[q]
    /\ yptr[q] # NULL => optr[yptr[q]] = q
    /\ yptr[q] = NULL <=> cptr[parent[q]] = q

\* What init_main asserts when do_wait finds no child: init's pointers are
\* clear and nr_process is 2.
InitMainAsserts ==
  Children(initproc) = {} /\ exiting = NULL =>
    /\ cptr[initproc] = NULL /\ yptr[initproc] = NULL /\ optr[initproc] = NULL
    /\ nr_process = 2

\* All three, on pointers that keep their types: the tree do_wait, do_exit and
\* init_main rely on is right between any two of their steps.
TreeExact == TypeOK /\ ChainIsChildren /\ SiblingsAgree /\ InitMainAsserts

\* The pointers implement the family relation that the scheduler's model
\* (ProcSched) works with.  In the loop of do_exit the children still to be
\* moved are init's already.
F == INSTANCE Family WITH
       parent <- [q \in Slots |->
                    IF life[q] = "none" \/ ~Alive(parent[q]) THEN initproc ELSE parent[q]]
ImplementsFamily == F!Spec
=============================================================================
