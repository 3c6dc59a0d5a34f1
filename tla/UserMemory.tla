----------------------------- MODULE UserMemory -----------------------------
(***************************************************************************)
(* What the address spaces of user processes promise: each is a memory of  *)
(* its own.  A fork copies it or shares it, a store is seen by exactly the *)
(* processes that share it, and a program starts in a fresh one.           *)
(***************************************************************************)
EXTENDS Integers

CONSTANTS Procs, Init0, Mms, Addrs, Values, Stored, Images, None, Absent

VARIABLES
  mem,   \* what each address space holds at each page, None where not mapped
  of     \* each process's: None for a kernel thread, Absent for no process

vars == <<mem, of>>

Empty == [a \in Addrs |-> None]
Users(x) == {p \in Procs : of[p] = x}
Unused == {x \in Mms : Users(x) = {}}

Init == mem = [x \in Mms |-> Empty] /\ of = [p \in Procs |-> IF p = Init0 THEN None ELSE Absent]

Has(p) == of[p] \notin {None, Absent}

\* An address space is gone with its last process.
Kept(p) == IF Has(p) /\ Users(of[p]) = {p} THEN [mem EXCEPT ![of[p]] = Empty] ELSE mem

ForkShare(p, q) ==
  /\ of[q] = Absent /\ of[p] # Absent
  /\ of' = [of EXCEPT ![q] = of[p]] /\ UNCHANGED mem

ForkCopy(p, q, x) ==
  /\ of[q] = Absent /\ Has(p) /\ x \in Unused
  /\ of' = [of EXCEPT ![q] = x]
  /\ mem' = [mem EXCEPT ![x] = mem[of[p]]]

Store(p, a, v) ==
  /\ Has(p) /\ UNCHANGED of
  /\ mem[of[p]][a] # None
  /\ mem' = [mem EXCEPT ![of[p]][a] = v]

\* A page that was not mapped appears, with anything in it.
Touch(p, a, v) ==
  /\ Has(p) /\ UNCHANGED of
  /\ mem[of[p]][a] = None
  /\ mem' = [mem EXCEPT ![of[p]][a] = v]

\* A program starts in x.
Exec(p, x) ==
  /\ of[p] # Absent
  /\ x \in Unused \cup (IF Has(p) /\ Users(of[p]) = {p} THEN {of[p]} ELSE {})
  /\ of' = [of EXCEPT ![p] = x]
  /\ \E image \in Images : mem' = [Kept(p) EXCEPT ![x] = image]

Exit(p) == of[p] # Absent /\ of' = [of EXCEPT ![p] = Absent] /\ mem' = Kept(p)

Next ==
  \E p \in Procs :
    \/ \E q \in Procs : ForkShare(p, q) \/ \E x \in Mms : ForkCopy(p, q, x)
    \/ \E a \in Addrs : (\E v \in Stored : Store(p, a, v)) \/ \E v \in Values : Touch(p, a, v)
    \/ \E x \in Mms : Exec(p, x)
    \/ Exit(p)

Spec == Init /\ [][Next]_vars
=============================================================================
