------------------------------- MODULE Family -------------------------------
(***************************************************************************)
(* The family relation the process calls promise: a child belongs to the   *)
(* process that forked it until one of the two exits, the children of a    *)
(* process that exits belong to init, and only the parent of a process     *)
(* that has exited can make it disappear.                                  *)
(***************************************************************************)
CONSTANTS
  Slots,    \* the processes that come and go
  initproc  \* the one that stays

VARIABLES
  life,    \* "none", "live" or "zombie" for each of Slots
  parent   \* whose child it is; initproc when there is none

vars == <<life, parent>>

Alive(p) == p = initproc \/ (p \in Slots /\ life[p] = "live")

Init ==
  /\ life = [q \in Slots |-> "none"]
  /\ parent = [q \in Slots |-> initproc]

Fork(p, q) ==
  /\ Alive(p) /\ life[q] = "none"
  /\ life' = [life EXCEPT ![q] = "live"]
  /\ parent' = [parent EXCEPT ![q] = p]

Exit(p) ==
  /\ life[p] = "live"
  /\ life' = [life EXCEPT ![p] = "zombie"]
  /\ parent' = [q \in Slots |-> IF parent[q] = p THEN initproc ELSE parent[q]]

Reap(p, q) ==
  /\ Alive(p) /\ life[q] = "zombie" /\ parent[q] = p
  /\ life' = [life EXCEPT ![q] = "none"]
  /\ parent' = [parent EXCEPT ![q] = initproc]

Next == \E q \in Slots : Exit(q) \/ \E p \in Slots \cup {initproc} : Fork(p, q) \/ Reap(p, q)

Spec == Init /\ [][Next]_vars
=============================================================================
