------------------------------- MODULE MCWaits -------------------------------
(***************************************************************************)
(* The philosophers of check_sync.c on a small instance, over the monitor  *)
(* and over semaphores.  They share no state: part says which of the two   *)
(* tables is at work.                                                      *)
(***************************************************************************)
EXTENDS PhilMonitor, PhilSema

VARIABLE part

all == <<part, vars, sema>>

ASSUME WaitsAssumption == PhilAssumption

AllInit == part \in {"sema", "monitor"} /\ Init /\ SemaInit

OverSemaphores(step) == part = "sema" /\ step /\ UNCHANGED <<part, vars>>
OverMonitor(step) == part = "monitor" /\ step /\ UNCHANGED <<part, sema>>

AllNext == OverSemaphores(SemaNext) \/ OverMonitor(Next)

\* The fairness of the two specifications.
AllSpec ==
  /\ AllInit /\ [][AllNext]_all
  /\ \A i \in Phils : WF_all(\/ OverSemaphores(philosopher_using_semaphore(i))
                             \/ OverMonitor(philosopher_using_condvar(i)))

\* check_sync's philosophers all eat as often as they are to and quit.
EverybodyQuits ==
  <>(\A i \in Phils : /\ part = "sema" => sem_pc[i] = "quit"
                      /\ part = "monitor" => pc[i] = "quit")
=============================================================================
