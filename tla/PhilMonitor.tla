---------------------------- MODULE PhilMonitor ----------------------------
(***************************************************************************)
(* The dining philosophers over a monitor: cond_signal and cond_wait of    *)
(* kern/sync/monitor.c, and the routines of kern/sync/check_sync.c that    *)
(* run inside the monitor.  A thread that signals waits on the semaphore   *)
(* next until the one it woke has left or waits again, and a thread that   *)
(* leaves lets a waiting signaller in before it opens the mutex.           *)
(*                                                                         *)
(* As in PhilSema the threads may be switched at every call on a           *)
(* semaphore, not only where one sleeps.                                   *)
(***************************************************************************)
EXTENDS Philosophers

\* cv[i].sem is the semaphore i and mtp->mutex the semaphore mutex.
next == N + 1  \* mtp->next
Sems == Phils \cup {mutex, next}

VARIABLES
  value, queue,   \* the semaphores
  next_count,     \* mtp->next_count
  count,          \* mtp->cv[i].count
  state_condvar,
  pc,
  ret,            \* where a call of cond_signal returns to
  iter
vars == <<value, queue, next_count, count, state_condvar, pc, ret, iter>>

S == INSTANCE Sem WITH Threads <- Phils

PCs == {"think", "take", "take_test", "take_check", "wait_down", "wait_woken", "take_leave", "eat",
        "put", "put_left", "put_right", "put_leave", "signal_down", "signal_back", "quit"}

TypeOK ==
  /\ S!SemTypeOK
  /\ next_count \in 0 .. N
  /\ count \in [Phils -> 0 .. N]
  /\ state_condvar \in [Phils -> {"THINKING", "HUNGRY", "EATING"}]
  /\ pc \in [Phils -> PCs]
  /\ ret \in [Phils -> PCs]
  /\ iter \in [Phils -> 0 .. TIMES]

\* monitor_init
Init ==
  /\ S!sem_init([s \in Sems |-> IF s = mutex THEN 1 ELSE 0])
  /\ next_count = 0
  /\ count = [i \in Phils |-> 0]
  /\ state_condvar = [i \in Phils |-> "THINKING"]
  /\ pc = [i \in Phils |-> "think"]
  /\ ret = [i \in Phils |-> "think"]
  /\ iter = [i \in Phils |-> 0]

Goto(i, m) == pc' = [pc EXCEPT ![i] = m]
Step(i, l, m) == S!Runs(i) /\ pc[i] = l /\ Goto(i, m)
-----------------------------------------------------------------------------
(* The monitor *)

\* cond_signal(cv[j]) by i, which goes on at m: lost when nobody waits.
cond_signal_on(i, j, m) ==
  IF count[j] > 0
  THEN /\ next_count' = next_count + 1
       /\ S!up(j)
       /\ Goto(i, m)
       /\ UNCHANGED ret
  ELSE Goto(i, m) /\ UNCHANGED <<value, queue, next_count, ret>>
cond_signal(i, j, m) ==
  IF count[j] > 0
  THEN /\ next_count' = next_count + 1
       /\ S!up(j)
       /\ Goto(i, "signal_down")
       /\ ret' = [ret EXCEPT ![i] = m]
  ELSE Goto(i, m) /\ UNCHANGED <<value, queue, next_count, ret>>

signal_down(i) ==
  /\ Step(i, "signal_down", "signal_back")
  /\ S!down(i, next)
  /\ UNCHANGED <<next_count, count, state_condvar, ret, iter>>

signal_back(i) ==
  /\ Step(i, "signal_back", ret[i])
  /\ next_count' = next_count - 1
  /\ UNCHANGED <<value, queue, count, state_condvar, ret, iter>>

\* How a thread leaves the monitor, for good or to wait.
Door_mutex == mutex
Door == IF next_count > 0 THEN next ELSE mutex

\* cond_wait(cv[i]) by i
cond_wait(i) ==
  /\ count' = [count EXCEPT ![i] = @ + 1]
  /\ S!up(Door)
  /\ Goto(i, "wait_down")

wait_down(i) ==
  /\ Step(i, "wait_down", "wait_woken")
  /\ S!down(i, i)
  /\ UNCHANGED <<next_count, count, state_condvar, ret, iter>>

wait_woken(i) ==
  /\ Step(i, "wait_woken", "take_leave")
  /\ count' = [count EXCEPT ![i] = @ - 1]
  /\ UNCHANGED <<value, queue, next_count, state_condvar, ret, iter>>
-----------------------------------------------------------------------------
(* The philosophers *)

\* phi_test_condvar(j) by i on the states st; i goes on at m.
MayEat_careless(st, j) == st[j] = "HUNGRY" /\ st[RIGHT(j)] # "EATING"
MayEat(st, j) == st[j] = "HUNGRY" /\ st[LEFT(j)] # "EATING" /\ st[RIGHT(j)] # "EATING"

phi_test_condvar(i, st, j, m) ==
  IF MayEat(st, j)
  THEN state_condvar' = [st EXCEPT ![j] = "EATING"] /\ cond_signal(i, j, m)
  ELSE state_condvar' = st /\ Goto(i, m) /\ UNCHANGED <<value, queue, next_count, ret>>

Again(i) == iter[i] < TIMES

think_uncounted(i) ==
  /\ Again(i) /\ Step(i, "think", "take")
  /\ UNCHANGED <<value, queue, next_count, count, state_condvar, ret, iter>>
think(i) ==
  /\ IF Again(i)
     THEN Step(i, "think", "take") /\ iter' = [iter EXCEPT ![i] = @ + 1]
     ELSE Step(i, "think", "quit") /\ UNCHANGED iter
  /\ UNCHANGED <<value, queue, next_count, count, state_condvar, ret>>

\* down(&(mtp->mutex)) of both routines.
enter(i, l, m) ==
  /\ Step(i, l, m)
  /\ S!down(i, mutex)
  /\ UNCHANGED <<next_count, count, state_condvar, ret, iter>>

leave(i, l, m) ==
  /\ Step(i, l, m)
  /\ S!up(Door)
  /\ UNCHANGED <<next_count, count, state_condvar, ret, iter>>

take_test(i) ==
  /\ S!Runs(i) /\ pc[i] = "take_test"
  /\ phi_test_condvar(i, [state_condvar EXCEPT ![i] = "HUNGRY"], i, "take_check")
  /\ UNCHANGED <<count, iter>>

take_check(i) ==
  /\ S!Runs(i) /\ pc[i] = "take_check"
  /\ IF state_condvar[i] = "HUNGRY" THEN cond_wait(i)
     ELSE Goto(i, "take_leave") /\ UNCHANGED <<value, queue, count>>
  /\ UNCHANGED <<next_count, state_condvar, ret, iter>>

eat(i) == Step(i, "eat", "put") /\ UNCHANGED <<value, queue, next_count, count, state_condvar, ret, iter>>

put_left(i) ==
  /\ S!Runs(i) /\ pc[i] = "put_left"
  /\ phi_test_condvar(i, [state_condvar EXCEPT ![i] = "THINKING"], LEFT(i), "put_right")
  /\ UNCHANGED <<count, iter>>

put_right(i) ==
  /\ S!Runs(i) /\ pc[i] = "put_right"
  /\ phi_test_condvar(i, state_condvar, RIGHT(i), "put_leave")
  /\ UNCHANGED <<count, iter>>

philosopher_using_condvar(i) ==
  \/ think(i) \/ eat(i)
  \/ enter(i, "take", "take_test") \/ take_test(i) \/ take_check(i)
  \/ wait_down(i) \/ wait_woken(i) \/ leave(i, "take_leave", "eat")
  \/ enter(i, "put", "put_left") \/ put_left(i) \/ put_right(i) \/ leave(i, "put_leave", "think")
  \/ signal_down(i) \/ signal_back(i)

\* When no philosopher can run the idle process does.
cpu_idle == (\A i \in Phils : pc[i] = "quit" \/ ~S!Runs(i)) /\ UNCHANGED vars

Next == (\E i \in Phils : philosopher_using_condvar(i)) \/ cpu_idle

Spec == Init /\ [][Next]_vars

\* As in PhilSema: a thread that can run does run.
FairSpec == Spec /\ \A i \in Phils : WF_vars(philosopher_using_condvar(i))
-----------------------------------------------------------------------------
(* Properties *)

\* Who may touch the monitor's data: a thread inside, but not one that is
\* about to wait on its condition or for the thread it has signalled.
Active(i) ==
  /\ S!Runs(i)
  /\ pc[i] \in {"take_test", "take_check", "wait_woken", "take_leave",
                "put_left", "put_right", "put_leave", "signal_back"}

\* phi_take_forks_condvar does not test again after cond_wait: the state it was
\* woken for still holds when it runs.
WokenMayEat == \A i \in Phils : pc[i] \in {"wait_woken", "take_leave"} /\ S!Runs(i) => state_condvar[i] = "EATING"

\* No fork is in two hands, as in PhilSema, which rests on WokenMayEat.
HasForks(i) == (pc[i] \in {"take_leave", "eat"} /\ S!Runs(i)) \/ pc[i] \in {"put", "put_left"}
NeighboursNeverEat ==
  /\ WokenMayEat
  /\ \A i \in Phils : HasForks(i) => ~HasForks(RIGHT(i))

\* The right to be active lies with the semaphore s, for a thread that is still
\* to call down(), or i has it.
LiesWith(s) == (\A r \in Sems : value[r] = IF r = s THEN 1 ELSE 0) /\ \A i \in Phils : ~Active(i)
HeldBy(i) == (\A r \in Sems : value[r] = 0) /\ \A j \in Phils : Active(j) <=> j = i

\* "Only one process at a time may be be active in a monitor" (monitor.h), and
\* the right to be is never lost either: it is always in exactly one place.
OneToken == TypeOK /\ ((\E s \in Sems : LiesWith(s)) \/ \E i \in Phils : HeldBy(i))

\* No signal is lost, as in PhilSema: as long as somebody has not quit,
\* somebody who has not can run.
SomebodyRuns == (\E i \in Phils : pc[i] # "quit") => \E i \in Phils : pc[i] # "quit" /\ S!Runs(i)
=============================================================================
