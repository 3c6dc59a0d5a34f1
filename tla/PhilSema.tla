------------------------------ MODULE PhilSema ------------------------------
(***************************************************************************)
(* The dining philosophers over semaphores of kern/sync/check_sync.c:      *)
(* kernel threads that think, take both forks, eat and put them back.      *)
(* do_sleep is a step that takes its time.  The kernel switches threads    *)
(* only where one sleeps; the model may switch at every call on a          *)
(* semaphore, which includes all that the kernel does.                     *)
(***************************************************************************)
EXTENDS Philosophers

\* s[i] is the semaphore i.
Semaphores == Phils \cup {mutex}

VARIABLES sem_value, sem_queue, state_sema, sem_pc, sem_iter
sema == <<sem_value, sem_queue, state_sema, sem_pc, sem_iter>>

Q == INSTANCE Sem WITH Threads <- Phils, Sems <- Semaphores, value <- sem_value, queue <- sem_queue

SemaPCs == {"think", "take", "take_test", "take_up", "take_down", "eat",
            "put", "put_left", "put_right", "put_up", "quit"}

SemaTypeOK ==
  /\ Q!SemTypeOK
  /\ state_sema \in [Phils -> {"THINKING", "HUNGRY", "EATING"}]
  /\ sem_pc \in [Phils -> SemaPCs]
  /\ sem_iter \in [Phils -> 0 .. TIMES]

SemaInit ==
  /\ Q!sem_init([s \in Semaphores |-> IF s = mutex THEN 1 ELSE 0])
  /\ state_sema = [i \in Phils |-> "THINKING"]
  /\ sem_pc = [i \in Phils |-> "think"]
  /\ sem_iter = [i \in Phils |-> 0]

\* Philosopher i, at l, goes on to m.
SemaStep(i, l, m) ==
  /\ Q!Runs(i)
  /\ sem_pc[i] = l
  /\ sem_pc' = [sem_pc EXCEPT ![i] = m]

\* phi_test_sema(j) on the states st.
SemaMayEat_careless(st, j) == st[j] = "HUNGRY" /\ st[LEFT(j)] # "EATING"
SemaMayEat(st, j) == st[j] = "HUNGRY" /\ st[LEFT(j)] # "EATING" /\ st[RIGHT(j)] # "EATING"

phi_test_sema(st, j) ==
  IF SemaMayEat(st, j)
  THEN state_sema' = [st EXCEPT ![j] = "EATING"] /\ Q!up(j)
  ELSE state_sema' = st /\ UNCHANGED <<sem_value, sem_queue>>

SemaAgain(i) == sem_iter[i] < TIMES

think_sema(i) ==
  /\ IF SemaAgain(i)
     THEN SemaStep(i, "think", "take") /\ sem_iter' = [sem_iter EXCEPT ![i] = @ + 1]
     ELSE SemaStep(i, "think", "quit") /\ UNCHANGED sem_iter
  /\ UNCHANGED <<sem_value, sem_queue, state_sema>>

\* phi_take_forks_sema
take_down_mutex(i) == SemaStep(i, "take", "take_test") /\ Q!down(i, mutex) /\ UNCHANGED <<state_sema, sem_iter>>
take_test_sema(i) ==
  /\ SemaStep(i, "take_test", "take_up")
  /\ phi_test_sema([state_sema EXCEPT ![i] = "HUNGRY"], i)
  /\ UNCHANGED sem_iter
take_up_mutex(i) == SemaStep(i, "take_up", "take_down") /\ Q!up(mutex) /\ UNCHANGED <<state_sema, sem_iter>>
take_down_self(i) == SemaStep(i, "take_down", "eat") /\ Q!down(i, i) /\ UNCHANGED <<state_sema, sem_iter>>

eat_sema(i) == SemaStep(i, "eat", "put") /\ UNCHANGED <<sem_value, sem_queue, state_sema, sem_iter>>

\* phi_put_forks_sema
put_down_mutex(i) == SemaStep(i, "put", "put_left") /\ Q!down(i, mutex) /\ UNCHANGED <<state_sema, sem_iter>>
put_left_sema(i) ==
  /\ SemaStep(i, "put_left", "put_right")
  /\ phi_test_sema([state_sema EXCEPT ![i] = "THINKING"], LEFT(i))
  /\ UNCHANGED sem_iter
put_right_sema_skip(i) == SemaStep(i, "put_right", "put_up") /\ UNCHANGED <<sem_value, sem_queue, state_sema, sem_iter>>
put_right_sema(i) == SemaStep(i, "put_right", "put_up") /\ phi_test_sema(state_sema, RIGHT(i)) /\ UNCHANGED sem_iter
put_up_mutex(i) == SemaStep(i, "put_up", "think") /\ Q!up(mutex) /\ UNCHANGED <<state_sema, sem_iter>>

philosopher_using_semaphore(i) ==
  \/ think_sema(i) \/ eat_sema(i)
  \/ take_down_mutex(i) \/ take_test_sema(i) \/ take_up_mutex(i) \/ take_down_self(i)
  \/ put_down_mutex(i) \/ put_left_sema(i) \/ put_right_sema(i) \/ put_up_mutex(i)

\* When no philosopher can run the idle process does.
cpu_idle_sema == (\A i \in Phils : sem_pc[i] = "quit" \/ ~Q!Runs(i)) /\ UNCHANGED sema

SemaNext == (\E i \in Phils : philosopher_using_semaphore(i)) \/ cpu_idle_sema

SemaSpec == SemaInit /\ [][SemaNext]_sema

\* A thread that can run does run: round robin starves nobody, and a sleep
\* ends (NoStarvation and SleepEnds of ProcSched).
SemaFairSpec == SemaSpec /\ \A i \in Phils : WF_sema(philosopher_using_semaphore(i))
-----------------------------------------------------------------------------
(* Properties *)

\* From the moment it is let through until it says it has finished, a
\* philosopher has both forks.
SemaHasForks(i) == (sem_pc[i] = "eat" /\ Q!Runs(i)) \/ sem_pc[i] \in {"put", "put_left"}

\* The semaphore mutex keeps all but one thread out of the critical sections,
\* and a waiter is never passed over by a semaphore that could be had.
InCritical(i) == Q!Runs(i) /\ sem_pc[i] \in {"take_test", "take_up", "put_left", "put_right", "put_up"}
MutexWorks ==
  /\ SemaTypeOK
  /\ \A i, j \in Phils : InCritical(i) /\ InCritical(j) => i = j
  /\ Q!SemOK

\* What the exclusion is for: no fork is in two hands, neighbours never eat at
\* the same time.
SemaNeverEat ==
  /\ MutexWorks
  /\ \A i \in Phils : SemaHasForks(i) => ~SemaHasForks(RIGHT(i))

\* No wakeup is lost: as long as somebody has not quit, somebody who has not
\* can run, and the idle process has nothing to wait for.
SemaSomebodyRuns == (\E i \in Phils : sem_pc[i] # "quit") => \E i \in Phils : sem_pc[i] # "quit" /\ Q!Runs(i)
=============================================================================
