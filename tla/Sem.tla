-------------------------------- MODULE Sem --------------------------------
(***************************************************************************)
(* Semaphores of kern/sync/sem.c over the wait queues of kern/sync/wait.c. *)
(* up() does not count up when somebody waits: it takes the first waiter   *)
(* off the queue and wakes it, and that is the waiter's turn.  A waiter    *)
(* sleeps as WT_KSEM, which do_kill does not interrupt, so it runs again   *)
(* only when up() has taken it off: Runs(t).                               *)
(***************************************************************************)
EXTENDS Naturals, Sequences, Functions

CONSTANTS
  Sems,    \* the semaphores
  Threads  \* the kernel threads that use them

VARIABLES
  value,  \* sem->value
  queue   \* sem->wait_queue, first waiter at the head

SemTypeOK ==
  /\ value \in [Sems -> Nat]
  /\ queue \in [Sems -> Seq(Threads)]

\* sem_init gives s the value v(s).
sem_init(v) ==
  /\ value = v
  /\ queue = [s \in Sems |-> <<>>]

\* t is not asleep in down().
Runs(t) == \A s \in Sems : t \notin Range(queue[s])

\* up(s): the value, or the first waiter.
Raised(s) == IF queue[s] = <<>> THEN [value EXCEPT ![s] = @ + 1] ELSE value

up(s) ==
  /\ value' = Raised(s)
  /\ queue' = IF queue[s] = <<>> THEN queue ELSE [queue EXCEPT ![s] = Tail(@)]

\* down(s) by t, which goes on after it at once or once it has been woken.
down(t, s) ==
  IF value[s] > 0
  THEN value' = [value EXCEPT ![s] = @ - 1] /\ UNCHANGED queue
  ELSE queue' = [queue EXCEPT ![s] = Append(@, t)] /\ UNCHANGED value

\* Nobody waits for a semaphore that could be had, and nobody waits twice.
SemOK ==
  /\ \A s \in Sems : value[s] > 0 => queue[s] = <<>>
  /\ \A s \in Sems : IsInjective(queue[s])
  /\ \A s, r \in Sems : s # r => Range(queue[s]) \cap Range(queue[r]) = {}
=============================================================================
