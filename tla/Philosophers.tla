---------------------------- MODULE Philosophers ----------------------------
(***************************************************************************)
(* The table of kern/sync/check_sync.c, which its two solutions share.     *)
(***************************************************************************)
EXTENDS Naturals, Sequences, FiniteSets

CONSTANTS
  N,     \* how many philosophers
  TIMES  \* how often each of them eats

PhilAssumption == N \in Nat \ {0, 1} /\ TIMES \in Nat \ {0}

Phils == 0 .. N - 1
LEFT(i)  == (i + N - 1) % N
RIGHT(i) == (i + 1) % N

\* Every philosopher has a semaphore of its own, and the mutex comes after them.
mutex == N
=============================================================================
