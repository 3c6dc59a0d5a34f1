------------------------------- MODULE MCLists -------------------------------
(***************************************************************************)
(* The structures under the scheduler, each on a small instance: the list  *)
(* of timers, the process tree and the heap of the stride class.  They     *)
(* share no state, so it is enough to let one of them work while the       *)
(* others rest: part says which.                                           *)
(***************************************************************************)
EXTENDS ProcTree, TimerList, Integers

CONSTANTS
  Nil, Idle, Runners    \* the processes of the stride class

VARIABLES
  part,
  heap, root, proc_num, state, current, lab6_stride, lab6_priority, time_slice, vtime

stride == <<heap, root, proc_num, state, current, lab6_stride, lab6_priority, time_slice, vtime>>
all == <<part, timers, vars, stride>>

\* BIG_STRIDE at its limit for numbers of Width bits: processes that stay
\* runnable, and processes that come and go.
Share == INSTANCE Stride WITH Procs <- Runners, Width <- 3, BIG_STRIDE <- 3,
           Priorities <- {0, 2}, MAX_TIME_SLICE <- 1, ZeroGuarded <- TRUE,
           Sleepers <- {}, Late <- FALSE, MaxService <- 12
Heap == INSTANCE Stride WITH Procs <- Runners, Width <- 3, BIG_STRIDE <- 3,
           Priorities <- {3}, MAX_TIME_SLICE <- 2, ZeroGuarded <- TRUE,
           Sleepers <- Runners \ {CHOOSE p \in Runners : TRUE}, Late <- TRUE, MaxService <- 6

ASSUME ListsAssumption ==
  SleepAssumption /\ TreeAssumption /\ Share!StrideAssumption /\ Heap!StrideAssumption

AllInit ==
  /\ part \in {"timers", "tree", "share", "heap"}
  /\ TimerInit /\ Init /\ Share!Init

AllNext ==
  \/ part = "timers" /\ TimerNext /\ UNCHANGED <<part, vars, stride>>
  \/ part = "tree" /\ Next /\ UNCHANGED <<part, timers, stride>>
  \/ part = "share" /\ Share!Next /\ UNCHANGED <<part, timers, vars>>
  \/ part = "heap" /\ Heap!Next /\ UNCHANGED <<part, timers, vars>>

AllSpec == AllInit /\ [][AllNext]_all

\* stride_pick_next takes a process with the least of its share, although the
\* strides wrap around, while processes stay runnable.
PicksLeast == [][part = "share" => Share!PicksLeastStep]_all

\* The skew heap holds the run queue, and its parent pointers are right, while
\* processes are forked, sleep, wake and exit at any time.
HeapExact == (part = "share" => Share!HeapExact) /\ (part = "heap" => Heap!HeapExact)
=============================================================================
