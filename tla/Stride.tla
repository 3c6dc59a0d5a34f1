------------------------------- MODULE Stride -------------------------------
(***************************************************************************)
(* The stride scheduling class (kern/schedule/default_sched_stride.c of    *)
(* labs 6 to 8) on its skew heap (libs/skew_heap.h), driven by schedule()  *)
(* and wakeup_proc.                                                        *)
(*                                                                         *)
(* lab6_stride is an unsigned number of Width bits (32 in the code) that   *)
(* wraps around; proc_stride_comp_f looks at the sign of a difference.     *)
(* vtime is a history variable: what lab6_stride would be without          *)
(* wrapping.  The processes that are not the subject here (init, which     *)
(* forks the others, and the idle process) are "idle".                     *)
(***************************************************************************)
EXTENDS Integers, FiniteSets

CONSTANTS
  Procs,           \* the processes of the run queue
  Nil,             \* the null pointer
  Idle,            \* idleproc
  Width,           \* bits of lab6_stride
  BIG_STRIDE,      \* 2^31 - 1 in lab 6, 2^30 in labs 7 and 8, scaled to Width
  Priorities,      \* what lab6_set_priority is called with
  MAX_TIME_SLICE,  \* sched.h
  ZeroGuarded,     \* lab 6 tests for priority 0, lab 8 does not
  Sleepers,        \* processes that may sleep
  Late,            \* processes may be forked after others have run
  MaxService       \* a process exits once its vtime has come this far

StrideAssumption ==
  /\ Nil \notin Procs /\ Idle \notin Procs
  /\ Width \in Nat \ {0} /\ BIG_STRIDE \in 1..(2^(Width - 1) - 1)
  /\ MAX_TIME_SLICE \in Nat \ {0}

VARIABLES
  heap,           \* the lab6_run_pool of each process
  root,           \* rq->lab6_run_pool
  proc_num,       \* rq->proc_num
  state,          \* FREE, RUNNABLE or SLEEPING
  current,
  lab6_stride,
  lab6_priority,
  time_slice,
  vtime

vars == <<heap, root, proc_num, state, current, lab6_stride, lab6_priority, time_slice, vtime>>

Node == [left : Procs \cup {Nil}, right : Procs \cup {Nil}, parent : Procs \cup {Nil}]

TypeOK ==
  /\ heap \in [Procs -> Node]
  /\ root \in Procs \cup {Nil}
  /\ proc_num \in 0..Cardinality(Procs)
  /\ state \in [Procs -> {"FREE", "RUNNABLE", "SLEEPING"}]
  /\ current \in Procs \cup {Idle}
  /\ lab6_stride \in [Procs -> 0..(2^Width - 1)]
  /\ lab6_priority \in [Procs -> Nat]
  /\ time_slice \in [Procs -> 0..MAX_TIME_SLICE]
  /\ vtime \in [Procs -> Nat]
-----------------------------------------------------------------------------
(* libs/skew_heap.h *)

\* The sign of the difference of two strides as a signed number.
proc_stride_comp_f_unsigned(a, b) ==
  IF lab6_stride[a] > lab6_stride[b] THEN 1 ELSE IF lab6_stride[a] = lab6_stride[b] THEN 0 ELSE -1
proc_stride_comp_f(a, b) ==
  LET c == (lab6_stride[a] - lab6_stride[b]) % 2^Width
  IN  IF c = 0 THEN 0 ELSE IF c < 2^(Width - 1) THEN 1 ELSE -1

skew_heap_init(h, b) == [h EXCEPT ![b] = [left |-> Nil, right |-> Nil, parent |-> Nil]]

\* The smaller root keeps its left child as the right one, and gets the
\* merge of its right child and the other heap as its left child.
RECURSIVE skew_heap_merge(_, _, _)
skew_heap_merge(h, a, b) ==
  IF a = Nil THEN [heap |-> h, root |-> b]
  ELSE IF b = Nil THEN [heap |-> h, root |-> a]
  ELSE LET top == IF proc_stride_comp_f(a, b) = -1 THEN a ELSE b
           m   == IF top = a THEN skew_heap_merge(h, h[a].right, b)
                  ELSE skew_heap_merge(h, a, h[b].right)
       IN  [heap |-> [m.heap EXCEPT ![top].left = m.root, ![top].right = h[top].left,
                                    ![m.root].parent = top],
            root |-> top]

skew_heap_insert(h, a, b) == skew_heap_merge(skew_heap_init(h, b), a, b)

skew_heap_remove_stale(h, a, b) ==
  LET rep == skew_heap_merge(h, h[b].left, h[b].right)
      p   == h[b].parent
  IN  IF p = Nil THEN rep
      ELSE [heap |-> IF rep.heap[p].left = b THEN [rep.heap EXCEPT ![p].left = rep.root]
                     ELSE [rep.heap EXCEPT ![p].right = rep.root],
            root |-> a]
skew_heap_remove(h, a, b) ==
  LET rep == skew_heap_merge(h, h[b].left, h[b].right)
      p   == h[b].parent
      fix == IF rep.root = Nil THEN rep.heap ELSE [rep.heap EXCEPT ![rep.root].parent = p]
  IN  IF p = Nil THEN [heap |-> fix, root |-> rep.root]
      ELSE [heap |-> IF fix[p].left = b THEN [fix EXCEPT ![p].left = rep.root]
                     ELSE [fix EXCEPT ![p].right = rep.root],
            root |-> a]
-----------------------------------------------------------------------------
(* The scheduling class.  A run queue is [heap, root, proc_num, time_slice]. *)

RunQueue == [heap |-> heap, root |-> root, proc_num |-> proc_num, time_slice |-> time_slice]

Refilled(n) == IF n = 0 \/ n > MAX_TIME_SLICE THEN MAX_TIME_SLICE ELSE n

stride_enqueue(rq, p) ==
  LET q == skew_heap_insert(rq.heap, rq.root, p)
  IN  [heap |-> q.heap, root |-> q.root, proc_num |-> rq.proc_num + 1,
       time_slice |-> [rq.time_slice EXCEPT ![p] = Refilled(@)]]

stride_dequeue(rq, p) ==
  LET q == skew_heap_remove(rq.heap, rq.root, p)
  IN  [rq EXCEPT !.heap = q.heap, !.root = q.root, !.proc_num = @ - 1]

\* What stride_pick_next adds.  Lab 8 divides by a priority of zero, for
\* which the processor's unsigned division answers all ones.
Pass(p) ==
  IF lab6_priority[p] # 0 THEN BIG_STRIDE \div lab6_priority[p]
  ELSE IF ZeroGuarded THEN BIG_STRIDE ELSE 2^Width - 1

SetQueue(rq) ==
  /\ heap' = rq.heap /\ root' = rq.root /\ proc_num' = rq.proc_num
  /\ time_slice' = rq.time_slice

\* schedule(), from a run queue that already holds the current process if
\* that is to run again.
schedule(rq) ==
  IF rq.root = Nil
  THEN /\ SetQueue(rq) /\ current' = Idle
       /\ UNCHANGED <<lab6_stride, vtime>>
  ELSE LET p == rq.root
       IN  /\ lab6_stride' = [lab6_stride EXCEPT ![p] = (@ + Pass(p)) % 2^Width]
           /\ vtime' = [vtime EXCEPT ![p] = @ + Pass(p)]
           /\ SetQueue(stride_dequeue(rq, p))
           /\ current' = p
-----------------------------------------------------------------------------
Init ==
  /\ heap = [p \in Procs |-> [left |-> Nil, right |-> Nil, parent |-> Nil]]
  /\ root = Nil /\ proc_num = 0
  /\ state = [p \in Procs |-> "FREE"]
  /\ current = Idle
  /\ lab6_stride = [p \in Procs |-> 0]
  /\ lab6_priority = [p \in Procs |-> 0]
  /\ time_slice = [p \in Procs |-> 0]
  /\ vtime = [p \in Procs |-> 0]

\* alloc_proc and wakeup_proc for a new process; a slot is used once.
Fork(p) ==
  /\ state[p] = "FREE"
  /\ Late \/ \A q \in Procs : vtime[q] = 0
  /\ vtime[p] = 0
  /\ state' = [state EXCEPT ![p] = "RUNNABLE"]
  /\ SetQueue(stride_enqueue(RunQueue, p))
  /\ UNCHANGED <<current, lab6_stride, lab6_priority, vtime>>

\* lab6_set_priority.
SetPriority(n) ==
  /\ current # Idle /\ vtime[current] < MaxService
  /\ lab6_priority' = [lab6_priority EXCEPT ![current] = IF n = 0 THEN 1 ELSE n]
  /\ UNCHANGED <<heap, root, proc_num, state, current, lab6_stride, time_slice, vtime>>

\* stride_proc_tick with time left.
Tick ==
  /\ current # Idle /\ time_slice[current] > 1
  /\ time_slice' = [time_slice EXCEPT ![current] = @ - 1]
  /\ UNCHANGED <<heap, root, proc_num, state, current, lab6_stride, lab6_priority, vtime>>

\* The tick that ends the time slice sets need_resched, and trap() calls schedule().
Expire ==
  /\ current # Idle /\ time_slice[current] <= 1 /\ vtime[current] < MaxService
  /\ schedule(stride_enqueue([RunQueue EXCEPT !.time_slice[current] = 0], current))
  /\ UNCHANGED <<state, lab6_priority>>

\* do_yield.
Yield ==
  /\ current # Idle /\ vtime[current] < MaxService
  /\ schedule(stride_enqueue(RunQueue, current))
  /\ UNCHANGED <<state, lab6_priority>>

\* The idle process looks for work at every tick, and is not enqueued.
IdleTick ==
  /\ current = Idle
  /\ schedule(RunQueue)
  /\ UNCHANGED <<state, lab6_priority>>

\* do_sleep and do_exit leave the current process out of the queue.
Block ==
  /\ current \in Sleepers /\ vtime[current] < MaxService
  /\ state' = [state EXCEPT ![current] = "SLEEPING"]
  /\ schedule(RunQueue)
  /\ UNCHANGED lab6_priority

Exit ==
  /\ current # Idle
  /\ state' = [state EXCEPT ![current] = "FREE"]
  /\ schedule(RunQueue)
  /\ UNCHANGED lab6_priority

wakeup_proc(p) ==
  /\ state[p] = "SLEEPING"
  /\ state' = [state EXCEPT ![p] = "RUNNABLE"]
  /\ SetQueue(stride_enqueue(RunQueue, p))
  /\ UNCHANGED <<current, lab6_stride, lab6_priority, vtime>>

Next ==
  \/ \E p \in Procs : Fork(p) \/ wakeup_proc(p)
  \/ \E n \in Priorities : SetPriority(n)
  \/ Tick \/ Expire \/ Yield \/ IdleTick \/ Block \/ Exit

Spec == Init /\ [][Next]_vars
-----------------------------------------------------------------------------
(* Properties *)

Queued == {p \in Procs : state[p] = "RUNNABLE" /\ p # current}

Children(p) == {heap[p].left, heap[p].right} \ {Nil}

\* What hangs below the root, level by level.
Below[n \in 0..Cardinality(Procs)] ==
  IF n = 0 THEN {root} \ {Nil}
  ELSE LET up == Below[n - 1] IN up \cup UNION {Children(p) : p \in up}

\* The heap holds the runnable processes that do not run, each once, its
\* parent pointers are the inverse of its child pointers (skew_heap_remove
\* follows them), and rq->proc_num counts it, whatever was forked, slept,
\* exited or had its stride raised by stride_pick_next while still in it.
HeapExact ==
  /\ TypeOK
  /\ Below[Cardinality(Procs)] = Queued
  /\ proc_num = Cardinality(Queued)
  /\ root # Nil => heap[root].parent = Nil
  /\ \A p \in Queued :
       /\ heap[p].left # Nil => heap[p].left # heap[p].right
       /\ \A c \in Children(p) : heap[c].parent = p
       /\ p # root => p \in Children(heap[p].parent)
       /\ time_slice[p] \in 1..MAX_TIME_SLICE

\* stride_pick_next takes "the element ... with the minimum value of stride"
\* (its comment): no runnable process has had less of its share, although the
\* strides it compares have wrapped around.
PicksLeastStep ==
  \A p \in Procs : vtime'[p] > vtime[p] =>
    \A q \in Procs : state'[q] = "RUNNABLE" => vtime[p] <= vtime[q]
=============================================================================
