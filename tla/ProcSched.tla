------------------------------ MODULE ProcSched ------------------------------
(***************************************************************************)
(* Process life cycle and scheduling of the lab8 kernel: do_fork, do_exit, *)
(* do_wait, do_kill, do_sleep, do_yield (kern/process/proc.c), schedule,   *)
(* wakeup_proc and the clock interrupt (kern/schedule/sched.c) over the    *)
(* round-robin class (kern/schedule/default_sched.c), and the way trap()   *)
(* leaves the kernel (kern/trap/trap.c).                                   *)
(*                                                                         *)
(* One CPU, a kernel that is not preempted: kernel code runs from one call *)
(* of schedule() to the next, so one action is the code between two such   *)
(* points.  A system call runs with interrupts off (the trap clears SIE);  *)
(* a kernel thread and the idle loop run with interrupts on, so the clock  *)
(* interrupt may fall between a kernel thread's decision to sleep and its  *)
(* call of schedule().  pc[p] says where p's kernel stack stands.          *)
(*                                                                         *)
(* A process is identified by its proc_struct; PidAlloc shows that a pid   *)
(* names at most one of them.  Sibling order is abstracted (do_wait(0)     *)
(* takes any zombie child), and so is the order in which timers of the     *)
(* same tick fire; TimerList models the timer list itself.                 *)
(***************************************************************************)
EXTENDS Naturals, Sequences, Functions

CONSTANTS
  idleproc,        \* the idle process, pid 0
  initproc,        \* the init process, pid 1
  Slots,           \* the proc_structs do_fork can get from alloc_proc
  AnyChild,        \* do_wait's pid = 0: any child
  Victims,         \* the processes the workload may name in sys_kill
  NKThreads,       \* how many kernel threads init_main starts
  MAX_TIME_SLICE,  \* sched.h
  MaxSleep         \* bound on do_sleep's argument

Procs == Slots \cup {idleproc, initproc}

ASSUME ProcsAssumption ==
  /\ idleproc # initproc
  /\ idleproc \notin Slots
  /\ initproc \notin Slots
  /\ AnyChild \notin Procs
  /\ Victims \subseteq Procs \ {idleproc}

ASSUME BoundsAssumption ==
  /\ NKThreads \in Nat \ {0}
  /\ MAX_TIME_SLICE \in Nat \ {0}
  /\ MaxSleep \in Nat \ {0}

VARIABLES
  state,         \* proc->state; FREE when no proc_struct is allocated
  wait_state,    \* proc->wait_state
  parent,        \* proc->parent
  exiting,       \* proc->flags & PF_EXITING
  need_resched,  \* proc->need_resched
  time_slice,    \* proc->time_slice
  waitpid,       \* do_wait's argument while pc is in do_wait
  timer,         \* ticks left on the timer of do_sleep, 0 when none is linked
  run_list,      \* rq->run_list
  current,       \* the running process
  pc,            \* where each process stands
  irq,           \* the clock interrupt handler: off, or in run_timer_list
  expired,       \* processes whose timer ran out in this interrupt
  kthread,       \* the processes still running kernel-thread code
  spawned,       \* kernel threads started by init_main
  halted         \* why the kernel stopped, or "no"

procVars  == <<state, wait_state, parent, exiting>>
schedVars == <<need_resched, time_slice, run_list, current>>
timerVars == <<timer, irq, expired>>
vars == <<procVars, schedVars, timerVars, waitpid, pc, kthread, spawned, halted>>

States     == {"FREE", "SLEEPING", "RUNNABLE", "ZOMBIE"}
WaitStates == {"0", "WT_CHILD", "WT_TIMER"}

(***************************************************************************)
(* "user": in user mode.  "trap_ret": at the end of trap(), about to test  *)
(* PF_EXITING and need_resched.  "idle": the loop of cpu_idle.  "init":    *)
(* init_main between two calls.  "kbody": the body of another kernel       *)
(* thread.  X_sched: about to call schedule() in X, X_ret: back from it.   *)
(* "dead": switched away from in do_exit.                                  *)
(***************************************************************************)
SchedPoints == {"user_sched", "init_sched", "wait_sched", "sleep_sched", "exit_sched"}
PCs == SchedPoints \cup
  {"user", "trap_ret", "idle", "init", "kbody", "wait", "wait_ret", "sleep_ret", "dead"}

\* Where schedule() returns to, for each place that calls it.
ReturnTo == [user_sched |-> "user", init_sched |-> "init", wait_sched |-> "wait_ret",
             sleep_sched |-> "sleep_ret", exit_sched |-> "dead", idle |-> "idle"]

TypeOK ==
  /\ state \in [Procs -> States]
  /\ wait_state \in [Procs -> WaitStates]
  /\ parent \in [Procs -> Procs]
  /\ exiting \in [Procs -> BOOLEAN]
  /\ need_resched \in [Procs -> BOOLEAN]
  /\ time_slice \in [Procs -> 0..MAX_TIME_SLICE]
  /\ waitpid \in [Procs -> Procs \cup {AnyChild}]
  /\ timer \in [Procs -> 0..MaxSleep]
  /\ run_list \in Seq(Procs)
  /\ current \in Procs
  /\ pc \in [Procs -> PCs]
  /\ irq \in {"off", "on"}
  /\ expired \in SUBSET Procs
  /\ kthread \in SUBSET Procs
  /\ spawned \in 0..NKThreads
  /\ halted \in {"no", "init returned", "initproc exit", "assert"}

Init ==
  /\ state = [p \in Procs |-> IF p \in Slots THEN "FREE" ELSE "RUNNABLE"]
  /\ wait_state = [p \in Procs |-> "0"]
  /\ parent = [p \in Procs |-> idleproc]
  /\ exiting = [p \in Procs |-> FALSE]
  /\ need_resched = [p \in Procs |-> p = idleproc]
  /\ time_slice = [p \in Procs |-> IF p = initproc THEN MAX_TIME_SLICE ELSE 0]
  /\ waitpid = [p \in Procs |-> AnyChild]
  /\ timer = [p \in Procs |-> 0]
  /\ run_list = <<initproc>>
  /\ current = idleproc
  /\ pc = [p \in Procs |-> IF p \in Slots THEN "dead" ELSE IF p = initproc THEN "init" ELSE "idle"]
  /\ irq = "off"
  /\ expired = {}
  /\ kthread = {idleproc, initproc}
  /\ spawned = 0
  /\ halted = "no"
-----------------------------------------------------------------------------
(* The run queue, and wakeup_proc *)

Queued(p) == p \in Range(run_list)

\* RR_enqueue gives a process with no slice left a full one.
Refilled(n) == IF n = 0 THEN MAX_TIME_SLICE ELSE n

\* wakeup_proc(p): only a process that was not runnable, and is not the one
\* running, goes to the tail of the run queue.
Enters(p) == state[p] # "RUNNABLE" /\ p # current /\ p # idleproc
WakeQueue_skip(q, p) == q
WakeQueue(q, p) == IF Enters(p) THEN Append(q, p) ELSE q

\* The assertions of wakeup_proc (not a zombie) and RR_enqueue (not linked).
WakeFault(p) == state[p] = "ZOMBIE" \/ (Enters(p) /\ Queued(p))
AssertFails(b) == halted' = IF b THEN "assert" ELSE halted

\* Wakes p and only p.
wakeup_proc(p) ==
  /\ AssertFails(WakeFault(p))
  /\ state' = [state EXCEPT ![p] = "RUNNABLE"]
  /\ wait_state' = [wait_state EXCEPT ![p] = IF state[p] # "RUNNABLE" THEN "0" ELSE @]
  /\ run_list' = WakeQueue(run_list, p)
  /\ time_slice' = [time_slice EXCEPT ![p] = IF Enters(p) THEN Refilled(@) ELSE @]

\* Moves current on in its own code.
Goto(l) == pc' = [pc EXCEPT ![current] = l]

\* The end of a call made by current: a system call returns through trap(),
\* a kernel thread's call to its body.
Done == IF current \in kthread THEN "kbody" ELSE "trap_ret"
-----------------------------------------------------------------------------
(* schedule(): the caller goes to the tail if it can still run, the head   *)
(* of the queue runs next, the idle process if there is none.              *)
Requeues == state[current] = "RUNNABLE" /\ current # idleproc

schedule ==
  LET q == IF Requeues THEN Append(run_list, current) ELSE run_list
  IN  /\ \/ pc[current] \in SchedPoints
         \/ pc[current] = "idle" /\ need_resched[current]
      /\ AssertFails(Requeues /\ Queued(current))
      /\ need_resched' = [need_resched EXCEPT ![current] = FALSE]
      /\ time_slice' = [time_slice EXCEPT ![current] = IF Requeues THEN Refilled(@) ELSE @]
      /\ Goto(ReturnTo[pc[current]])
      /\ IF q = <<>>
         THEN current' = idleproc /\ run_list' = <<>>
         ELSE current' = Head(q) /\ run_list' = Tail(q)
      /\ UNCHANGED <<procVars, timerVars, waitpid, kthread, spawned>>

\* The end of trap() on the way back to user mode.  A process that is
\* switched away from here goes to user mode when it runs again, without
\* looking at PF_EXITING.
trap_resume ==
  /\ pc[current] = "trap_ret"
  /\ ~exiting[current]
  /\ Goto(IF need_resched[current] THEN "user_sched" ELSE "user")
  /\ UNCHANGED <<procVars, schedVars, timerVars, waitpid, kthread, spawned, halted>>
-----------------------------------------------------------------------------
(* The clock interrupt: run_timer_list, then the tick of the class.        *)
IntrOn == irq = "off" /\ (pc[current] = "user" \/ current \in kthread)

\* A tick off every timer.
Ticked_last(n) == IF n = 1 THEN 0 ELSE n
Ticked(n) == IF n = 0 THEN 0 ELSE n - 1

timer_irq_one ==
  /\ IntrOn
  /\ irq' = "on"
  /\ \E p \in Procs :
       /\ (\E q \in Procs : timer[q] = 1) => timer[p] = 1
       /\ expired' = {q \in {p} : timer[q] = 1}
  /\ timer' = [p \in Procs |-> Ticked(timer[p])]
  /\ UNCHANGED <<procVars, schedVars, waitpid, pc, kthread, spawned, halted>>

timer_irq ==
  /\ IntrOn
  /\ irq' = "on"
  /\ expired' = {p \in Procs : timer[p] = 1}
  /\ timer' = [p \in Procs |-> Ticked(timer[p])]
  /\ UNCHANGED <<procVars, schedVars, waitpid, pc, kthread, spawned, halted>>

expire_timer(p) ==
  /\ irq = "on"
  /\ p \in expired
  /\ wakeup_proc(p)
  /\ expired' = expired \ {p}
  /\ UNCHANGED <<parent, exiting, need_resched, current, timer, irq, waitpid, pc, kthread, spawned>>

\* What is left of a slice after the tick.
SliceLeft_stuck(n) == n
SliceLeft(n) == IF n > 0 THEN n - 1 ELSE 0

RR_proc_tick ==
  LET left == SliceLeft(time_slice[current])
  IN  /\ irq = "on"
      /\ expired = {}
      /\ irq' = "off"
      /\ time_slice' = IF current = idleproc THEN time_slice
                       ELSE [time_slice EXCEPT ![current] = left]
      /\ need_resched' = IF current = idleproc \/ left = 0
                         THEN [need_resched EXCEPT ![current] = TRUE] ELSE need_resched
      /\ Goto(IF pc[current] = "user" THEN "trap_ret" ELSE pc[current])
      /\ UNCHANGED <<procVars, run_list, current, timer, expired, waitpid, kthread, spawned, halted>>
-----------------------------------------------------------------------------
(* do_fork, do_exit, do_wait, do_kill, do_sleep, do_yield *)

Children(p) == {q \in Slots : state[q] # "FREE" /\ parent[q] = p}

\* The children that do_wait(pid) looks at: one of them, or all of them.
Waited_any_parent(p) == {q \in Slots : state[q] # "FREE" /\ (waitpid[p] = q \/ (waitpid[p] = AnyChild /\ parent[q] = p))}
Waited(p) == {q \in Children(p) : waitpid[p] \in {AnyChild, q}}

\* A free proc_struct q becomes a child of current and enters the run queue.
\* Its first switch goes through forkret straight to l: no PF_EXITING test.
do_fork(q, l) ==
  /\ state[q] = "FREE"
  /\ AssertFails(wait_state[current] # "0" \/ Queued(q))
  /\ state' = [state EXCEPT ![q] = "RUNNABLE"]
  /\ wait_state' = [wait_state EXCEPT ![q] = "0"]
  /\ parent' = [parent EXCEPT ![q] = current]
  /\ exiting' = [exiting EXCEPT ![q] = FALSE]
  /\ need_resched' = [need_resched EXCEPT ![q] = FALSE]
  /\ time_slice' = [time_slice EXCEPT ![q] = MAX_TIME_SLICE]
  /\ run_list' = Append(run_list, q)
  /\ pc' = [pc EXCEPT ![q] = l, ![current] = IF current = initproc THEN "init" ELSE Done]
  /\ UNCHANGED <<current, timerVars, waitpid>>

\* do_exit wakes the parent if it waits for a child, then, handing its
\* children to init, wakes init if one of them is a zombie and init has not
\* just been woken as the parent.
WakesParent == wait_state[parent[current]] = "WT_CHILD"
WakesInit_never == FALSE
WakesInit ==
  /\ \E q \in Children(current) : state[q] = "ZOMBIE"
  /\ wait_state[initproc] = "WT_CHILD"
  /\ parent[current] # initproc
Heir_grand(q) == IF q \in Children(current) THEN parent[current] ELSE parent[q]
Heir(q) == IF q \in Children(current) THEN initproc ELSE parent[q]

do_exit ==
  LET par   == parent[current]
      woken == {p \in Procs : (p = par /\ WakesParent) \/ (p = initproc /\ WakesInit)}
      q1    == IF WakesParent THEN WakeQueue(run_list, par) ELSE run_list
  IN  /\ current \notin {idleproc, initproc}
      /\ AssertFails(\E p \in woken : WakeFault(p))
      /\ state' = [p \in Procs |-> IF p = current THEN "ZOMBIE"
                                   ELSE IF p \in woken THEN "RUNNABLE" ELSE state[p]]
      /\ wait_state' = [p \in Procs |-> IF p \in woken THEN "0" ELSE wait_state[p]]
      /\ parent' = [p \in Procs |-> Heir(p)]
      /\ run_list' = IF WakesInit THEN WakeQueue(q1, initproc) ELSE q1
      /\ time_slice' = [p \in Procs |-> IF p \in woken /\ Enters(p) THEN Refilled(time_slice[p])
                                                                   ELSE time_slice[p]]
      /\ Goto("exit_sched")
      /\ UNCHANGED <<exiting, need_resched, current, timerVars, waitpid, kthread, spawned>>

\* do_exit by the init process is a kernel panic.
init_exit ==
  /\ halted' = "initproc exit"
  /\ UNCHANGED <<procVars, schedVars, timerVars, waitpid, pc, kthread, spawned>>

Exit == IF current = initproc THEN init_exit ELSE do_exit

\* do_wait, found: the zombie child q is unlinked and its proc_struct freed,
\* so that nothing of its fields is left.
wait_reap(q) ==
  /\ pc[current] = "wait"
  /\ q \in Waited(current)
  /\ state[q] = "ZOMBIE"
  /\ state' = [state EXCEPT ![q] = "FREE"]
  /\ parent' = [parent EXCEPT ![q] = idleproc]
  /\ exiting' = [exiting EXCEPT ![q] = FALSE]
  /\ need_resched' = [need_resched EXCEPT ![q] = FALSE]
  /\ time_slice' = [time_slice EXCEPT ![q] = 0]
  /\ kthread' = kthread \ {q}
  /\ waitpid' = [waitpid EXCEPT ![q] = AnyChild, ![current] = AnyChild]
  /\ Goto(IF current = initproc THEN "init_sched" ELSE Done)
  /\ UNCHANGED <<wait_state, run_list, current, timerVars, spawned, halted>>

\* do_wait, no such zombie but a child to wait for.
wait_sleep ==
  /\ pc[current] = "wait"
  /\ Waited(current) # {}
  /\ \A q \in Waited(current) : state[q] # "ZOMBIE"
  /\ state' = [state EXCEPT ![current] = "SLEEPING"]
  /\ wait_state' = [wait_state EXCEPT ![current] = "WT_CHILD"]
  /\ Goto("wait_sched")
  /\ UNCHANGED <<parent, exiting, schedVars, timerVars, waitpid, kthread, spawned, halted>>

\* do_wait, no child: -E_BAD_PROC.  init_main then checks that it is alone
\* with the idle process and returns.
wait_nochild ==
  /\ pc[current] = "wait"
  /\ Waited(current) = {}
  /\ waitpid' = [waitpid EXCEPT ![current] = AnyChild]
  /\ IF current = initproc
     THEN /\ halted' = IF \A q \in Slots : state[q] = "FREE" THEN "init returned" ELSE "assert"
          /\ UNCHANGED pc
     ELSE Goto(Done) /\ UNCHANGED halted
  /\ UNCHANGED <<procVars, schedVars, timerVars, kthread, spawned>>

\* do_wait after schedule(): back to repeat, unless killed.
wait_repeat ==
  /\ pc[current] = "wait_ret"
  /\ ~exiting[current]
  /\ Goto("wait")
  /\ UNCHANGED <<procVars, schedVars, timerVars, waitpid, kthread, spawned, halted>>

\* The two places where a killed process notices.
exit_killed ==
  /\ pc[current] \in {"wait_ret", "trap_ret"}
  /\ exiting[current]
  /\ Exit

do_sleep(t) ==
  /\ AssertFails(timer[current] # 0)
  /\ state' = [state EXCEPT ![current] = "SLEEPING"]
  /\ wait_state' = [wait_state EXCEPT ![current] = "WT_TIMER"]
  /\ timer' = [timer EXCEPT ![current] = t]
  /\ Goto("sleep_sched")
  /\ UNCHANGED <<parent, exiting, schedVars, irq, expired, waitpid, kthread, spawned>>

\* do_sleep after schedule(): del_timer.
sleep_done_leak ==
  /\ pc[current] = "sleep_ret"
  /\ Goto(Done)
  /\ UNCHANGED <<procVars, schedVars, timerVars, waitpid, kthread, spawned, halted>>

sleep_done ==
  /\ pc[current] = "sleep_ret"
  /\ timer' = [timer EXCEPT ![current] = 0]
  /\ Goto(Done)
  /\ UNCHANGED <<procVars, schedVars, irq, expired, waitpid, kthread, spawned, halted>>

\* do_kill: only an interruptible sleeper is woken.  Killing twice is an error.
Interruptible_any(p) == TRUE
Interruptible(p) == wait_state[p] \in {"WT_CHILD", "WT_TIMER"}

do_kill(p) ==
  /\ state[p] # "FREE"
  /\ ~exiting[p]
  /\ exiting' = [exiting EXCEPT ![p] = TRUE]
  /\ IF Interruptible(p)
     THEN wakeup_proc(p)
     ELSE UNCHANGED <<state, wait_state, run_list, time_slice, halted>>
  /\ Goto("trap_ret")
  /\ UNCHANGED <<parent, need_resched, current, timerVars, waitpid, kthread, spawned>>

do_yield ==
  /\ need_resched' = [need_resched EXCEPT ![current] = TRUE]
  /\ Goto("trap_ret")
  /\ UNCHANGED <<procVars, time_slice, run_list, current, timerVars, waitpid, kthread, spawned, halted>>
-----------------------------------------------------------------------------
(* What each kind of process may call *)

InUser == irq = "off" /\ pc[current] = "user"
InBody == irq = "off" /\ pc[current] = "kbody"

sys_fork    == InUser /\ (\E q \in Slots : do_fork(q, "user")) /\ UNCHANGED <<kthread, spawned>>
sys_exit    == InUser /\ Exit
sys_wait    == /\ InUser
               /\ \E t \in Slots \cup {AnyChild} : waitpid' = [waitpid EXCEPT ![current] = t]
               /\ Goto("wait")
               /\ UNCHANGED <<procVars, schedVars, timerVars, kthread, spawned, halted>>
sys_kill    == InUser /\ \E p \in Victims : do_kill(p)
sys_sleep   == InUser /\ \E t \in 1..MaxSleep : do_sleep(t)
sys_yield   == InUser /\ do_yield

\* Every other system call, and every call that fails: it changes nothing
\* here, but it passes through the end of trap().
sys_other   == /\ InUser
               /\ Goto("trap_ret")
               /\ UNCHANGED <<procVars, schedVars, timerVars, waitpid, kthread, spawned, halted>>

\* init_main starts its kernel threads, then waits for children for ever.
init_spawn  == /\ irq = "off"
               /\ pc[current] = "init"
               /\ spawned < NKThreads
               /\ spawned' = spawned + 1
               /\ \E q \in Slots : do_fork(q, "kbody") /\ kthread' = kthread \cup {q}
init_wait   == /\ irq = "off"
               /\ pc[current] = "init"
               /\ spawned = NKThreads
               /\ waitpid' = [waitpid EXCEPT ![current] = AnyChild]
               /\ Goto("wait")
               /\ UNCHANGED <<procVars, schedVars, timerVars, kthread, spawned, halted>>

\* A kernel thread sleeps, returns to kernel_thread_entry (which calls
\* do_exit), or becomes a user process through kernel_execve.
kthread_sleep == InBody /\ \E t \in 1..MaxSleep : do_sleep(t)
kthread_exit  == InBody /\ do_exit
kernel_execve == /\ InBody
                 /\ kthread' = kthread \ {current}
                 /\ Goto("user")
                 /\ UNCHANGED <<procVars, schedVars, timerVars, waitpid, spawned, halted>>

\* The code of the kernel itself, which the machine keeps executing.
KernelStep ==
  /\ irq = "off"
  /\ \/ schedule \/ trap_resume \/ exit_killed
     \/ (\E q \in Slots : wait_reap(q)) \/ wait_sleep \/ wait_nochild \/ wait_repeat
     \/ sleep_done
     \/ init_spawn \/ init_wait
     \/ kthread_sleep \/ kthread_exit \/ kernel_execve

InterruptStep == timer_irq \/ (\E p \in Procs : expire_timer(p)) \/ RR_proc_tick

\* User code, free to do what it likes.
UserStep == sys_fork \/ sys_exit \/ sys_wait \/ sys_kill \/ sys_sleep \/ sys_yield \/ sys_other

\* After a panic the kernel only loops in its monitor.
Stopped == halted # "no" /\ UNCHANGED vars

Next == (halted = "no" /\ (KernelStep \/ InterruptStep \/ UserStep)) \/ Stopped

Spec == Init /\ [][Next]_vars

(***************************************************************************)
(* The machine keeps executing kernel code between interrupts, an          *)
(* interrupt that is pending while SIE is 0 is taken once it is 1 again,   *)
(* and a handler runs to its end.  User code owes nothing.                 *)
(***************************************************************************)
FairSpec ==
  /\ Spec
  /\ SF_vars(halted = "no" /\ KernelStep)
  /\ SF_vars(halted = "no" /\ timer_irq)
  /\ WF_vars(halted = "no" /\ irq = "on" /\ InterruptStep)
-----------------------------------------------------------------------------
(* Properties *)

\* None of the assertions on the way fails: wakeup_proc never meets a zombie,
\* RR_enqueue never a process that is already linked, do_fork never a parent
\* that is waiting, add_timer never a timer that is linked, and init_main
\* returns only when idle and init are the only processes left.
NoAssertFails == halted # "assert"

\* The run queue holds, once each, exactly the processes that are runnable
\* and are neither running nor idle: wakeup_proc, schedule and the clock
\* interrupt between them never lose a runnable process or queue one twice.
RunQueueExact ==
  /\ \A p \in Procs : Queued(p) <=> state[p] = "RUNNABLE" /\ p \notin {current, idleproc}
  /\ IsInjective(run_list)

\* A process asleep in do_wait has a child that it waits for and that is still
\* to exit; a process asleep in do_sleep has a timer that is still to fire.
NoLostWakeup ==
  \A p \in Procs : state[p] = "SLEEPING" =>
    \/ /\ wait_state[p] = "WT_CHILD"
       /\ Waited(p) # {}
       /\ \A q \in Waited(p) : state[q] # "ZOMBIE"
    \/ wait_state[p] = "WT_TIMER" /\ (timer[p] # 0 \/ p \in expired)

\* Every process do_fork made has a parent that can still reap it: a live
\* process that has not exited.
FamilyOK ==
  \A p \in Slots : state[p] # "FREE" =>
    parent[p] # idleproc /\ state[parent[p]] \notin {"FREE", "ZOMBIE"}

\* do_sleep's timer lies on the sleeper's kernel stack: it is never linked
\* once the sleeper has left do_sleep, exited or been reaped.
TimerInFrame ==
  \A p \in Procs : timer[p] # 0 \/ p \in expired =>
    pc[p] \in {"sleep_sched", "sleep_ret"} /\ state[p] \in {"SLEEPING", "RUNNABLE"}

\* A process that has exited is never switched to again: the call of
\* schedule() in do_exit does not return.
DeadNeverRuns ==
  /\ pc[current] # "dead"
  /\ state[current] \in {"ZOMBIE", "FREE"} => pc[current] = "exit_sched"

\* The state diagram in the header of proc.c, with who may take each arrow:
\* a process is put to sleep and ended by itself alone, and freed only by its
\* parent once it has left its kernel stack for good.
LifeCycleStep ==
  \A p \in Procs : state'[p] # state[p] =>
    \/ state[p] = "FREE" /\ state'[p] = "RUNNABLE" /\ parent'[p] = current
    \/ state[p] = "RUNNABLE" /\ state'[p] \in {"SLEEPING", "ZOMBIE"} /\ p = current
    \/ state[p] = "SLEEPING" /\ state'[p] = "RUNNABLE"
    \/ state[p] = "ZOMBIE" /\ state'[p] = "FREE" /\ parent[p] = current /\ pc[p] = "dead"
LifeCycle == [][LifeCycleStep]_vars

\* The sleepers of do_sleep are woken by the clock interrupt as Timers says,
\* kills and exits of other processes notwithstanding.  TimerList shows that
\* the kernel's timer list keeps the same promise.
TL == INSTANCE Timers WITH left <- timer, due <- expired
SleepersTimed == TL!Spec

\* Scheduling, waking and killing never disturb who belongs to whom: the
\* process calls implement Family, as the pointers of ProcTree do.
lifeBar   == [q \in Slots |-> IF state[q] = "FREE" THEN "none"
                              ELSE IF state[q] = "ZOMBIE" THEN "zombie" ELSE "live"]
parentBar == [q \in Slots |-> IF state[q] = "FREE" THEN initproc ELSE parent[q]]
FT == INSTANCE Family WITH life <- lifeBar, parent <- parentBar
FamilyKept == FT!Spec

\* Round robin starves nobody: a runnable process gets the CPU, whatever the
\* user code of the others does.
NoStarvation ==
  \A p \in Procs \ {idleproc} : state[p] = "RUNNABLE" ~> (current = p \/ halted # "no")

\* A sleeper comes back from do_sleep.
SleepEnds ==
  \A p \in Procs : pc[p] = "sleep_sched" ~> (pc[p] # "sleep_sched" /\ pc[p] # "sleep_ret") \/ halted # "no"

\* Once forking stops, a zombie whose parent is init, an orphan too, is reaped.
\* (While processes keep forking and exiting, do_wait(0) may meet a newer
\* zombie first every time.)
Forks == \E q \in Slots : state[q] = "FREE" /\ state'[q] # "FREE"
OrphansReaped ==
  <>[][~Forks]_vars =>
    \A p \in Slots : (state[p] = "ZOMBIE" /\ parent[p] = initproc) ~> (state[p] = "FREE" \/ halted # "no")

\* "SYS_kill: kill process --> do_kill --> proc->flags |= PF_EXITING -->
\* wakeup_proc --> do_wait --> do_exit" (header of proc.c): a killed process
\* gets to do_exit.
KilledDies ==
  \A p \in Slots : exiting[p] ~> (state[p] \in {"ZOMBIE", "FREE"} \/ halted # "no")
-----------------------------------------------------------------------------
(* The inductive invariant *)

\* Which stacks may stand where: only the running process is between two
\* points of its kernel code, and a kernel thread is never in user mode.
StackShape ==
  /\ pc[idleproc] = "idle"
  /\ pc[initproc] \in {"init", "init_sched", "wait", "wait_sched", "wait_ret"}
  /\ waitpid[initproc] = AnyChild
  /\ pc[current] # "dead"
  /\ \A p \in Slots : pc[p] \notin {"idle", "init", "init_sched"}
  /\ \A p \in Procs : p # current => pc[p] \notin SchedPoints
  /\ \A p \in kthread : pc[p] \notin {"user", "trap_ret", "user_sched"}

\* What proc->state and proc->wait_state say is what the stack shows.
StateShape ==
  \A p \in Procs :
    /\ state[p] = "FREE" => pc[p] = "dead" /\ p \in Slots \ kthread
    /\ pc[p] \in {"exit_sched", "dead"} => state[p] \in {"ZOMBIE", "FREE"}
    /\ state[p] = "ZOMBIE" => pc[p] \in {"exit_sched", "dead"}
    /\ state[p] = "SLEEPING" <=> wait_state[p] # "0"
    /\ wait_state[p] = "WT_CHILD" => pc[p] \in {"wait_sched", "wait_ret"}
    /\ wait_state[p] = "WT_TIMER" => pc[p] \in {"sleep_sched", "sleep_ret"}
    /\ p = current /\ state[p] = "SLEEPING" => pc[p] \in SchedPoints

\* The clock interrupt is only taken where it is open.
IrqShape ==
  /\ irq = "off" => expired = {}
  /\ irq = "on" => pc[current] = "user" \/ current \in kthread
  /\ {idleproc, initproc} \subseteq kthread

\* No process is its own ancestor: ranks grow from parent to child.
Ranked ==
  \E f \in [Procs -> Nat] : \A p \in Slots :
    state[p] # "FREE" => f[parent[p]] < f[p] /\ f[initproc] < f[p]

IInv ==
  /\ TypeOK /\ StackShape /\ StateShape /\ IrqShape
  /\ RunQueueExact /\ TimerInFrame /\ NoLostWakeup
  /\ FamilyOK /\ Ranked /\ NoAssertFails
=============================================================================
