--------------------------- MODULE ProcSchedProofs ---------------------------
(***************************************************************************)
(* IInv is an inductive invariant of ProcSched, for any number of          *)
(* processes, of kernel threads, any time slice and any sleep.             *)
(***************************************************************************)
EXTENDS ProcSched, QueueLemmas, WellFoundedInduction

\* RR_enqueue leaves a slice that is not zero and not above the maximum.
LEMMA RefilledFacts == \A n \in 0..MAX_TIME_SLICE : Refilled(n) \in 0..MAX_TIME_SLICE /\ Refilled(n) # 0
BY BoundsAssumption DEF Refilled
-----------------------------------------------------------------------------
(* The steps *)

LEMMA InitStep == Init => IInv
<1> SUFFICES ASSUME Init PROVE IInv
  OBVIOUS
<1> USE ProcsAssumption, BoundsAssumption DEF Init, Procs
<1>1. TypeOK
  BY SMT DEF TypeOK, States, WaitStates, PCs, SchedPoints
<1>2. StackShape /\ StateShape /\ IrqShape /\ TimerInFrame /\ NoLostWakeup /\ FamilyOK /\ NoAssertFails
  BY SMT DEF StackShape, StateShape, IrqShape, TimerInFrame, NoLostWakeup, FamilyOK, NoAssertFails, SchedPoints
<1>3. RunQueueExact
  BY SMT DEF RunQueueExact, Queued, Range, IsInjective
<1>4. Ranked
  <2>1. [p \in Procs |-> 0] \in [Procs -> Nat]
    OBVIOUS
  <2> QED BY <2>1 DEF Ranked
<1> QED BY <1>1, <1>2, <1>3, <1>4 DEF IInv

\* Steps that only move current in its own code, from one place where it is
\* runnable to another, and what they may change besides.
LEMMA MoveStep ==
  ASSUME IInv, NEW l \in PCs,
         Goto(l), l \notin {"dead", "exit_sched", "idle"},
         state[current] = "RUNNABLE",
         pc[current] \notin {"sleep_ret", "sleep_sched", "idle"},
         current = initproc => l \in {"init", "init_sched", "wait", "wait_sched", "wait_ret"},
         current # initproc => l \notin {"init", "init_sched"},
         current \in kthread' => l \notin {"user", "trap_ret", "user_sched"},
         kthread' \in SUBSET kthread, {idleproc, initproc} \subseteq kthread',
         irq' = irq, irq = "on" => l = "user" \/ current \in kthread',
         UNCHANGED <<procVars, time_slice, run_list, current, timer, expired, halted>>,
         waitpid' \in [Procs -> Procs \cup {AnyChild}],
         need_resched' \in [Procs -> BOOLEAN],
         spawned' \in 0..NKThreads,
         \A p \in Procs : p # current => waitpid'[p] = waitpid[p],
         current = initproc => waitpid'[current] = AnyChild
  PROVE  IInv'
<1> USE DEF IInv, Goto, procVars
<1>1. TypeOK'
  BY DEF TypeOK
<1>2. StackShape'
  BY ProcsAssumption DEF StackShape, TypeOK, Procs, IrqShape
<1>3. StateShape'
  BY DEF StateShape, TypeOK
<1>4. IrqShape'
  BY DEF IrqShape, TypeOK
<1>5. RunQueueExact'
  BY DEF RunQueueExact, Queued
<1>6. TimerInFrame'
  BY DEF TimerInFrame, TypeOK
<1>7. NoLostWakeup'
  BY DEF NoLostWakeup, TypeOK, Waited, Children
<1>8. FamilyOK' /\ Ranked' /\ NoAssertFails'
  BY DEF FamilyOK, Ranked, NoAssertFails
<1> QED BY <1>1, <1>2, <1>3, <1>4, <1>5, <1>6, <1>7, <1>8

\* A process that runs and is not about to call schedule() is runnable.
LEMMA RunningFacts ==
  ASSUME IInv, pc[current] \notin SchedPoints
  PROVE  state[current] = "RUNNABLE" /\ wait_state[current] = "0" /\ current \in Procs
BY DEF IInv, TypeOK, StackShape, StateShape, SchedPoints, States

LEMMA TrapResumeStep == IInv /\ trap_resume => IInv'
<1> SUFFICES ASSUME IInv, trap_resume PROVE IInv'
  OBVIOUS
<1>1. state[current] = "RUNNABLE" /\ current \in Procs
  BY RunningFacts DEF trap_resume, SchedPoints
<1>2. current # initproc /\ current \notin kthread
  BY <1>1 DEF trap_resume, IInv, StackShape, IrqShape
<1> DEFINE l == IF need_resched[current] THEN "user_sched" ELSE "user"
<1>3. l \in PCs /\ l \in {"user_sched", "user"} /\ Goto(l)
  BY DEF trap_resume, PCs, SchedPoints
<1> HIDE DEF l
<1>4. irq = "off"
  BY <1>1, <1>2 DEF trap_resume, IInv, IrqShape, TypeOK
<1> QED
  BY <1>1, <1>2, <1>3, <1>4, MoveStep
     DEF trap_resume, IInv, IrqShape, TypeOK, schedVars, timerVars, procVars

LEMMA WaitRepeatStep == IInv /\ irq = "off" /\ wait_repeat => IInv'
<1> SUFFICES ASSUME IInv, irq = "off", wait_repeat PROVE IInv'
  OBVIOUS
<1>1. state[current] = "RUNNABLE" /\ current \in Procs
  BY RunningFacts DEF wait_repeat, SchedPoints
<1>2. "wait" \in PCs /\ Goto("wait")
  BY DEF wait_repeat, PCs, SchedPoints
<1> QED
  BY <1>1, <1>2, MoveStep
     DEF wait_repeat, IInv, StackShape, IrqShape, TypeOK, schedVars, timerVars, procVars

LEMMA InitWaitStep == IInv /\ init_wait => IInv'
<1> SUFFICES ASSUME IInv, init_wait PROVE IInv'
  OBVIOUS
<1>1. state[current] = "RUNNABLE" /\ current \in Procs
  BY RunningFacts DEF init_wait, SchedPoints
<1>2. "wait" \in PCs /\ Goto("wait")
  BY DEF init_wait, PCs, SchedPoints
<1>3. /\ waitpid' \in [Procs -> Procs \cup {AnyChild}]
      /\ \A p \in Procs : p # current => waitpid'[p] = waitpid[p]
      /\ waitpid'[current] = AnyChild
  BY <1>1 DEF init_wait, IInv, TypeOK
<1> QED
  BY <1>1, <1>2, <1>3, MoveStep
     DEF init_wait, IInv, IrqShape, TypeOK, schedVars, timerVars, procVars

LEMMA SysWaitStep == IInv /\ sys_wait => IInv'
<1> SUFFICES ASSUME IInv, sys_wait PROVE IInv'
  OBVIOUS
<1>1. state[current] = "RUNNABLE" /\ current \in Procs
  BY RunningFacts DEF sys_wait, InUser, SchedPoints
<1>2. "wait" \in PCs /\ Goto("wait")
  BY DEF sys_wait, PCs, SchedPoints
<1>3. /\ waitpid' \in [Procs -> Procs \cup {AnyChild}]
      /\ \A p \in Procs : p # current => waitpid'[p] = waitpid[p]
  BY DEF sys_wait, IInv, TypeOK, Procs
<1> QED
  BY <1>1, <1>2, <1>3, MoveStep
     DEF sys_wait, InUser, IInv, StackShape, IrqShape, TypeOK, schedVars, timerVars, procVars

LEMMA SysOtherStep == IInv /\ (sys_other \/ sys_yield) => IInv'
<1> SUFFICES ASSUME IInv, sys_other \/ sys_yield PROVE IInv'
  OBVIOUS
<1>0. pc[current] = "user" /\ irq = "off" /\ Goto("trap_ret")
  BY DEF sys_other, sys_yield, do_yield, InUser
<1>1. state[current] = "RUNNABLE" /\ current \in Procs
  BY <1>0, RunningFacts DEF SchedPoints
<1>2. current # initproc /\ current \notin kthread /\ "trap_ret" \in PCs
  BY <1>0, <1>1 DEF IInv, StackShape, IrqShape, PCs
<1>3. need_resched' \in [Procs -> BOOLEAN]
  BY DEF sys_other, sys_yield, do_yield, IInv, TypeOK, schedVars
<1>4. UNCHANGED <<procVars, time_slice, run_list, current, timerVars, waitpid, kthread, spawned, halted>>
  BY DEF sys_other, sys_yield, do_yield, schedVars
<1> QED
  BY <1>0, <1>1, <1>2, <1>3, <1>4, MoveStep
     DEF IInv, IrqShape, TypeOK, timerVars, procVars

LEMMA KernelExecveStep == IInv /\ kernel_execve => IInv'
<1> SUFFICES ASSUME IInv, kernel_execve PROVE IInv'
  OBVIOUS
<1>1. state[current] = "RUNNABLE" /\ current \in Procs
  BY RunningFacts DEF kernel_execve, InBody, SchedPoints
<1>2. current \notin {initproc, idleproc} /\ "user" \in PCs
  BY <1>1 DEF kernel_execve, InBody, IInv, StackShape, IrqShape, PCs
<1> QED
  BY <1>1, <1>2, MoveStep
     DEF kernel_execve, InBody, IInv, IrqShape, TypeOK, schedVars, timerVars, procVars

\* schedule(): the queue and current exchange places.
LEMMA ScheduleStep == IInv /\ irq = "off" /\ schedule => IInv'
<1> SUFFICES ASSUME IInv, irq = "off", schedule PROVE IInv'
  OBVIOUS
<1> USE DEF IInv
<1> DEFINE q == IF Requeues THEN Append(run_list, current) ELSE run_list
           l == ReturnTo[pc[current]]
<1>1. /\ current \in Procs /\ run_list \in Seq(Procs) /\ IsInjective(run_list)
      /\ idleproc \in Procs
  BY DEF TypeOK, RunQueueExact, Procs
<1>2. ~Queued(current)
  BY <1>1 DEF RunQueueExact
<1>3. /\ q \in Seq(Procs) /\ IsInjective(q)
      /\ \A p \in Procs : p \in Range(q) <=> state[p] = "RUNNABLE" /\ p # idleproc
  <2>1. CASE Requeues
    BY <1>1, <1>2, <2>1, AppendFacts DEF RunQueueExact, Queued, Requeues
  <2>2. CASE ~Requeues
    BY <1>1, <1>2, <2>2 DEF RunQueueExact, Queued, Requeues
  <2> QED BY <2>1, <2>2
<1>4. /\ current' \in Procs /\ run_list' \in Seq(Procs)
      /\ state[current'] = "RUNNABLE"
      /\ RunQueueExact'
  <2> HIDE DEF q
  <2>0. UNCHANGED state /\ state[idleproc] = "RUNNABLE"
    BY ProcsAssumption, <1>1
       DEF schedule, procVars, StateShape, StackShape, TypeOK, States, WaitStates
  <2>1. CASE q = <<>>
    <3>1. current' = idleproc /\ run_list' = <<>>
      BY <2>1 DEF schedule, q
    <3>2. Range(q) = {}
      BY <2>1 DEF Range
    <3>3. IsInjective(run_list')
      BY <3>1 DEF IsInjective
    <3>4. Range(run_list') = {}
      BY <3>1 DEF Range
    <3> QED BY <1>1, <1>3, <2>0, <3>1, <3>2, <3>3, <3>4 DEF RunQueueExact, Queued
  <2>2. CASE q # <<>>
    <3>1. current' = Head(q) /\ run_list' = Tail(q)
      BY <2>2 DEF schedule, q
    <3>2. /\ Head(q) \in Procs /\ Head(q) \in Range(q) /\ Tail(q) \in Seq(Procs)
          /\ IsInjective(Tail(q)) /\ Range(Tail(q)) = Range(q) \ {Head(q)}
      BY <1>3, <2>2, TailFacts
    <3> QED BY <1>3, <2>0, <3>1, <3>2 DEF RunQueueExact, Queued
  <2> QED BY <2>1, <2>2
<1>5. /\ l \in PCs /\ l \notin SchedPoints
      /\ pc[current] = "user_sched" => l = "user"
      /\ pc[current] = "init_sched" => l = "init"
      /\ pc[current] = "wait_sched" => l = "wait_ret"
      /\ pc[current] = "sleep_sched" => l = "sleep_ret"
      /\ pc[current] = "exit_sched" => l = "dead"
      /\ pc[current] = "idle" => l = "idle"
      /\ pc[current] \in {"user_sched", "init_sched", "wait_sched", "sleep_sched", "exit_sched", "idle"}
  BY DEF schedule, SchedPoints, ReturnTo, PCs
<1>6. pc' = [pc EXCEPT ![current] = l]
  BY DEF schedule, Goto
<1> HIDE DEF l, q
<1>7. UNCHANGED <<procVars, timerVars, waitpid, kthread, spawned, halted>>
  BY <1>2 DEF schedule, AssertFails
<1>8. TypeOK'
  <2>1. time_slice' \in [Procs -> 0..MAX_TIME_SLICE]
    <3>1. time_slice' = [time_slice EXCEPT ![current] = IF Requeues THEN Refilled(@) ELSE @]
      BY DEF schedule
    <3>2. time_slice[current] \in 0..MAX_TIME_SLICE
      BY <1>1 DEF TypeOK
    <3>3. Refilled(time_slice[current]) \in 0..MAX_TIME_SLICE
      BY <3>2, RefilledFacts
    <3> QED BY <3>1, <3>2, <3>3 DEF TypeOK
  <2>2. need_resched' \in [Procs -> BOOLEAN] /\ pc' \in [Procs -> PCs]
    BY <1>1, <1>5, <1>6 DEF schedule, TypeOK
  <2> QED BY <1>4, <1>7, <2>1, <2>2 DEF TypeOK, procVars, timerVars
<1>9. StackShape'
  BY ProcsAssumption, <1>1, <1>4, <1>5, <1>6, <1>7
     DEF StackShape, StateShape, TypeOK, SchedPoints, procVars, Procs, IrqShape
<1>10. StateShape'
  BY <1>1, <1>4, <1>5, <1>6, <1>7 DEF StateShape, TypeOK, SchedPoints, procVars
<1>11. IrqShape'
  BY <1>7 DEF IrqShape, timerVars
<1>12. TimerInFrame'
  BY <1>1, <1>5, <1>6, <1>7 DEF TimerInFrame, TypeOK, timerVars, procVars
<1>13. NoLostWakeup'
  BY <1>7 DEF NoLostWakeup, Waited, Children, timerVars, procVars
<1>14. FamilyOK' /\ Ranked' /\ NoAssertFails'
  BY <1>7 DEF FamilyOK, Ranked, NoAssertFails, procVars
<1> QED BY <1>4, <1>8, <1>9, <1>10, <1>11, <1>12, <1>13, <1>14

\* wakeup_proc of a process that has not exited: the queue stays exact.
LEMMA WakeupFacts ==
  ASSUME IInv, NEW p \in Procs, state[p] \in {"SLEEPING", "RUNNABLE"},
         wakeup_proc(p), current' = current
  PROVE  /\ run_list' \in Seq(Procs)
         /\ RunQueueExact'
         /\ time_slice' \in [Procs -> 0..MAX_TIME_SLICE]
         /\ state' = [state EXCEPT ![p] = "RUNNABLE"]
         /\ wait_state' = [wait_state EXCEPT ![p] = "0"]
         /\ halted' = halted
<1> USE DEF IInv
<1>1. run_list \in Seq(Procs) /\ IsInjective(run_list) /\ (p # idleproc \/ state[p] = "RUNNABLE")
  BY DEF TypeOK, RunQueueExact, StateShape, StackShape, SchedPoints, WaitStates
<1>2. ~(Enters(p) /\ Queued(p))
  BY DEF RunQueueExact, Enters
<1>3. state' = [state EXCEPT ![p] = "RUNNABLE"]
  BY DEF wakeup_proc
<1>4. wait_state' = [wait_state EXCEPT ![p] = "0"]
  <2>1. state[p] = "RUNNABLE" => wait_state[p] = "0"
    BY DEF StateShape
  <2> QED BY <2>1 DEF wakeup_proc, TypeOK
<1>5. halted' = halted
  BY <1>2 DEF wakeup_proc, AssertFails, WakeFault
<1>6. time_slice' \in [Procs -> 0..MAX_TIME_SLICE]
  <2>1. time_slice' = [time_slice EXCEPT ![p] = IF Enters(p) THEN Refilled(@) ELSE @]
    BY DEF wakeup_proc
  <2>2. time_slice[p] \in 0..MAX_TIME_SLICE
    BY DEF TypeOK
  <2>3. Refilled(time_slice[p]) \in 0..MAX_TIME_SLICE
    BY <2>2, RefilledFacts
  <2> QED BY <2>1, <2>2, <2>3 DEF TypeOK
<1>7. run_list' \in Seq(Procs) /\ RunQueueExact'
  <2>1. CASE Enters(p)
    <3>1. run_list' = Append(run_list, p)
      BY <2>1 DEF wakeup_proc, WakeQueue
    <3>2. p \notin Range(run_list) /\ run_list \in Seq(Procs) /\ IsInjective(run_list)
      BY <1>2, <2>1 DEF Queued, TypeOK, RunQueueExact
    <3>3. /\ run_list' \in Seq(Procs) /\ IsInjective(run_list')
          /\ Range(run_list') = Range(run_list) \cup {p}
      BY <3>1, <3>2, AppendFacts
    <3> QED BY <1>3, <2>1, <3>3 DEF RunQueueExact, Queued, Enters, TypeOK
  <2>2. CASE ~Enters(p)
    <3>1. run_list' = run_list
      BY <2>2 DEF wakeup_proc, WakeQueue
    <3> QED BY <1>3, <2>2, <3>1 DEF RunQueueExact, Queued, Enters, TypeOK
  <2> QED BY <2>1, <2>2
<1> QED BY <1>3, <1>4, <1>5, <1>6, <1>7

\* The clock interrupt: timers run down, and those that reach zero expire.
LEMMA TimerIrqStep == IInv /\ timer_irq => IInv'
<1> SUFFICES ASSUME IInv, timer_irq PROVE IInv'
  OBVIOUS
<1> USE DEF IInv
<1>1. UNCHANGED <<procVars, schedVars, waitpid, pc, kthread, spawned, halted>>
  BY DEF timer_irq, Ticked
<1>2. /\ irq' = "on" /\ irq = "off" /\ expired = {}
      /\ expired' = {p \in Procs : timer[p] = 1}
      /\ timer' = [p \in Procs |-> IF timer[p] = 0 THEN 0 ELSE timer[p] - 1]
  BY DEF timer_irq, Ticked, IntrOn, IrqShape
<1>3. \A p \in Procs : /\ timer[p] \in 0..MaxSleep
                       /\ timer'[p] \in 0..MaxSleep
                       /\ timer[p] # 0 <=> timer'[p] # 0 \/ p \in expired'
  <2> TAKE p \in Procs
  <2>1. timer[p] \in 0..MaxSleep /\ MaxSleep \in Nat
    BY BoundsAssumption DEF TypeOK
  <2>2. timer'[p] = IF timer[p] = 0 THEN 0 ELSE timer[p] - 1
    BY <1>2
  <2>3. p \in expired' <=> timer[p] = 1
    BY <1>2
  <2> QED BY <2>1, <2>2, <2>3
<1>4. TypeOK'
  <2>1. timer' \in [Procs -> 0..MaxSleep] /\ expired' \in SUBSET Procs
    BY <1>2, <1>3
  <2> QED BY <1>1, <1>2, <2>1 DEF TypeOK, procVars, schedVars
<1>5. StackShape' /\ StateShape'
  BY <1>1 DEF StackShape, StateShape, procVars, schedVars
<1>6. IrqShape'
  BY <1>1, <1>2 DEF IrqShape, timer_irq, IntrOn, schedVars
<1>7. RunQueueExact'
  BY <1>1 DEF RunQueueExact, Queued, procVars, schedVars
<1>8. TimerInFrame'
  BY <1>1, <1>3 DEF TimerInFrame, procVars
<1>9. NoLostWakeup'
  BY <1>1, <1>2, <1>3 DEF NoLostWakeup, Waited, Children, procVars
<1>10. FamilyOK' /\ Ranked' /\ NoAssertFails'
  BY <1>1 DEF FamilyOK, Ranked, NoAssertFails, procVars
<1> QED BY <1>4, <1>5, <1>6, <1>7, <1>8, <1>9, <1>10

LEMMA ExpireTimerStep ==
  ASSUME IInv, NEW p \in Procs, expire_timer(p)
  PROVE  IInv'
<1> USE DEF IInv
<1>1. state[p] \in {"SLEEPING", "RUNNABLE"} /\ pc[p] \in {"sleep_sched", "sleep_ret"}
  BY DEF expire_timer, TimerInFrame
<1>2. /\ UNCHANGED <<parent, exiting, need_resched, current, timer, irq, waitpid, pc, kthread, spawned>>
      /\ irq = "on"
      /\ expired' = expired \ {p}
  BY DEF expire_timer
<1>3. /\ run_list' \in Seq(Procs) /\ RunQueueExact'
      /\ time_slice' \in [Procs -> 0..MAX_TIME_SLICE]
      /\ state' = [state EXCEPT ![p] = "RUNNABLE"]
      /\ wait_state' = [wait_state EXCEPT ![p] = "0"]
      /\ halted' = halted
  BY <1>1, <1>2, WakeupFacts DEF expire_timer
<1>4. TypeOK'
  BY <1>2, <1>3 DEF TypeOK, States, WaitStates
<1>5. StackShape' /\ IrqShape'
  BY <1>2 DEF StackShape, IrqShape
<1>6. StateShape'
  BY <1>1, <1>2, <1>3 DEF StateShape, TypeOK
<1>7. TimerInFrame'
  BY <1>1, <1>2, <1>3 DEF TimerInFrame, TypeOK
<1>8. NoLostWakeup'
  <2> SUFFICES ASSUME NEW c \in Procs, state'[c] = "SLEEPING"
               PROVE  \/ /\ wait_state'[c] = "WT_CHILD"
                         /\ Waited(c)' # {}
                         /\ \A q \in Waited(c)' : state'[q] # "ZOMBIE"
                      \/ wait_state'[c] = "WT_TIMER" /\ (timer'[c] # 0 \/ c \in expired')
    BY DEF NoLostWakeup
  <2>1. c # p /\ state[c] = "SLEEPING" /\ wait_state'[c] = wait_state[c]
    BY <1>3 DEF TypeOK
  <2>2. Waited(c)' = Waited(c)
    BY <1>1, <1>2, <1>3 DEF Waited, Children, TypeOK, Procs
  <2>3. \A q \in Waited(c) : state[q] # "ZOMBIE" => state'[q] # "ZOMBIE"
    BY <1>3 DEF Waited, Children, TypeOK, Procs
  <2> QED BY <1>2, <2>1, <2>2, <2>3 DEF NoLostWakeup
<1>9. FamilyOK' /\ Ranked' /\ NoAssertFails'
  <2>1. \A c \in Procs : state'[c] = state[c] \/ (state'[c] = "RUNNABLE" /\ state[c] # "FREE")
    BY <1>1, <1>3 DEF TypeOK
  <2>2. FamilyOK' /\ NoAssertFails'
    BY <1>2, <1>3, <2>1 DEF FamilyOK, NoAssertFails, TypeOK, Procs
  <2>3. Ranked'
    BY <1>2, <2>1 DEF Ranked, Procs
  <2> QED BY <2>2, <2>3
<1> QED BY <1>3, <1>4, <1>5, <1>6, <1>7, <1>8, <1>9

LEMMA ProcTickStep == IInv /\ RR_proc_tick => IInv'
<1> SUFFICES ASSUME IInv, RR_proc_tick PROVE IInv'
  OBVIOUS
<1> USE DEF IInv
<1> DEFINE l == IF pc[current] = "user" THEN "trap_ret" ELSE pc[current]
<1>1. /\ UNCHANGED <<procVars, run_list, current, timer, expired, waitpid, kthread, spawned, halted>>
      /\ pc' = [pc EXCEPT ![current] = l]
      /\ irq' = "off" /\ expired = {} /\ current \in Procs
  BY DEF RR_proc_tick, Goto, TypeOK
<1>2. /\ need_resched' \in [Procs -> BOOLEAN]
      /\ time_slice' \in [Procs -> 0..MAX_TIME_SLICE]
  <2>1. time_slice[current] \in 0..MAX_TIME_SLICE /\ MAX_TIME_SLICE \in Nat
    BY <1>1, BoundsAssumption DEF TypeOK
  <2>2. SliceLeft(time_slice[current]) \in 0..MAX_TIME_SLICE
    BY <2>1 DEF SliceLeft
  <2>3. \/ time_slice' = time_slice
        \/ time_slice' = [time_slice EXCEPT ![current] = SliceLeft(time_slice[current])]
    BY DEF RR_proc_tick
  <2>4. need_resched' \in [Procs -> BOOLEAN]
    BY <1>1 DEF RR_proc_tick, TypeOK
  <2>5. time_slice \in [Procs -> 0..MAX_TIME_SLICE]
    BY DEF TypeOK
  <2>6. time_slice' \in [Procs -> 0..MAX_TIME_SLICE]
    BY <1>1, <2>2, <2>3, <2>5
  <2> QED BY <2>4, <2>6
<1>3. l \in PCs /\ (l = pc[current] \/ (l = "trap_ret" /\ pc[current] = "user"))
  BY <1>1 DEF TypeOK, PCs
<1> HIDE DEF l
<1>4. TypeOK'
  BY <1>1, <1>2, <1>3 DEF TypeOK, procVars
<1>5. StackShape'
  BY <1>1, <1>3, ProcsAssumption DEF StackShape, TypeOK, procVars, Procs, IrqShape, SchedPoints
<1>6. StateShape'
  BY <1>1, <1>3 DEF StateShape, TypeOK, procVars, SchedPoints
<1>7. IrqShape' /\ RunQueueExact' /\ FamilyOK' /\ Ranked' /\ NoAssertFails'
  BY <1>1 DEF IrqShape, RunQueueExact, Queued, FamilyOK, Ranked, NoAssertFails, procVars
<1>8. TimerInFrame'
  BY <1>1, <1>3 DEF TimerInFrame, TypeOK, procVars
<1>9. NoLostWakeup'
  BY <1>1 DEF NoLostWakeup, Waited, Children, procVars
<1> QED BY <1>4, <1>5, <1>6, <1>7, <1>8, <1>9

\* do_fork by init_main or by a system call.
LEMMA ForkStep ==
  ASSUME IInv, irq = "off", NEW q \in Slots, NEW l, do_fork(q, l),
         \/ l = "user" /\ pc[current] = "user" /\ kthread' = kthread
         \/ l = "kbody" /\ pc[current] = "init" /\ kthread' = kthread \cup {q},
         spawned' \in 0..NKThreads
  PROVE  IInv'
<1> USE DEF IInv
<1>1. /\ state[current] = "RUNNABLE" /\ wait_state[current] = "0" /\ current \in Procs
      /\ q # current /\ q \in Procs /\ q \notin {idleproc, initproc}
  BY RunningFacts, ProcsAssumption DEF SchedPoints, do_fork, Procs
<1>2. state[q] = "FREE" /\ ~Queued(q) /\ q \notin kthread /\ pc[q] = "dead"
  BY <1>1 DEF do_fork, RunQueueExact, StateShape
<1>3. /\ state' = [state EXCEPT ![q] = "RUNNABLE"]
      /\ wait_state' = [wait_state EXCEPT ![q] = "0"]
      /\ parent' = [parent EXCEPT ![q] = current]
      /\ run_list' = Append(run_list, q)
      /\ UNCHANGED <<current, timerVars, waitpid, halted>>
  BY <1>1, <1>2 DEF do_fork, AssertFails
<1> DEFINE m == IF current = initproc THEN "init" ELSE Done
<1>4. /\ pc' = [pc EXCEPT ![q] = l, ![current] = m]
      /\ l \in {"user", "kbody"}
      /\ l = "user" => current \notin kthread /\ m = "trap_ret" /\ current # initproc
      /\ l = "kbody" => m = "init" /\ current = initproc
  BY <1>1 DEF do_fork, Done, StackShape, IrqShape, Procs
<1> HIDE DEF m
<1>5. run_list' \in Seq(Procs) /\ RunQueueExact'
  <2>1. run_list \in Seq(Procs) /\ IsInjective(run_list) /\ q \notin Range(run_list)
    BY <1>2 DEF TypeOK, RunQueueExact, Queued
  <2>2. /\ run_list' \in Seq(Procs) /\ IsInjective(run_list')
        /\ Range(run_list') = Range(run_list) \cup {q}
    BY <1>1, <1>3, <2>1, AppendFacts
  <2> QED BY <1>1, <1>3, <2>2 DEF RunQueueExact, Queued, TypeOK
<1>6. TypeOK'
  <2>1. /\ exiting' \in [Procs -> BOOLEAN] /\ need_resched' \in [Procs -> BOOLEAN]
    BY DEF do_fork, TypeOK
  <2>3. time_slice' \in [Procs -> 0..MAX_TIME_SLICE]
    <3>1. time_slice' = [time_slice EXCEPT ![q] = MAX_TIME_SLICE]
      BY DEF do_fork
    <3>2. MAX_TIME_SLICE \in 0..MAX_TIME_SLICE
      BY BoundsAssumption
    <3>3. time_slice \in [Procs -> 0..MAX_TIME_SLICE]
      BY DEF TypeOK
    <3> QED BY <3>1, <3>2, <3>3
  <2>2. pc' \in [Procs -> PCs] /\ kthread' \in SUBSET Procs
    BY <1>1, <1>4 DEF TypeOK, PCs
  <2> QED BY <1>1, <1>3, <1>5, <2>1, <2>2, <2>3 DEF TypeOK, timerVars, States, WaitStates
<1>7. StackShape'
  BY <1>1, <1>2, <1>3, <1>4, ProcsAssumption DEF StackShape, TypeOK, Procs, SchedPoints, IrqShape
<1>8. StateShape'
  BY <1>1, <1>2, <1>3, <1>4 DEF StateShape, TypeOK, SchedPoints
<1>9. IrqShape'
  BY <1>3 DEF IrqShape, timerVars
<1>10. TimerInFrame'
  BY <1>1, <1>2, <1>3, <1>4, ProcsAssumption DEF TimerInFrame, TypeOK, timerVars
<1>11. NoLostWakeup'
  <2> SUFFICES ASSUME NEW c \in Procs, state'[c] = "SLEEPING"
               PROVE  \/ /\ wait_state'[c] = "WT_CHILD"
                         /\ Waited(c)' # {}
                         /\ \A d \in Waited(c)' : state'[d] # "ZOMBIE"
                      \/ wait_state'[c] = "WT_TIMER" /\ (timer'[c] # 0 \/ c \in expired')
    BY DEF NoLostWakeup
  <2>1. c # q /\ c # current /\ state[c] = "SLEEPING" /\ wait_state'[c] = wait_state[c]
    BY <1>1, <1>3 DEF TypeOK
  <2>2. Waited(c)' = Waited(c)
    BY <1>1, <1>2, <1>3, <2>1 DEF Waited, Children, TypeOK, Procs
  <2>3. \A d \in Waited(c) : state'[d] = state[d]
    BY <1>1, <1>2, <1>3 DEF Waited, Children, TypeOK, Procs
  <2> QED BY <1>3, <2>1, <2>2, <2>3 DEF NoLostWakeup, timerVars
<1>12. FamilyOK' /\ NoAssertFails'
  BY <1>1, <1>2, <1>3, <1>4 DEF FamilyOK, NoAssertFails, TypeOK, Procs, StackShape
<1>13. Ranked'
  <2>1. PICK f \in [Procs -> Nat] : \A p \in Slots :
          state[p] # "FREE" => f[parent[p]] < f[p] /\ f[initproc] < f[p]
    BY DEF Ranked
  <2> DEFINE n == f[current] + f[initproc] + 1
             g == [f EXCEPT ![q] = n]
  <2>2. n \in Nat /\ f[current] < n /\ f[initproc] < n
    BY <1>1 DEF Procs
  <2> HIDE DEF n
  <2>3. g \in [Procs -> Nat]
    BY <2>2
  <2>4. ASSUME NEW p \in Slots, state'[p] # "FREE"
        PROVE  g[parent'[p]] < g[p] /\ g[initproc] < g[p]
    <3>1. CASE p = q
      BY <1>1, <1>3, <2>2, <3>1 DEF TypeOK, Procs
    <3>2. CASE p # q
      <4>1. state[p] # "FREE" /\ parent'[p] = parent[p] /\ parent[p] \in Procs
        BY <1>3, <2>4, <3>2 DEF TypeOK, Procs
      <4>2. parent[p] # q
        BY <1>2, <4>1 DEF FamilyOK
      <4> QED BY <1>1, <2>1, <3>2, <4>1, <4>2 DEF Procs
    <3> QED BY <3>1, <3>2
  <2> HIDE DEF g
  <2> QED BY <2>3, <2>4 DEF Ranked
<1> QED BY <1>5, <1>6, <1>7, <1>8, <1>9, <1>10, <1>11, <1>12, <1>13

\* do_exit, from user mode, from a kernel thread or on being killed.
LEMMA ExitStep ==
  ASSUME IInv, irq = "off", do_exit,
         pc[current] \notin SchedPoints \cup {"sleep_ret"}
  PROVE  IInv'
<1> USE DEF IInv
<1> DEFINE par   == parent[current]
           woken == {p \in Procs : (p = par /\ WakesParent) \/ (p = initproc /\ WakesInit)}
           q1    == IF WakesParent THEN WakeQueue(run_list, par) ELSE run_list
           q2    == IF WakesInit THEN WakeQueue(q1, initproc) ELSE q1
<1>1. /\ state[current] = "RUNNABLE" /\ wait_state[current] = "0" /\ current \in Procs
      /\ current \notin {idleproc, initproc} /\ current \in Slots
  BY RunningFacts DEF do_exit, Procs
<1>2. par \in Procs /\ par # idleproc /\ par # current /\ initproc \in Procs
  <2>1. PICK f \in [Procs -> Nat] : \A p \in Slots :
          state[p] # "FREE" => f[parent[p]] < f[p] /\ f[initproc] < f[p]
    BY DEF Ranked
  <2>2. f[par] < f[current] /\ par \in Procs /\ f[current] \in Nat
    BY <1>1, <2>1 DEF TypeOK
  <2>3. par # idleproc
    BY <1>1 DEF FamilyOK
  <2> QED BY <2>2, <2>3 DEF Procs
<1>3. /\ woken \subseteq Procs
      /\ \A p \in woken : /\ p # current /\ p # idleproc
                          /\ state[p] = "SLEEPING" /\ wait_state[p] = "WT_CHILD"
                          /\ Enters(p) /\ ~Queued(p)
      /\ WakesParent => par \in woken
      /\ WakesInit => initproc \in woken /\ initproc # par
  BY <1>1, <1>2, ProcsAssumption
     DEF WakesParent, WakesInit, StateShape, Enters, RunQueueExact
<1>4. \A p \in woken : (p = par /\ WakesParent) \/ (p = initproc /\ WakesInit)
  OBVIOUS
<1>5. /\ state' = [p \in Procs |-> IF p = current THEN "ZOMBIE"
                                   ELSE IF p \in woken THEN "RUNNABLE" ELSE state[p]]
      /\ wait_state' = [p \in Procs |-> IF p \in woken THEN "0" ELSE wait_state[p]]
      /\ parent' = [p \in Procs |-> Heir(p)]
      /\ run_list' = q2
      /\ time_slice' = [p \in Procs |-> IF p \in woken /\ Enters(p) THEN Refilled(time_slice[p])
                                                                   ELSE time_slice[p]]
      /\ pc' = [pc EXCEPT ![current] = "exit_sched"]
      /\ UNCHANGED <<exiting, need_resched, current, timerVars, waitpid, kthread, spawned>>
  BY DEF do_exit, Goto
<1>6. halted' = halted
  <2>1. ~\E p \in woken : WakeFault(p)
    BY <1>3 DEF WakeFault
  <2> QED BY <2>1 DEF do_exit, AssertFails
<1>7. /\ q2 \in Seq(Procs) /\ IsInjective(q2)
      /\ \A p \in Procs : p \in Range(q2) <=> p \in Range(run_list) \/ p \in woken
  <2>1. run_list \in Seq(Procs) /\ IsInjective(run_list)
    BY DEF TypeOK, RunQueueExact
  <2>2. \A p \in woken : p \notin Range(run_list)
    BY <1>3 DEF Queued
  <2>3. /\ q1 \in Seq(Procs) /\ IsInjective(q1)
        /\ \A p \in Procs : p \in Range(q1) <=> p \in Range(run_list) \/ (WakesParent /\ p = par)
    <3>1. CASE WakesParent
      <4>1. q1 = Append(run_list, par)
        BY <1>3, <3>1 DEF WakeQueue
      <4> HIDE DEF q1, q2, woken
      <4> QED BY <1>2, <1>3, <2>1, <2>2, <3>1, <4>1, AppendFacts
    <3>2. CASE ~WakesParent
      BY <2>1, <3>2
    <3> QED BY <3>1, <3>2
  <2>4. CASE WakesInit
    <3>1. q2 = Append(q1, initproc)
      BY <1>3, <2>4 DEF WakeQueue
    <3>2. initproc \notin Range(q1)
      BY <1>2, <1>3, <2>2, <2>3, <2>4
    <3> HIDE DEF q1, q2
    <3>3. /\ q2 \in Seq(Procs) /\ IsInjective(q2)
          /\ Range(q2) = Range(q1) \cup {initproc}
      BY <1>2, <2>3, <3>1, <3>2, AppendFacts
    <3> QED BY <1>2, <1>3, <1>4, <2>3, <2>4, <3>3
  <2>5. CASE ~WakesInit
    <3>1. q2 = q1
      BY <2>5
    <3> HIDE DEF q1, q2
    <3> QED BY <1>2, <1>3, <1>4, <2>3, <2>5, <3>1
  <2> QED BY <2>4, <2>5
<1> HIDE DEF woken, q1, q2
<1>8. RunQueueExact' /\ run_list' \in Seq(Procs)
  <2>1. \A p \in Procs : p \in Range(run_list) <=> state[p] = "RUNNABLE" /\ p \notin {current, idleproc}
    BY DEF RunQueueExact, Queued
  <2> QED BY <1>1, <1>3, <1>5, <1>7, <2>1 DEF RunQueueExact, Queued
<1>9. TypeOK'
  <2>1. time_slice' \in [Procs -> 0..MAX_TIME_SLICE]
    <3>1. \A p \in Procs : time_slice[p] \in 0..MAX_TIME_SLICE
      BY DEF TypeOK
    <3>2. \A p \in Procs : Refilled(time_slice[p]) \in 0..MAX_TIME_SLICE
      BY <3>1, RefilledFacts
    <3> QED BY <1>5, <3>1, <3>2
  <2>2. state' \in [Procs -> States] /\ wait_state' \in [Procs -> WaitStates]
    BY <1>5 DEF TypeOK, States, WaitStates
  <2>3. parent' \in [Procs -> Procs]
    BY <1>2, <1>5 DEF TypeOK, Heir
  <2>4. pc' \in [Procs -> PCs]
    BY <1>5 DEF TypeOK, PCs, SchedPoints
  <2> QED BY <1>5, <1>6, <1>8, <2>1, <2>2, <2>3, <2>4 DEF TypeOK, timerVars
<1>10. StackShape'
  BY <1>1, <1>5, ProcsAssumption DEF StackShape, TypeOK, Procs, SchedPoints, IrqShape
<1>11. StateShape'
  BY <1>1, <1>3, <1>5 DEF StateShape, TypeOK, SchedPoints, WaitStates
<1>12. IrqShape'
  BY <1>5 DEF IrqShape, timerVars
<1>13. TimerInFrame'
  BY <1>1, <1>3, <1>5 DEF TimerInFrame, TypeOK, timerVars, SchedPoints
<1>14. FamilyOK'
  <2> SUFFICES ASSUME NEW p \in Slots, state'[p] # "FREE"
               PROVE  parent'[p] # idleproc /\ state'[parent'[p]] \notin {"FREE", "ZOMBIE"}
    BY DEF FamilyOK
  <2>1. state[p] # "FREE" /\ p \in Procs /\ parent[p] \in Procs
    BY <1>1, <1>3, <1>5 DEF TypeOK, Procs
  <2>2. state[initproc] \notin {"FREE", "ZOMBIE"}
    BY <1>2, ProcsAssumption DEF StateShape, StackShape
  <2>3. CASE parent[p] = current
    BY <1>1, <1>2, <1>5, <2>1, <2>2, <2>3, ProcsAssumption DEF Heir, Children
  <2>4. CASE parent[p] # current
    BY <1>1, <1>2, <1>5, <2>1, <2>4 DEF Heir, Children, FamilyOK
  <2> QED BY <2>3, <2>4
<1>15. Ranked'
  <2>1. PICK f \in [Procs -> Nat] : \A p \in Slots :
          state[p] # "FREE" => f[parent[p]] < f[p] /\ f[initproc] < f[p]
    BY DEF Ranked
  <2>2. ASSUME NEW p \in Slots, state'[p] # "FREE"
        PROVE  f[parent'[p]] < f[p] /\ f[initproc] < f[p]
    <3>1. state[p] # "FREE" /\ p \in Procs
      BY <1>1, <1>3, <1>5, <2>2 DEF Procs
    <3>2. parent'[p] = initproc \/ parent'[p] = parent[p]
      BY <1>5, <3>1 DEF Heir
    <3> QED BY <2>1, <3>1, <3>2
  <2> QED BY <2>1, <2>2 DEF Ranked
<1>16. NoLostWakeup'
  <2> SUFFICES ASSUME NEW c \in Procs, state'[c] = "SLEEPING"
               PROVE  \/ /\ wait_state'[c] = "WT_CHILD"
                         /\ Waited(c)' # {}
                         /\ \A d \in Waited(c)' : state'[d] # "ZOMBIE"
                      \/ wait_state'[c] = "WT_TIMER" /\ (timer'[c] # 0 \/ c \in expired')
    BY DEF NoLostWakeup
  <2>1. c # current /\ c \notin woken /\ state[c] = "SLEEPING" /\ wait_state'[c] = wait_state[c]
    BY <1>5
  <2>2. CASE wait_state[c] = "WT_TIMER"
    BY <1>5, <2>1, <2>2 DEF NoLostWakeup, timerVars
  <2>3. CASE wait_state[c] = "WT_CHILD"
    <3>1. c # par
      BY <1>3, <2>1, <2>3 DEF WakesParent
    <3>2. c = initproc => \A d \in Children(current) : state[d] # "ZOMBIE"
      BY <1>3, <2>1, <2>3, <3>1 DEF WakesInit
    <3>3. Waited(c) # {} /\ \A d \in Waited(c) : state[d] # "ZOMBIE"
      BY <2>1, <2>3 DEF NoLostWakeup
    <3>4. \A d \in Slots : /\ d \in Procs
                           /\ state'[d] # "FREE" <=> state[d] # "FREE"
                           /\ d # current /\ state'[d] = "ZOMBIE" => state[d] = "ZOMBIE"
      BY <1>1, <1>3, <1>5 DEF Procs
    <3>5. \A d \in Waited(c) : d \in Waited(c)'
      <4> SUFFICES ASSUME NEW d \in Waited(c) PROVE d \in Waited(c)'
        OBVIOUS
      <4>1. d \in Slots /\ state[d] # "FREE" /\ parent[d] = c /\ waitpid[c] \in {AnyChild, d}
        BY DEF Waited, Children
      <4>2. parent'[d] = c
        BY <1>5, <2>1, <3>4, <4>1 DEF Heir, Children
      <4> QED BY <1>5, <3>4, <4>1, <4>2 DEF Waited, Children
    <3>6. ASSUME NEW d \in Waited(c)' PROVE state'[d] # "ZOMBIE"
      <4>1. d \in Slots /\ state'[d] # "FREE" /\ parent'[d] = c /\ waitpid[c] \in {AnyChild, d}
        BY <1>5, <3>6 DEF Waited, Children
      <4>2. d # current
        BY <1>1, <1>2, <1>5, <3>1, <4>1 DEF Heir, Children
      <4>3. CASE parent[d] = c
        <5>1. d \in Waited(c)
          BY <3>4, <4>1, <4>3 DEF Waited, Children
        <5> QED BY <3>3, <3>4, <4>1, <4>2, <5>1
      <4>4. CASE parent[d] # c
        <5>1. d \in Children(current) /\ c = initproc
          BY <1>5, <3>4, <4>1, <4>4 DEF Heir
        <5> QED BY <3>2, <3>4, <4>1, <4>2, <5>1
      <4> QED BY <4>3, <4>4
    <3> QED BY <2>1, <2>3, <3>3, <3>5, <3>6
  <2>4. wait_state[c] # "0"
    BY <2>1 DEF StateShape
  <2> QED BY <2>2, <2>3, <2>4 DEF TypeOK, WaitStates
<1>17. NoAssertFails'
  BY <1>6 DEF NoAssertFails
<1> QED BY <1>8, <1>9, <1>10, <1>11, <1>12, <1>13, <1>14, <1>15, <1>16, <1>17

\* do_wait takes a zombie child away.
LEMMA WaitReapStep ==
  ASSUME IInv, irq = "off", NEW q \in Slots, wait_reap(q)
  PROVE  IInv'
<1> USE DEF IInv
<1> DEFINE l == IF current = initproc THEN "init_sched" ELSE Done
<1>1. /\ state[current] = "RUNNABLE" /\ current \in Procs /\ q \in Procs
      /\ pc[current] = "wait"
  BY RunningFacts DEF wait_reap, SchedPoints, Procs
<1>2. /\ state[q] = "ZOMBIE" /\ parent[q] = current /\ q # current
      /\ q \notin {idleproc, initproc} /\ pc[q] = "dead" /\ ~Queued(q)
  <2>1. state[q] = "ZOMBIE" /\ parent[q] = current /\ q # current
    BY <1>1 DEF wait_reap, Waited, Children
  <2>2. pc[q] = "dead"
    BY <1>1, <2>1 DEF StateShape, StackShape, SchedPoints
  <2> QED BY <1>1, <2>1, <2>2, ProcsAssumption DEF RunQueueExact
<1>3. /\ state' = [state EXCEPT ![q] = "FREE"]
      /\ parent' = [parent EXCEPT ![q] = idleproc]
      /\ exiting' = [exiting EXCEPT ![q] = FALSE]
      /\ need_resched' = [need_resched EXCEPT ![q] = FALSE]
      /\ time_slice' = [time_slice EXCEPT ![q] = 0]
      /\ kthread' = kthread \ {q}
      /\ waitpid' = [waitpid EXCEPT ![q] = AnyChild, ![current] = AnyChild]
      /\ pc' = [pc EXCEPT ![current] = l]
      /\ UNCHANGED <<wait_state, run_list, current, timerVars, spawned, halted>>
  BY DEF wait_reap, Goto
<1>4. /\ l \in {"init_sched", "kbody", "trap_ret"}
      /\ current = initproc <=> l = "init_sched"
      /\ current \in kthread => l # "trap_ret"
      /\ current \notin kthread => l # "kbody"
  BY DEF Done, IrqShape
<1> HIDE DEF l
<1>5. TypeOK'
  <2>1. time_slice' \in [Procs -> 0..MAX_TIME_SLICE]
    <3>1. time_slice \in [Procs -> 0..MAX_TIME_SLICE]
      BY DEF TypeOK
    <3>2. 0 \in 0..MAX_TIME_SLICE
      BY BoundsAssumption
    <3> QED BY <1>3, <3>1, <3>2
  <2>2. /\ state' \in [Procs -> States] /\ parent' \in [Procs -> Procs]
        /\ exiting' \in [Procs -> BOOLEAN] /\ need_resched' \in [Procs -> BOOLEAN]
        /\ waitpid' \in [Procs -> Procs \cup {AnyChild}]
        /\ kthread' \in SUBSET Procs
    BY <1>3 DEF TypeOK, States, Procs
  <2>3. pc' \in [Procs -> PCs]
    BY <1>3, <1>4 DEF TypeOK, PCs, SchedPoints
  <2> QED BY <1>3, <2>1, <2>2, <2>3 DEF TypeOK, timerVars
<1>6. StackShape'
  BY <1>1, <1>2, <1>3, <1>4, ProcsAssumption DEF StackShape, TypeOK, Procs, SchedPoints, IrqShape
<1>7. StateShape'
  BY <1>1, <1>2, <1>3, <1>4 DEF StateShape, TypeOK, SchedPoints
<1>8. IrqShape'
  BY <1>2, <1>3 DEF IrqShape, timerVars
<1>9. RunQueueExact'
  BY <1>1, <1>2, <1>3 DEF RunQueueExact, Queued, TypeOK
<1>10. TimerInFrame'
  BY <1>1, <1>2, <1>3 DEF TimerInFrame, TypeOK, timerVars
<1>11. NoLostWakeup'
  <2> SUFFICES ASSUME NEW c \in Procs, state'[c] = "SLEEPING"
               PROVE  \/ /\ wait_state'[c] = "WT_CHILD"
                         /\ Waited(c)' # {}
                         /\ \A d \in Waited(c)' : state'[d] # "ZOMBIE"
                      \/ wait_state'[c] = "WT_TIMER" /\ (timer'[c] # 0 \/ c \in expired')
    BY DEF NoLostWakeup
  <2>1. c # q /\ c # current /\ state[c] = "SLEEPING"
    BY <1>1, <1>2, <1>3 DEF TypeOK
  <2>2. Waited(c)' = Waited(c)
    BY <1>1, <1>2, <1>3, <2>1 DEF Waited, Children, TypeOK, Procs
  <2>3. \A d \in Waited(c) : state'[d] = state[d]
    BY <1>1, <1>2, <1>3, <2>1 DEF Waited, Children, TypeOK, Procs
  <2> QED BY <1>3, <2>1, <2>2, <2>3 DEF NoLostWakeup, timerVars
<1>12. FamilyOK' /\ NoAssertFails'
  <2>1. NoAssertFails'
    BY <1>3 DEF NoAssertFails
  <2> SUFFICES ASSUME NEW p \in Slots, state'[p] # "FREE"
               PROVE  parent'[p] # idleproc /\ state'[parent'[p]] \notin {"FREE", "ZOMBIE"}
    BY <2>1 DEF FamilyOK
  <2>2. p # q /\ state[p] # "FREE" /\ parent'[p] = parent[p] /\ parent[p] \in Procs
    BY <1>1, <1>3 DEF TypeOK, Procs
  <2>3. parent[p] # q
    BY <1>2, <2>2 DEF FamilyOK
  <2> QED BY <1>3, <2>2, <2>3 DEF FamilyOK, TypeOK
<1>13. Ranked'
  <2>1. PICK f \in [Procs -> Nat] : \A p \in Slots :
          state[p] # "FREE" => f[parent[p]] < f[p] /\ f[initproc] < f[p]
    BY DEF Ranked
  <2>2. \A p \in Slots : state'[p] # "FREE" => state[p] # "FREE" /\ parent'[p] = parent[p]
    BY <1>1, <1>3 DEF TypeOK, Procs
  <2> QED BY <2>1, <2>2 DEF Ranked
<1> QED BY <1>5, <1>6, <1>7, <1>8, <1>9, <1>10, <1>11, <1>12, <1>13

\* Facts shared by the two ways of falling asleep.
LEMMA FallAsleepFacts ==
  ASSUME IInv, NEW w \in {"WT_CHILD", "WT_TIMER"}, NEW l \in PCs,
         state[current] = "RUNNABLE", current \in Procs, current # idleproc,
         state' = [state EXCEPT ![current] = "SLEEPING"],
         wait_state' = [wait_state EXCEPT ![current] = w],
         pc' = [pc EXCEPT ![current] = l],
         w = "WT_CHILD" => l = "wait_sched",
         w = "WT_TIMER" => l = "sleep_sched" /\ current # initproc,
         UNCHANGED <<parent, exiting, schedVars, irq, expired, waitpid, kthread, spawned, halted>>
  PROVE  /\ StackShape' /\ StateShape' /\ RunQueueExact' /\ FamilyOK' /\ Ranked' /\ NoAssertFails'
         /\ \A c \in Procs : Waited(c)' = Waited(c)
<1> USE DEF IInv
<1>1. StackShape'
  BY ProcsAssumption DEF StackShape, TypeOK, Procs, SchedPoints, IrqShape, schedVars
<1>2. StateShape'
  BY DEF StateShape, TypeOK, SchedPoints, schedVars
<1>3. RunQueueExact'
  BY DEF RunQueueExact, Queued, TypeOK, schedVars
<1>4. FamilyOK' /\ NoAssertFails'
  BY DEF FamilyOK, NoAssertFails, TypeOK, Procs
<1>5. Ranked'
  <2>1. \A p \in Slots : state'[p] # "FREE" => state[p] # "FREE"
    BY DEF TypeOK, Procs
  <2> QED BY <2>1 DEF Ranked
<1>6. \A c \in Procs : Waited(c)' = Waited(c)
  BY DEF Waited, Children, TypeOK, Procs
<1> QED BY <1>1, <1>2, <1>3, <1>4, <1>5, <1>6

LEMMA WaitSleepStep == IInv /\ irq = "off" /\ wait_sleep => IInv'
<1> SUFFICES ASSUME IInv, irq = "off", wait_sleep PROVE IInv'
  OBVIOUS
<1> USE DEF IInv
<1>1. /\ state[current] = "RUNNABLE" /\ current \in Procs /\ current # idleproc
      /\ pc[current] = "wait"
  BY RunningFacts DEF wait_sleep, SchedPoints, StackShape
<1>2. /\ state' = [state EXCEPT ![current] = "SLEEPING"]
      /\ wait_state' = [wait_state EXCEPT ![current] = "WT_CHILD"]
      /\ pc' = [pc EXCEPT ![current] = "wait_sched"]
      /\ UNCHANGED <<parent, exiting, schedVars, timerVars, waitpid, kthread, spawned, halted>>
      /\ "wait_sched" \in PCs
  BY DEF wait_sleep, Goto, PCs, SchedPoints
<1>3. /\ StackShape' /\ StateShape' /\ RunQueueExact' /\ FamilyOK' /\ Ranked' /\ NoAssertFails'
      /\ \A c \in Procs : Waited(c)' = Waited(c)
  BY <1>1, <1>2, FallAsleepFacts DEF timerVars
<1>4. TypeOK'
  BY <1>2 DEF TypeOK, States, WaitStates, schedVars, timerVars
<1>5. IrqShape'
  BY <1>2 DEF IrqShape, timerVars
<1>6. TimerInFrame'
  BY <1>1, <1>2 DEF TimerInFrame, TypeOK, timerVars
<1>7. NoLostWakeup'
  <2>1. Waited(current) # {} /\ \A q \in Waited(current) : state[q] # "ZOMBIE"
    BY DEF wait_sleep
  <2>2. \A q \in Procs : state[q] # "ZOMBIE" => state'[q] # "ZOMBIE"
    BY <1>2 DEF TypeOK
  <2>3. \A c \in Procs : Waited(c) \subseteq Procs
    BY DEF Waited, Children, Procs
  <2> SUFFICES ASSUME NEW c \in Procs, state'[c] = "SLEEPING"
               PROVE  \/ /\ wait_state'[c] = "WT_CHILD"
                         /\ Waited(c) # {}
                         /\ \A d \in Waited(c) : state'[d] # "ZOMBIE"
                      \/ wait_state'[c] = "WT_TIMER" /\ (timer'[c] # 0 \/ c \in expired')
    BY <1>3 DEF NoLostWakeup
  <2>4. CASE c = current
    BY <1>1, <1>2, <2>1, <2>2, <2>3, <2>4 DEF TypeOK
  <2>5. CASE c # current
    <3>1. state[c] = "SLEEPING" /\ wait_state'[c] = wait_state[c]
      BY <1>2, <2>5 DEF TypeOK
    <3> QED BY <1>2, <2>2, <2>3, <3>1 DEF NoLostWakeup, timerVars
  <2> QED BY <2>4, <2>5
<1> QED BY <1>3, <1>4, <1>5, <1>6, <1>7

LEMMA SleepStep ==
  ASSUME IInv, NEW t \in 1..MaxSleep, do_sleep(t), irq = "off", pc[current] \in {"user", "kbody"}
  PROVE  IInv'
<1> USE DEF IInv
<1>1. /\ state[current] = "RUNNABLE" /\ current \in Procs
      /\ current \notin {idleproc, initproc} /\ timer[current] = 0
  <2>1. state[current] = "RUNNABLE" /\ current \in Procs /\ current \notin {idleproc, initproc}
    BY RunningFacts DEF SchedPoints, StackShape
  <2> QED BY <2>1 DEF TimerInFrame
<1>2. /\ state' = [state EXCEPT ![current] = "SLEEPING"]
      /\ wait_state' = [wait_state EXCEPT ![current] = "WT_TIMER"]
      /\ timer' = [timer EXCEPT ![current] = t]
      /\ pc' = [pc EXCEPT ![current] = "sleep_sched"]
      /\ UNCHANGED <<parent, exiting, schedVars, irq, expired, waitpid, kthread, spawned, halted>>
      /\ "sleep_sched" \in PCs
  BY <1>1 DEF do_sleep, Goto, PCs, SchedPoints, AssertFails
<1>3. /\ StackShape' /\ StateShape' /\ RunQueueExact' /\ FamilyOK' /\ Ranked' /\ NoAssertFails'
      /\ \A c \in Procs : Waited(c)' = Waited(c)
  BY <1>1, <1>2, FallAsleepFacts
<1>4. t \in 0..MaxSleep /\ t # 0
  BY BoundsAssumption
<1>5. TypeOK'
  <2>1. timer' \in [Procs -> 0..MaxSleep]
    <3>1. timer \in [Procs -> 0..MaxSleep]
      BY DEF TypeOK
    <3> QED BY <1>2, <1>4, <3>1
  <2> QED BY <1>2, <2>1 DEF TypeOK, States, WaitStates, schedVars
<1>6. IrqShape'
  BY <1>2 DEF IrqShape
<1>7. TimerInFrame'
  BY <1>1, <1>2 DEF TimerInFrame, TypeOK
<1>8. NoLostWakeup'
  <2>2. \A q \in Procs : state[q] # "ZOMBIE" => state'[q] # "ZOMBIE"
    BY <1>2 DEF TypeOK
  <2>3. \A c \in Procs : Waited(c) \subseteq Procs
    BY DEF Waited, Children, Procs
  <2> QED BY <1>1, <1>2, <1>3, <1>4, <2>2, <2>3 DEF NoLostWakeup, TypeOK
<1> QED BY <1>3, <1>5, <1>6, <1>7, <1>8

\* do_sleep returns: del_timer while nothing has expired and not been woken.
LEMMA SleepDoneStep == IInv /\ irq = "off" /\ sleep_done => IInv'
<1> SUFFICES ASSUME IInv, irq = "off", sleep_done PROVE IInv'
  OBVIOUS
<1> USE DEF IInv
<1>1. /\ state[current] = "RUNNABLE" /\ current \in Procs /\ expired = {}
      /\ current \notin {idleproc, initproc}
  BY RunningFacts DEF sleep_done, SchedPoints, StackShape, IrqShape
<1>2. /\ timer' = [timer EXCEPT ![current] = 0]
      /\ pc' = [pc EXCEPT ![current] = Done]
      /\ UNCHANGED <<procVars, schedVars, irq, expired, waitpid, kthread, spawned, halted>>
  BY DEF sleep_done, Goto
<1>3. /\ Done \in PCs /\ Done \in {"kbody", "trap_ret"}
      /\ current \in kthread => Done = "kbody"
  BY DEF Done, PCs
<1>4. TypeOK'
  <2>1. timer' \in [Procs -> 0..MaxSleep]
    <3>1. timer \in [Procs -> 0..MaxSleep]
      BY DEF TypeOK
    <3>2. 0 \in 0..MaxSleep
      BY BoundsAssumption
    <3> QED BY <1>2, <3>1, <3>2
  <2> QED BY <1>2, <1>3, <2>1 DEF TypeOK, procVars, schedVars
<1>5. StackShape'
  BY <1>1, <1>2, <1>3, ProcsAssumption DEF StackShape, TypeOK, Procs, SchedPoints, schedVars
<1>6. StateShape'
  BY <1>1, <1>2, <1>3 DEF StateShape, TypeOK, procVars, schedVars
<1>7. IrqShape' /\ RunQueueExact' /\ FamilyOK' /\ Ranked' /\ NoAssertFails'
  BY <1>1, <1>2 DEF IrqShape, RunQueueExact, Queued, FamilyOK, Ranked, NoAssertFails, procVars, schedVars
<1>8. TimerInFrame'
  BY <1>1, <1>2 DEF TimerInFrame, TypeOK, procVars
<1>9. NoLostWakeup'
  BY <1>1, <1>2 DEF NoLostWakeup, Waited, Children, TypeOK, procVars
<1> QED BY <1>4, <1>5, <1>6, <1>7, <1>8, <1>9

\* If init has no child, nobody but idle and init is left: the ancestors of any
\* process lead to init, as ranks cannot fall for ever.
LEMMA AloneFacts ==
  ASSUME IInv, Children(initproc) = {}
  PROVE  \A q \in Slots : state[q] = "FREE"
<1> USE DEF IInv
<1> SUFFICES ASSUME NEW q \in Slots, state[q] # "FREE" PROVE FALSE
  OBVIOUS
<1>1. PICK f \in [Procs -> Nat] : \A p \in Slots :
        state[p] # "FREE" => f[parent[p]] < f[p] /\ f[initproc] < f[p]
  BY DEF Ranked
<1> DEFINE T == {n \in Nat : \E p \in Slots : state[p] # "FREE" /\ f[p] = n}
<1>2. T \subseteq Nat /\ T # {}
  <2>1. f[q] \in Nat
    BY DEF Procs
  <2> QED BY <2>1
<1>3. \E n \in T : \A k \in T : <<k, n>> \notin OpToRel(<, Nat)
  BY <1>2, WFMin, NatLessThanWellFounded
<1>4. PICK n \in T : \A k \in T : ~(k < n)
  BY <1>2, <1>3 DEF OpToRel
<1>5. PICK p \in Slots : state[p] # "FREE" /\ f[p] = n
  BY <1>4
<1>6. parent[p] \in Procs /\ parent[p] # idleproc /\ state[parent[p]] # "FREE"
  BY <1>5 DEF FamilyOK, TypeOK, Procs
<1>7. parent[p] # initproc
  BY <1>5 DEF Children
<1>8. parent[p] \in Slots /\ f[parent[p]] \in Nat /\ f[parent[p]] < n
  BY <1>1, <1>5, <1>6, <1>7 DEF Procs
<1>9. f[parent[p]] \in T
  BY <1>6, <1>8
<1> QED BY <1>4, <1>8, <1>9

\* Stopping for another reason than an assertion.
LEMMA HaltStep ==
  ASSUME IInv, halted' \in {"init returned", "initproc exit"},
         UNCHANGED <<procVars, schedVars, timerVars, waitpid, pc, kthread, spawned>>
  PROVE  IInv'
<1> USE DEF IInv, procVars, schedVars, timerVars
<1>1. TypeOK'
  BY DEF TypeOK
<1>2. StackShape' /\ StateShape' /\ IrqShape'
  BY DEF StackShape, StateShape, IrqShape
<1>3. RunQueueExact' /\ TimerInFrame' /\ FamilyOK' /\ Ranked' /\ NoAssertFails'
  BY DEF RunQueueExact, Queued, TimerInFrame, FamilyOK, Ranked, NoAssertFails
<1>4. NoLostWakeup'
  BY DEF NoLostWakeup, Waited, Children
<1> QED BY <1>1, <1>2, <1>3, <1>4

\* do_wait without a child.
LEMMA WaitNochildStep == IInv /\ irq = "off" /\ wait_nochild => IInv'
<1> SUFFICES ASSUME IInv, irq = "off", wait_nochild PROVE IInv'
  OBVIOUS
<1>1. state[current] = "RUNNABLE" /\ current \in Procs /\ pc[current] = "wait"
  BY RunningFacts DEF wait_nochild, SchedPoints
<1>2. /\ waitpid' \in [Procs -> Procs \cup {AnyChild}]
      /\ \A p \in Procs : p # current => waitpid'[p] = waitpid[p]
      /\ waitpid'[current] = AnyChild
      /\ UNCHANGED <<procVars, schedVars, timerVars, kthread, spawned>>
  BY <1>1 DEF wait_nochild, IInv, TypeOK
<1>3. CASE current # initproc
  <2>1. Goto(Done) /\ UNCHANGED halted
    BY <1>3 DEF wait_nochild
  <2>2. /\ Done \in PCs /\ Done \in {"kbody", "trap_ret"}
        /\ current \in kthread => Done = "kbody"
    BY DEF Done, PCs
  <2> QED
    BY <1>1, <1>2, <1>3, <2>1, <2>2, MoveStep
       DEF IInv, IrqShape, TypeOK, schedVars, timerVars, procVars
<1>4. CASE current = initproc
  <2>1. Children(initproc) = {}
    BY <1>4 DEF wait_nochild, Waited, IInv, StackShape
  <2>2. halted' = "init returned" /\ pc' = pc
    BY <1>4, <2>1, AloneFacts DEF wait_nochild
  <2>3. waitpid' = waitpid
    BY <1>4 DEF wait_nochild, IInv, StackShape, TypeOK
  <2> QED BY <1>2, <2>2, <2>3, HaltStep
<1> QED BY <1>3, <1>4

\* The panic of do_exit in the init process changes nothing else.
LEMMA InitExitStep == IInv /\ init_exit => IInv'
BY HaltStep DEF init_exit

\* do_kill by a system call.
LEMMA KillStep ==
  ASSUME IInv, irq = "off", pc[current] = "user", NEW p \in Procs, do_kill(p)
  PROVE  IInv'
<1> USE DEF IInv
<1>1. /\ state[current] = "RUNNABLE" /\ current \in Procs
      /\ current \notin {idleproc, initproc} /\ current \notin kthread /\ expired = {}
  BY RunningFacts DEF SchedPoints, StackShape, IrqShape
<1>2. /\ exiting' = [exiting EXCEPT ![p] = TRUE]
      /\ pc' = [pc EXCEPT ![current] = "trap_ret"]
      /\ "trap_ret" \in PCs
      /\ UNCHANGED <<parent, need_resched, current, timerVars, waitpid, kthread, spawned>>
  BY DEF do_kill, Interruptible, Goto, PCs
<1>3. /\ run_list' \in Seq(Procs) /\ RunQueueExact'
      /\ time_slice' \in [Procs -> 0..MAX_TIME_SLICE]
      /\ halted' = halted
      /\ \/ state' = state /\ wait_state' = wait_state
         \/ /\ state[p] = "SLEEPING"
            /\ state' = [state EXCEPT ![p] = "RUNNABLE"]
            /\ wait_state' = [wait_state EXCEPT ![p] = "0"]
  <2>1. CASE wait_state[p] \in {"WT_CHILD", "WT_TIMER"}
    <3>1. state[p] = "SLEEPING" /\ wakeup_proc(p)
      BY <2>1 DEF do_kill, Interruptible, StateShape
    <3> QED BY <1>2, <3>1, WakeupFacts
  <2>2. CASE wait_state[p] \notin {"WT_CHILD", "WT_TIMER"}
    <3>1. UNCHANGED <<state, wait_state, run_list, time_slice, halted>>
      BY <2>2 DEF do_kill, Interruptible
    <3> QED BY <1>2, <3>1 DEF RunQueueExact, Queued, TypeOK
  <2> QED BY <2>1, <2>2
<1>4. TypeOK'
  <2>1. exiting' \in [Procs -> BOOLEAN]
    BY <1>2 DEF TypeOK
  <2> QED BY <1>2, <1>3, <2>1 DEF TypeOK, States, WaitStates, timerVars
<1>5. StackShape'
  BY <1>1, <1>2, ProcsAssumption DEF StackShape, TypeOK, Procs, SchedPoints
<1>9. \A c \in Procs :
        \/ state'[c] = state[c] /\ wait_state'[c] = wait_state[c]
        \/ state[c] = "SLEEPING" /\ state'[c] = "RUNNABLE" /\ wait_state'[c] = "0"
  <2>1. CASE state' = state /\ wait_state' = wait_state
    BY <2>1
  <2>2. CASE /\ state[p] = "SLEEPING"
             /\ state' = [state EXCEPT ![p] = "RUNNABLE"]
             /\ wait_state' = [wait_state EXCEPT ![p] = "0"]
    BY <2>2 DEF TypeOK
  <2> QED BY <1>3, <2>1, <2>2
<1>6. StateShape'
  BY <1>1, <1>2, <1>9 DEF StateShape, TypeOK
<1>7. IrqShape'
  BY <1>2 DEF IrqShape, timerVars
<1>8. TimerInFrame'
  BY <1>1, <1>2, <1>9 DEF TimerInFrame, TypeOK, timerVars
<1>10. NoLostWakeup'
  <2> SUFFICES ASSUME NEW c \in Procs, state'[c] = "SLEEPING"
               PROVE  \/ /\ wait_state'[c] = "WT_CHILD"
                         /\ Waited(c)' # {}
                         /\ \A d \in Waited(c)' : state'[d] # "ZOMBIE"
                      \/ wait_state'[c] = "WT_TIMER" /\ (timer'[c] # 0 \/ c \in expired')
    BY DEF NoLostWakeup
  <2>1. state[c] = "SLEEPING" /\ wait_state'[c] = wait_state[c]
    BY <1>9
  <2>2. Waited(c)' = Waited(c)
    BY <1>2, <1>9 DEF Waited, Children, Procs
  <2>3. \A d \in Waited(c) : state[d] # "ZOMBIE" => state'[d] # "ZOMBIE"
    BY <1>9 DEF Waited, Children, Procs
  <2> QED BY <1>2, <2>1, <2>2, <2>3 DEF NoLostWakeup, timerVars
<1>11. FamilyOK' /\ NoAssertFails'
  BY <1>2, <1>3, <1>9 DEF FamilyOK, NoAssertFails, TypeOK, Procs
<1>12. Ranked'
  <2>1. \A c \in Slots : state'[c] # "FREE" => state[c] # "FREE"
    BY <1>9 DEF Procs
  <2> QED BY <1>2, <2>1 DEF Ranked
<1> QED BY <1>3, <1>4, <1>5, <1>6, <1>7, <1>8, <1>10, <1>11, <1>12
-----------------------------------------------------------------------------
(* The theorems *)

\* do_exit, or the panic that stands for it in the init process.
LEMMA AnyExitStep ==
  ASSUME IInv, irq = "off", Exit, pc[current] \notin SchedPoints \cup {"sleep_ret"}
  PROVE  IInv'
BY ExitStep, InitExitStep DEF Exit

LEMMA KernelStepPreserves == IInv /\ KernelStep => IInv'
<1> SUFFICES ASSUME IInv, KernelStep PROVE IInv'
  OBVIOUS
<1>0. irq = "off"
  BY DEF KernelStep
<1>1. CASE schedule
  BY <1>0, <1>1, ScheduleStep
<1>2. CASE trap_resume
  BY <1>2, TrapResumeStep
<1>3. CASE exit_killed
  BY <1>0, <1>3, AnyExitStep DEF exit_killed, SchedPoints
<1>4. CASE \E q \in Slots : wait_reap(q)
  BY <1>0, <1>4, WaitReapStep
<1>5. CASE wait_sleep \/ wait_nochild \/ wait_repeat
  BY <1>0, <1>5, WaitSleepStep, WaitNochildStep, WaitRepeatStep
<1>6. CASE sleep_done
  BY <1>0, <1>6, SleepDoneStep
<1>7. CASE init_spawn
  <2>1. PICK q \in Slots : do_fork(q, "kbody") /\ kthread' = kthread \cup {q}
    BY <1>7 DEF init_spawn
  <2>2. pc[current] = "init" /\ spawned' \in 0..NKThreads
    <3>1. spawned \in 0..NKThreads
      BY DEF IInv, TypeOK
    <3>2. spawned < NKThreads /\ spawned' = spawned + 1 /\ pc[current] = "init"
      BY <1>7 DEF init_spawn
    <3> QED BY <3>1, <3>2, BoundsAssumption
  <2> QED BY <1>0, <2>1, <2>2, ForkStep
<1>8. CASE init_wait
  BY <1>8, InitWaitStep
<1>9. CASE kthread_sleep
  BY <1>0, <1>9, SleepStep DEF kthread_sleep, InBody
<1>10. CASE kthread_exit
  BY <1>0, <1>10, ExitStep DEF kthread_exit, InBody, SchedPoints
<1>11. CASE kernel_execve
  BY <1>11, KernelExecveStep
<1> QED
  BY <1>1, <1>2, <1>3, <1>4, <1>5, <1>6, <1>7, <1>8, <1>9, <1>10, <1>11 DEF KernelStep

LEMMA UserStepPreserves == IInv /\ UserStep => IInv'
<1> SUFFICES ASSUME IInv, UserStep PROVE IInv'
  OBVIOUS
<1>0. irq = "off" /\ pc[current] = "user"
  BY DEF UserStep, sys_fork, sys_exit, sys_wait, sys_kill, sys_sleep, sys_yield, sys_other, InUser
<1>1. CASE sys_fork
  <2>1. PICK q \in Slots : do_fork(q, "user")
    BY <1>1 DEF sys_fork
  <2>2. kthread' = kthread /\ spawned' \in 0..NKThreads
    BY <1>1 DEF sys_fork, IInv, TypeOK
  <2> QED BY <1>0, <2>1, <2>2, ForkStep
<1>2. CASE sys_exit
  BY <1>0, <1>2, AnyExitStep DEF sys_exit, SchedPoints
<1>3. CASE sys_wait
  BY <1>3, SysWaitStep
<1>4. CASE sys_kill
  BY <1>0, <1>4, KillStep, ProcsAssumption DEF sys_kill
<1>5. CASE sys_sleep
  BY <1>0, <1>5, SleepStep DEF sys_sleep
<1>6. CASE sys_yield \/ sys_other
  BY <1>6, SysOtherStep
<1> QED BY <1>1, <1>2, <1>3, <1>4, <1>5, <1>6 DEF UserStep

LEMMA NextPreserves == IInv /\ [Next]_vars => IInv'
<1> SUFFICES ASSUME IInv, [Next]_vars PROVE IInv'
  OBVIOUS
<1>1. CASE KernelStep
  BY <1>1, KernelStepPreserves
<1>2. CASE InterruptStep
  BY <1>2, TimerIrqStep, ExpireTimerStep, ProcTickStep DEF InterruptStep
<1>3. CASE UserStep
  BY <1>3, UserStepPreserves
<1>4. CASE UNCHANGED vars
  <2> USE <1>4 DEF IInv, vars, procVars, schedVars, timerVars
  <2>1. TypeOK' /\ StackShape' /\ StateShape' /\ IrqShape'
    BY DEF TypeOK, StackShape, StateShape, IrqShape
  <2>2. RunQueueExact' /\ TimerInFrame' /\ FamilyOK' /\ Ranked' /\ NoAssertFails'
    BY DEF RunQueueExact, Queued, TimerInFrame, FamilyOK, Ranked, NoAssertFails
  <2>3. NoLostWakeup'
    BY DEF NoLostWakeup, Waited, Children
  <2> QED BY <2>1, <2>2, <2>3
<1> QED BY <1>1, <1>2, <1>3, <1>4 DEF Next, Stopped

\* The inductive invariant holds in every state of the kernel.
THEOREM Invariance == Spec => []IInv
<1>1. Init => IInv
  BY InitStep
<1>2. IInv /\ [Next]_vars => IInv'
  BY NextPreserves
<1> QED BY <1>1, <1>2, PTL DEF Spec

\* Every variable keeps its type.
THEOREM TypeCorrect == Spec => []TypeOK
<1>1. IInv => TypeOK
  BY DEF IInv
<1> QED BY <1>1, Invariance, PTL

\* No assertion of wakeup_proc, RR_enqueue, do_fork, add_timer or init_main
\* fails; the last says that init returns only when it is alone.
THEOREM AssertionsHold == Spec => []NoAssertFails
<1>1. IInv => NoAssertFails
  BY DEF IInv
<1> QED BY <1>1, Invariance, PTL

\* The run queue is exactly the set of runnable processes that wait for the CPU.
THEOREM QueueExact == Spec => []RunQueueExact
<1>1. IInv => RunQueueExact
  BY DEF IInv
<1> QED BY <1>1, Invariance, PTL

\* A sleeper still has the event to come that will wake it.
THEOREM WakeupsNotLost == Spec => []NoLostWakeup
<1>1. IInv => NoLostWakeup
  BY DEF IInv
<1> QED BY <1>1, Invariance, PTL

\* Every process has a live parent, a timer never outlives the frame of
\* do_sleep it lies in, and a dead process never runs.
THEOREM StructureHolds == Spec => [](FamilyOK /\ TimerInFrame /\ DeadNeverRuns)
<1>1. IInv => FamilyOK /\ TimerInFrame
  BY DEF IInv
<1>2. IInv => DeadNeverRuns
  BY DEF IInv, DeadNeverRuns, TypeOK, StackShape, StateShape
<1> QED BY <1>1, <1>2, Invariance, PTL

\* Each step moves each process along the state diagram of proc.c, and only
\* the process that may take that arrow does.
LEMMA StepInLifeCycle == IInv /\ Next => LifeCycleStep
<1> SUFFICES ASSUME IInv, Next PROVE LifeCycleStep
  OBVIOUS
<1> USE DEF IInv
<1>0. current \in Procs
  BY DEF TypeOK
<1>1. ASSUME NEW q \in Slots, NEW l, do_fork(q, l) PROVE LifeCycleStep
  BY <1>0, <1>1 DEF do_fork, LifeCycleStep, TypeOK, Procs
<1>2. ASSUME do_exit, pc[current] \notin SchedPoints PROVE LifeCycleStep
  <2>1. state[current] = "RUNNABLE"
    BY <1>2, RunningFacts
  <2>2. \A p \in Procs : p # current /\ state'[p] # state[p] =>
          state'[p] = "RUNNABLE" /\ wait_state[p] = "WT_CHILD"
    BY <1>2 DEF do_exit, WakesParent, WakesInit
  <2>3. state'[current] = "ZOMBIE"
    BY <1>0, <1>2 DEF do_exit
  <2> QED BY <2>1, <2>2, <2>3 DEF LifeCycleStep, StateShape
<1>3. ASSUME NEW t, do_sleep(t), pc[current] \notin SchedPoints PROVE LifeCycleStep
  BY <1>0, <1>3, RunningFacts DEF do_sleep, LifeCycleStep, TypeOK
<1>4. ASSUME NEW p \in Procs, do_kill(p) PROVE LifeCycleStep
  BY <1>4 DEF do_kill, Interruptible, wakeup_proc, LifeCycleStep, TypeOK, StateShape
<1>5. ASSUME NEW q \in Slots, wait_reap(q) PROVE LifeCycleStep
  <2>1. state[q] = "ZOMBIE" /\ parent[q] = current /\ q \in Procs /\ state' = [state EXCEPT ![q] = "FREE"]
    BY <1>5 DEF wait_reap, Waited, Children, Procs
  <2>2. q # current
    BY <1>5, <2>1, RunningFacts DEF wait_reap, SchedPoints
  <2>3. pc[q] = "dead"
    BY <2>1, <2>2 DEF StateShape, StackShape, SchedPoints
  <2> QED BY <2>1, <2>3 DEF LifeCycleStep, TypeOK
<1>6. ASSUME wait_sleep PROVE LifeCycleStep
  BY <1>0, <1>6, RunningFacts DEF wait_sleep, LifeCycleStep, TypeOK, SchedPoints
<1>7. ASSUME NEW p \in Procs, expire_timer(p) PROVE LifeCycleStep
  BY <1>7 DEF expire_timer, wakeup_proc, LifeCycleStep, TypeOK, TimerInFrame
<1>8. ASSUME UNCHANGED state PROVE LifeCycleStep
  BY <1>8 DEF LifeCycleStep
<1>9. CASE KernelStep
  <2>1. CASE exit_killed
    BY <1>2, <1>8, <2>1 DEF exit_killed, Exit, init_exit, procVars, SchedPoints
  <2>2. CASE kthread_exit
    BY <1>2, <2>2 DEF kthread_exit, InBody, SchedPoints
  <2>3. CASE kthread_sleep
    BY <1>3, <2>3 DEF kthread_sleep, InBody, SchedPoints
  <2>4. CASE init_spawn
    BY <1>1, <2>4 DEF init_spawn
  <2>5. CASE schedule \/ trap_resume \/ wait_nochild \/ wait_repeat \/ sleep_done \/ init_wait \/ kernel_execve
    BY <1>8, <2>5
       DEF schedule, trap_resume, wait_nochild, wait_repeat, sleep_done, init_wait, kernel_execve, procVars
  <2> QED BY <1>5, <1>6, <1>9, <2>1, <2>2, <2>3, <2>4, <2>5 DEF KernelStep
<1>10. CASE InterruptStep
  BY <1>7, <1>8, <1>10 DEF InterruptStep, timer_irq, RR_proc_tick, procVars
<1>11. CASE UserStep
  <2>1. CASE sys_fork
    BY <1>1, <2>1 DEF sys_fork
  <2>2. CASE sys_exit
    BY <1>2, <1>8, <2>2 DEF sys_exit, InUser, Exit, init_exit, procVars, SchedPoints
  <2>3. CASE sys_kill
    BY <1>4, <2>3, ProcsAssumption DEF sys_kill
  <2>4. CASE sys_sleep
    BY <1>3, <2>4 DEF sys_sleep, InUser, SchedPoints
  <2>5. CASE sys_wait \/ sys_yield \/ sys_other
    BY <1>8, <2>5 DEF sys_wait, sys_yield, do_yield, sys_other, procVars
  <2> QED BY <1>11, <2>1, <2>2, <2>3, <2>4, <2>5 DEF UserStep
<1> QED BY <1>8, <1>9, <1>10, <1>11 DEF Next, Stopped, vars, procVars

\* A process is put to sleep and ended by itself alone, and freed only by its
\* parent, once it has left its kernel stack for good.
THEOREM LifeCycleHolds == Spec => LifeCycle
<1>1. IInv /\ [Next]_vars => [LifeCycleStep]_vars
  BY StepInLifeCycle
<1> QED BY <1>1, Invariance, PTL DEF Spec, LifeCycle
-----------------------------------------------------------------------------
(* Refinement of Timers *)

\* do_sleep starts a timer: the caller has none, by TimerInFrame.
LEMMA SleepStartsTimer ==
  ASSUME IInv, irq = "off", NEW t \in 1 .. MaxSleep, do_sleep(t),
         pc[current] \in {"user", "kbody"}
  PROVE  TL!Next
<1>1. current \in Procs /\ timer[current] = 0
  BY DEF IInv, TypeOK, TimerInFrame
<1>2. TL!Start(current, t)
  BY <1>1 DEF do_sleep, TL!Start
<1> QED BY <1>1, <1>2 DEF TL!Next

\* Each step is a step of Timers or leaves the timers alone.
LEMMA StepOfTimers == IInv /\ [Next]_vars => [TL!Next]_TL!vars
<1> SUFFICES ASSUME IInv, [Next]_vars PROVE TL!Next \/ UNCHANGED TL!vars
  OBVIOUS
<1>1. ASSUME UNCHANGED timerVars PROVE UNCHANGED TL!vars
  BY <1>1 DEF timerVars, TL!vars
<1>2. CASE irq = "off" /\ KernelStep
  <2>1. CASE sleep_done
    <3>1. TL!Cancel(current) /\ current \in Procs
      BY <1>2, <2>1 DEF sleep_done, TL!Cancel, IInv, TypeOK
    <3> QED BY <3>1 DEF TL!Next
  <2>2. CASE kthread_sleep
    BY <1>2, <2>2, SleepStartsTimer DEF kthread_sleep, InBody
  <2>3. CASE init_spawn
    BY <2>3, <1>1 DEF init_spawn, do_fork
  <2>4. CASE exit_killed \/ kthread_exit
    BY <2>4, <1>1 DEF exit_killed, kthread_exit, Exit, do_exit, init_exit
  <2>5. CASE \E q \in Slots : wait_reap(q)
    BY <2>5, <1>1 DEF wait_reap
  <2>6. CASE schedule \/ trap_resume \/ wait_sleep \/ wait_nochild \/ wait_repeat \/ init_wait \/ kernel_execve
    BY <2>6, <1>1
       DEF schedule, trap_resume, wait_sleep, wait_nochild, wait_repeat, init_wait, kernel_execve
  <2> QED BY <1>2, <2>1, <2>2, <2>3, <2>4, <2>5, <2>6 DEF KernelStep
<1>3. CASE InterruptStep
  <2>1. CASE timer_irq
    BY <2>1 DEF timer_irq, Ticked, IntrOn, TL!Tick, TL!Next
  <2>2. ASSUME NEW p \in Procs, expire_timer(p) PROVE TL!Next
    BY <2>2 DEF expire_timer, TL!Fire, TL!Next
  <2>3. CASE RR_proc_tick
    BY <2>3 DEF RR_proc_tick, TL!Return, TL!Next
  <2> QED BY <1>3, <2>1, <2>2, <2>3 DEF InterruptStep
<1>4. CASE UserStep
  <2>1. CASE sys_sleep
    BY <2>1, SleepStartsTimer DEF sys_sleep, InUser
  <2>2. CASE sys_fork \/ sys_exit
    BY <2>2, <1>1 DEF sys_fork, do_fork, sys_exit, Exit, do_exit, init_exit
  <2>3. CASE sys_wait \/ sys_kill \/ sys_yield \/ sys_other
    BY <2>3, <1>1 DEF sys_wait, sys_kill, do_kill, sys_yield, do_yield, sys_other
  <2> QED BY <1>4, <2>1, <2>2, <2>3 DEF UserStep
<1>5. CASE UNCHANGED vars
  BY <1>5, <1>1 DEF vars
<1> QED BY <1>2, <1>3, <1>4, <1>5 DEF Next, KernelStep, Stopped

\* The scheduler's sleepers implement Timers: who asks for t ticks is woken in
\* the t-th clock interrupt, unless it has gone before.
THEOREM SleepersImplementTimers == Spec => SleepersTimed
<1>1. Init => TL!Init
  BY DEF Init, TL!Init
<1> QED BY <1>1, StepOfTimers, Invariance, PTL DEF Spec, SleepersTimed, TL!Spec
-----------------------------------------------------------------------------
(* Refinement of Family *)

\* A step that moves nobody into or out of FREE and ZOMBIE and no parent
\* pointer is invisible to Family.
LEMMA FamilyUntouched ==
  ASSUME parent' = parent,
         \A q \in Slots : (state'[q] = "FREE" <=> state[q] = "FREE")
                        /\ (state'[q] = "ZOMBIE" <=> state[q] = "ZOMBIE")
  PROVE  UNCHANGED FT!vars
<1>1. lifeBar' = lifeBar
  BY DEF lifeBar
<1>2. parentBar' = parentBar
  BY DEF parentBar
<1> QED BY <1>1, <1>2 DEF FT!vars

LEMMA ForkOfFamily ==
  ASSUME IInv, NEW q \in Slots, NEW l, do_fork(q, l), pc[current] \in {"user", "init"}
  PROVE  FT!Next
<1>1. state[current] = "RUNNABLE" /\ current \in Slots \cup {initproc}
  BY RunningFacts DEF IInv, TypeOK, Procs, StackShape, SchedPoints
<1>2. /\ state[q] = "FREE" /\ q # current
      /\ state' = [state EXCEPT ![q] = "RUNNABLE"] /\ parent' = [parent EXCEPT ![q] = current]
      /\ state \in [Procs -> States] /\ parent \in [Procs -> Procs] /\ q \in Procs
  BY <1>1 DEF do_fork, IInv, TypeOK, Procs
<1>3. lifeBar' = [lifeBar EXCEPT ![q] = "live"] /\ lifeBar[q] = "none"
  BY <1>2 DEF lifeBar, Procs
<1>4. parentBar' = [parentBar EXCEPT ![q] = current]
  BY <1>2 DEF parentBar, Procs
<1>5. FT!Alive(current)
  BY <1>1 DEF FT!Alive, lifeBar
<1>6. FT!Fork(current, q)
  BY <1>3, <1>4, <1>5 DEF FT!Fork
<1> QED BY <1>1, <1>6 DEF FT!Next

LEMMA ExitOfFamily ==
  ASSUME IInv, do_exit, pc[current] \notin SchedPoints
  PROVE  FT!Next
<1>1. state[current] = "RUNNABLE" /\ current \in Slots /\ current # initproc
  BY RunningFacts, ProcsAssumption DEF do_exit, IInv, TypeOK, Procs
<1>2. /\ state'[current] = "ZOMBIE"
      /\ \A p \in Slots : p # current =>
           state'[p] = state[p] \/ (state'[p] = "RUNNABLE" /\ wait_state[p] = "WT_CHILD")
  BY <1>1 DEF do_exit, WakesParent, WakesInit, Procs
<1>3. \A p \in Slots : wait_state[p] = "WT_CHILD" => state[p] = "SLEEPING"
  BY DEF IInv, StateShape, Procs
<1>4. lifeBar' = [lifeBar EXCEPT ![current] = "zombie"]
  BY <1>1, <1>2, <1>3 DEF lifeBar
<1>5. \A p \in Slots : parent'[p] = IF state[p] # "FREE" /\ parent[p] = current THEN initproc ELSE parent[p]
  BY DEF do_exit, Heir, Children, Procs
<1>6. parentBar' = [p \in Slots |-> IF parentBar[p] = current THEN initproc ELSE parentBar[p]]
  BY <1>1, <1>2, <1>3, <1>5 DEF parentBar
<1>7. lifeBar[current] = "live"
  BY <1>1 DEF lifeBar
<1>8. FT!Exit(current)
  BY <1>4, <1>6, <1>7 DEF FT!Exit
<1> QED BY <1>1, <1>8 DEF FT!Next

LEMMA ReapOfFamily ==
  ASSUME IInv, NEW q \in Slots, wait_reap(q)
  PROVE  FT!Next
<1>1. state[current] = "RUNNABLE" /\ current \in Slots \cup {initproc}
  BY RunningFacts DEF wait_reap, IInv, TypeOK, Procs, StackShape, SchedPoints
<1>2. /\ state[q] = "ZOMBIE" /\ parent[q] = current
      /\ state' = [state EXCEPT ![q] = "FREE"] /\ parent' = [parent EXCEPT ![q] = idleproc]
      /\ state \in [Procs -> States] /\ parent \in [Procs -> Procs] /\ q \in Procs
  BY DEF wait_reap, Waited, Children, IInv, TypeOK, Procs
<1>3. lifeBar' = [lifeBar EXCEPT ![q] = "none"] /\ lifeBar[q] = "zombie"
  BY <1>2 DEF lifeBar, Procs
<1>4. parentBar' = [parentBar EXCEPT ![q] = initproc] /\ parentBar[q] = current
  BY <1>2 DEF parentBar, Procs
<1>5. FT!Alive(current)
  BY <1>1 DEF FT!Alive, lifeBar
<1>6. FT!Reap(current, q)
  BY <1>3, <1>4, <1>5 DEF FT!Reap
<1> QED BY <1>1, <1>6 DEF FT!Next

\* Each step is a fork, an exit or a reaping, or leaves the families alone.
LEMMA StepOfFamily == IInv /\ [Next]_vars => [FT!Next]_FT!vars
<1> SUFFICES ASSUME IInv, [Next]_vars PROVE FT!Next \/ UNCHANGED FT!vars
  OBVIOUS
<1>0. state \in [Procs -> States] /\ current \in Procs /\ Slots \subseteq Procs
  BY DEF IInv, TypeOK, Procs
<1>1. ASSUME UNCHANGED procVars PROVE UNCHANGED FT!vars
  BY <1>1, FamilyUntouched DEF procVars
<1>2. ASSUME NEW t, do_sleep(t), pc[current] \notin SchedPoints PROVE UNCHANGED FT!vars
  BY <1>0, <1>2, RunningFacts, FamilyUntouched DEF do_sleep
<1>3. ASSUME NEW p \in Procs, state[p] \in {"RUNNABLE", "SLEEPING"}, wakeup_proc(p), parent' = parent
      PROVE  UNCHANGED FT!vars
  BY <1>0, <1>3, FamilyUntouched DEF wakeup_proc
<1>4. ASSUME Exit, pc[current] \notin SchedPoints PROVE FT!Next \/ UNCHANGED FT!vars
  BY <1>1, <1>4, ExitOfFamily DEF Exit, init_exit
<1>5. CASE irq = "off" /\ KernelStep
  <2>1. CASE kthread_sleep
    BY <1>2, <2>1 DEF kthread_sleep, InBody, SchedPoints
  <2>2. CASE init_spawn
    BY <2>2, ForkOfFamily DEF init_spawn
  <2>3. CASE exit_killed
    BY <2>3, <1>4 DEF exit_killed, SchedPoints
  <2>4. CASE kthread_exit
    BY <2>4, ExitOfFamily DEF kthread_exit, InBody, SchedPoints
  <2>5. CASE wait_sleep
    BY <1>0, <2>5, RunningFacts, FamilyUntouched DEF wait_sleep, SchedPoints
  <2>6. CASE schedule \/ trap_resume \/ wait_nochild \/ wait_repeat \/ sleep_done \/ init_wait \/ kernel_execve
    BY <2>6, <1>1
       DEF schedule, trap_resume, wait_nochild, wait_repeat, sleep_done, init_wait, kernel_execve
  <2> QED BY <1>5, <2>1, <2>2, <2>3, <2>4, <2>5, <2>6, ReapOfFamily DEF KernelStep
<1>6. CASE InterruptStep
  <2>1. ASSUME NEW p \in Procs, expire_timer(p) PROVE UNCHANGED FT!vars
    BY <1>3, <2>1 DEF expire_timer, IInv, TimerInFrame
  <2> QED BY <1>1, <1>6, <2>1 DEF InterruptStep, timer_irq, RR_proc_tick
<1>7. CASE UserStep
  <2>1. CASE sys_sleep
    BY <1>2, <2>1 DEF sys_sleep, InUser, SchedPoints
  <2>2. CASE sys_fork
    BY <2>2, ForkOfFamily DEF sys_fork, InUser
  <2>3. CASE sys_exit
    BY <2>3, <1>4 DEF sys_exit, InUser, SchedPoints
  <2>4. ASSUME NEW p \in Procs, do_kill(p) PROVE UNCHANGED FT!vars
    <3>1. CASE Interruptible(p)
      BY <1>3, <2>4, <3>1 DEF do_kill, Interruptible, IInv, StateShape
    <3>2. CASE ~Interruptible(p)
      BY <2>4, <3>2, FamilyUntouched DEF do_kill
    <3> QED BY <3>1, <3>2
  <2>5. CASE sys_kill
    BY <2>4, <2>5, ProcsAssumption DEF sys_kill
  <2>6. CASE sys_wait \/ sys_yield \/ sys_other
    BY <1>1, <2>6 DEF sys_wait, sys_yield, do_yield, sys_other
  <2> QED BY <1>7, <2>1, <2>2, <2>3, <2>5, <2>6 DEF UserStep
<1>8. CASE UNCHANGED vars
  BY <1>1, <1>8 DEF vars
<1> QED BY <1>5, <1>6, <1>7, <1>8 DEF Next, KernelStep, Stopped

\* fork, exit, wait, kill and sleep, interleaved with the clock interrupt,
\* implement Family.
THEOREM ProcessesImplementFamily == Spec => FamilyKept
<1>1. Init => FT!Init
  BY DEF Init, FT!Init, lifeBar, parentBar, Procs
<1> QED BY <1>1, StepOfFamily, Invariance, PTL DEF Spec, FamilyKept, FT!Spec
=============================================================================
