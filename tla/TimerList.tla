------------------------------ MODULE TimerList ------------------------------
(***************************************************************************)
(* The timer list of kern/schedule/sched.c: add_timer, del_timer and       *)
(* run_timer_list.  Each entry keeps the ticks left after the entry before *)
(* it, so a clock interrupt touches only the head.  Each function runs     *)
(* with interrupts off; one action is one call, and for run_timer_list one *)
(* turn of its loop.                                                       *)
(*                                                                         *)
(* The only user is do_sleep, whose timer_t lies on the sleeper's stack:   *)
(* it adds it, calls schedule(), and deletes it when it runs again, woken  *)
(* by the timer or by do_kill.                                             *)
(***************************************************************************)
EXTENDS Naturals, Sequences, SequencesExt, FiniteSetsExt

CONSTANTS
  Sleepers, \* the processes that may sleep, each with one timer
  MaxSleep  \* bound on the ticks asked for

SleepAssumption == MaxSleep \in Nat \ {0}

VARIABLES
  timer_list,  \* the processes whose timers are linked, head first
  expires,     \* timer->expires of each process's timer
  asleep,      \* the processes between add_timer and del_timer in do_sleep
  irq          \* whether run_timer_list is running: "off" or "on"

timers == <<timer_list, expires, asleep, irq>>

Linked(p) == \E k \in 1 .. Len(timer_list) : timer_list[k] = p
PlaceOf(p) == CHOOSE k \in 1 .. Len(timer_list) : timer_list[k] = p

TimersOK ==
  /\ timer_list \in Seq(Sleepers) /\ IsInjective(timer_list)
  /\ expires \in [Sleepers -> 0 .. MaxSleep]
  /\ asleep \subseteq Sleepers
  /\ irq \in {"off", "on"}
  /\ \A p \in Sleepers : Linked(p) => p \in asleep

TimerInit ==
  /\ timer_list = <<>>
  /\ expires = [p \in Sleepers |-> 0]
  /\ asleep = {}
  /\ irq = "off"

\* The ticks up to the k-th entry.
UpTo[k \in 0 .. Len(timer_list)] ==
  IF k = 0 THEN 0 ELSE UpTo[k - 1] + expires[timer_list[k]]

\* The loop of add_timer takes the ticks of the entries it passes off t: it
\* stops at the first entry that has more than what is then left.
Stop(t) == Min({k \in 1 .. (Len(timer_list) + 1) : k <= Len(timer_list) => t < UpTo[k]})
Walk(t) == [at |-> Stop(t), rest |-> t - UpTo[Stop(t) - 1]]

\* The new timer takes its rest from the entry it is put before.
Pushed_whole(p, w) == [expires EXCEPT ![p] = w.rest]
Pushed(p, w) ==
  [q \in Sleepers |->
    IF q = p THEN w.rest
    ELSE IF w.at <= Len(timer_list) /\ q = timer_list[w.at] THEN expires[q] - w.rest
    ELSE expires[q]]

add_timer(p, t) ==
  LET w == Walk(t)
  IN  /\ irq = "off"
      /\ p \notin asleep
      /\ timer_list' = InsertAt(timer_list, w.at, p)
      /\ expires' = Pushed(p, w)
      /\ asleep' = asleep \cup {p}
      /\ UNCHANGED irq

\* An entry that goes leaves its ticks to the next one.
Inherits(p, q) == PlaceOf(p) < Len(timer_list) /\ q = timer_list[PlaceOf(p) + 1]

del_timer(p) ==
  /\ irq = "off"
  /\ p \in asleep
  /\ asleep' = asleep \ {p}
  /\ IF Linked(p)
     THEN /\ expires' = [q \in Sleepers |-> IF Inherits(p, q) THEN expires[q] + expires[p] ELSE expires[q]]
          /\ timer_list' = RemoveAt(timer_list, PlaceOf(p))
     ELSE UNCHANGED <<timer_list, expires>>
  /\ UNCHANGED irq

\* run_timer_list takes a tick off the head ...
run_timer_list ==
  /\ irq = "off"
  /\ irq' = "on"
  /\ expires' = IF timer_list = <<>> THEN expires
                ELSE [expires EXCEPT ![Head(timer_list)] = @ - 1]
  /\ UNCHANGED <<timer_list, asleep>>

\* ... and wakes and unlinks the entries at the head that have none left.
HeadDue == timer_list # <<>> /\ expires[Head(timer_list)] = 0

expire_head ==
  /\ irq = "on" /\ HeadDue
  /\ timer_list' = Tail(timer_list)
  /\ UNCHANGED <<expires, asleep, irq>>

run_timer_list_end ==
  /\ irq = "on" /\ ~HeadDue
  /\ irq' = "off"
  /\ UNCHANGED <<timer_list, expires, asleep>>

TimerNext ==
  \/ \E p \in Sleepers : (\E t \in 1 .. MaxSleep : add_timer(p, t)) \/ del_timer(p)
  \/ run_timer_list
  \/ expire_head
  \/ run_timer_list_end

TimerSpec == TimerInit /\ [][TimerNext]_timers
-----------------------------------------------------------------------------
(* Properties *)

\* assert(timer->expires != 0) in run_timer_list: outside the interrupt the
\* head has ticks left, whatever was added, deleted or has fired before, and
\* only sleepers' timers are linked.
HeadNotDue == TimersOK /\ (irq = "off" => ~HeadDue)

\* The list of differences keeps every sleeper's ticks: it implements Timers.
leftBar == [p \in Sleepers |-> IF Linked(p) THEN UpTo[PlaceOf(p)] ELSE 0]
dueBar  == {p \in Sleepers : irq = "on" /\ Linked(p) /\ leftBar[p] = 0}
Ticks == INSTANCE Timers WITH Procs <- Sleepers, left <- leftBar, due <- dueBar

\* Every process is woken in exactly the tick it asked for, no matter which
\* other timers are added or deleted in between, and run_timer_list's assertion
\* holds all the time.
ImplementsTimers == []HeadNotDue /\ Ticks!Spec
=============================================================================
