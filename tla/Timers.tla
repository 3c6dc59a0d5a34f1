------------------------------- MODULE Timers -------------------------------
(***************************************************************************)
(* What the kernel timers promise, without the list that keeps them: a     *)
(* process that asks for t ticks is woken in the t-th clock interrupt from *)
(* then on, unless it takes its timer back before.                         *)
(***************************************************************************)
EXTENDS Naturals

CONSTANTS
  Procs,    \* the processes that may sleep
  MaxSleep  \* bound on the ticks asked for

VARIABLES
  left,   \* ticks left of each process's timer, 0 when it has none
  due,    \* the processes the running interrupt has still to wake
  irq     \* whether the clock interrupt is running: "off" or "on"

vars == <<left, due, irq>>

Init ==
  /\ left = [p \in Procs |-> 0]
  /\ due = {}
  /\ irq = "off"

Start(p, t) ==
  /\ irq = "off" /\ left[p] = 0
  /\ left' = [left EXCEPT ![p] = t]
  /\ UNCHANGED <<due, irq>>

Cancel(p) ==
  /\ irq = "off"
  /\ left' = [left EXCEPT ![p] = 0]
  /\ UNCHANGED <<due, irq>>

Tick ==
  /\ irq = "off"
  /\ irq' = "on"
  /\ due' = {p \in Procs : left[p] = 1}
  /\ left' = [p \in Procs |-> IF left[p] = 0 THEN 0 ELSE left[p] - 1]

Fire(p) ==
  /\ irq = "on" /\ p \in due
  /\ due' = due \ {p}
  /\ UNCHANGED <<left, irq>>

Return ==
  /\ irq = "on" /\ due = {}
  /\ irq' = "off"
  /\ UNCHANGED <<left, due>>

Next ==
  \/ \E p \in Procs : (\E t \in 1 .. MaxSleep : Start(p, t)) \/ Cancel(p) \/ Fire(p)
  \/ Tick
  \/ Return

Spec == Init /\ [][Next]_vars
=============================================================================
