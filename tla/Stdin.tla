-------------------------------- MODULE Stdin --------------------------------
(***************************************************************************)
(* The stdin device of kern/fs/devs/dev_stdin.c over the wait queues of    *)
(* kern/sync/wait.c.  The clock interrupt writes one key at a time into a  *)
(* ring; a reader that finds it empty sleeps as WT_KBD, which do_kill may  *)
(* interrupt.                                                              *)
(*                                                                         *)
(* dev_stdin_read runs in a system call, interrupts off: one action is the *)
(* code up to its call of schedule(), or from there on.  Which process     *)
(* runs next is left open.                                                 *)
(***************************************************************************)
EXTENDS Naturals, Sequences, SequencesExt

CONSTANTS
  Readers,        \* the processes that read stdin
  Chars,          \* the keys, '\0' not among them
  STDIN_BUFSIZE,  \* the size of the ring
  MaxLen,         \* bound on the length of a read
  MaxPos          \* bound on the positions

StdinAssumption ==
  Chars # {} /\ STDIN_BUFSIZE \in Nat \ {0} /\ MaxLen \in Nat \ {0} /\ MaxPos \in Nat

VARIABLES
  stdin_buffer, p_rpos, p_wpos,
  wait_queue,    \* the processes whose wait_t is linked, first at the head
  wakeup_flags,  \* wait->wakeup_flags of each process
  status,        \* "out" of dev_stdin_read, in it "SLEEPING" or "RUNNABLE",
                 \* or "killed" out of it
  want,          \* len - ret
  got,           \* what has been copied to buf
  exiting        \* the processes with PF_EXITING

vars == <<stdin_buffer, p_rpos, p_wpos, wait_queue, wakeup_flags, status, want, got, exiting>>

TypeOK ==
  /\ stdin_buffer \in [0 .. STDIN_BUFSIZE - 1 -> Chars]
  /\ p_rpos \in 0 .. p_wpos
  /\ p_wpos \in p_rpos .. p_rpos + STDIN_BUFSIZE
  /\ wait_queue \in Seq(Readers)
  /\ wakeup_flags \in [Readers -> {"WT_INTERRUPTED", "WT_KBD"}]
  /\ status \in [Readers -> {"out", "SLEEPING", "RUNNABLE", "killed"}]
  /\ want \in [Readers -> 0 .. MaxLen]
  /\ got \in [Readers -> Seq(Chars)]
  /\ exiting \subseteq Readers

Init ==
  /\ stdin_buffer \in [0 .. STDIN_BUFSIZE - 1 -> {CHOOSE c \in Chars : TRUE}]
  /\ p_rpos = 0 /\ p_wpos = 0
  /\ wait_queue = <<>>
  /\ wakeup_flags = [p \in Readers |-> "WT_INTERRUPTED"]
  /\ status = [p \in Readers |-> "out"]
  /\ want = [p \in Readers |-> 0]
  /\ got = [p \in Readers |-> <<>>]
  /\ exiting = {}

\* The place of a position in the ring.
Slot_short(k) == k % (STDIN_BUFSIZE - 1)
Slot(k) == k % STDIN_BUFSIZE

HasRoom == p_wpos - p_rpos < STDIN_BUFSIZE

\* Those that wakeup_queue(wait_queue, WT_KBD, 1) takes off the queue, first at
\* the head: all of the waiters.
Woken_first == IF wait_queue = <<>> THEN <<>> ELSE <<Head(wait_queue)>>
Woken == wait_queue

\* The character goes into the ring in any case; a full ring does not grow.
dev_stdin_write(c) ==
  /\ HasRoom => p_wpos < MaxPos
  /\ stdin_buffer' = [stdin_buffer EXCEPT ![Slot(p_wpos)] = c]
  /\ p_wpos' = IF HasRoom THEN p_wpos + 1 ELSE p_wpos
  /\ wait_queue' = SubSeq(wait_queue, Len(Woken) + 1, Len(wait_queue))
  /\ wakeup_flags' = [p \in Readers |-> IF p \in ToSet(Woken) THEN "WT_KBD" ELSE wakeup_flags[p]]
  /\ status' = [p \in Readers |-> IF p \in ToSet(Woken) THEN "RUNNABLE" ELSE status[p]]
  /\ UNCHANGED <<p_rpos, want, got, exiting>>

\* Back to the system call's end, where PF_EXITING is looked at.
Outside(p) == IF p \in exiting THEN "killed" ELSE "out"

\* The loop of dev_stdin_read with n characters to go, those before already
\* copied and q the waiters: to the end, or as far as the ring goes and to
\* sleep.
Loop(p, n, before, q) ==
  LET here == p_wpos - p_rpos
      k    == IF n <= here THEN n ELSE here
  IN  /\ got' = [got EXCEPT ![p] = before \o [i \in 1 .. k |-> stdin_buffer[Slot(p_rpos + i - 1)]]]
      /\ p_rpos' = p_rpos + k
      /\ want' = [want EXCEPT ![p] = n - k]
      /\ IF k = n
         THEN /\ status' = [status EXCEPT ![p] = Outside(p)]
              /\ wait_queue' = q
              /\ UNCHANGED wakeup_flags
         ELSE /\ status' = [status EXCEPT ![p] = "SLEEPING"]
              /\ wait_queue' = Append(q, p)
              /\ wakeup_flags' = [wakeup_flags EXCEPT ![p] = "WT_INTERRUPTED"]
      /\ UNCHANGED <<stdin_buffer, p_wpos, exiting>>

dev_stdin_read(p, n) ==
  /\ status[p] = "out"
  /\ Loop(p, n, <<>>, wait_queue)

\* wait_current_del: a wait_t that a key has taken off is not in the queue.
Unlinked(p) == RemoveFirst(wait_queue, p)

\* Back from schedule(), woken by a key ...
read_again(p) ==
  /\ status[p] = "RUNNABLE"
  /\ wakeup_flags[p] = "WT_KBD"
  /\ Loop(p, want[p], got[p], Unlinked(p))

\* ... or by do_kill.
read_interrupted(p) ==
  /\ status[p] = "RUNNABLE"
  /\ wakeup_flags[p] # "WT_KBD"
  /\ status' = [status EXCEPT ![p] = Outside(p)]
  /\ wait_queue' = Unlinked(p)
  /\ UNCHANGED <<stdin_buffer, p_rpos, p_wpos, wakeup_flags, want, got, exiting>>

\* do_kill of a process that is in dev_stdin_read: it is woken if it sleeps.
\* Its wait_t stays linked until it runs.  ProcSched has the other cases.
do_kill(p) ==
  /\ status[p] \in {"SLEEPING", "RUNNABLE"}
  /\ p \notin exiting
  /\ exiting' = exiting \cup {p}
  /\ status' = [status EXCEPT ![p] = "RUNNABLE"]
  /\ UNCHANGED <<stdin_buffer, p_rpos, p_wpos, wait_queue, wakeup_flags, want, got>>

Next ==
  \/ \E c \in Chars : dev_stdin_write(c)
  \/ \E p \in Readers :
       \/ \E n \in 1 .. MaxLen : dev_stdin_read(p, n)
       \/ read_again(p) \/ read_interrupted(p) \/ do_kill(p)

Spec == Init /\ [][Next]_vars

\* A runnable process runs (NoStarvation of ProcSched); nobody has to type.
FairSpec == Spec /\ \A p \in Readers : WF_vars(read_again(p) \/ read_interrupted(p))
-----------------------------------------------------------------------------
(* Properties *)

\* A wait_t lies on the reader's stack: it is linked, once, while the reader
\* sleeps and never once it has left dev_stdin_read, so that wait_queue_add
\* and wait_queue_del meet what they assert.
WaitLinked ==
  /\ TypeOK
  /\ IsInjective(wait_queue)
  /\ \A p \in Readers :
       /\ status[p] = "SLEEPING" => p \in ToSet(wait_queue)
       /\ p \in ToSet(wait_queue) => \/ status[p] = "SLEEPING"
                                     \/ status[p] = "RUNNABLE" /\ p \in exiting

\* No reader waits while there is something to read, however many readers
\* compete for the keys and whoever is killed, and
\* every sleeping reader can be found by the next key.
NoInputAsleep ==
  /\ WaitLinked
  /\ \A p \in Readers : status[p] = "SLEEPING" => p_rpos = p_wpos

\* The ring is a queue: it implements InputQueue.
Q == INSTANCE InputQueue WITH
       pending <- [i \in 1 .. p_wpos - p_rpos |-> stdin_buffer[Slot(p_rpos + i - 1)]]
ImplementsInput == Q!Spec

\* do_kill's path in the header of proc.c, "-->wakeup_proc-->do_wait-->do_exit":
\* a reader killed in its sleep leaves the device, to end at the end of trap().
KilledReaderLeaves ==
  \A p \in Readers : p \in exiting ~> status[p] \notin {"SLEEPING", "RUNNABLE"}
=============================================================================
