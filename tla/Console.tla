------------------------------- MODULE Console -------------------------------
(***************************************************************************)
(* The console of kern/driver/console.c: the ring between the serial port  *)
(* and cons_getc, which the clock interrupt calls once a tick and getchar  *)
(* in a loop.  Interrupts are off in cons_getc, but keys go on arriving at *)
(* the port while it polls: one turn of the loop of cons_intr is one       *)
(* action.                                                                 *)
(*                                                                         *)
(* The port (the SBI firmware's) holds what has been typed until it is     *)
(* polled; Backlog bounds the keys that are typed and not yet handed out.  *)
(* owed and next are history: what a queue without end would hold, and     *)
(* what it would have answered to the last cons_getc.                      *)
(***************************************************************************)
EXTENDS Naturals, Sequences

CONSTANTS
  CONSBUFSIZE,  \* the size of the ring
  Keys,         \* the keys; "NUL" and "DEL" are special, "BS" is '\b'
  Backlog       \* bound on the keys that are waiting

\* cons_intr does not look at rpos: CONSBUFSIZE keys in the ring are none.
ConsoleAssumption ==
  CONSBUFSIZE \in Nat \ {0} /\ Backlog \in Nat /\ Backlog < CONSBUFSIZE

VARIABLES
  port,        \* typed, not yet polled
  buf, rpos, wpos,
  polling,     \* whether cons_getc is in the loop of cons_intr
  answer,      \* what cons_getc has returned last
  owed, next

console == <<port, buf, rpos, wpos, polling, answer, owed, next>>

Places == 0 .. (CONSBUFSIZE - 1)

\* serial_proc_data
Code(x) == IF x = "DEL" THEN "BS" ELSE x

\* cons_init has polled once; the ring is in the zeroed data segment.
ConsInit ==
  /\ port = <<>> /\ buf = [i \in Places |-> "NUL"]
  /\ rpos = 0 /\ wpos = 0 /\ polling = FALSE /\ answer = "NUL"
  /\ owed = <<>> /\ next = "NUL"

\* External: a key arrives at the port.
Type(x) ==
  /\ Len(port) < Backlog /\ Len(owed) < Backlog
  /\ port' = Append(port, x)
  /\ owed' = IF x = "NUL" THEN owed ELSE Append(owed, Code(x))
  /\ UNCHANGED <<buf, rpos, wpos, polling, answer, next>>

\* cons_getc begins with serial_intr.
serial_intr ==
  /\ ~polling
  /\ polling' = TRUE
  /\ UNCHANGED <<port, buf, rpos, wpos, answer, owed, next>>

\* A position that reaches the end of the ring starts again at 0.
Wrapped_late(i) == IF i > CONSBUFSIZE THEN 0 ELSE i
Wrapped(i) == IF i = CONSBUFSIZE THEN 0 ELSE i

\* One key of the port is put into the ring, unless it is '\0'.
cons_intr ==
  /\ polling /\ port # <<>>
  /\ port' = Tail(port)
  /\ IF Head(port) = "NUL" THEN UNCHANGED <<buf, wpos>>
     ELSE buf' = [buf EXCEPT ![wpos] = Code(Head(port))] /\ wpos' = Wrapped(wpos + 1)
  /\ UNCHANGED <<rpos, polling, answer, owed, next>>

\* Nothing is left at the port, and cons_getc takes the next key of the ring.
cons_getc ==
  /\ polling /\ port = <<>>
  /\ polling' = FALSE
  /\ IF rpos # wpos
     THEN answer' = buf[rpos] /\ rpos' = Wrapped(rpos + 1)
     ELSE answer' = "NUL" /\ UNCHANGED rpos
  /\ IF owed = <<>> THEN next' = "NUL" /\ UNCHANGED owed
     ELSE next' = Head(owed) /\ owed' = Tail(owed)
  /\ UNCHANGED <<port, buf, wpos>>

ConsNext == (\E x \in Keys : Type(x)) \/ serial_intr \/ cons_intr \/ cons_getc

ConsSpec == ConsInit /\ [][ConsNext]_console
-----------------------------------------------------------------------------
(* Properties *)

ConsTypeOK ==
  /\ Len(port) <= Backlog /\ Len(owed) <= Backlog
  /\ DOMAIN buf = Places /\ rpos \in Places /\ wpos \in Places

\* cons_getc's comment, "return the next input character from console, or 0 if
\* none waiting": the ring hands out what was typed, in order, each key once,
\* with '\0' dropped, DEL turned to '\b' and the place of every key inside buf.
NextOrNone == ConsTypeOK /\ answer = next
=============================================================================
