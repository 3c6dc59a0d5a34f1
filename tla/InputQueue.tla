----------------------------- MODULE InputQueue -----------------------------
(***************************************************************************)
(* What the stdin device promises its readers, without the ring and the    *)
(* wait queue: the keys come out in the order they went in, each to one    *)
(* reader.  A key that finds the queue full takes the place of the oldest  *)
(* one that is still unread.                                               *)
(***************************************************************************)
EXTENDS Naturals, Sequences

CONSTANTS Readers, Chars, STDIN_BUFSIZE

VARIABLES
  pending,  \* the keys nobody has read, oldest first
  got       \* what each reader's last read has got so far

vars == <<pending, got>>

Init ==
  /\ pending = <<>>
  /\ got = [p \in Readers |-> <<>>]

Key(c) ==
  /\ pending' = IF Len(pending) < STDIN_BUFSIZE THEN Append(pending, c)
                ELSE [pending EXCEPT ![1] = c]
  /\ UNCHANGED got

\* p takes the k oldest keys, as the first of a new read or as more of one.
Take(p, k, before) ==
  /\ got' = [got EXCEPT ![p] = before \o SubSeq(pending, 1, k)]
  /\ pending' = SubSeq(pending, k + 1, Len(pending))

Next ==
  \/ \E c \in Chars : Key(c)
  \/ \E p \in Readers, k \in 0 .. Len(pending) : Take(p, k, <<>>) \/ Take(p, k, got[p])

Spec == Init /\ [][Next]_vars
=============================================================================
