----------------------------- MODULE DeviceProofs -----------------------------
(***************************************************************************)
(* NoInputAsleep of Stdin, and that the ring is a queue (InputQueue), for  *)
(* any number of readers, any ring and reads of any length.                *)
(* NoInputAsleep is inductive as it stands.  And NextOrNone of Console for *)
(* a ring of any size: the ring and the port hold together what is owed.   *)
(* And RefsExact of OpenFiles for any tree, any processes and tables of    *)
(* any size: what one process names and what the rest names add up.        *)
(***************************************************************************)
EXTENDS OpenFiles, Stdin, Console, QueueLemmas, FiniteSetTheorems

-----------------------------------------------------------------------------
(* The ring *)

\* Places in a ring of B entries.
LEMMA DivMod == ASSUME NEW B \in Nat \ {0}, NEW a \in Nat
  PROVE /\ a = B * (a \div B) + (a % B) /\ a \div B \in Int /\ a % B \in 0 .. B - 1
OBVIOUS

LEMMA DivModUnique ==
  ASSUME NEW B \in Nat \ {0}, NEW q \in Int, NEW r \in 0 .. B - 1, NEW s \in Int, NEW t \in 0 .. B - 1,
         B * q + r = B * s + t
  PROVE  q = s /\ r = t
<1>1. ASSUME NEW x \in Int, NEW y \in Int, x < y PROVE B * x + B <= B * y
  <2>1. y = x + 1 + (y - x - 1) /\ y - x - 1 \in Nat
    BY <1>1
  <2>2. \A k \in Nat : B * k >= 0
    OBVIOUS
  <2>3. B * (x + 1 + (y - x - 1)) = B * x + B + B * (y - x - 1)
    OBVIOUS
  <2> QED BY <2>1, <2>2, <2>3
<1>2. ~(q < s) /\ ~(s < q)
  BY <1>1
<1> QED BY <1>2

\* B positions on is the same place.
LEMMA Wraps == ASSUME NEW B \in Nat \ {0}, NEW a \in Nat PROVE (a + B) % B = a % B
<1> DEFINE q == a \div B
           r == a % B
           s == (a + B) \div B
           t == (a + B) % B
<1>1. a = B * q + r /\ q \in Int /\ r \in 0 .. B - 1
  BY DivMod
<1>2. a + B \in Nat
  OBVIOUS
<1>3. a + B = B * s + t /\ s \in Int /\ t \in 0 .. B - 1
  BY <1>2, DivMod
<1> HIDE DEF q, r, s, t
<1>4. B * (q + 1) + r = B * s + t /\ q + 1 \in Int
  BY <1>1, <1>3
<1>5. r = t
  BY <1>1, <1>3, <1>4, DivModUnique
<1> QED BY <1>5 DEF r, t

\* Fewer than B positions apart are different places.
LEMMA Apart ==
  ASSUME NEW B \in Nat \ {0}, NEW a \in Nat, NEW b \in Nat, a < b, b < a + B
  PROVE  b % B # a % B
<1> SUFFICES ASSUME b % B = a % B PROVE FALSE
  OBVIOUS
<1> DEFINE q == a \div B
           r == a % B
           s == b \div B
<1>1. a = B * q + r /\ q \in Int /\ r \in 0 .. B - 1
  BY DivMod
<1>2. b = B * s + r /\ s \in Int
  BY DivMod
<1> HIDE DEF q, r, s
<1>3. B * s + 0 = B * q + (b - a) /\ b - a \in 0 .. B - 1 /\ 0 \in 0 .. B - 1
  BY <1>1, <1>2
<1>4. 0 = b - a
  BY <1>1, <1>2, <1>3, DivModUnique
<1> QED BY <1>4
-----------------------------------------------------------------------------
(* The wait queue *)

LEMMA ToSetIsRange == \A q : ToSet(q) = Range(q)
BY DEF ToSet, Range

\* wait_current_del takes the reader off, and nobody else.
LEMMA UnlinkedFacts ==
  ASSUME NoInputAsleep, NEW p \in Readers
  PROVE  /\ Unlinked(p) \in Seq(Readers)
         /\ IsInjective(Unlinked(p))
         /\ ToSet(Unlinked(p)) = ToSet(wait_queue) \ {p}
<1> DEFINE q == wait_queue
<1>1. q \in Seq(Readers) /\ IsInjective(q) /\ Len(q) \in Nat /\ DOMAIN q = 1 .. Len(q)
  BY DEF NoInputAsleep, WaitLinked, TypeOK
<1>2. CASE p \notin ToSet(q)
  <2>1. Unlinked(p) = q
    BY <1>1, <1>2 DEF Unlinked, RemoveFirst, ToSet
  <2> QED BY <1>1, <1>2, <2>1
<1>3. CASE p \in ToSet(q)
  <2>1. PICK k \in 1 .. Len(q) : q[k] = p
    BY <1>1, <1>3 DEF ToSet
  <2>2. {i \in 1 .. Len(q) : q[i] = p} = {k}
    BY <1>1, <2>1 DEF IsInjective
  <2>3. SelectInSeq(q, LAMBDA v : v = p) = k
    BY <2>2 DEF SelectInSeq, Min
  <2>4. Unlinked(p) = SubSeq(q, 1, k - 1) \o SubSeq(q, k + 1, Len(q))
    BY <2>1, <2>3 DEF Unlinked, RemoveFirst, RemoveAt
  <2> QED BY <1>1, <2>1, <2>4, RemoveFacts, ToSetIsRange
<1> QED BY <1>2, <1>3
-----------------------------------------------------------------------------
(* The steps *)

LEMMA InitStep == StdinAssumption /\ Init => NoInputAsleep
<1> SUFFICES ASSUME StdinAssumption, Init PROVE NoInputAsleep
  OBVIOUS
<1> USE DEF Init, StdinAssumption
<1>1. (CHOOSE c \in Chars : TRUE) \in Chars
  OBVIOUS
<1>2. TypeOK
  BY <1>1 DEF TypeOK
<1>3. ToSet(<<>>) = {} /\ IsInjective(<<>>)
  BY DEF ToSet, IsInjective
<1> QED BY <1>2, <1>3 DEF NoInputAsleep, WaitLinked

\* A key wakes everybody that waits.
LEMMA WriteStep ==
  ASSUME StdinAssumption, NoInputAsleep, NEW c \in Chars, dev_stdin_write(c)
  PROVE  NoInputAsleep'
<1> USE DEF NoInputAsleep, WaitLinked, StdinAssumption
<1>1. wait_queue' = <<>>
  <2>1. wait_queue' = SubSeq(wait_queue, Len(wait_queue) + 1, Len(wait_queue))
    BY DEF dev_stdin_write, Woken
  <2> QED BY <2>1, SubSeqEmpty DEF TypeOK
<1>2. \A p \in Readers : status'[p] = IF p \in ToSet(wait_queue) THEN "RUNNABLE" ELSE status[p]
  BY DEF dev_stdin_write, Woken
<1>3. TypeOK'
  <2>1. Slot(p_wpos) \in 0 .. STDIN_BUFSIZE - 1
    BY DivMod DEF Slot, TypeOK
  <2> QED BY <1>1, <2>1 DEF dev_stdin_write, TypeOK, HasRoom
<1>4. ToSet(<<>>) = {} /\ IsInjective(<<>>)
  BY DEF ToSet, IsInjective
<1> QED BY <1>1, <1>2, <1>3, <1>4

\* The loop of dev_stdin_read, entered with before and q: the characters come
\* out of the ring, and whoever goes to sleep has emptied it.
LEMMA LoopStep ==
  ASSUME StdinAssumption, NoInputAsleep, NEW p \in Readers, NEW n \in 0 .. MaxLen,
         NEW before \in Seq(Chars), NEW q \in Seq(Readers), Loop(p, n, before, q),
         IsInjective(q), ToSet(q) = ToSet(wait_queue) \ {p}, status[p] # "SLEEPING"
  PROVE  NoInputAsleep'
<1> USE DEF NoInputAsleep, WaitLinked, StdinAssumption
<1> DEFINE here == p_wpos - p_rpos
           k == IF n <= here THEN n ELSE here
           new == [i \in 1 .. k |-> stdin_buffer[Slot(p_rpos + i - 1)]]
<1>1. /\ p_rpos \in Nat /\ p_wpos \in Nat /\ here \in 0 .. STDIN_BUFSIZE /\ k \in 0 .. here /\ k <= n
      /\ (k = n \/ k = here) /\ n \in Nat
  BY DEF TypeOK
<1>2. new \in Seq(Chars)
  <2>1. \A i \in 1 .. k : stdin_buffer[Slot(p_rpos + i - 1)] \in Chars
    <3> SUFFICES ASSUME NEW i \in 1 .. k PROVE stdin_buffer[Slot(p_rpos + i - 1)] \in Chars
      OBVIOUS
    <3>1. p_rpos + i - 1 \in Nat
      BY <1>1
    <3>2. Slot(p_rpos + i - 1) \in 0 .. STDIN_BUFSIZE - 1
      BY <3>1, DivMod DEF Slot
    <3> QED BY <3>2 DEF TypeOK
  <2> QED BY <1>1, <2>1, SeqDef
<1>3. /\ got' = [got EXCEPT ![p] = before \o new]
      /\ p_rpos' = p_rpos + k
      /\ want' = [want EXCEPT ![p] = n - k]
      /\ \/ /\ k = n /\ status' = [status EXCEPT ![p] = Outside(p)]
            /\ wait_queue' = q /\ wakeup_flags' = wakeup_flags
         \/ /\ k # n /\ status' = [status EXCEPT ![p] = "SLEEPING"]
            /\ wait_queue' = Append(q, p) /\ wakeup_flags' = [wakeup_flags EXCEPT ![p] = "WT_INTERRUPTED"]
      /\ UNCHANGED <<stdin_buffer, p_wpos, exiting>>
  BY DEF Loop
<1> HIDE DEF k, new, here
<1>4. got' \in [Readers -> Seq(Chars)]
  BY <1>2, <1>3 DEF TypeOK
<1>5. Outside(p) \in {"out", "killed"}
  BY DEF Outside
<1>6. /\ wait_queue' \in Seq(Readers) /\ IsInjective(wait_queue')
      /\ ToSet(wait_queue') = (IF k = n THEN ToSet(q) ELSE ToSet(q) \cup {p})
  <2>1. CASE k = n
    BY <1>3, <2>1
  <2>2. CASE k # n
    <3>1. wait_queue' = Append(q, p) /\ p \notin Range(q)
      BY <1>3, <2>2, ToSetIsRange
    <3>2. Append(q, p) \in Seq(Readers) /\ Range(Append(q, p)) = Range(q) \cup {p} /\ IsInjective(Append(q, p))
      BY <3>1, AppendFacts
    <3> QED BY <2>2, <3>1, <3>2, ToSetIsRange
  <2> QED BY <2>1, <2>2
<1>7. TypeOK'
  <2>1. n - k \in 0 .. MaxLen
    BY <1>1
  <2>2. want' \in [Readers -> 0 .. MaxLen]
    BY <1>3, <2>1 DEF TypeOK
  <2>3. p_rpos' \in 0 .. p_wpos' /\ p_wpos' \in p_rpos' .. (p_rpos' + STDIN_BUFSIZE)
    BY <1>1, <1>3 DEF here
  <2>4. /\ wakeup_flags' \in [Readers -> {"WT_INTERRUPTED", "WT_KBD"}]
        /\ status' \in [Readers -> {"out", "SLEEPING", "RUNNABLE", "killed"}]
    BY <1>3, <1>5 DEF TypeOK
  <2> QED BY <1>3, <1>4, <1>6, <2>2, <2>3, <2>4 DEF TypeOK
<1>8. \A r \in Readers : r # p => status'[r] = status[r]
  BY <1>3 DEF TypeOK
<1>9. status'[p] = IF k = n THEN Outside(p) ELSE "SLEEPING"
  BY <1>3 DEF TypeOK
<1>10. ASSUME NEW r \in Readers, status'[r] = "SLEEPING" PROVE p_rpos' = p_wpos'
  <2>1. CASE r = p
    BY <1>1, <1>3, <1>5, <1>9, <1>10, <2>1 DEF here
  <2>2. CASE r # p
    BY <1>1, <1>3, <1>8, <1>10, <2>2 DEF here
  <2> QED BY <2>1, <2>2
<1> QED BY <1>3, <1>5, <1>6, <1>7, <1>8, <1>9, <1>10

LEMMA NextStep == StdinAssumption /\ NoInputAsleep /\ [Next]_vars => NoInputAsleep'
<1> SUFFICES ASSUME StdinAssumption, NoInputAsleep, [Next]_vars PROVE NoInputAsleep'
  OBVIOUS
<1>1. ASSUME NEW p \in Readers, NEW n \in 1 .. MaxLen, dev_stdin_read(p, n) PROVE NoInputAsleep'
  <2>1. status[p] = "out" /\ Loop(p, n, <<>>, wait_queue) /\ n \in 0 .. MaxLen /\ <<>> \in Seq(Chars)
    BY <1>1 DEF dev_stdin_read, StdinAssumption
  <2>2. /\ wait_queue \in Seq(Readers) /\ IsInjective(wait_queue)
        /\ ToSet(wait_queue) = ToSet(wait_queue) \ {p}
    BY <2>1 DEF NoInputAsleep, WaitLinked, TypeOK
  <2> QED BY <2>1, <2>2, LoopStep
<1>2. ASSUME NEW p \in Readers, read_again(p) PROVE NoInputAsleep'
  <2>1. /\ status[p] = "RUNNABLE" /\ Loop(p, want[p], got[p], Unlinked(p))
        /\ want[p] \in 0 .. MaxLen /\ got[p] \in Seq(Chars)
    BY <1>2 DEF read_again, NoInputAsleep, WaitLinked, TypeOK
  <2> QED BY <2>1, LoopStep, UnlinkedFacts
<1>3. ASSUME NEW p \in Readers, read_interrupted(p) PROVE NoInputAsleep'
  <2>1. /\ wait_queue' \in Seq(Readers) /\ IsInjective(wait_queue')
        /\ ToSet(wait_queue') = ToSet(wait_queue) \ {p}
    BY <1>3, UnlinkedFacts DEF read_interrupted
  <2>2. status' = [status EXCEPT ![p] = Outside(p)] /\ Outside(p) \in {"out", "killed"}
    BY <1>3 DEF read_interrupted, Outside
  <2>3. UNCHANGED <<stdin_buffer, p_rpos, p_wpos, wakeup_flags, want, got, exiting>>
    BY <1>3 DEF read_interrupted
  <2> QED BY <2>1, <2>2, <2>3 DEF NoInputAsleep, WaitLinked, TypeOK
<1>4. ASSUME NEW p \in Readers, do_kill(p) PROVE NoInputAsleep'
  BY <1>4 DEF do_kill, NoInputAsleep, WaitLinked, TypeOK
<1>5. ASSUME UNCHANGED vars PROVE NoInputAsleep'
  BY <1>5 DEF vars, NoInputAsleep, WaitLinked, TypeOK
<1> QED BY <1>1, <1>2, <1>3, <1>4, <1>5, WriteStep DEF Next

\* dev_stdin_read and dev_stdin_write: no reader sleeps while there is a key to
\* be read, whoever competes for the keys and whoever is killed, and the wait
\* queue holds exactly the wait_t of those that sleep or have been killed in
\* their sleep.
THEOREM NeverInputAsleep == ASSUME StdinAssumption PROVE Spec => []NoInputAsleep
<1>1. Init => NoInputAsleep
  BY InitStep
<1>2. NoInputAsleep /\ [Next]_vars => NoInputAsleep'
  BY NextStep
<1> QED BY <1>1, <1>2, PTL DEF Spec
-----------------------------------------------------------------------------
(* The ring as a queue *)

\* The keys in the ring b from position r up to w: what Q's pending stands for.
Unread(b, r, w) == [i \in 1 .. w - r |-> b[Slot(r + i - 1)]]

RingOK(b, r, w) ==
  /\ b \in [0 .. STDIN_BUFSIZE - 1 -> Chars]
  /\ STDIN_BUFSIZE \in Nat \ {0}
  /\ r \in Nat /\ w \in Nat /\ r <= w /\ w <= r + STDIN_BUFSIZE

LEMMA SlotType == ASSUME STDIN_BUFSIZE \in Nat \ {0}, NEW k \in Nat
  PROVE Slot(k) \in 0 .. STDIN_BUFSIZE - 1
BY DivMod DEF Slot

AreKeys(s, b, r, w) ==
  /\ s \in Seq(Chars) /\ Len(s) = w - r /\ w - r \in Nat
  /\ \A i \in 1 .. w - r : s[i] = b[Slot(r + i - 1)]

LEMMA KeysFacts ==
  ASSUME NEW b, NEW r, NEW w, RingOK(b, r, w)
  PROVE  AreKeys(Unread(b, r, w), b, r, w)
<1>1. r \in Nat /\ w \in Nat /\ w - r \in Nat
  BY DEF RingOK
<1>2. \A i \in 1 .. w - r : b[Slot(r + i - 1)] \in Chars
  <2> SUFFICES ASSUME NEW i \in 1 .. w - r PROVE b[Slot(r + i - 1)] \in Chars
    OBVIOUS
  <2>1. r + i - 1 \in Nat
    BY <1>1
  <2>2. Slot(r + i - 1) \in 0 .. STDIN_BUFSIZE - 1
    BY <2>1, SlotType DEF RingOK
  <2> QED BY <2>2 DEF RingOK
<1>3. Unread(b, r, w) \in Seq(Chars) /\ Len(Unread(b, r, w)) = w - r
  BY <1>1, <1>2 DEF Unread
<1> QED BY <1>1, <1>3 DEF Unread, AreKeys

\* A key that finds room goes to the end: its place is none of the others'.
Added(b, r, w, c) ==
  Unread([b EXCEPT ![Slot(w)] = c], r, w + 1) = Append(Unread(b, r, w), c)

LEMMA KeyAdded ==
  ASSUME NEW b, NEW r, NEW w, RingOK(b, r, w), NEW c \in Chars, w < r + STDIN_BUFSIZE
  PROVE  Added(b, r, w, c)
<1> DEFINE B == STDIN_BUFSIZE
           s == Unread(b, r, w)
<1>0. PICK d : d = [b EXCEPT ![Slot(w)] = c]
  OBVIOUS
<1> DEFINE t == Unread(d, r, w + 1)
<1>1. /\ r \in Nat /\ w \in Nat /\ r <= w /\ w - r \in Nat /\ B \in Nat \ {0}
      /\ b \in [0 .. B - 1 -> Chars] /\ Slot(w) \in 0 .. B - 1
  BY SlotType DEF RingOK
<1>2. RingOK(d, r, w + 1)
  BY <1>0, <1>1 DEF RingOK
<1>3. /\ s \in Seq(Chars) /\ Len(s) = w - r
      /\ \A i \in 1 .. w - r : s[i] = b[Slot(r + i - 1)]
  <2>1. AreKeys(s, b, r, w)
    BY KeysFacts
  <2> QED BY <2>1 DEF AreKeys
<1>4. /\ t \in Seq(Chars) /\ Len(t) = (w + 1) - r
      /\ \A i \in 1 .. (w + 1) - r : t[i] = d[Slot(r + i - 1)]
  <2>1. AreKeys(t, d, r, w + 1)
    BY <1>2, KeysFacts
  <2> HIDE DEF s, t
  <2> QED BY <2>1 DEF AreKeys
<1>5. d[Slot(w)] = c /\ \A k \in 0 .. B - 1 : k # Slot(w) => d[k] = b[k]
  BY <1>0, <1>1
<1> HIDE DEF s, t
<1>6. ASSUME NEW i \in 1 .. w - r PROVE d[Slot(r + i - 1)] = b[Slot(r + i - 1)]
  <2>1. r + i - 1 \in Nat /\ r + i - 1 < w /\ w < (r + i - 1) + B
    BY <1>1, <1>6
  <2>2. Slot(r + i - 1) # Slot(w)
    BY <1>1, <2>1, Apart DEF Slot
  <2>3. Slot(r + i - 1) \in 0 .. B - 1
    BY <1>1, <2>1, SlotType
  <2> QED BY <1>5, <2>2, <2>3
<1>7. ASSUME NEW i \in 1 .. (w + 1) - r PROVE t[i] = Append(s, c)[i]
  <2>1. CASE i = (w + 1) - r
    <3>1. r + i - 1 = w
      BY <1>1, <2>1
    <3>2. t[i] = d[Slot(w)]
      BY <1>4, <3>1
    <3>3. Append(s, c)[i] = c
      <4>1. i = Len(s) + 1
        BY <1>1, <1>3, <2>1
      <4>2. Append(s, c)[Len(s) + 1] = c
        BY <1>3, AppendProperties
      <4> QED BY <4>1, <4>2
    <3> QED BY <1>5, <3>2, <3>3
  <2>2. CASE i # (w + 1) - r
    <3>1. i \in 1 .. w - r
      BY <1>1, <2>2
    <3>2. Append(s, c)[i] = s[i]
      BY <1>3, <3>1
    <3> QED BY <1>3, <1>4, <1>6, <3>1, <3>2
  <2> QED BY <2>1, <2>2
<1>8. Append(s, c) \in Seq(Chars) /\ Len(Append(s, c)) = (w + 1) - r
  <2>1. Append(s, c) \in Seq(Chars) /\ Len(Append(s, c)) = Len(s) + 1
    BY <1>3, AppendProperties
  <2> QED BY <1>1, <1>3, <2>1
<1>9. t = Append(s, c)
  BY <1>4, <1>7, <1>8, SeqEqual
<1> QED BY <1>0, <1>9 DEF s, t, Added

\* One that finds the ring full takes the place of the oldest.
Replaced(b, r, w, c) ==
  Unread([b EXCEPT ![Slot(w)] = c], r, w) = [Unread(b, r, w) EXCEPT ![1] = c]

LEMMA KeyReplaced ==
  ASSUME NEW b, NEW r, NEW w, RingOK(b, r, w), NEW c \in Chars, w = r + STDIN_BUFSIZE
  PROVE  Replaced(b, r, w, c)
<1> DEFINE B == STDIN_BUFSIZE
           s == Unread(b, r, w)
<1>0. PICK d : d = [b EXCEPT ![Slot(w)] = c]
  OBVIOUS
<1> DEFINE t == Unread(d, r, w)
<1>1. /\ r \in Nat /\ w \in Nat /\ w - r = B /\ B \in Nat \ {0}
      /\ b \in [0 .. B - 1 -> Chars] /\ Slot(w) \in 0 .. B - 1
  BY SlotType DEF RingOK
<1>2. RingOK(d, r, w)
  BY <1>0, <1>1 DEF RingOK
<1>3. s \in Seq(Chars) /\ Len(s) = B /\ \A i \in 1 .. B : s[i] = b[Slot(r + i - 1)]
  <2>1. AreKeys(s, b, r, w)
    BY KeysFacts
  <2> HIDE DEF s
  <2> QED BY <1>1, <2>1 DEF AreKeys
<1>4. t \in Seq(Chars) /\ Len(t) = B /\ \A i \in 1 .. B : t[i] = d[Slot(r + i - 1)]
  <2>1. AreKeys(t, d, r, w)
    BY <1>2, KeysFacts
  <2> HIDE DEF t
  <2> QED BY <1>1, <2>1 DEF AreKeys
<1>5. d[Slot(w)] = c /\ \A k \in 0 .. B - 1 : k # Slot(w) => d[k] = b[k]
  BY <1>0, <1>1
<1>6. Slot(w) = Slot(r)
  BY <1>1, Wraps DEF Slot
<1> HIDE DEF s, t
<1>7. t[1] = c
  <2>1. r + 1 - 1 = r /\ 1 \in 1 .. B
    BY <1>1
  <2> QED BY <1>4, <1>5, <1>6, <2>1
<1>8. ASSUME NEW i \in 1 .. B, i # 1 PROVE t[i] = s[i]
  <2>1. r + i - 1 \in Nat /\ r < r + i - 1 /\ r + i - 1 < r + B
    BY <1>1, <1>8
  <2>2. Slot(r + i - 1) # Slot(r) /\ Slot(r + i - 1) \in 0 .. B - 1
    BY <1>1, <2>1, Apart, SlotType DEF Slot
  <2> QED BY <1>3, <1>4, <1>5, <1>6, <2>2
<1>9. [s EXCEPT ![1] = c] \in Seq(Chars) /\ Len([s EXCEPT ![1] = c]) = B
  BY <1>1, <1>3
<1>10. \A i \in 1 .. B : [s EXCEPT ![1] = c][i] = (IF i = 1 THEN c ELSE s[i])
  BY <1>3
<1>11. t = [s EXCEPT ![1] = c]
  BY <1>4, <1>7, <1>8, <1>9, <1>10, SeqEqual
<1> QED BY <1>0, <1>11 DEF s, t, Replaced

\* The reader takes the k oldest and leaves the rest.
Taken(b, r, w, k) ==
  /\ [i \in 1 .. k |-> b[Slot(r + i - 1)]] = SubSeq(Unread(b, r, w), 1, k)
  /\ Unread(b, r + k, w) = SubSeq(Unread(b, r, w), k + 1, w - r)

LEMMA KeysTaken ==
  ASSUME NEW b, NEW r, NEW w, RingOK(b, r, w), NEW k \in 0 .. w - r
  PROVE  Taken(b, r, w, k)
<1> DEFINE s == Unread(b, r, w)
           t == Unread(b, r + k, w)
           h == [i \in 1 .. k |-> b[Slot(r + i - 1)]]
<1>1. r \in Nat /\ w \in Nat /\ w - r \in Nat /\ r + k \in Nat /\ k \in Nat /\ w - (r + k) \in Nat
  BY DEF RingOK
<1>2. s \in Seq(Chars) /\ Len(s) = w - r /\ \A i \in 1 .. w - r : s[i] = b[Slot(r + i - 1)]
  <2>1. AreKeys(s, b, r, w)
    BY KeysFacts
  <2> QED BY <2>1 DEF AreKeys
<1>3. t \in Seq(Chars) /\ Len(t) = w - (r + k)
      /\ \A i \in 1 .. w - (r + k) : t[i] = b[Slot((r + k) + i - 1)]
  <2>1. RingOK(b, r + k, w)
    BY <1>1 DEF RingOK
  <2>2. AreKeys(t, b, r + k, w)
    BY <2>1, KeysFacts
  <2> HIDE DEF t
  <2> QED BY <2>2 DEF AreKeys
<1>4. h \in Seq(Chars) /\ Len(h) = k /\ \A i \in 1 .. k : h[i] = b[Slot(r + i - 1)]
  <2>1. \A i \in 1 .. k : b[Slot(r + i - 1)] \in Chars
    <3> SUFFICES ASSUME NEW i \in 1 .. k PROVE b[Slot(r + i - 1)] \in Chars
      OBVIOUS
    <3> HIDE DEF s
    <3>1. i \in 1 .. w - r
      BY <1>1
    <3> QED BY <1>2, <3>1
  <2> QED BY <1>1, <2>1
<1> HIDE DEF s, t, h
<1>5. h = SubSeq(s, 1, k)
  <2>1. \A i \in 1 .. k : s[i] \in Chars /\ s[i] = b[Slot(r + i - 1)]
    BY <1>1, <1>2
  <2>2. /\ SubSeq(s, 1, k) \in Seq(Chars) /\ Len(SubSeq(s, 1, k)) = k
        /\ \A i \in 1 .. k : SubSeq(s, 1, k)[i] = s[i]
    BY <1>1, <2>1, SubSeqProperties
  <2> QED BY <1>4, <2>1, <2>2, SeqEqual
<1>6. t = SubSeq(s, k + 1, w - r)
  BY <1>1, <1>2, <1>3
<1> QED BY <1>5, <1>6 DEF s, t, h, Taken

\* The state's own ring.
pending == Unread(stdin_buffer, p_rpos, p_wpos)

LEMMA RingType ==
  ASSUME StdinAssumption, NoInputAsleep
  PROVE  /\ RingOK(stdin_buffer, p_rpos, p_wpos)
         /\ Len(pending) = p_wpos - p_rpos
<1>1. RingOK(stdin_buffer, p_rpos, p_wpos)
  BY DEF StdinAssumption, NoInputAsleep, WaitLinked, TypeOK, RingOK
<1>2. AreKeys(pending, stdin_buffer, p_rpos, p_wpos)
  BY <1>1, KeysFacts DEF pending
<1> QED BY <1>1, <1>2 DEF AreKeys

LEMMA WriteIsKey ==
  ASSUME StdinAssumption, NoInputAsleep, NEW c \in Chars, dev_stdin_write(c)
  PROVE  Q!Key(c)
<1>1. /\ RingOK(stdin_buffer, p_rpos, p_wpos) /\ Len(pending) = p_wpos - p_rpos
      /\ p_wpos \in Nat /\ p_rpos \in Nat /\ STDIN_BUFSIZE \in Nat
      /\ p_wpos <= p_rpos + STDIN_BUFSIZE
  BY RingType DEF RingOK
<1>2. /\ stdin_buffer' = [stdin_buffer EXCEPT ![Slot(p_wpos)] = c] /\ p_rpos' = p_rpos /\ got' = got
      /\ p_wpos' = (IF HasRoom THEN p_wpos + 1 ELSE p_wpos)
  BY DEF dev_stdin_write
<1>3. pending' = IF Len(pending) < STDIN_BUFSIZE THEN Append(pending, c) ELSE [pending EXCEPT ![1] = c]
  <2>1. CASE HasRoom
    <3>1. p_wpos < p_rpos + STDIN_BUFSIZE /\ Len(pending) < STDIN_BUFSIZE
      BY <1>1, <2>1 DEF HasRoom
    <3>2. pending' = Unread([stdin_buffer EXCEPT ![Slot(p_wpos)] = c], p_rpos, p_wpos + 1)
      BY <1>2, <2>1 DEF pending, Unread, Slot
    <3>3. pending' = Append(pending, c)
      <4>1. Added(stdin_buffer, p_rpos, p_wpos, c)
        BY <1>1, <3>1, KeyAdded
      <4> QED BY <3>2, <4>1, Zenon DEF pending, Added
    <3> QED BY <3>1, <3>3
  <2>2. CASE ~HasRoom
    <3>1. p_wpos = p_rpos + STDIN_BUFSIZE /\ ~(Len(pending) < STDIN_BUFSIZE)
      BY <1>1, <2>2 DEF HasRoom
    <3>2. pending' = Unread([stdin_buffer EXCEPT ![Slot(p_wpos)] = c], p_rpos, p_wpos)
      BY <1>2, <2>2 DEF pending, Unread, Slot
    <3>3. pending' = [pending EXCEPT ![1] = c]
      <4>1. Replaced(stdin_buffer, p_rpos, p_wpos, c)
        BY <1>1, <3>1, KeyReplaced
      <4> QED BY <3>2, <4>1, Zenon DEF pending, Replaced
    <3> QED BY <3>1, <3>3
  <2> QED BY <2>1, <2>2
<1> QED BY <1>2, <1>3 DEF Q!Key, pending, Unread

\* The loop of dev_stdin_read takes what it wants, or all there is.
LEMMA LoopIsTake ==
  ASSUME StdinAssumption, NoInputAsleep, NEW p \in Readers, NEW n \in 0 .. MaxLen,
         NEW before, NEW q, Loop(p, n, before, q)
  PROVE  \E k \in 0 .. Len(pending) : Q!Take(p, k, before)
<1> DEFINE here == p_wpos - p_rpos
           k == IF n <= here THEN n ELSE here
           new == [i \in 1 .. k |-> stdin_buffer[Slot(p_rpos + i - 1)]]
<1>1. /\ RingOK(stdin_buffer, p_rpos, p_wpos) /\ Len(pending) = here
      /\ p_wpos \in Nat /\ p_rpos \in Nat /\ here \in Nat
  BY RingType DEF RingOK
<1>2. k \in 0 .. here
  BY <1>1 DEF StdinAssumption
<1>3. /\ got' = [got EXCEPT ![p] = before \o new] /\ p_rpos' = p_rpos + k
      /\ stdin_buffer' = stdin_buffer /\ p_wpos' = p_wpos
  BY DEF Loop
<1> HIDE DEF k
<1>4. new = SubSeq(pending, 1, k) /\ Unread(stdin_buffer, p_rpos + k, p_wpos) = SubSeq(pending, k + 1, here)
  <2>1. RingOK(stdin_buffer, p_rpos, p_wpos) /\ k \in 0 .. p_wpos - p_rpos
    BY <1>1, <1>2
  <2>2. Taken(stdin_buffer, p_rpos, p_wpos, k)
    BY <2>1, KeysTaken
  <2> QED BY <2>2, Zenon DEF pending, Taken
<1>5. pending' = Unread(stdin_buffer, p_rpos + k, p_wpos)
  BY <1>3 DEF pending, Unread, Slot
<1> HIDE DEF new, here
<1>6. /\ got' = [got EXCEPT ![p] = before \o SubSeq(pending, 1, k)]
      /\ pending' = SubSeq(pending, k + 1, Len(pending))
  BY <1>1, <1>3, <1>4, <1>5
<1>7. Q!Take(p, k, before)
  BY <1>6 DEF Q!Take, pending, Unread
<1> QED BY <1>1, <1>2, <1>7

LEMMA QueueStep ==
  ASSUME StdinAssumption, NoInputAsleep, [Next]_vars
  PROVE  [Q!Next]_(Q!vars)
<1>1. ASSUME NEW c \in Chars, dev_stdin_write(c) PROVE Q!Next
  BY <1>1, WriteIsKey DEF Q!Next
<1>2. ASSUME NEW p \in Readers, NEW k \in 0 .. Len(pending), Q!Take(p, k, <<>>) \/ Q!Take(p, k, got[p])
      PROVE  Q!Next
  BY <1>2 DEF Q!Next, pending, Unread
<1>3. ASSUME NEW p \in Readers, NEW n \in 1 .. MaxLen, dev_stdin_read(p, n) PROVE Q!Next
  <2>1. n \in 0 .. MaxLen /\ Loop(p, n, <<>>, wait_queue)
    BY <1>3 DEF dev_stdin_read, StdinAssumption
  <2> QED BY <1>2, <2>1, LoopIsTake
<1>4. ASSUME NEW p \in Readers, read_again(p) PROVE Q!Next
  <2>1. want[p] \in 0 .. MaxLen /\ Loop(p, want[p], got[p], Unlinked(p))
    BY <1>4 DEF read_again, NoInputAsleep, WaitLinked, TypeOK
  <2> QED BY <1>2, <2>1, LoopIsTake
<1>5. ASSUME UNCHANGED <<stdin_buffer, p_rpos, p_wpos, got>> PROVE UNCHANGED Q!vars
  BY <1>5 DEF Q!vars, Slot
<1>6. ASSUME NEW p \in Readers, read_interrupted(p) \/ do_kill(p) PROVE UNCHANGED Q!vars
  BY <1>5, <1>6 DEF read_interrupted, do_kill
<1>7. ASSUME UNCHANGED vars PROVE UNCHANGED Q!vars
  BY <1>5, <1>7 DEF vars
<1> QED BY <1>1, <1>3, <1>4, <1>6, <1>7 DEF Next

\* dev_stdin.c: the ring of STDIN_BUFSIZE characters with its two positions,
\* taken modulo its size, is a queue.  The keys come out in the order they
\* were typed, each to one reader; one that finds the ring full takes the
\* place of the oldest unread one and of no other.
THEOREM RingIsQueue == ASSUME StdinAssumption PROVE Spec => ImplementsInput
<1>1. Init => Q!Init
  <2> SUFFICES ASSUME Init PROVE Q!Init
    OBVIOUS
  <2>1. p_wpos - p_rpos = 0 /\ got = [p \in Readers |-> <<>>]
    BY DEF Init
  <2> QED BY <2>1 DEF Q!Init
<1>2. NoInputAsleep /\ [Next]_vars => [Q!Next]_(Q!vars)
  BY QueueStep
<1> QED BY <1>1, <1>2, NeverInputAsleep, PTL DEF Spec, ImplementsInput, Q!Spec

-----------------------------------------------------------------------------
(* The console's ring *)

Codes == {Code(x) : x \in Keys}

\* The i-th place from r on.
Place(r, i) == IF r + i < CONSBUFSIZE THEN r + i ELSE r + i - CONSBUFSIZE

\* The ring b holds the first n of the keys w, from r on to before wp.
RingHolds(b, r, wp, w, n) ==
  /\ n \in 0 .. Len(w) /\ n < CONSBUFSIZE
  /\ r \in Places /\ wp = Place(r, n)
  /\ \A i \in 1 .. n : b[Place(r, i - 1)] = w[i]

\* The keys of w after the n-th are those of the port s that are not '\0': m
\* says which.
PortHolds(s, w, n, m) ==
  /\ m \in [1 .. (Len(w) - n) -> 1 .. Len(s)]
  /\ \A i, j \in 1 .. (Len(w) - n) : i < j => m[i] < m[j]
  /\ \A j \in 1 .. (Len(w) - n) : w[n + j] = Code(s[m[j]])
  /\ \A i \in 1 .. Len(s) : s[i] # "NUL" <=> \E j \in 1 .. (Len(w) - n) : m[j] = i

\* The inductive invariant of the console: what is owed is what the ring holds,
\* and then what is still at the port.
ConsInv ==
  /\ port \in Seq(Keys) /\ Len(port) <= Backlog
  /\ owed \in Seq(Codes) /\ Len(owed) <= Backlog
  /\ DOMAIN buf = Places /\ buf = [i \in Places |-> buf[i]]
  /\ answer = next
  /\ \E n, m : RingHolds(buf, rpos, wpos, owed, n) /\ PortHolds(port, owed, n, m)

LEMMA PlaceFacts ==
  ASSUME ConsoleAssumption, NEW r \in Places
  PROVE  /\ \A i \in 0 .. (CONSBUFSIZE - 1) : Place(r, i) \in Places
         /\ \A i, j \in 0 .. (CONSBUFSIZE - 1) : Place(r, i) = Place(r, j) => i = j
         /\ Place(r, 0) = r
         /\ \A i \in 0 .. (CONSBUFSIZE - 2) : Wrapped(Place(r, i) + 1) = Place(r, i + 1)
         /\ Wrapped(r + 1) \in Places
         /\ \A i \in 0 .. (CONSBUFSIZE - 2) : Place(Wrapped(r + 1), i) = Place(r, i + 1)
<1> USE DEF ConsoleAssumption, Places, Place, Wrapped
<1>1. r \in Nat /\ r < CONSBUFSIZE /\ CONSBUFSIZE \in Nat
  OBVIOUS
<1>2. \A i \in 0 .. (CONSBUFSIZE - 1) : Place(r, i) \in Places
  BY <1>1
<1>3. \A i, j \in 0 .. (CONSBUFSIZE - 1) : Place(r, i) = Place(r, j) => i = j
  BY <1>1
<1>4. Place(r, 0) = r
  BY <1>1
<1>5. \A i \in 0 .. (CONSBUFSIZE - 2) : Wrapped(Place(r, i) + 1) = Place(r, i + 1)
  BY <1>1
<1>6. Wrapped(r + 1) \in Places
  BY <1>1
<1>7. \A i \in 0 .. (CONSBUFSIZE - 2) : Place(Wrapped(r + 1), i) = Place(r, i + 1)
  BY <1>1
<1> QED BY <1>2, <1>3, <1>4, <1>5, <1>6, <1>7

Owes(w, x, w2) == w2 = IF x = "NUL" THEN w ELSE Append(w, Code(x))

\* A key that arrives at the port is owed, unless it is '\0'.
LEMMA KeyTyped ==
  ASSUME NEW s \in Seq(Keys), NEW w \in Seq(Codes), NEW x \in Keys,
         NEW n \in 0 .. Len(w), NEW m, PortHolds(s, w, n, m),
         NEW w2, Owes(w, x, w2)
  PROVE  /\ w2 \in Seq(Codes) /\ Len(w2) \in Len(w) .. (Len(w) + 1)
         /\ \A i \in 1 .. Len(w) : w2[i] = w[i]
         /\ \E m2 : PortHolds(Append(s, x), w2, n, m2)
<1>1. PICK a \in Nat, d \in Nat : a = Len(s) /\ d = Len(w) - n /\ Len(w) = n + d /\ n \in Nat
  OBVIOUS
<1>2. /\ m \in [1 .. d -> 1 .. a]
      /\ \A i, j \in 1 .. d : i < j => m[i] < m[j]
      /\ \A j \in 1 .. d : w[n + j] = Code(s[m[j]])
      /\ \A i \in 1 .. a : s[i] # "NUL" <=> \E j \in 1 .. d : m[j] = i
  BY <1>1, Zenon DEF PortHolds
<1>3. PICK s2 : s2 = Append(s, x)
  OBVIOUS
<1>4. Len(s2) = a + 1 /\ s2[a + 1] = x /\ \A i \in 1 .. a : s2[i] = s[i]
  BY <1>1, <1>3
<1>5. \A i \in 1 .. (a + 1) : i \in 1 .. a \/ i = a + 1
  BY <1>1
<1>6. \A i \in 1 .. a : i \in 1 .. (a + 1) /\ i < a + 1
  BY <1>1
<1>7. CASE x = "NUL"
  <2>1. w2 = w
    BY <1>7 DEF Owes
  <2>2. m \in [1 .. d -> 1 .. (a + 1)]
    BY <1>2, <1>6
  <2>3. \A j \in 1 .. d : w[n + j] = Code(s2[m[j]])
    BY <1>2, <1>4
  <2>4. \A i \in 1 .. (a + 1) : s2[i] # "NUL" <=> \E j \in 1 .. d : m[j] = i
    <3> SUFFICES ASSUME NEW i \in 1 .. (a + 1) PROVE s2[i] # "NUL" <=> \E j \in 1 .. d : m[j] = i
      OBVIOUS
    <3>1. CASE i \in 1 .. a
      BY <1>2, <1>4, <3>1, Zenon
    <3>2. CASE i = a + 1
      <4>1. \A j \in 1 .. d : m[j] # i
        BY <1>2, <1>6, <3>2
      <4> QED BY <1>4, <1>7, <3>2, <4>1
    <3> QED BY <1>5, <3>1, <3>2
  <2>5. PortHolds(s2, w, n, m)
    BY <1>1, <1>2, <1>4, <2>2, <2>3, <2>4, Zenon DEF PortHolds
  <2>6. Len(w) \in Len(w) .. (Len(w) + 1)
    BY <1>1
  <2> QED BY <1>3, <2>1, <2>5, <2>6
<1>8. CASE x # "NUL"
  <2>1. w2 = Append(w, Code(x))
    BY <1>8 DEF Owes
  <2>2. /\ w2 \in Seq(Codes) /\ Len(w2) = n + d + 1
        /\ \A i \in 1 .. (n + d) : w2[i] = w[i]
        /\ w2[n + d + 1] = Code(x)
    <3>1. Code(x) \in Codes
      BY DEF Codes
    <3> QED BY <1>1, <2>1, <3>1
  <2>3. \A j \in 1 .. d : n + j \in 1 .. (n + d) /\ j \in 1 .. (d + 1)
    BY <1>1
  <2> DEFINE m2 == [j \in 1 .. (d + 1) |-> IF j = d + 1 THEN a + 1 ELSE m[j]]
  <2>4. \A j \in 1 .. (d + 1) : j \in 1 .. d \/ j = d + 1
    BY <1>1
  <2>5. /\ d + 1 \in 1 .. (d + 1) /\ m2[d + 1] = a + 1
        /\ \A j \in 1 .. d : m2[j] = m[j] /\ m2[j] \in 1 .. a
    <3>1. d + 1 \in 1 .. (d + 1) /\ \A j \in 1 .. d : j # d + 1
      BY <1>1
    <3>2. \A j \in 1 .. d : m[j] \in 1 .. a
      BY <1>2
    <3> QED BY <2>3, <3>1, <3>2
  <2>6. m2 \in [1 .. (d + 1) -> 1 .. (a + 1)]
    <3>0. a + 1 \in 1 .. (a + 1)
      BY <1>1
    <3>1. ASSUME NEW j \in 1 .. (d + 1) PROVE m2[j] \in 1 .. (a + 1)
      <4> HIDE DEF m2
      <4> QED BY <1>6, <2>4, <2>5, <3>0, Zenon
    <3> QED BY <3>1
  <2> HIDE DEF m2
  <2>7. \A i, j \in 1 .. (d + 1) : i < j => m2[i] < m2[j]
    <3> SUFFICES ASSUME NEW i \in 1 .. (d + 1), NEW j \in 1 .. (d + 1), i < j PROVE m2[i] < m2[j]
      OBVIOUS
    <3>1. i \in 1 .. d
      BY <1>1
    <3>2. CASE j \in 1 .. d
      BY <1>2, <2>5, <3>1, <3>2
    <3>3. CASE j = d + 1
      BY <1>1, <2>5, <3>1, <3>3
    <3> QED BY <2>4, <3>2, <3>3
  <2>8. \A j \in 1 .. (d + 1) : w2[n + j] = Code(s2[m2[j]])
    <3> SUFFICES ASSUME NEW j \in 1 .. (d + 1) PROVE w2[n + j] = Code(s2[m2[j]])
      OBVIOUS
    <3>1. CASE j \in 1 .. d
      <4>1. w2[n + j] = w[n + j] /\ w[n + j] = Code(s[m[j]])
        BY <1>2, <2>2, <2>3, <3>1, Zenon
      <4>2. s2[m2[j]] = s[m[j]]
        BY <1>4, <2>5, <3>1, Zenon
      <4> QED BY <4>1, <4>2, Zenon
    <3>2. CASE j = d + 1
      <4>1. n + j = n + d + 1
        BY <1>1, <3>2
      <4> QED BY <1>4, <2>2, <2>5, <3>2, <4>1
    <3> QED BY <2>4, <3>1, <3>2
  <2>9. \A i \in 1 .. (a + 1) : s2[i] # "NUL" <=> \E j \in 1 .. (d + 1) : m2[j] = i
    <3> SUFFICES ASSUME NEW i \in 1 .. (a + 1) PROVE s2[i] # "NUL" <=> \E j \in 1 .. (d + 1) : m2[j] = i
      OBVIOUS
    <3>1. CASE i \in 1 .. a
      <4>1. s2[i] # "NUL" <=> \E j \in 1 .. d : m[j] = i
        BY <1>2, <1>4, <3>1, Zenon
      <4>2. i # a + 1
        BY <1>6, <3>1
      <4> QED BY <2>3, <2>4, <2>5, <4>1, <4>2, Zenon
    <3>2. CASE i = a + 1
      BY <1>4, <1>8, <2>5, <3>2
    <3> QED BY <1>5, <3>1, <3>2
  <2>10. Len(w2) - n = d + 1 /\ Len(w2) \in Len(w) .. (Len(w) + 1)
    BY <1>1, <2>2
  <2>11. PortHolds(s2, w2, n, m2)
    BY <1>4, <2>6, <2>7, <2>8, <2>9, <2>10, Zenon DEF PortHolds
  <2> QED BY <1>1, <1>3, <2>2, <2>10, <2>11
<1> QED BY <1>7, <1>8

\* The port's first key is '\0' and owed to nobody, or it is the next to be
\* put into the ring.
LEMMA KeyPolled ==
  ASSUME NEW s \in Seq(Keys), s # <<>>, NEW w \in Seq(Codes),
         NEW n \in 0 .. Len(w), NEW m, PortHolds(s, w, n, m)
  PROVE  IF Head(s) = "NUL" THEN \E m2 : PortHolds(Tail(s), w, n, m2)
         ELSE /\ n + 1 \in 0 .. Len(w) /\ w[n + 1] = Code(Head(s))
              /\ \E m2 : PortHolds(Tail(s), w, n + 1, m2)
<1>1. PICK a \in Nat, d \in Nat : a = Len(s) /\ d = Len(w) - n /\ Len(w) = n + d /\ n \in Nat /\ a # 0
                                  /\ 1 \in 1 .. a /\ a - 1 \in Nat
  OBVIOUS
<1>2. /\ m \in [1 .. d -> 1 .. a]
      /\ \A i, j \in 1 .. d : i < j => m[i] < m[j]
      /\ \A j \in 1 .. d : w[n + j] = Code(s[m[j]])
      /\ \A i \in 1 .. a : s[i] # "NUL" <=> \E j \in 1 .. d : m[j] = i
  BY <1>1, Zenon DEF PortHolds
<1>3. PICK s2 : s2 = Tail(s)
  OBVIOUS
<1>4. Head(s) = s[1] /\ Len(s2) = a - 1 /\ \A i \in 1 .. (a - 1) : s2[i] = s[i + 1]
  <2>1. Len(Tail(s)) = Len(s) - 1 /\ \A i \in 1 .. Len(Tail(s)) : Tail(s)[i] = s[i + 1]
    BY HeadTailProperties
  <2>2. Head(s) = s[1]
    OBVIOUS
  <2> QED BY <1>1, <1>3, <2>1, <2>2, Zenon
<1>5. \A i \in 1 .. (a - 1) : i + 1 \in 1 .. a
  BY <1>1
<1>6. CASE Head(s) = "NUL"
  <2>1. \A j \in 1 .. d : m[j] # 1
    BY <1>1, <1>2, <1>4, <1>6, Zenon
  <2> DEFINE m2 == [j \in 1 .. d |-> m[j] - 1]
  <2>2. ASSUME NEW j \in 1 .. d
        PROVE  m2[j] \in 1 .. (a - 1) /\ m2[j] + 1 = m[j] /\ m[j] \in Nat /\ m2[j] \in Nat
    <3>1. PICK v \in 1 .. a : v = m[j]
      BY <1>2
    <3>2. v # 1
      BY <2>1, <3>1
    <3>3. v - 1 \in 1 .. (a - 1) /\ (v - 1) + 1 = v /\ v \in Nat /\ v - 1 \in Nat
      BY <1>1, <3>2
    <3>4. m2[j] = v - 1
      BY <3>1
    <3> HIDE DEF m2
    <3> QED BY <3>1, <3>3, <3>4, Zenon
  <2>3. m2 \in [1 .. d -> 1 .. (a - 1)]
    BY <2>2
  <2> HIDE DEF m2
  <2>4. \A i, j \in 1 .. d : i < j => m2[i] < m2[j]
    BY <1>2, <2>2
  <2>5. ASSUME NEW j \in 1 .. d PROVE w[n + j] = Code(s2[m2[j]])
    <3>1. m2[j] \in 1 .. (a - 1) /\ m2[j] + 1 = m[j]
      BY <2>2
    <3>2. s2[m2[j]] = s[m[j]]
      BY <1>4, <3>1, Zenon
    <3> QED BY <1>2, <3>2, Zenon
  <2>6. \A i \in 1 .. (a - 1) : s2[i] # "NUL" <=> \E j \in 1 .. d : m2[j] = i
    <3> SUFFICES ASSUME NEW i \in 1 .. (a - 1) PROVE s2[i] # "NUL" <=> \E j \in 1 .. d : m2[j] = i
      OBVIOUS
    <3>1. s2[i] # "NUL" <=> \E j \in 1 .. d : m[j] = i + 1
      BY <1>2, <1>4, <1>5, Zenon
    <3>2. \A j \in 1 .. d : m[j] = i + 1 <=> m2[j] = i
      BY <2>2
    <3> QED BY <3>1, <3>2, Zenon
  <2>7. PortHolds(s2, w, n, m2)
    BY <1>1, <1>4, <2>3, <2>4, <2>5, <2>6, Zenon DEF PortHolds
  <2> QED BY <1>3, <1>6, <2>7
<1>7. CASE Head(s) # "NUL"
  <2>1. PICK k \in 1 .. d : m[k] = 1
    BY <1>1, <1>2, <1>4, <1>7, Zenon
  <2>2. d # 0 /\ 1 \in 1 .. d /\ d - 1 \in Nat
    BY <1>1
  <2>3. m[1] = 1
    <3>1. m[1] \in Nat /\ m[1] >= 1
      BY <1>2, <2>2
    <3>2. 1 < k => m[1] < m[k]
      BY <1>2, <2>2
    <3> QED BY <1>1, <2>1, <3>1, <3>2
  <2>4. \A j \in 1 .. (d - 1) : j + 1 \in 1 .. d /\ 1 < j + 1 /\ n + (j + 1) = (n + 1) + j
    BY <1>1
  <2> DEFINE m2 == [j \in 1 .. (d - 1) |-> m[j + 1] - 1]
  <2>5. ASSUME NEW j \in 1 .. (d - 1)
        PROVE  m2[j] \in 1 .. (a - 1) /\ m2[j] + 1 = m[j + 1] /\ m[j + 1] \in Nat /\ m2[j] \in Nat
    <3>1. PICK v \in 1 .. a : v = m[j + 1]
      BY <1>2, <2>4
    <3>2. 1 < v
      <4>1. m[1] < m[j + 1]
        BY <1>2, <2>2, <2>4, Zenon
      <4> QED BY <2>3, <3>1, <4>1
    <3>3. v - 1 \in 1 .. (a - 1) /\ (v - 1) + 1 = v /\ v \in Nat /\ v - 1 \in Nat
      BY <1>1, <3>2
    <3>4. m2[j] = v - 1
      BY <3>1
    <3> HIDE DEF m2
    <3> QED BY <3>1, <3>3, <3>4, Zenon
  <2>6. m2 \in [1 .. (d - 1) -> 1 .. (a - 1)]
    BY <2>5
  <2> HIDE DEF m2
  <2>7. \A i, j \in 1 .. (d - 1) : i < j => m2[i] < m2[j]
    <3> SUFFICES ASSUME NEW i \in 1 .. (d - 1), NEW j \in 1 .. (d - 1), i < j PROVE m2[i] < m2[j]
      OBVIOUS
    <3>1. i + 1 < j + 1
      OBVIOUS
    <3>2. m[i + 1] < m[j + 1]
      BY <1>2, <2>4, <3>1, Zenon
    <3>3. /\ m2[i] + 1 = m[i + 1] /\ m[i + 1] \in Nat /\ m2[i] \in Nat
          /\ m2[j] + 1 = m[j + 1] /\ m[j + 1] \in Nat /\ m2[j] \in Nat
      BY <2>5
    <3> QED BY <3>2, <3>3
  <2>8. \A j \in 1 .. (d - 1) : w[(n + 1) + j] = Code(s2[m2[j]])
    <3> SUFFICES ASSUME NEW j \in 1 .. (d - 1) PROVE w[(n + 1) + j] = Code(s2[m2[j]])
      OBVIOUS
    <3>1. w[n + (j + 1)] = Code(s[m[j + 1]])
      BY <1>2, <2>4, Zenon
    <3>2. s2[m2[j]] = s[m2[j] + 1]
      BY <1>4, <2>5, Zenon
    <3> QED BY <2>4, <2>5, <3>1, <3>2, Zenon
  <2>9. \A i \in 1 .. (a - 1) : s2[i] # "NUL" <=> \E j \in 1 .. (d - 1) : m2[j] = i
    <3> SUFFICES ASSUME NEW i \in 1 .. (a - 1) PROVE s2[i] # "NUL" <=> \E j \in 1 .. (d - 1) : m2[j] = i
      OBVIOUS
    <3>1. s2[i] # "NUL" <=> \E j \in 1 .. d : m[j] = i + 1
      BY <1>2, <1>4, <1>5, Zenon
    <3>2. \A j \in 1 .. (d - 1) : m2[j] = i <=> m[j + 1] = i + 1
      BY <2>5
    <3>3. ASSUME NEW j \in 1 .. d, m[j] = i + 1 PROVE \E g \in 1 .. (d - 1) : m[g + 1] = i + 1
      <4>1. j # 1
        BY <2>3, <3>3
      <4>2. j - 1 \in 1 .. (d - 1) /\ (j - 1) + 1 = j
        BY <1>1, <4>1
      <4> QED BY <3>3, <4>2
    <3> QED BY <2>4, <3>1, <3>2, <3>3, Zenon
  <2>10. Len(w) - (n + 1) = d - 1 /\ n + 1 \in 0 .. Len(w)
    BY <1>1, <2>2
  <2>11. PortHolds(s2, w, n + 1, m2)
    BY <1>4, <2>6, <2>7, <2>8, <2>9, <2>10, Zenon DEF PortHolds
  <2>12. w[n + 1] = Code(Head(s))
    <3>1. w[n + 1] = Code(s[m[1]])
      BY <1>2, <2>2, Zenon
    <3> QED BY <1>4, <2>3, <3>1, Zenon
  <2> QED BY <1>3, <1>7, <2>10, <2>11, <2>12
<1> QED BY <1>6, <1>7

\* The key that cons_getc hands out.
HandedOut(b, r, wp, w, n) ==
  /\ Len(w) = n /\ (r = wp <=> w = <<>>)
  /\ w # <<>> => /\ b[r] = Head(w) /\ Tail(w) \in Seq(Codes)
                 /\ Len(Tail(w)) = n - 1
                 /\ RingHolds(b, Wrapped(r + 1), wp, Tail(w), n - 1)

LEMMA KeyTaken ==
  ASSUME ConsoleAssumption, NEW b, NEW r, NEW wp, NEW w \in Seq(Codes),
         NEW n, RingHolds(b, r, wp, w, n), NEW m, PortHolds(<<>>, w, n, m)
  PROVE  HandedOut(b, r, wp, w, n)
<1>1. /\ n \in 0 .. Len(w) /\ n < CONSBUFSIZE /\ r \in Places /\ wp = Place(r, n)
      /\ \A i \in 1 .. n : b[Place(r, i - 1)] = w[i]
  BY DEF RingHolds
<1>2. n \in Nat /\ CONSBUFSIZE \in Nat /\ Len(w) \in Nat /\ n \in 0 .. (CONSBUFSIZE - 1)
  BY <1>1 DEF ConsoleAssumption
<1>3. Len(w) = n
  <2>1. Len(<<>>) = 0 /\ 1 .. 0 = {}
    OBVIOUS
  <2>2. m \in [1 .. (Len(w) - n) -> 1 .. Len(<<>>)]
    BY Zenon DEF PortHolds
  <2>3. \A j \in 1 .. (Len(w) - n) : m[j] \in {}
    BY <2>1, <2>2
  <2> QED BY <1>1, <1>2, <2>3
<1>4. /\ \A i, j \in 0 .. (CONSBUFSIZE - 1) : Place(r, i) = Place(r, j) => i = j
      /\ Place(r, 0) = r /\ Wrapped(r + 1) \in Places
      /\ \A i \in 0 .. (CONSBUFSIZE - 2) : Place(Wrapped(r + 1), i) = Place(r, i + 1)
  BY <1>1, PlaceFacts
<1>5. r = wp <=> n = 0
  <2>1. 0 \in 0 .. (CONSBUFSIZE - 1)
    BY <1>2 DEF ConsoleAssumption
  <2> QED BY <1>1, <1>2, <1>4, <2>1, Zenon
<1>6. w = <<>> <=> n = 0
  BY <1>3
<1>7. CASE w = <<>>
  BY <1>3, <1>5, <1>6, <1>7 DEF HandedOut
<1>8. CASE w # <<>>
  <2>1. /\ n - 1 \in Nat /\ n - 1 < CONSBUFSIZE /\ 1 \in 1 .. n /\ 1 - 1 = 0
        /\ n - 1 \in 0 .. (CONSBUFSIZE - 2) /\ (n - 1) + 1 = n
    BY <1>2, <1>6, <1>8
  <2>2. PICK v : v = Tail(w)
    OBVIOUS
  <2>3. /\ v \in Seq(Codes) /\ Len(v) = n - 1
        /\ \A i \in 1 .. (n - 1) : v[i] = w[i + 1]
    <3>1. /\ Tail(w) \in Seq(Codes) /\ Len(Tail(w)) = Len(w) - 1
          /\ \A i \in 1 .. Len(Tail(w)) : Tail(w)[i] = w[i + 1]
      BY <1>8, HeadTailProperties
    <3> QED BY <1>3, <2>2, <3>1, Zenon
  <2>4. Head(w) = w[1]
    BY <1>8
  <2>5. b[r] = Head(w)
    <3>1. b[Place(r, 1 - 1)] = w[1]
      BY <1>1, <2>1, Zenon
    <3> QED BY <1>4, <2>1, <2>4, <3>1, Zenon
  <2>6. wp = Place(Wrapped(r + 1), n - 1)
    <3>1. Place(Wrapped(r + 1), n - 1) = Place(r, (n - 1) + 1)
      BY <1>4, <2>1, Zenon
    <3> QED BY <1>1, <2>1, <3>1, Zenon
  <2>7. ASSUME NEW i \in 1 .. (n - 1) PROVE b[Place(Wrapped(r + 1), i - 1)] = v[i]
    <3>1. i - 1 \in 0 .. (CONSBUFSIZE - 2) /\ (i - 1) + 1 = i /\ i + 1 \in 1 .. n /\ (i + 1) - 1 = i
      BY <1>2, <2>1
    <3>2. Place(Wrapped(r + 1), i - 1) = Place(r, i)
      BY <1>4, <3>1, Zenon
    <3>3. b[Place(r, i)] = w[i + 1]
      BY <1>1, <3>1, Zenon
    <3> QED BY <2>3, <3>2, <3>3, Zenon
  <2>8. n - 1 \in 0 .. Len(v)
    BY <2>1, <2>3
  <2>9. RingHolds(b, Wrapped(r + 1), wp, v, n - 1)
    BY <1>4, <2>1, <2>3, <2>6, <2>7, <2>8, Zenon DEF RingHolds
  <2> QED BY <1>3, <1>5, <1>6, <1>8, <2>2, <2>3, <2>5, <2>9, Zenon DEF HandedOut
<1> QED BY <1>7, <1>8

\* The key that cons_intr puts into the ring.
LEMMA KeyPut ==
  ASSUME ConsoleAssumption, NEW b, DOMAIN b = Places, NEW r, NEW wp, NEW w, Len(w) \in Nat, Len(w) <= Backlog,
         NEW n, RingHolds(b, r, wp, w, n), n + 1 \in 0 .. Len(w), NEW b2, b2 = [b EXCEPT ![wp] = w[n + 1]]
  PROVE  wp \in Places /\ RingHolds(b2, r, Wrapped(wp + 1), w, n + 1)
<1>1. /\ n \in 0 .. Len(w) /\ n < CONSBUFSIZE /\ r \in Places /\ wp = Place(r, n)
      /\ \A i \in 1 .. n : b[Place(r, i - 1)] = w[i]
  BY DEF RingHolds
<1>2. /\ n \in Nat /\ CONSBUFSIZE \in Nat /\ n + 1 < CONSBUFSIZE /\ n \in 0 .. (CONSBUFSIZE - 2) /\ n \in 0 .. (CONSBUFSIZE - 1)
      /\ (n + 1) - 1 = n
  BY <1>1 DEF ConsoleAssumption
<1>3. /\ \A i \in 0 .. (CONSBUFSIZE - 1) : Place(r, i) \in Places
      /\ \A i, j \in 0 .. (CONSBUFSIZE - 1) : Place(r, i) = Place(r, j) => i = j
      /\ \A i \in 0 .. (CONSBUFSIZE - 2) : Wrapped(Place(r, i) + 1) = Place(r, i + 1)
  BY <1>1, PlaceFacts
<1>4. wp \in Places /\ Wrapped(wp + 1) = Place(r, n + 1)
  BY <1>1, <1>2, <1>3, Zenon
<1>5. b2[wp] = w[n + 1] /\ \A x \in Places : x # wp => b2[x] = b[x]
  BY <1>4
<1>6. ASSUME NEW i \in 1 .. (n + 1) PROVE b2[Place(r, i - 1)] = w[i]
  <2>1. CASE i = n + 1
    <3>1. i - 1 = n
      BY <1>2, <2>1
    <3>2. Place(r, i - 1) = wp
      <4>1. wp = Place(r, n)
        BY <1>1
      <4> QED BY <3>1, <4>1
    <3>3. b2[wp] = w[i]
      BY <1>5, <2>1, Zenon
    <3> QED BY <3>2, <3>3, Zenon
  <2>2. CASE i # n + 1
    <3>1. i \in 1 .. n /\ i - 1 \in 0 .. (CONSBUFSIZE - 1) /\ i - 1 # n
      BY <1>2, <2>2
    <3>2. Place(r, i - 1) \in Places /\ Place(r, i - 1) # wp
      <4>1. PICK k \in 0 .. (CONSBUFSIZE - 1) : k = i - 1 /\ k # n
        BY <3>1
      <4>2. Place(r, k) \in Places /\ Place(r, k) # Place(r, n)
        BY <1>2, <1>3, <4>1, Zenon
      <4>3. wp = Place(r, n)
        BY <1>1
      <4> QED BY <4>1, <4>2, <4>3
    <3> QED BY <1>1, <1>5, <3>1, <3>2, Zenon
  <2> QED BY <2>1, <2>2
<1> QED BY <1>1, <1>2, <1>4, <1>6, Zenon DEF RingHolds

LEMMA ConsStart == ConsoleAssumption /\ ConsInit => ConsInv
<1> SUFFICES ASSUME ConsoleAssumption, ConsInit PROVE ConsInv
  OBVIOUS
<1>1. /\ port = <<>> /\ owed = <<>> /\ rpos = 0 /\ wpos = 0 /\ buf = [i \in Places |-> "NUL"]
      /\ answer = next
  BY DEF ConsInit
<1>2. Len(port) = 0 /\ Len(owed) = 0 /\ 0 <= Backlog /\ 0 - 0 = 0 /\ 1 .. 0 = {} /\ 0 \in 0 .. 0 /\ 0 < CONSBUFSIZE
  BY <1>1 DEF ConsoleAssumption
<1>3. 0 \in Places
  BY DEF ConsoleAssumption, Places
<1>4. Place(0, 0) = 0
  BY <1>3, PlaceFacts
<1>5. RingHolds(buf, rpos, wpos, owed, 0)
  BY <1>1, <1>2, <1>3, <1>4, Zenon DEF RingHolds
<1> DEFINE m == [i \in {} |-> 0]
<1>6. m \in [{} -> {}]
  OBVIOUS
<1> HIDE DEF m
<1>7. PortHolds(port, owed, 0, m)
  BY <1>2, <1>6, Zenon DEF PortHolds
<1>8. /\ port \in Seq(Keys) /\ owed \in Seq(Codes)
  BY <1>1
<1>9. DOMAIN buf = Places /\ buf = [i \in Places |-> buf[i]]
  BY <1>1
<1> QED BY <1>1, <1>2, <1>5, <1>7, <1>8, <1>9, Zenon DEF ConsInv

LEMMA ConsStep == ConsoleAssumption /\ ConsInv /\ [ConsNext]_console => ConsInv'
<1> SUFFICES ASSUME ConsoleAssumption, ConsInv, [ConsNext]_console PROVE ConsInv'
  OBVIOUS
<1>1. /\ port \in Seq(Keys) /\ Len(port) <= Backlog /\ Backlog \in Nat
      /\ owed \in Seq(Codes) /\ Len(owed) <= Backlog
      /\ DOMAIN buf = Places /\ buf = [i \in Places |-> buf[i]] /\ answer = next
  BY DEF ConsInv, ConsoleAssumption
<1>2. PICK n, m : RingHolds(buf, rpos, wpos, owed, n) /\ PortHolds(port, owed, n, m)
  BY DEF ConsInv
<1>3. n \in 0 .. Len(owed) /\ n \in Nat /\ Len(owed) \in Nat /\ Len(port) \in Nat
  BY <1>1, <1>2 DEF RingHolds
<1>4. ASSUME NEW x \in Keys, Type(x) PROVE ConsInv'
  <2>1. /\ Len(port) < Backlog /\ Len(owed) < Backlog /\ port' = Append(port, x)
        /\ owed' = IF x = "NUL" THEN owed ELSE Append(owed, Code(x))
        /\ buf' = buf /\ rpos' = rpos /\ wpos' = wpos /\ answer' = answer /\ next' = next
    BY <1>4 DEF Type
  <2>2. /\ owed' \in Seq(Codes) /\ Len(owed') \in Len(owed) .. (Len(owed) + 1)
        /\ \A i \in 1 .. Len(owed) : owed'[i] = owed[i]
        /\ \E m2 : PortHolds(Append(port, x), owed', n, m2)
    <3>1. Owes(owed, x, owed')
      BY <2>1, Zenon DEF Owes
    <3> QED BY <1>1, <1>2, <1>3, <3>1, KeyTyped
  <2>3. port' \in Seq(Keys) /\ Len(port') = Len(port) + 1
    BY <1>1, <2>1
  <2>4. Len(port') <= Backlog /\ Len(owed') <= Backlog /\ n \in 0 .. Len(owed')
    BY <1>1, <1>3, <2>1, <2>2, <2>3
  <2>5. \A i \in 1 .. n : i \in 1 .. Len(owed)
    BY <1>3
  <2>6. RingHolds(buf, rpos, wpos, owed', n)
    BY <1>2, <2>2, <2>4, <2>5, Zenon DEF RingHolds
  <2> QED BY <1>1, <2>1, <2>2, <2>3, <2>4, <2>6, Zenon DEF ConsInv
<1>5. ASSUME cons_intr PROVE ConsInv'
  <2>1. /\ port # <<>> /\ port' = Tail(port) /\ owed' = owed /\ rpos' = rpos /\ answer' = answer /\ next' = next
        /\ IF Head(port) = "NUL" THEN buf' = buf /\ wpos' = wpos
           ELSE buf' = [buf EXCEPT ![wpos] = Code(Head(port))] /\ wpos' = Wrapped(wpos + 1)
    BY <1>5 DEF cons_intr
  <2>2. port' \in Seq(Keys) /\ Len(port') <= Backlog
    BY <1>1, <2>1
  <2>3. IF Head(port) = "NUL" THEN \E m2 : PortHolds(Tail(port), owed, n, m2)
        ELSE /\ n + 1 \in 0 .. Len(owed) /\ owed[n + 1] = Code(Head(port))
             /\ \E m2 : PortHolds(Tail(port), owed, n + 1, m2)
    BY <1>1, <1>2, <1>3, <2>1, KeyPolled
  <2>4. CASE Head(port) = "NUL"
    BY <1>1, <1>2, <2>1, <2>2, <2>3, <2>4, Zenon DEF ConsInv
  <2>5. CASE Head(port) # "NUL"
    <3>1. buf' = [buf EXCEPT ![wpos] = owed[n + 1]] /\ wpos' = Wrapped(wpos + 1) /\ n + 1 \in 0 .. Len(owed)
      BY <2>1, <2>3, <2>5
    <3>2. RingHolds(buf', rpos, wpos', owed, n + 1)
      BY <1>1, <1>2, <1>3, <3>1, KeyPut
    <3>3. DOMAIN buf' = Places /\ buf' = [i \in Places |-> buf'[i]]
      BY <1>1, <3>1
    <3> QED BY <1>1, <2>1, <2>2, <2>3, <2>5, <3>2, <3>3, Zenon DEF ConsInv
  <2> QED BY <2>4, <2>5
<1>6. ASSUME cons_getc PROVE ConsInv'
  <2>1. /\ port = <<>> /\ port' = port /\ buf' = buf /\ wpos' = wpos
        /\ IF rpos # wpos THEN answer' = buf[rpos] /\ rpos' = Wrapped(rpos + 1)
           ELSE answer' = "NUL" /\ rpos' = rpos
        /\ IF owed = <<>> THEN next' = "NUL" /\ owed' = owed
           ELSE next' = Head(owed) /\ owed' = Tail(owed)
    BY <1>6 DEF cons_getc
  <2>2. /\ Len(owed) = n /\ (rpos = wpos <=> owed = <<>>)
        /\ owed # <<>> => /\ buf[rpos] = Head(owed) /\ Tail(owed) \in Seq(Codes)
                          /\ Len(Tail(owed)) = n - 1
                          /\ RingHolds(buf, Wrapped(rpos + 1), wpos, Tail(owed), n - 1)
    <3>1. PortHolds(<<>>, owed, n, m)
      BY <1>2, <2>1, Zenon
    <3>2. HandedOut(buf, rpos, wpos, owed, n)
      BY <1>1, <1>2, <3>1, KeyTaken
    <3> QED BY <3>2, Zenon DEF HandedOut
  <2>3. CASE owed = <<>>
    BY <1>1, <1>2, <2>1, <2>2, <2>3, Zenon DEF ConsInv
  <2>4. CASE owed # <<>>
    <3>1. /\ answer' = next' /\ rpos' = Wrapped(rpos + 1) /\ owed' = Tail(owed)
      BY <2>1, <2>2, <2>4
    <3>2. Len(owed') <= Backlog /\ Len(owed') - (n - 1) = Len(owed) - n
      BY <1>1, <1>3, <2>2, <2>4, <3>1
    <3>3. Len(owed) - n = 0 /\ 1 .. 0 = {}
      BY <1>3, <2>2
    <3>4. PortHolds(port, owed', n - 1, m)
      BY <1>2, <3>2, <3>3, Zenon DEF PortHolds
    <3> QED BY <1>1, <2>1, <2>2, <2>4, <3>1, <3>2, <3>4, Zenon DEF ConsInv
  <2> QED BY <2>3, <2>4
<1>7. CASE serial_intr \/ UNCHANGED console
  <2>1. /\ port' = port /\ buf' = buf /\ rpos' = rpos /\ wpos' = wpos /\ answer' = answer /\ owed' = owed
        /\ next' = next
    BY <1>7, Zenon DEF serial_intr, console
  <2> QED BY <1>1, <1>2, <2>1, Zenon DEF ConsInv
<1> QED BY <1>4, <1>5, <1>6, <1>7 DEF ConsNext

LEMMA ConsInvIsEnough == ConsoleAssumption /\ ConsInv => NextOrNone
<1> SUFFICES ASSUME ConsoleAssumption, ConsInv PROVE NextOrNone
  OBVIOUS
<1>1. PICK n : RingHolds(buf, rpos, wpos, owed, n)
  BY DEF ConsInv
<1>2. n \in 0 .. (CONSBUFSIZE - 1) /\ rpos \in Places /\ wpos = Place(rpos, n)
  BY <1>1 DEF RingHolds, ConsInv, ConsoleAssumption
<1>3. wpos \in Places
  BY <1>2, PlaceFacts
<1> QED BY <1>2, <1>3 DEF ConsInv, NextOrNone, ConsTypeOK

\* cons_getc hands out what was typed, in order and each key once, for a ring
\* of any size that more keys never wait for than fit beside one free place.
THEOREM NextAlwaysRight == ASSUME ConsoleAssumption PROVE ConsSpec => []NextOrNone
<1>1. ConsInit => ConsInv
  BY ConsStart
<1>2. ConsInv /\ [ConsNext]_console => ConsInv'
  BY ConsStep
<1>3. ConsInv => NextOrNone
  BY ConsInvIsEnough
<1> QED BY <1>1, <1>2, <1>3, PTL DEF ConsSpec

-----------------------------------------------------------------------------
(* Inodes and the references to them *)

Dev(n) == IF n \in Devs THEN 1 ELSE 0
InodeTypes == [ref : Int, open : Int, reclaim : Int, mem : BOOLEAN]

\* The inodes I are named r[n] times, by o[n] opens among them; the list of
\* devices names a device and does not open it.
Counts(I, r, o) ==
  /\ I \in [Nodes -> InodeTypes] /\ r \in [Nodes -> Nat] /\ o \in [Nodes -> Nat]
  /\ \A n \in Nodes : I[n].ref = r[n] /\ I[n].open = o[n] /\ o[n] + Dev(n) <= r[n]
  /\ \A n \in Sfs : (I[n].mem <=> r[n] > 0) /\ I[n].reclaim = IF r[n] > 0 THEN 1 ELSE 0

Plus(r, n) == [r EXCEPT ![n] = @ + 1]
Minus(r, n) == [r EXCEPT ![n] = @ - 1]

\* One reference more, and back.
LEMMA PlusFacts ==
  ASSUME NEW r \in [Nodes -> Nat], NEW n \in Nodes
  PROVE  /\ Plus(r, n) \in [Nodes -> Nat] /\ Plus(r, n)[n] = r[n] + 1
         /\ \A m \in Nodes : m # n => Plus(r, n)[m] = r[m]
         /\ Minus(Plus(r, n), n) = r
<1>1. PICK s : s = Plus(r, n)
  OBVIOUS
<1>2. s \in [Nodes -> Nat] /\ s[n] = r[n] + 1 /\ \A m \in Nodes : m # n => s[m] = r[m]
  BY <1>1 DEF Plus
<1>3. PICK t : t = Minus(s, n)
  OBVIOUS
<1>4. DOMAIN t = Nodes /\ t = [m \in Nodes |-> t[m]] /\ r = [m \in Nodes |-> r[m]]
  BY <1>2, <1>3 DEF Minus
<1>5. ASSUME NEW m \in Nodes PROVE t[m] = r[m]
  <2>1. r[m] \in Nat /\ r[n] \in Nat
    OBVIOUS
  <2> QED BY <1>2, <1>3, <2>1 DEF Minus
<1>6. t = r
  BY <1>4, <1>5
<1> QED BY <1>1, <1>2, <1>3, <1>6

\* One reference less.
LEMMA MinusFacts ==
  ASSUME NEW r \in [Nodes -> Nat], NEW n \in Nodes, r[n] > 0
  PROVE  /\ Minus(r, n) \in [Nodes -> Nat] /\ Minus(r, n)[n] = r[n] - 1
         /\ \A m \in Nodes : m # n => Minus(r, n)[m] = r[m]
BY DEF Minus

\* A reference that is given back after another one was taken.
LEMMA PlusMinus ==
  ASSUME NEW r \in [Nodes -> Nat], NEW a \in Nodes, NEW b \in Nodes
  PROVE  /\ Minus(Plus(Plus(r, a), b), a) = Plus(r, b)
         /\ \A m \in Nodes : r[m] <= Plus(r, a)[m]
BY DEF Plus, Minus

\* Two references are taken in either order.
LEMMA PlusSwap ==
  ASSUME NEW r \in [Nodes -> Nat], NEW a \in Nodes, NEW b \in Nodes
  PROVE  Plus(Plus(r, a), b) = Plus(Plus(r, b), a)
BY DEF Plus

\* The inode n becomes e.
LEMMA OneChanged ==
  ASSUME NEW I, NEW r, NEW o, Counts(I, r, o), NEW n \in Nodes, NEW e \in InodeTypes,
         NEW r2 \in [Nodes -> Nat], NEW o2 \in [Nodes -> Nat],
         \A m \in Nodes : m # n => r2[m] = r[m] /\ o2[m] = o[m],
         e.ref = r2[n], e.open = o2[n], o2[n] + Dev(n) <= r2[n],
         n \in Sfs => (e.mem <=> r2[n] > 0) /\ e.reclaim = IF r2[n] > 0 THEN 1 ELSE 0
  PROVE  Counts([I EXCEPT ![n] = e], r2, o2)
<1> DEFINE J == [I EXCEPT ![n] = e]
<1>1. I \in [Nodes -> InodeTypes] /\ Sfs \subseteq Nodes
  BY DEF Counts, Nodes
<1>2. J \in [Nodes -> InodeTypes] /\ J[n] = e /\ \A m \in Nodes : m # n => J[m] = I[m]
  BY <1>1
<1> HIDE DEF J
<1>3. ASSUME NEW m \in Nodes PROVE J[m].ref = r2[m] /\ J[m].open = o2[m] /\ o2[m] + Dev(m) <= r2[m]
  <2>1. CASE m = n
    BY <1>2, <2>1
  <2>2. CASE m # n
    BY <1>2, <2>2 DEF Counts
  <2> QED BY <2>1, <2>2
<1>4. ASSUME NEW m \in Sfs PROVE (J[m].mem <=> r2[m] > 0) /\ J[m].reclaim = IF r2[m] > 0 THEN 1 ELSE 0
  <2>1. CASE m = n
    BY <1>2, <2>1
  <2>2. CASE m # n
    BY <1>1, <1>2, <2>2 DEF Counts
  <2> QED BY <2>1, <2>2
<1>5. Counts(J, r2, o2)
  BY <1>2, <1>3, <1>4 DEF Counts
<1> QED BY <1>5 DEF J

\* inode_ref_inc of an inode that is named already.
LEMMA RefIncCounts ==
  ASSUME NEW I, NEW r, NEW o, Counts(I, r, o), NEW n \in Nodes, r[n] > 0
  PROVE  Counts(RefInc(I, n), Plus(r, n), o)
<1>1. I[n] \in InodeTypes /\ r \in [Nodes -> Nat] /\ o \in [Nodes -> Nat] /\ I[n].ref = r[n] /\ I[n].open = o[n]
      /\ o[n] + Dev(n) <= r[n] /\ (n \in Sfs => (I[n].mem <=> r[n] > 0) /\ I[n].reclaim = IF r[n] > 0 THEN 1 ELSE 0)
  BY DEF Counts
<1>2. PICK e : e = [I[n] EXCEPT !.ref = @ + 1]
  OBVIOUS
<1>3. e \in InodeTypes /\ e.ref = r[n] + 1 /\ e.open = o[n] /\ e.mem = I[n].mem /\ e.reclaim = I[n].reclaim
  BY <1>1, <1>2 DEF InodeTypes
<1>4. RefInc(I, n) = [I EXCEPT ![n] = e]
  BY <1>2 DEF RefInc
<1>5. PICK s : s = Plus(r, n)
  OBVIOUS
<1>6. s \in [Nodes -> Nat] /\ s[n] = r[n] + 1 /\ \A m \in Nodes : m # n => s[m] = r[m]
  BY <1>1, <1>5, PlusFacts
<1>7. r[n] \in Nat /\ o[n] \in Nat /\ Dev(n) \in Nat
  BY <1>1 DEF Dev
<1>8. o[n] + Dev(n) <= s[n] /\ s[n] > 0
  BY <1>1, <1>6, <1>7
<1>9. n \in Sfs => (e.mem <=> s[n] > 0) /\ e.reclaim = IF s[n] > 0 THEN 1 ELSE 0
  BY <1>1, <1>3, <1>8
<1>10. Counts([I EXCEPT ![n] = e], s, o)
  BY <1>1, <1>3, <1>6, <1>8, <1>9, OneChanged
<1> QED BY <1>4, <1>5, <1>10

\* sfs_load_inode counts one reference more, from the cache or from disk.
LEMMA LoadCounts ==
  ASSUME NEW I, NEW r, NEW o, Counts(I, r, o), NEW n \in Sfs
  PROVE  Counts(sfs_load_inode(I, n), Plus(r, n), o)
<1>0. n \in Nodes
  BY DEF Nodes
<1>1. I[n] \in InodeTypes /\ r \in [Nodes -> Nat] /\ o \in [Nodes -> Nat] /\ I[n].ref = r[n] /\ I[n].open = o[n]
      /\ o[n] + Dev(n) <= r[n] /\ (I[n].mem <=> r[n] > 0) /\ I[n].reclaim = IF r[n] > 0 THEN 1 ELSE 0
  BY <1>0 DEF Counts
<1>2. CASE I[n].mem
  <2>1. sfs_load_inode(I, n) = RefInc(I, n)
    <3>1. I[n].ref # 0
      BY <1>0, <1>1, <1>2
    <3>2. PICK e : e = [I[n] EXCEPT !.ref = @ + 1]
      OBVIOUS
    <3>3. e = [e EXCEPT !.reclaim = e.reclaim]
      BY <1>1, <3>2 DEF InodeTypes
    <3>4. RefInc(I, n) = [I EXCEPT ![n] = e]
      BY <3>2 DEF RefInc
    <3>5. sfs_load_inode(I, n) = [[I EXCEPT ![n] = e] EXCEPT ![n] = [e EXCEPT !.reclaim = e.reclaim]]
      <4>1. I \in [Nodes -> InodeTypes]
        BY DEF Counts
      <4>2. [I EXCEPT ![n] = e][n] = e
        BY <1>0, <4>1
      <4>3. sfs_load_inode(I, n) = [I EXCEPT ![n].ref = @ + 1, ![n].reclaim = @]
        BY <1>2, <3>1 DEF sfs_load_inode
      <4> QED BY <3>2, <4>2, <4>3
    <3>6. I \in [Nodes -> InodeTypes]
      BY DEF Counts
    <3> QED BY <3>3, <3>4, <3>5, <3>6, <1>0
  <2> QED BY <1>0, <1>1, <1>2, <2>1, RefIncCounts
<1>3. CASE ~I[n].mem
  <2>1. PICK e : e = [ref |-> 1, open |-> 0, reclaim |-> 1, mem |-> TRUE]
    OBVIOUS
  <2>2. sfs_load_inode(I, n) = [I EXCEPT ![n] = e]
    BY <1>3, <2>1 DEF sfs_load_inode
  <2>3. r[n] \in Nat /\ o[n] \in Nat /\ Dev(n) \in Nat
    BY <1>0, <1>1 DEF Dev
  <2>4. r[n] = 0 /\ o[n] = 0 /\ Dev(n) = 0
    BY <1>1, <1>3, <2>3
  <2>5. PICK s : s = Plus(r, n)
    OBVIOUS
  <2>6. s \in [Nodes -> Nat] /\ s[n] = 1 /\ \A m \in Nodes : m # n => s[m] = r[m]
    BY <1>0, <1>1, <2>4, <2>5, PlusFacts
  <2>7. e \in InodeTypes /\ e.ref = s[n] /\ e.open = o[n] /\ o[n] + Dev(n) <= s[n] /\ (e.mem <=> s[n] > 0) /\ e.reclaim = IF s[n] > 0 THEN 1 ELSE 0
    BY <2>1, <2>4, <2>6 DEF InodeTypes
  <2>8. Counts([I EXCEPT ![n] = e], s, o)
    BY <1>0, <1>1, <2>6, <2>7, OneChanged
  <2> QED BY <2>2, <2>5, <2>8
<1> QED BY <1>2, <1>3

\* inode_ref_dec takes one reference away, and the inode out of memory with the last.
LEMMA RefDecCounts ==
  ASSUME TreeAssumption, NEW I, NEW r, NEW o, Counts(I, r, o), NEW n \in Nodes, o[n] + Dev(n) < r[n]
  PROVE  Counts(RefDec(I, n), Minus(r, n), o)
<1>1. I[n] \in InodeTypes /\ I \in [Nodes -> InodeTypes] /\ r \in [Nodes -> Nat] /\ o \in [Nodes -> Nat]
      /\ I[n].ref = r[n] /\ I[n].open = o[n]
      /\ (n \in Sfs => (I[n].mem <=> r[n] > 0) /\ I[n].reclaim = IF r[n] > 0 THEN 1 ELSE 0)
  BY DEF Counts
<1>2. r[n] \in Nat /\ o[n] \in Nat /\ Dev(n) \in Nat /\ r[n] > 0
  BY <1>1 DEF Dev
<1>3. PICK s : s = Minus(r, n)
  OBVIOUS
<1>4. s \in [Nodes -> Nat] /\ s[n] = r[n] - 1 /\ \A m \in Nodes : m # n => s[m] = r[m]
  BY <1>1, <1>2, <1>3, MinusFacts
<1>5. PICK e : e = [I[n] EXCEPT !.ref = @ - 1]
  OBVIOUS
<1>6. e \in InodeTypes /\ e.ref = s[n] /\ e.open = o[n] /\ e.mem = I[n].mem /\ e.reclaim = I[n].reclaim
  BY <1>1, <1>4, <1>5 DEF InodeTypes
<1>7. PICK J : J = [I EXCEPT ![n] = e]
  OBVIOUS
<1>8. J[n] = e /\ J = [I EXCEPT ![n].ref = @ - 1]
  BY <1>1, <1>5, <1>7
<1>9. CASE s[n] = 0
  <2>1. n \in Sfs /\ o[n] = 0 /\ Dev(n) = 0
    BY <1>2, <1>4, <1>9 DEF Dev, Nodes
  <2>2. RefDec(I, n) = sfs_reclaim(J, n)
    BY <1>6, <1>8, <1>9 DEF RefDec
  <2>3. sfs_reclaim(J, n) = [J EXCEPT ![n] = Unloaded]
    BY <1>1, <1>2, <1>6, <1>8, <1>9, <2>1 DEF sfs_reclaim
  <2>4. [J EXCEPT ![n] = Unloaded] = [I EXCEPT ![n] = Unloaded]
    BY <1>1, <1>7
  <2>5. Unloaded \in InodeTypes /\ Unloaded.ref = 0 /\ Unloaded.open = 0 /\ Unloaded.mem = FALSE /\ Unloaded.reclaim = 0
    BY DEF Unloaded, InodeTypes
  <2>6. Counts([I EXCEPT ![n] = Unloaded], s, o)
    <3>1. PICK u : u = Unloaded
      OBVIOUS
    <3>2. u \in InodeTypes /\ u.ref = s[n] /\ u.open = o[n] /\ o[n] + Dev(n) <= s[n]
          /\ (u.mem <=> s[n] > 0) /\ u.reclaim = IF s[n] > 0 THEN 1 ELSE 0
      BY <1>9, <2>1, <2>5, <3>1
    <3>3. Counts([I EXCEPT ![n] = u], s, o)
      BY <1>1, <1>4, <3>2, OneChanged
    <3> QED BY <3>1, <3>3
  <2> QED BY <1>3, <2>2, <2>3, <2>4, <2>6
<1>10. CASE s[n] # 0
  <2>1. RefDec(I, n) = J
    BY <1>6, <1>8, <1>10 DEF RefDec
  <2>2. s[n] > 0 /\ o[n] + Dev(n) <= s[n]
    BY <1>2, <1>4, <1>10
  <2>3. Counts(J, s, o)
    BY <1>1, <1>2, <1>4, <1>6, <1>7, <2>2, OneChanged
  <2> QED BY <1>3, <2>1, <2>3
<1> QED BY <1>9, <1>10

\* inode_open_inc under a reference of its own.
LEMMA OpenIncCounts ==
  ASSUME NEW I, NEW r, NEW o, Counts(I, r, o), NEW n \in Nodes, o[n] + Dev(n) < r[n]
  PROVE  Counts(OpenInc(I, n), r, Plus(o, n))
<1>1. I[n] \in InodeTypes /\ r \in [Nodes -> Nat] /\ o \in [Nodes -> Nat] /\ I[n].ref = r[n] /\ I[n].open = o[n]
      /\ (n \in Sfs => (I[n].mem <=> r[n] > 0) /\ I[n].reclaim = IF r[n] > 0 THEN 1 ELSE 0)
  BY DEF Counts
<1>2. PICK e : e = [I[n] EXCEPT !.open = @ + 1]
  OBVIOUS
<1>3. e \in InodeTypes /\ e.ref = r[n] /\ e.open = o[n] + 1 /\ e.mem = I[n].mem /\ e.reclaim = I[n].reclaim
  BY <1>1, <1>2 DEF InodeTypes
<1>4. OpenInc(I, n) = [I EXCEPT ![n] = e]
  BY <1>2 DEF OpenInc
<1>5. PICK s : s = Plus(o, n)
  OBVIOUS
<1>6. s \in [Nodes -> Nat] /\ s[n] = o[n] + 1 /\ \A m \in Nodes : m # n => s[m] = o[m]
  BY <1>1, <1>5, PlusFacts
<1>7. s[n] + Dev(n) <= r[n]
  <2>1. r[n] \in Nat /\ o[n] \in Nat /\ Dev(n) \in Nat
    BY <1>1 DEF Dev
  <2> QED BY <1>6, <2>1
<1>8. Counts([I EXCEPT ![n] = e], r, s)
  BY <1>1, <1>3, <1>6, <1>7, OneChanged
<1> QED BY <1>4, <1>5, <1>8

\* inode_open_dec of an open inode.
LEMMA OpenDecCounts ==
  ASSUME NEW I, NEW r, NEW o, Counts(I, r, o), NEW n \in Nodes, o[n] > 0
  PROVE  Counts(OpenDec(I, n), r, Minus(o, n))
<1>1. I[n] \in InodeTypes /\ r \in [Nodes -> Nat] /\ o \in [Nodes -> Nat] /\ I[n].ref = r[n] /\ I[n].open = o[n]
      /\ o[n] + Dev(n) <= r[n] /\ (n \in Sfs => (I[n].mem <=> r[n] > 0) /\ I[n].reclaim = IF r[n] > 0 THEN 1 ELSE 0)
  BY DEF Counts
<1>2. PICK e : e = [I[n] EXCEPT !.open = @ - 1]
  OBVIOUS
<1>3. e \in InodeTypes /\ e.ref = r[n] /\ e.open = o[n] - 1 /\ e.mem = I[n].mem /\ e.reclaim = I[n].reclaim
  BY <1>1, <1>2 DEF InodeTypes
<1>4. OpenDec(I, n) = [I EXCEPT ![n] = e]
  BY <1>2 DEF OpenDec
<1>5. PICK s : s = Minus(o, n)
  OBVIOUS
<1>6. s \in [Nodes -> Nat] /\ s[n] = o[n] - 1 /\ \A m \in Nodes : m # n => s[m] = o[m]
  BY <1>1, <1>5, MinusFacts
<1>7. s[n] + Dev(n) <= r[n]
  <2>1. r[n] \in Nat /\ o[n] \in Nat /\ Dev(n) \in Nat
    BY <1>1 DEF Dev
  <2> QED BY <1>1, <1>6, <2>1
<1>8. Counts([I EXCEPT ![n] = e], r, s)
  BY <1>1, <1>3, <1>6, <1>7, OneChanged
<1> QED BY <1>4, <1>5, <1>8

\* The last one to close a file finds it open.
LEMMA CloseCounts ==
  ASSUME TreeAssumption, NEW I, NEW r, NEW o, Counts(I, r, o), NEW n \in Nodes, o[n] > 0
  PROVE  Counts(vfs_close(I, n), Minus(r, n), Minus(o, n))
<1>1. Counts(OpenDec(I, n), r, Minus(o, n))
  BY OpenDecCounts
<1>2. r \in [Nodes -> Nat] /\ o \in [Nodes -> Nat] /\ o[n] + Dev(n) <= r[n]
  BY DEF Counts
<1>3. Minus(o, n)[n] = o[n] - 1 /\ r[n] \in Nat /\ o[n] \in Nat /\ Dev(n) \in Nat
  BY <1>2, MinusFacts DEF Dev
<1>4. Minus(o, n)[n] + Dev(n) < r[n]
  BY <1>2, <1>3
<1>5. PICK J : J = OpenDec(I, n)
  OBVIOUS
<1>6. Counts(RefDec(J, n), Minus(r, n), Minus(o, n))
  BY <1>1, <1>4, <1>5, RefDecCounts
<1> QED BY <1>5, <1>6 DEF vfs_close

\* References r and opens o that some inodes can have.
Sound(r, o) ==
  /\ r \in [Nodes -> Nat] /\ o \in [Nodes -> Nat]
  /\ \A n \in Nodes : o[n] + Dev(n) <= r[n]

\* Counts that an inode has are sound.
LEMMA CountsSound ==
  ASSUME NEW I, NEW r, NEW o, Counts(I, r, o)
  PROVE  Sound(r, o) /\ I \in [Nodes -> InodeTypes] /\ DOMAIN I = Nodes
BY DEF Counts, Sound

\* A reference more keeps the counts sound.
LEMMA SoundPlus ==
  ASSUME NEW r, NEW o, Sound(r, o), NEW n \in Nodes
  PROVE  Sound(Plus(r, n), o) /\ Plus(r, n)[n] > 0
<1>1. r \in [Nodes -> Nat] /\ o \in [Nodes -> Nat] /\ r[n] \in Nat
  BY DEF Sound
<1>2. PICK s : s = Plus(r, n)
  OBVIOUS
<1>3. s \in [Nodes -> Nat] /\ s[n] = r[n] + 1 /\ \A m \in Nodes : m # n => s[m] = r[m]
  BY <1>1, <1>2, PlusFacts
<1>4. ASSUME NEW m \in Nodes PROVE o[m] + Dev(m) <= s[m]
  <2>1. o[m] \in Nat /\ Dev(m) \in Nat /\ r[m] \in Nat /\ o[m] + Dev(m) <= r[m]
    BY <1>1 DEF Dev, Sound
  <2> QED BY <1>3, <2>1
<1> QED BY <1>1, <1>2, <1>3, <1>4 DEF Sound

\* A reference that was taken is given back.
LEMMA GiveBack ==
  ASSUME TreeAssumption, NEW I, NEW r, NEW o, NEW n \in Nodes, Counts(I, Plus(r, n), o), Sound(r, o)
  PROVE  Counts(RefDec(I, n), r, o)
<1>1. r \in [Nodes -> Nat] /\ r[n] \in Nat /\ o[n] \in Nat /\ Dev(n) \in Nat /\ o[n] + Dev(n) <= r[n]
  BY DEF Sound, Dev
<1>2. PICK s : s = Plus(r, n)
  OBVIOUS
<1>3. s[n] = r[n] + 1 /\ Minus(s, n) = r
  BY <1>1, <1>2, PlusFacts
<1>4. o[n] + Dev(n) < s[n]
  BY <1>1, <1>3
<1>5. Counts(RefDec(I, n), Minus(s, n), o)
  BY <1>2, <1>4, RefDecCounts
<1> QED BY <1>3, <1>5

\* The inode b is loaded while a is held; then a is let go.
LEMMA LoadFrom ==
  ASSUME TreeAssumption, NEW I, NEW r, NEW o, NEW a \in Nodes, NEW b \in Sfs, Counts(I, Plus(r, a), o), Sound(r, o)
  PROVE  Counts(RefDec(sfs_load_inode(I, b), a), Plus(r, b), o)
<1>1. b \in Nodes /\ r \in [Nodes -> Nat]
  BY DEF Nodes, Sound
<1>2. Counts(sfs_load_inode(I, b), Plus(Plus(r, a), b), o)
  BY LoadCounts
<1>3. PICK J : J = sfs_load_inode(I, b)
  OBVIOUS
<1>4. Plus(Plus(r, a), b) = Plus(Plus(r, b), a)
  BY <1>1, PlusSwap
<1>5. Sound(Plus(r, b), o)
  BY <1>1, SoundPlus
<1>6. Counts(J, Plus(Plus(r, b), a), o)
  BY <1>2, <1>3, <1>4
<1>7. PICK s : s = Plus(r, b)
  OBVIOUS
<1>8. Counts(RefDec(J, a), s, o)
  BY <1>5, <1>6, <1>7, GiveBack
<1> QED BY <1>3, <1>7, <1>8

-----------------------------------------------------------------------------
(* Names *)

\* What a look-up that began with r references has done.
Shaped(l) == l = [err |-> l.err, I |-> l.I, node |-> l.node]
LookedUp(l, r, o) ==
  /\ Shaped(l)
  /\ \/ l.err = "ok" /\ l.node \in Nodes /\ Counts(l.I, Plus(r, l.node), o)
     \/ l.err = "NOENT" /\ Counts(l.I, r, o)

\* The references a process needs to look up a name.
CanLookUp(r, d) == d \in Dirs /\ r[d] > 0 /\ r[Root] > 0

\* get_device: one reference more to where the path starts.
LEMMA DeviceFound ==
  ASSUME TreeAssumption, NEW I, NEW r, NEW o, Counts(I, r, o), NEW p, NEW path \in Paths, CanLookUp(r, tab[p].pwd)
  PROVE  LET l == get_device(I, p, path)
         IN  Shaped(l) /\ l.err = "ok" /\ l.node \in Dirs \cup Devs /\ Counts(l.I, Plus(r, l.node), o)
<1>1. PICK d : d = tab[p].pwd
  OBVIOUS
<1>2. /\ d \in Dirs /\ d \in Nodes /\ d \in Sfs /\ r[d] > 0
      /\ Root \in Dirs /\ Root \in Nodes /\ Root \in Sfs /\ r[Root] > 0
  BY <1>1 DEF CanLookUp, Sfs, Nodes, TreeAssumption
<1>3. PICK f : f = path.from
  OBVIOUS
<1>4. f \in {"cur", "boot", ":", "disk0"} \cup Devs
  BY <1>3 DEF TreeAssumption
<1>5. \A n \in {"cur", "boot", ":", "disk0"} : n \notin Devs
  BY DEF TreeAssumption
<1>6. CASE f = "cur"
  <2>1. get_device(I, p, path) = Found(RefInc(I, d), d)
    BY <1>1, <1>3, <1>5, <1>6 DEF get_device
  <2>2. Counts(RefInc(I, d), Plus(r, d), o)
    BY <1>2, RefIncCounts
  <2> QED BY <1>2, <2>1, <2>2 DEF Found, Shaped
<1>7. CASE f = "boot"
  <2>1. get_device(I, p, path) = Found(RefInc(I, Root), Root)
    BY <1>3, <1>5, <1>7 DEF get_device
  <2>2. Counts(RefInc(I, Root), Plus(r, Root), o)
    BY <1>2, RefIncCounts
  <2> QED BY <1>2, <2>1, <2>2 DEF Found, Shaped
<1>8. CASE f = ":"
  <2>1. get_device(I, p, path) = Found(RefDec(sfs_load_inode(RefInc(I, d), Root), d), Root)
    BY <1>1, <1>3, <1>5, <1>8 DEF get_device
  <2>2. PICK J : J = RefInc(I, d)
    OBVIOUS
  <2>3. Counts(J, Plus(r, d), o)
    BY <1>2, <2>2, RefIncCounts
  <2>4. Sound(r, o)
    BY CountsSound
  <2>5. Counts(RefDec(sfs_load_inode(J, Root), d), Plus(r, Root), o)
    BY <1>2, <2>3, <2>4, LoadFrom
  <2> QED BY <1>2, <2>1, <2>2, <2>5 DEF Found, Shaped
<1>9. CASE f = "disk0"
  <2>1. get_device(I, p, path) = Found(sfs_load_inode(I, Root), Root)
    BY <1>3, <1>5, <1>9 DEF get_device
  <2>2. Counts(sfs_load_inode(I, Root), Plus(r, Root), o)
    BY <1>2, LoadCounts
  <2> QED BY <1>2, <2>1, <2>2 DEF Found, Shaped
<1>10. CASE f \in Devs
  <2>1. get_device(I, p, path) = Found(RefInc(I, f), f)
    BY <1>3, <1>5, <1>10 DEF get_device
  <2>2. f \in Nodes /\ r[f] \in Nat /\ o[f] \in Nat /\ o[f] + 1 <= r[f]
    BY <1>10 DEF Counts, Dev, Nodes
  <2>3. Counts(RefInc(I, f), Plus(r, f), o)
    BY <2>2, RefIncCounts
  <2> QED BY <1>10, <2>1, <2>3 DEF Found, Shaped
<1> QED BY <1>4, <1>6, <1>7, <1>8, <1>9, <1>10

\* sfs_lookup: one reference more to the entry, none if there is no such entry.
LEMMA EntryFound ==
  ASSUME TreeAssumption, NEW I, NEW r, NEW o, Counts(I, r, o), NEW n \in Dirs \cup Devs, r[n] > 0, NEW name
  PROVE  LookedUp(vop_lookup(I, n, name), r, o)
<1>1. PICK l : l = vop_lookup(I, n, name)
  OBVIOUS
<1>2. CASE n \in Devs
  <2>1. l = Failed(I, "NOENT")
    BY <1>1, <1>2 DEF vop_lookup
  <2> QED BY <1>1, <2>1 DEF Failed, LookedUp, Shaped
<1>3. CASE n \notin Devs
  <2>1. n \in Dirs /\ n \in Nodes /\ l = sfs_lookup(I, n, name)
    BY <1>1, <1>3 DEF vop_lookup, Nodes, Sfs
  <2>2. PICK J : J = RefInc(I, n)
    OBVIOUS
  <2>3. Counts(J, Plus(r, n), o) /\ Sound(r, o)
    BY <2>1, <2>2, RefIncCounts, CountsSound
  <2>4. CASE name \in DOMAIN Entry[n]
    <3>1. PICK b : b = Entry[n][name]
      OBVIOUS
    <3>2. b \in Sfs /\ b \in Nodes
      BY <2>1, <2>4, <3>1 DEF TreeAssumption, Nodes
    <3>3. l = Found(RefDec(sfs_load_inode(J, b), n), b)
      BY <2>1, <2>2, <2>4, <3>1 DEF sfs_lookup
    <3>4. Counts(RefDec(sfs_load_inode(J, b), n), Plus(r, b), o)
      BY <2>1, <2>3, <3>2, LoadFrom
    <3> QED BY <1>1, <3>2, <3>3, <3>4 DEF Found, LookedUp, Shaped
  <2>5. CASE name \notin DOMAIN Entry[n]
    <3>1. l = Failed(RefDec(J, n), "NOENT")
      BY <2>1, <2>2, <2>5 DEF sfs_lookup
    <3>2. Counts(RefDec(J, n), r, o)
      BY <2>1, <2>3, GiveBack
    <3> QED BY <1>1, <3>1, <3>2 DEF Failed, LookedUp, Shaped
  <2> QED BY <2>4, <2>5
<1> QED BY <1>2, <1>3

\* vfs_lookup: one reference more to what was found, none if nothing was.
LEMMA LookupCounts ==
  ASSUME TreeAssumption, NEW I, NEW r, NEW o, Counts(I, r, o), NEW p, NEW path \in Paths, CanLookUp(r, tab[p].pwd)
  PROVE  LookedUp(vfs_lookup(I, p, path), r, o)
<1>1. PICK base : base = get_device(I, p, path)
  OBVIOUS
<1>2. Shaped(base) /\ base.err = "ok" /\ base.node \in Dirs \cup Devs /\ Counts(base.I, Plus(r, base.node), o)
  BY <1>1, DeviceFound
<1>3. PICK b, J : b = base.node /\ J = base.I
  OBVIOUS
<1>4. b \in Dirs \cup Devs /\ b \in Nodes /\ Counts(J, Plus(r, b), o) /\ Sound(r, o) /\ r \in [Nodes -> Nat]
  BY <1>2, <1>3, CountsSound DEF Nodes, Sfs, Sound
<1>5. PICK there : there = vop_lookup(J, b, path.name)
  OBVIOUS
<1>6. CASE path.name = ""
  <2>1. vfs_lookup(I, p, path) = base
    BY <1>1, <1>6 DEF vfs_lookup
  <2> QED BY <1>2, <1>3, <1>4, <2>1 DEF LookedUp
<1>7. CASE path.name # ""
  <2>1. vfs_lookup(I, p, path) = [there EXCEPT !.I = RefDec(there.I, b)]
    BY <1>1, <1>3, <1>5, <1>7 DEF vfs_lookup
  <2>2. Plus(r, b)[b] > 0
    BY <1>4, SoundPlus
  <2>3. LookedUp(there, Plus(r, b), o)
    BY <1>4, <1>5, <2>2, EntryFound
  <2>4. PICK n, K, e : n = there.node /\ K = there.I /\ e = there.err
    OBVIOUS
  <2>5. there = [err |-> e, I |-> K, node |-> n]
    BY <2>3, <2>4 DEF LookedUp, Shaped
  <2>6. vfs_lookup(I, p, path) = [err |-> e, I |-> RefDec(K, b), node |-> n]
    BY <2>1, <2>5
  <2>7. CASE e = "ok"
    <3>1. n \in Nodes /\ Counts(K, Plus(Plus(r, b), n), o)
      BY <2>3, <2>4, <2>7 DEF LookedUp
    <3>2. Plus(Plus(r, b), n) = Plus(Plus(r, n), b)
      BY <1>4, <3>1, PlusSwap
    <3>3. PICK s : s = Plus(r, n)
      OBVIOUS
    <3>4. Sound(s, o) /\ Counts(K, Plus(s, b), o)
      BY <1>4, <3>1, <3>2, <3>3, SoundPlus
    <3>5. Counts(RefDec(K, b), s, o)
      BY <1>4, <3>4, GiveBack
    <3> QED BY <2>6, <2>7, <3>1, <3>3, <3>5 DEF LookedUp, Shaped
  <2>8. CASE e # "ok"
    <3>1. e = "NOENT" /\ Counts(K, Plus(r, b), o)
      BY <2>3, <2>4, <2>8 DEF LookedUp
    <3>2. Counts(RefDec(K, b), r, o)
      BY <1>4, <3>1, GiveBack
    <3> QED BY <2>6, <3>1, <3>2 DEF LookedUp, Shaped
  <2> QED BY <2>7, <2>8
<1> QED BY <1>6, <1>7

\* What vfs_open has done: the file is counted and open; or it was found and
\* kept; or the kernel has panicked; or nothing is left of it.
OpenedUp(l, r, o, fl) ==
  \/ l.err = "ok" /\ l.node \in Nodes /\ Counts(l.I, Plus(r, l.node), Plus(o, l.node))
  \/ l.err = "EXISTS" /\ fl.excl /\ l.node \in Nodes /\ Counts(l.I, Plus(r, l.node), o)
  \/ l.err = "panic" /\ DOMAIN l.I = Nodes
  \/ l.err \in {"NOENT", "INVAL"} /\ Counts(l.I, r, o)

\* vfs_open does one of the four things.
LEMMA OpenCounts ==
  ASSUME TreeAssumption, NEW I, NEW r, NEW o, Counts(I, r, o), NEW p, NEW path \in Paths, CanLookUp(r, tab[p].pwd), NEW fl
  PROVE  OpenedUp(vfs_open(I, p, path, fl), r, o, fl)
<1>1. PICK l : l = vfs_lookup(I, p, path)
  OBVIOUS
<1>2. LookedUp(l, r, o)
  BY <1>1, LookupCounts
<1>3. PICK n, K, e : n = l.node /\ K = l.I /\ e = l.err
  OBVIOUS
<1>4. l = [err |-> e, I |-> K, node |-> n]
  BY <1>2, <1>3 DEF LookedUp, Shaped
<1>5. PICK v : v = vfs_open(I, p, path, fl)
  OBVIOUS
<1>6. Sound(r, o)
  BY CountsSound
<1>7. CASE fl.trunc /\ fl.acc = "r"
  <2>1. v = Failed(I, "INVAL")
    BY <1>5, <1>7 DEF vfs_open
  <2> QED BY <1>5, <2>1 DEF Failed, OpenedUp
<1>8. CASE ~(fl.trunc /\ fl.acc = "r") /\ e # "ok"
  <2>1. e = "NOENT" /\ Counts(K, r, o)
    BY <1>2, <1>3, <1>8 DEF LookedUp
  <2>2. v = (IF fl.creat THEN Failed(K, "panic") ELSE l)
    BY <1>1, <1>3, <1>5, <1>8 DEF vfs_open
  <2>3. DOMAIN K = Nodes
    BY <2>1, CountsSound
  <2>4. CASE fl.creat
    BY <1>5, <2>2, <2>3, <2>4 DEF Failed, OpenedUp
  <2>5. CASE ~fl.creat
    BY <1>3, <1>5, <2>1, <2>2, <2>5 DEF OpenedUp
  <2> QED BY <2>4, <2>5
<1>9. CASE ~(fl.trunc /\ fl.acc = "r") /\ e = "ok"
  <2>1. n \in Nodes /\ Counts(K, Plus(r, n), o)
    BY <1>2, <1>3, <1>9 DEF LookedUp
  <2>2. CASE fl.excl /\ fl.creat
    <3>1. v = [l EXCEPT !.err = "EXISTS"]
      BY <1>1, <1>3, <1>5, <1>9, <2>2 DEF vfs_open
    <3>2. v = [err |-> "EXISTS", I |-> K, node |-> n]
      BY <1>4, <3>1
    <3> QED BY <1>5, <2>1, <2>2, <3>2 DEF OpenedUp
  <2>3. CASE ~(fl.excl /\ fl.creat) /\ ~vop_open(n, fl)
    <3>1. v = Failed(RefDec(K, n), "INVAL")
      BY <1>1, <1>3, <1>5, <1>9, <2>3 DEF vfs_open
    <3>2. Counts(RefDec(K, n), r, o)
      BY <1>6, <2>1, GiveBack
    <3> QED BY <1>5, <3>1, <3>2 DEF Failed, OpenedUp
  <2>4. CASE ~(fl.excl /\ fl.creat) /\ vop_open(n, fl) /\ (fl.trunc \/ fl.creat) /\ n \in Dirs
    <3>1. v = Failed(K, "panic")
      BY <1>1, <1>3, <1>5, <1>9, <2>4 DEF vfs_open
    <3>2. DOMAIN K = Nodes
      BY <2>1, CountsSound
    <3> QED BY <1>5, <3>1, <3>2 DEF Failed, OpenedUp
  <2>5. CASE ~(fl.excl /\ fl.creat) /\ vop_open(n, fl) /\ ~((fl.trunc \/ fl.creat) /\ n \in Dirs)
    <3>1. v = [l EXCEPT !.I = OpenInc(K, n)]
      BY <1>1, <1>3, <1>5, <1>9, <2>5 DEF vfs_open
    <3>2. v = [err |-> "ok", I |-> OpenInc(K, n), node |-> n]
      BY <1>4, <1>9, <3>1
    <3>3. PICK s : s = Plus(r, n)
      OBVIOUS
    <3>4. r[n] \in Nat /\ o[n] \in Nat /\ Dev(n) \in Nat /\ o[n] + Dev(n) <= r[n] /\ s[n] = r[n] + 1
      BY <1>6, <2>1, <3>3, PlusFacts DEF Sound, Dev
    <3>5. o[n] + Dev(n) < s[n]
      BY <3>4
    <3>6. Counts(OpenInc(K, n), s, Plus(o, n))
      BY <2>1, <3>3, <3>5, OpenIncCounts
    <3> QED BY <1>5, <2>1, <3>2, <3>3, <3>6 DEF OpenedUp
  <2> QED BY <2>2, <2>3, <2>4, <2>5
<1> QED BY <1>7, <1>8, <1>9

-----------------------------------------------------------------------------
(* vfs_getcwd *)

\* A turn of Climb.
ClimbTurn(u) ==
  LET par == Entry[u.at][".."]
      J == RefDec(sfs_load_inode(u.I, par), u.at)
  IN  IF u.at = None THEN u
      ELSE IF par = u.at THEN [I |-> RefDec(J, par), at |-> None]
      ELSE [I |-> J, at |-> par]
Climbs(I, n, f) ==
  f = [k \in 0 .. Cardinality(Dirs) |-> IF k = 0 THEN [I |-> RefInc(I, n), at |-> n] ELSE ClimbTurn(f[k - 1])]
ClimbsOf(I, n) == CHOOSE f : Climbs(I, n, f)

\* The climber holds the directory it has come to, and nothing at the end.
Climbing(r, o) ==
  {u \in [I : [Nodes -> InodeTypes], at : Dirs \cup {None}] :
     IF u.at = None THEN Counts(u.I, r, o) ELSE Counts(u.I, Plus(r, u.at), o)}

\* A turn of the climb moves the one reference it holds.
LEMMA ClimbTurnStays ==
  ASSUME TreeAssumption, NEW r, NEW o, Sound(r, o), NEW u \in Climbing(r, o)
  PROVE  /\ ClimbTurn(u) \in Climbing(r, o)
         /\ u.at = None => ClimbTurn(u).at = None
         /\ u.at # None => /\ u.at \in Dirs
                           /\ ClimbTurn(u).at = IF Entry[u.at][".."] = u.at THEN None ELSE Entry[u.at][".."]
<1>1. CASE u.at = None
  BY <1>1 DEF ClimbTurn
<1>2. CASE u.at # None
  <2>1. PICK d, I, par : d = u.at /\ I = u.I /\ par = Entry[u.at][".."]
    OBVIOUS
  <2>2. d \in Dirs /\ par \in Dirs /\ d # None /\ par # None /\ d \in Nodes /\ par \in Nodes /\ par \in Sfs
    <3>1. d \in Dirs
      BY <1>2, <2>1 DEF Climbing
    <3>2. par \in Dirs /\ None \notin Nodes
      BY <2>1, <3>1 DEF TreeAssumption
    <3> QED BY <3>1, <3>2 DEF Nodes, Sfs
  <2>3. Counts(I, Plus(r, d), o)
    BY <1>2, <2>1 DEF Climbing
  <2>4. PICK J : J = RefDec(sfs_load_inode(I, par), d)
    OBVIOUS
  <2>5. Counts(J, Plus(r, par), o)
    BY <2>2, <2>3, <2>4, LoadFrom
  <2>6. Counts(RefDec(J, par), r, o)
    BY <2>2, <2>5, GiveBack
  <2>7. ClimbTurn(u) = IF par = d THEN [I |-> RefDec(J, par), at |-> None] ELSE [I |-> J, at |-> par]
    BY <1>2, <2>1, <2>4 DEF ClimbTurn
  <2>8. J \in [Nodes -> InodeTypes] /\ RefDec(J, par) \in [Nodes -> InodeTypes]
    BY <2>5, <2>6, CountsSound
  <2>9. ClimbTurn(u) \in Climbing(r, o)
    <3>1. CASE par = d
      BY <2>6, <2>7, <2>8, <3>1 DEF Climbing
    <3>2. CASE par # d
      BY <2>2, <2>5, <2>7, <2>8, <3>2 DEF Climbing
    <3> QED BY <3>1, <3>2
  <2> QED BY <1>2, <2>1, <2>2, <2>7, <2>9
<1> QED BY <1>1, <1>2

\* sfs_namefile has given back every reference it took: it reaches Root in time.
LEMMA ClimbCounts ==
  ASSUME TreeAssumption, NEW I, NEW r, NEW o, Counts(I, r, o), NEW n \in Dirs, r[n] > 0
  PROVE  Counts(Climb(I, n), r, o)
<1> DEFINE X == Climbing(r, o)
           c == Cardinality(Dirs)
           G == [k \in 1 .. c |-> [y \in X |-> ClimbTurn(y)]]
           x == [I |-> RefInc(I, n), at |-> n]
<1>0. c \in Nat /\ n \in Nodes /\ n # None /\ Sound(r, o)
  BY FS_CardinalityType, CountsSound DEF TreeAssumption, Nodes, Sfs
<1>1. x \in X
  <2>1. Counts(RefInc(I, n), Plus(r, n), o)
    BY <1>0, RefIncCounts
  <2>2. RefInc(I, n) \in [Nodes -> InodeTypes]
    BY <2>1, CountsSound
  <2> QED BY <1>0, <2>1, <2>2 DEF Climbing
<1>2. \A y \in X : ClimbTurn(y) \in X
  BY <1>0, ClimbTurnStays
<1> HIDE DEF X
<1>3. G \in [1 .. c -> [X -> X]]
  BY <1>2
<1>4. PICK f \in [0 .. c -> X] : IsLoop(f, c, x, G)
  <2> HIDE DEF G, c, x
  <2> QED BY <1>0, <1>1, <1>3, LoopRuns
<1>5. Climbs(I, n, f)
  <2> SUFFICES ASSUME NEW k \in 0 .. c PROVE f[k] = IF k = 0 THEN x ELSE ClimbTurn(f[k - 1])
    BY DEF Climbs
  <2>1. f[k] = IF k = 0 THEN x ELSE G[k][f[k - 1]]
    BY <1>4 DEF IsLoop
  <2>2. CASE k = 0
    BY <2>1, <2>2
  <2>3. CASE k # 0
    <3> HIDE DEF c
    <3>1. k \in 1 .. c /\ k - 1 \in 0 .. c
      BY <1>0, <2>3
    <3>2. f[k - 1] \in X
      BY <3>1
    <3> QED BY <2>1, <2>3, <3>1, <3>2
  <2> QED BY <2>2, <2>3
<1>6. PICK g : g = ClimbsOf(I, n)
  OBVIOUS
<1>7. Climbs(I, n, g)
  BY <1>5, <1>6, Zenon DEF ClimbsOf
<1>8. \A k \in 0 .. c : g[k] = IF k = 0 THEN x ELSE ClimbTurn(g[k - 1])
  BY <1>7, Zenon DEF Climbs
<1>9. PICK depth \in [Dirs -> 0 .. (c - 1)] : \A d \in Dirs \ {Root} : depth[Entry[d][".."]] < depth[d]
  BY DEF TreeAssumption, Rooted
<1> HIDE DEF c
<1> DEFINE S == {k \in Nat : g[k] \in X /\ (g[k].at # None => g[k].at \in Dirs /\ depth[g[k].at] + k <= depth[n])}
<1>10. 0 \in S
  <2>1. g[0] = x
    BY <1>0, <1>8
  <2>2. x.at = n /\ depth[n] \in Nat
    BY <1>0, <1>9
  <2> QED BY <1>1, <2>1, <2>2
<1>11. ASSUME NEW k \in 1 .. c, k - 1 \in S PROVE k \in S
  <2>1. k \in 0 .. c /\ k \in Nat /\ k # 0
    BY <1>0
  <2>2. PICK u : u = g[k - 1]
    OBVIOUS
  <2>3. g[k] = ClimbTurn(u)
    BY <1>8, <2>1, <2>2, Zenon
  <2>4. u \in X /\ (u.at # None => u.at \in Dirs /\ depth[u.at] + (k - 1) <= depth[n])
    BY <1>11, <2>2
  <2>5. /\ ClimbTurn(u) \in X
        /\ u.at = None => ClimbTurn(u).at = None
        /\ u.at # None => u.at \in Dirs /\ ClimbTurn(u).at = IF Entry[u.at][".."] = u.at THEN None ELSE Entry[u.at][".."]
    BY <1>0, <2>4, ClimbTurnStays DEF X
  <2>6. ASSUME g[k].at # None PROVE g[k].at \in Dirs /\ depth[g[k].at] + k <= depth[n]
    <3>1. PICK d, e : d = u.at /\ e = Entry[u.at][".."]
      OBVIOUS
    <3>2. d \in Dirs /\ e \in Dirs /\ e # d /\ g[k].at = e
      BY <2>3, <2>5, <2>6, <3>1 DEF TreeAssumption
    <3>3. d # Root
      BY <3>1, <3>2 DEF TreeAssumption
    <3>4. depth[e] < depth[d] /\ depth[e] \in Int /\ depth[d] \in Int /\ depth[n] \in Int
      BY <1>9, <3>1, <3>2, <3>3
    <3>5. depth[d] + (k - 1) <= depth[n]
      BY <2>3, <2>4, <2>5, <2>6, <3>1
    <3>6. depth[e] + k <= depth[n]
      BY <3>4, <3>5
    <3> QED BY <3>2, <3>6
  <2> QED BY <2>1, <2>3, <2>5, <2>6
<1>12. 0 .. c \subseteq S
  <2> HIDE DEF S
  <2> QED BY <1>0, <1>10, <1>11, LoopInduction
<1>13. g[c] \in X /\ (g[c].at # None => g[c].at \in Dirs /\ depth[g[c].at] + c <= depth[n])
  <2>1. c \in 0 .. c
    BY <1>0
  <2> QED BY <1>12, <2>1
<1>14. g[c].at = None
  <2> SUFFICES ASSUME g[c].at # None PROVE FALSE
    OBVIOUS
  <2>1. depth[g[c].at] \in 0 .. (c - 1) /\ depth[n] \in 0 .. (c - 1)
    BY <1>9, <1>13
  <2> QED BY <1>0, <1>13, <2>1
<1>15. Climb(I, n) = g[c].I
  BY <1>6, Zenon DEF Climb, ClimbsOf, Climbs, ClimbTurn, c
<1> QED BY <1>13, <1>14, <1>15 DEF X, Climbing

-----------------------------------------------------------------------------
(* Descriptor tables *)

FdTypes == [status : {"NONE", "OPENED"}, node : Nodes \cup {None}, count : Nat]
Tables == [on : BOOLEAN, pwd : Nodes \cup {None}, fd : [Fds -> FdTypes]]

\* The counts b of everybody else with the descriptors of T.
Adding(b, T) == [n \in Nodes |-> b[n] + Opens(T, n)]

\* The tables and the processes are finite.
LEMMA FdsFinite ==
  ASSUME TreeAssumption
  PROVE  IsFiniteSet(Fds) /\ IsFiniteSet(All \X Fds) /\ IsFiniteSet(All)
<1>1. NFd \in Nat /\ IsFiniteSet(Procs)
  BY DEF TreeAssumption
<1>2. IsFiniteSet(Fds)
  BY <1>1, FS_Interval DEF Fds
<1>3. IsFiniteSet(All)
  BY <1>1, FS_AddElement DEF All
<1> QED BY <1>2, <1>3, FS_Product

\* A table opens an inode finitely often.
LEMMA OpensType ==
  ASSUME TreeAssumption, NEW T, NEW n
  PROVE  Opens(T, n) \in Nat /\ IsFiniteSet({k \in Opened(T) : T.fd[k].node = n})
<1>1. {k \in Opened(T) : T.fd[k].node = n} \subseteq Fds
  BY DEF Opened
<1>2. IsFiniteSet({k \in Opened(T) : T.fd[k].node = n})
  BY <1>1, FdsFinite, FS_Subset
<1> QED BY <1>2, FS_CardinalityType DEF Opens

\* Counts with the descriptors of a table are counts.
LEMMA WithType ==
  ASSUME TreeAssumption, NEW b \in [Nodes -> Nat], NEW T
  PROVE  Adding(b, T) \in [Nodes -> Nat] /\ \A n \in Nodes : Adding(b, T)[n] = b[n] + Opens(T, n)
<1>1. \A n \in Nodes : Opens(T, n) \in Nat
  BY OpensType
<1> QED BY <1>1 DEF Adding

\* A reference counts beside the descriptors.
LEMMA WithPlus ==
  ASSUME TreeAssumption, NEW b \in [Nodes -> Nat], NEW T, NEW n \in Nodes
  PROVE  Adding(Plus(b, n), T) = Plus(Adding(b, T), n)
<1>1. PICK c, w, v, u : c = Plus(b, n) /\ w = Adding(b, T) /\ v = Adding(c, T) /\ u = Plus(w, n)
  OBVIOUS
<1>2. c \in [Nodes -> Nat] /\ c[n] = b[n] + 1 /\ \A m \in Nodes : m # n => c[m] = b[m]
  BY <1>1, PlusFacts
<1>3. w \in [Nodes -> Nat] /\ \A m \in Nodes : w[m] = b[m] + Opens(T, m)
  BY <1>1, WithType
<1>4. v \in [Nodes -> Nat] /\ \A m \in Nodes : v[m] = c[m] + Opens(T, m)
  BY <1>1, <1>2, WithType
<1>5. u \in [Nodes -> Nat] /\ u[n] = w[n] + 1 /\ \A m \in Nodes : m # n => u[m] = w[m]
  BY <1>1, <1>3, PlusFacts
<1>6. ASSUME NEW m \in Nodes PROVE v[m] = u[m]
  <2>1. Opens(T, m) \in Nat /\ b[m] \in Nat /\ c[m] \in Nat
    BY <1>2, OpensType
  <2>2. CASE m = n
    BY <1>2, <1>3, <1>4, <1>5, <2>1, <2>2
  <2>3. CASE m # n
    BY <1>2, <1>3, <1>4, <1>5, <2>1, <2>3
  <2> QED BY <2>2, <2>3
<1>7. v = u
  BY <1>4, <1>5, <1>6
<1> QED BY <1>1, <1>7

\* U has the descriptors of T and k, which names n.
Opening(T, U, k, n) ==
  /\ k \in Fds /\ T.fd[k].status # "OPENED" /\ U.fd[k].status = "OPENED" /\ U.fd[k].node = n
  /\ \A j \in Fds : j # k => U.fd[j].status = T.fd[j].status /\ U.fd[j].node = T.fd[j].node

\* One descriptor more is one reference more.
LEMMA OneOpened ==
  ASSUME TreeAssumption, NEW b \in [Nodes -> Nat], NEW T, NEW U, NEW k, NEW n \in Nodes, Opening(T, U, k, n)
  PROVE  Adding(b, U) = Plus(Adding(b, T), n)
<1>1. ASSUME NEW m \in Nodes PROVE Opens(U, m) = Opens(T, m) + IF m = n THEN 1 ELSE 0
  <2> DEFINE A == {j \in Opened(T) : T.fd[j].node = m}
             B == {j \in Opened(U) : U.fd[j].node = m}
  <2>1. IsFiniteSet(A) /\ k \notin A
    <3>1. IsFiniteSet(A)
      BY OpensType, Zenon
    <3> QED BY <3>1 DEF Opening, Opened
  <2>2. CASE m = n
    <3>1. B = A \cup {k}
      BY <2>2 DEF Opening, Opened
    <3>2. Cardinality(A \cup {k}) = Cardinality(A) + 1
      <4> HIDE DEF A
      <4> QED BY <2>1, FS_AddElement
    <3> QED BY <2>2, <3>1, <3>2 DEF Opens
  <2>3. CASE m # n
    <3>1. B = A
      BY <2>3 DEF Opening, Opened
    <3>2. Opens(T, m) \in Nat
      BY OpensType
    <3>3. Opens(U, m) = Opens(T, m)
      BY <3>1 DEF Opens
    <3> QED BY <2>3, <3>2, <3>3
  <2> QED BY <2>2, <2>3
<1>2. PICK w, v, u : w = Adding(b, T) /\ v = Adding(b, U) /\ u = Plus(w, n)
  OBVIOUS
<1>3. w \in [Nodes -> Nat] /\ \A m \in Nodes : w[m] = b[m] + Opens(T, m)
  BY <1>2, WithType
<1>4. v \in [Nodes -> Nat] /\ \A m \in Nodes : v[m] = b[m] + Opens(U, m)
  BY <1>2, WithType
<1>5. u \in [Nodes -> Nat] /\ u[n] = w[n] + 1 /\ \A m \in Nodes : m # n => u[m] = w[m]
  BY <1>2, <1>3, PlusFacts
<1>6. ASSUME NEW m \in Nodes PROVE v[m] = u[m]
  <2>1. Opens(T, m) \in Nat /\ b[m] \in Nat
    BY OpensType
  <2>2. CASE m = n
    BY <1>1, <1>3, <1>4, <1>5, <2>1, <2>2
  <2>3. CASE m # n
    BY <1>1, <1>3, <1>4, <1>5, <2>1, <2>3
  <2> QED BY <2>2, <2>3
<1>7. v = u
  BY <1>4, <1>5, <1>6
<1> QED BY <1>2, <1>7

\* U lacks the descriptor k of T.
LEMMA OneClosed ==
  ASSUME TreeAssumption, NEW b \in [Nodes -> Nat], NEW T, NEW U, NEW k, NEW n \in Nodes, Opening(U, T, k, n)
  PROVE  Adding(b, U) = Minus(Adding(b, T), n) /\ Adding(b, T)[n] > b[n]
<1>1. PICK w, v : w = Adding(b, U) /\ v = Adding(b, T)
  OBVIOUS
<1>2. v = Plus(w, n) /\ w \in [Nodes -> Nat] /\ w[n] = b[n] + Opens(U, n)
  BY <1>1, OneOpened, WithType
<1>3. Minus(v, n) = w /\ v[n] = w[n] + 1
  BY <1>2, PlusFacts
<1>4. Opens(U, n) \in Nat /\ b[n] \in Nat
  BY OpensType
<1>5. v[n] > b[n]
  BY <1>2, <1>3, <1>4
<1> QED BY <1>1, <1>3, <1>5

\* The same descriptors count the same.
LEMMA SameOpen ==
  ASSUME NEW b, NEW T, NEW U, \A j \in Fds : U.fd[j].status = T.fd[j].status /\ U.fd[j].node = T.fd[j].node
  PROVE  Adding(b, U) = Adding(b, T)
<1>1. ASSUME NEW m \in Nodes PROVE Opens(U, m) = Opens(T, m)
  <2>1. {j \in Opened(U) : U.fd[j].node = m} = {j \in Opened(T) : T.fd[j].node = m}
    BY DEF Opened
  <2> QED BY <2>1 DEF Opens
<1> QED BY <1>1 DEF Adding

-----------------------------------------------------------------------------
(* Closing *)

\* A table nobody reads from.
Idle(T) ==
  /\ T \in Tables
  /\ \A k \in Fds : /\ T.fd[k].count = IF T.fd[k].status = "OPENED" THEN 1 ELSE 0
                    /\ T.fd[k].status = "OPENED" => T.fd[k].node \in Nodes
Held(s, br, bo) == Counts(s.I, Adding(br, s.T), Adding(bo, s.T))

\* What a process can make of its table T0 by closing descriptors.
Holding(br, bo, T0) ==
  {s \in [I : [Nodes -> InodeTypes], T : Tables] :
     Idle(s.T) /\ Held(s, br, bo) /\ s.T.pwd = T0.pwd /\ s.T.on = T0.on}

\* The entry of a descriptor that is not in use.
LEMMA ClosedType == Closed \in FdTypes /\ Closed.status = "NONE" /\ Closed.count = 0 /\ Closed.node = None
BY DEF Closed, FdTypes

\* The table T without its descriptor k.
Less(T, k) == [on |-> T.on, pwd |-> T.pwd, fd |-> [T.fd EXCEPT ![k] = Closed]]

\* What is left of a table when a descriptor is closed.
LEMMA TableWithout ==
  ASSUME NEW T, Idle(T), NEW k \in Fds, NEW U, U = Less(T, k)
  PROVE  /\ Idle(U) /\ U.on = T.on /\ U.pwd = T.pwd /\ U.fd[k].status = "NONE"
         /\ \A j \in Fds : j # k => U.fd[j] = T.fd[j]
<1>1. PICK f, g : f = T.fd /\ g = [f EXCEPT ![k] = Closed]
  OBVIOUS
<1>2. f \in [Fds -> FdTypes] /\ T.on \in BOOLEAN /\ T.pwd \in Nodes \cup {None}
  BY <1>1 DEF Idle, Tables
<1>3. g \in [Fds -> FdTypes] /\ g[k] = Closed /\ \A j \in Fds : j # k => g[j] = f[j]
  BY <1>1, <1>2, ClosedType
<1>4. U = [on |-> T.on, pwd |-> T.pwd, fd |-> g]
  BY <1>1 DEF Less
<1>5. U.fd = g /\ U.on = T.on /\ U.pwd = T.pwd
  BY <1>4
<1>6. U \in Tables
  <2>1. PICK a, d : a = T.on /\ d = T.pwd
    OBVIOUS
  <2>2. a \in BOOLEAN /\ d \in Nodes \cup {None} /\ U = [on |-> a, pwd |-> d, fd |-> g]
    BY <1>2, <1>4, <2>1
  <2>3. a \in BOOLEAN /\ d \in Nodes \cup {None} /\ g \in [Fds -> FdTypes]
    BY <1>3, <2>2
  <2>4. [on |-> a, pwd |-> d, fd |-> g] \in Tables
    <3> HIDE DEF FdTypes
    <3> QED BY <2>3, Zenon DEF Tables
  <2> QED BY <2>2, <2>4
<1>7. ASSUME NEW j \in Fds
      PROVE  /\ g[j].count = IF g[j].status = "OPENED" THEN 1 ELSE 0
             /\ g[j].status = "OPENED" => g[j].node \in Nodes
  <2>1. CASE j = k
    BY <1>3, <2>1, ClosedType
  <2>2. CASE j # k
    BY <1>1, <1>3, <2>2 DEF Idle
  <2> QED BY <2>1, <2>2
<1>8. Idle(U)
  BY <1>5, <1>6, <1>7 DEF Idle
<1> QED BY <1>1, <1>3, <1>5, <1>8, ClosedType

\* fd_array_close of a file nobody reads: it is freed at once.
LEMMA CloseIs ==
  ASSUME NEW s \in [I : [Nodes -> InodeTypes], T : Tables], Idle(s.T), NEW k \in Fds, s.T.fd[k].status = "OPENED"
  PROVE  fd_array_close(s, k) = [I |-> vfs_close(s.I, s.T.fd[k].node), T |-> Less(s.T, k)]
<1>1. PICK I, T, f, e : I = s.I /\ T = s.T /\ f = T.fd /\ e = f[k]
  OBVIOUS
<1>2. s = [I |-> I, T |-> T] /\ T = [on |-> T.on, pwd |-> T.pwd, fd |-> f]
      /\ f \in [Fds -> FdTypes] /\ e \in FdTypes /\ e.status = "OPENED" /\ e.count = 1
  BY <1>1 DEF Tables, Idle
<1>3. PICK e1 : e1 = [e EXCEPT !.status = "CLOSED"]
  OBVIOUS
<1>4. e1.status = "CLOSED" /\ e1.count = 1 /\ e1.node = e.node
  BY <1>2, <1>3 DEF FdTypes
<1>5. PICK f1 : f1 = [f EXCEPT ![k] = e1]
  OBVIOUS
<1>6. f1[k] = e1 /\ DOMAIN f1 = Fds
  BY <1>2, <1>5
<1>7. PICK s1 : s1 = [I |-> I, T |-> [on |-> T.on, pwd |-> T.pwd, fd |-> f1]]
  OBVIOUS
<1>8. [s EXCEPT !.T.fd[k].status = "CLOSED"] = s1
  BY <1>1, <1>2, <1>3, <1>5, <1>7
<1>9. PICK e2 : e2 = [e1 EXCEPT !.count = @ - 1]
  OBVIOUS
<1>10. e2.status = "CLOSED" /\ e2.count = 0 /\ e2.node = e.node
  <2>1. e1 = [status |-> "CLOSED", node |-> e.node, count |-> 1]
    BY <1>2, <1>3 DEF FdTypes
  <2> QED BY <1>9, <2>1
<1>11. PICK f2 : f2 = [f1 EXCEPT ![k] = e2]
  OBVIOUS
<1>12. f2[k] = e2 /\ [f2 EXCEPT ![k] = Closed] = [f EXCEPT ![k] = Closed]
  BY <1>2, <1>5, <1>6, <1>11
<1>13. PICK s2 : s2 = [I |-> I, T |-> [on |-> T.on, pwd |-> T.pwd, fd |-> f2]]
  OBVIOUS
<1>14. [s1 EXCEPT !.T.fd[k].count = @ - 1] = s2
  BY <1>6, <1>7, <1>9, <1>11, <1>13
<1>15. s2.T.fd[k].count = 0 /\ s2.T.fd[k].status = "CLOSED" /\ s2.T.fd[k].node = e.node /\ s2.I = I
  BY <1>10, <1>12, <1>13
<1>16. fd_array_close(s, k) = fd_array_free(s2, k)
  BY <1>8, <1>14, <1>15 DEF fd_array_close, fd_array_release
<1>17. [s2.T EXCEPT !.fd[k] = Closed] = [on |-> T.on, pwd |-> T.pwd, fd |-> [f EXCEPT ![k] = Closed]]
  BY <1>12, <1>13
<1>18. fd_array_free(s2, k) = [I |-> vfs_close(I, e.node), T |-> [s2.T EXCEPT !.fd[k] = Closed]]
  BY <1>15 DEF fd_array_free
<1> QED BY <1>1, <1>16, <1>17, <1>18 DEF Less

\* fd_array_close gives back one reference and one open.
LEMMA CloseHolds ==
  ASSUME TreeAssumption, NEW br \in [Nodes -> Nat], NEW bo \in [Nodes -> Nat], NEW T0, NEW s \in Holding(br, bo, T0),
         NEW k \in Fds, s.T.fd[k].status = "OPENED"
  PROVE  /\ fd_array_close(s, k) \in Holding(br, bo, T0)
         /\ fd_array_close(s, k).T.fd[k].status = "NONE"
         /\ \A j \in Fds : j # k => fd_array_close(s, k).T.fd[j] = s.T.fd[j]
<1>1. s \in [I : [Nodes -> InodeTypes], T : Tables] /\ Idle(s.T) /\ Held(s, br, bo)
      /\ s.T.pwd = T0.pwd /\ s.T.on = T0.on
  BY DEF Holding
<1>2. PICK I, T, n : I = s.I /\ T = s.T /\ n = T.fd[k].node
  OBVIOUS
<1>3. PICK U : U = Less(T, k)
  OBVIOUS
<1>4. Idle(U) /\ U.on = T.on /\ U.pwd = T.pwd /\ U.fd[k].status = "NONE" /\ \A j \in Fds : j # k => U.fd[j] = T.fd[j]
  <2>1. Idle(T)
    BY <1>1, <1>2
  <2> QED BY <1>3, <2>1, TableWithout
<1>5. PICK c : c = fd_array_close(s, k)
  OBVIOUS
<1>6. c = [I |-> vfs_close(I, n), T |-> U]
  BY <1>1, <1>2, <1>3, <1>5, CloseIs
<1>7. n \in Nodes /\ Opening(U, T, k, n)
  BY <1>1, <1>2, <1>4 DEF Idle, Opening
<1>8. Adding(br, U) = Minus(Adding(br, T), n) /\ Adding(bo, U) = Minus(Adding(bo, T), n) /\ Adding(bo, T)[n] > bo[n]
  BY <1>7, OneClosed
<1>9. Counts(I, Adding(br, T), Adding(bo, T))
  BY <1>1, <1>2 DEF Held
<1>10. PICK r, o : r = Adding(br, T) /\ o = Adding(bo, T)
  OBVIOUS
<1>11. o[n] > 0
  <2>1. o[n] \in Nat /\ bo[n] \in Nat
    BY <1>7, <1>10, WithType
  <2> QED BY <1>8, <1>10, <2>1
<1>12. Counts(vfs_close(I, n), Minus(r, n), Minus(o, n))
  BY <1>7, <1>9, <1>10, <1>11, CloseCounts
<1>13. Held(c, br, bo) /\ c.I \in [Nodes -> InodeTypes]
  <2>1. Counts(c.I, Adding(br, c.T), Adding(bo, c.T))
    BY <1>6, <1>8, <1>10, <1>12
  <2> QED BY <2>1, CountsSound DEF Held
<1>14. c \in Holding(br, bo, T0)
  <2>1. c.T = U /\ U \in Tables /\ c = [I |-> c.I, T |-> U]
    BY <1>4, <1>6 DEF Idle
  <2> QED BY <1>1, <1>2, <1>4, <1>13, <2>1 DEF Holding
<1> QED BY <1>2, <1>4, <1>5, <1>6, <1>14

CloseTurn(s, first, k, t) ==
  IF k <= first THEN s
  ELSE IF k - 1 \in Opened(t.T) THEN fd_array_close(t, k - 1) ELSE t
Closes(s, first, f) == f = [k \in 0 .. NFd |-> CloseTurn(s, first, k, f[k - 1])]
ClosesOf(s, first) == CHOOSE f : Closes(s, first, f)

\* After k turns the descriptors from first to k are closed.
ClosedTo(t, first, k) == \A j \in Fds : first <= j /\ j < k => t.T.fd[j].status # "OPENED"

\* A turn of the loop of files_closeall.
LEMMA CloseTurnHolds ==
  ASSUME TreeAssumption, NEW br \in [Nodes -> Nat], NEW bo \in [Nodes -> Nat], NEW T0,
         NEW s \in Holding(br, bo, T0), NEW first \in Nat, NEW k \in 1 .. NFd, NEW t \in Holding(br, bo, T0)
  PROVE  /\ CloseTurn(s, first, k, t) \in Holding(br, bo, T0)
         /\ ClosedTo(t, first, k - 1) => ClosedTo(CloseTurn(s, first, k, t), first, k)
<1>0. k - 1 \in Fds /\ NFd \in Nat /\ Fds \subseteq Nat
  <2>1. NFd \in Nat
    BY DEF TreeAssumption
  <2> QED BY <2>1 DEF Fds
<1>1. CASE k <= first
  <2>1. CloseTurn(s, first, k, t) = s
    BY <1>1 DEF CloseTurn
  <2>2. ASSUME NEW j \in Fds, first <= j, j < k PROVE FALSE
    <3>1. j \in Nat
      BY <1>0
    <3> QED BY <1>1, <2>2, <3>1
  <2> QED BY <2>1, <2>2 DEF ClosedTo
<1>2. CASE ~(k <= first) /\ k - 1 \in Opened(t.T)
  <2>1. PICK c, i : i = k - 1 /\ c = fd_array_close(t, i)
    OBVIOUS
  <2>2. CloseTurn(s, first, k, t) = c
    BY <1>2, <2>1 DEF CloseTurn
  <2>3. i \in Fds /\ t.T.fd[i].status = "OPENED"
    BY <1>0, <1>2, <2>1 DEF Opened
  <2>4. c \in Holding(br, bo, T0) /\ c.T.fd[i].status = "NONE" /\ \A j \in Fds : j # i => c.T.fd[j] = t.T.fd[j]
    BY <2>1, <2>3, CloseHolds
  <2>5. ASSUME ClosedTo(t, first, k - 1), NEW j \in Fds, first <= j, j < k PROVE c.T.fd[j].status # "OPENED"
    <3>1. CASE j = i
      BY <2>4, <3>1
    <3>2. CASE j # i
      <4>1. j < k - 1
        BY <1>0, <2>1, <2>5, <3>2
      <4>2. t.T.fd[j].status # "OPENED"
        BY <2>5, <4>1 DEF ClosedTo
      <4> QED BY <2>4, <3>2, <4>2
    <3> QED BY <3>1, <3>2
  <2> QED BY <2>2, <2>4, <2>5 DEF ClosedTo
<1>3. CASE ~(k <= first) /\ k - 1 \notin Opened(t.T)
  <2>1. CloseTurn(s, first, k, t) = t
    BY <1>3 DEF CloseTurn
  <2>2. ASSUME ClosedTo(t, first, k - 1), NEW j \in Fds, first <= j, j < k PROVE t.T.fd[j].status # "OPENED"
    <3>1. CASE j = k - 1
      BY <1>0, <1>3, <3>1 DEF Opened
    <3>2. CASE j # k - 1
      <4>1. j < k - 1
        BY <1>0, <2>2, <3>2
      <4> QED BY <2>2, <4>1 DEF ClosedTo
    <3> QED BY <3>1, <3>2
  <2> QED BY <2>1, <2>2 DEF ClosedTo
<1> QED BY <1>1, <1>2, <1>3

\* The loop of files_closeall and files_destroy closes all from first on.
LEMMA CloseFromHolds ==
  ASSUME TreeAssumption, NEW br \in [Nodes -> Nat], NEW bo \in [Nodes -> Nat], NEW T0,
         NEW s \in Holding(br, bo, T0), NEW first \in Nat
  PROVE  CloseFrom(s, first) \in Holding(br, bo, T0) /\ ClosedTo(CloseFrom(s, first), first, NFd)
<1> DEFINE X == Holding(br, bo, T0)
           G == [k \in 1 .. NFd |-> [y \in X |-> CloseTurn(s, first, k, y)]]
<1>0. NFd \in Nat /\ s \in X
  BY DEF TreeAssumption
<1>1. \A k \in 1 .. NFd : \A y \in X : CloseTurn(s, first, k, y) \in X
  BY CloseTurnHolds
<1>2. \A y : CloseTurn(s, first, 0, y) = s
  BY DEF CloseTurn
<1> HIDE DEF X
<1>3. G \in [1 .. NFd -> [X -> X]]
  BY <1>1
<1>4. PICK f \in [0 .. NFd -> X] : IsLoop(f, NFd, s, G)
  <2> HIDE DEF G
  <2> QED BY <1>0, <1>3, LoopRuns
<1>5. Closes(s, first, f)
  <2> SUFFICES ASSUME NEW k \in 0 .. NFd PROVE f[k] = CloseTurn(s, first, k, f[k - 1])
    BY DEF Closes
  <2>1. f[k] = IF k = 0 THEN s ELSE G[k][f[k - 1]]
    BY <1>4 DEF IsLoop
  <2>2. CASE k = 0
    BY <1>2, <2>1, <2>2
  <2>3. CASE k # 0
    <3>1. k \in 1 .. NFd /\ k - 1 \in 0 .. NFd
      BY <1>0, <2>3
    <3>2. f[k - 1] \in X
      BY <3>1
    <3> QED BY <2>1, <2>3, <3>1, <3>2
  <2> QED BY <2>2, <2>3
<1>6. PICK g : g = ClosesOf(s, first)
  OBVIOUS
<1>7. Closes(s, first, g)
  BY <1>5, <1>6, Zenon DEF ClosesOf
<1>8. \A k \in 0 .. NFd : g[k] = CloseTurn(s, first, k, g[k - 1])
  BY <1>7, Zenon DEF Closes
<1> DEFINE S == {k \in Nat : g[k] \in X /\ ClosedTo(g[k], first, k)}
<1>9. 0 \in S
  <2>1. g[0] = s
    BY <1>0, <1>2, <1>8
  <2>2. ClosedTo(s, first, 0)
    BY DEF ClosedTo, Fds
  <2> QED BY <1>0, <2>1, <2>2
<1>10. ASSUME NEW k \in 1 .. NFd, k - 1 \in S PROVE k \in S
  <2>1. k \in 0 .. NFd /\ k \in Nat /\ g[k - 1] \in X /\ ClosedTo(g[k - 1], first, k - 1)
    BY <1>0, <1>10
  <2>2. g[k] = CloseTurn(s, first, k, g[k - 1])
    BY <1>8, <2>1, Zenon
  <2>3. PICK y : y = g[k - 1]
    OBVIOUS
  <2>4. CloseTurn(s, first, k, y) \in X /\ ClosedTo(CloseTurn(s, first, k, y), first, k)
    BY <2>1, <2>3, CloseTurnHolds DEF X
  <2> QED BY <2>1, <2>2, <2>3, <2>4
<1>11. 0 .. NFd \subseteq S
  <2> HIDE DEF S
  <2> QED BY <1>0, <1>9, <1>10, LoopInduction
<1>12. g[NFd] \in X /\ ClosedTo(g[NFd], first, NFd)
  <2>1. NFd \in 0 .. NFd
    BY <1>0
  <2> QED BY <1>11, <2>1
<1>13. CloseFrom(s, first) = g[NFd]
  BY <1>6, Zenon DEF CloseFrom, ClosesOf, Closes, CloseTurn
<1> QED BY <1>12, <1>13 DEF X

-----------------------------------------------------------------------------
(* Opening and duplicating *)

OpenFd(n) == [status |-> "OPENED", node |-> n, count |-> 1]

\* A table with a descriptor more.
LEMMA TableMore ==
  ASSUME NEW T, Idle(T), NEW k \in Fds, NEW n \in Nodes, NEW U, U = fd_array_open(T, k, n)
  PROVE  /\ Idle(U) /\ U.on = T.on /\ U.pwd = T.pwd /\ U.fd[k] = OpenFd(n)
         /\ \A j \in Fds : j # k => U.fd[j] = T.fd[j]
<1>0. OpenFd(n) \in FdTypes /\ OpenFd(n).status = "OPENED" /\ OpenFd(n).node = n /\ OpenFd(n).count = 1
  BY DEF OpenFd, FdTypes
<1>1. PICK f, g, e, a, d : f = T.fd /\ e = OpenFd(n) /\ g = [f EXCEPT ![k] = e] /\ a = T.on /\ d = T.pwd
  OBVIOUS
<1>2. f \in [Fds -> FdTypes] /\ a \in BOOLEAN /\ d \in Nodes \cup {None} /\ T = [on |-> a, pwd |-> d, fd |-> f]
  BY <1>1 DEF Idle, Tables
<1>3. g \in [Fds -> FdTypes] /\ g[k] = e /\ \A j \in Fds : j # k => g[j] = f[j]
  BY <1>0, <1>1, <1>2
<1>4. U = [on |-> a, pwd |-> d, fd |-> g]
  BY <1>1, <1>2 DEF fd_array_open, OpenFd
<1>5. U.fd = g /\ U.on = T.on /\ U.pwd = T.pwd
  BY <1>1, <1>4
<1>6. U \in Tables
  <2>1. [on |-> a, pwd |-> d, fd |-> g] \in Tables
    <3> HIDE DEF FdTypes
    <3> QED BY <1>2, <1>3, Zenon DEF Tables
  <2> QED BY <1>4, <2>1
<1>7. ASSUME NEW j \in Fds
      PROVE  /\ g[j].count = IF g[j].status = "OPENED" THEN 1 ELSE 0
             /\ g[j].status = "OPENED" => g[j].node \in Nodes
  <2>1. CASE j = k
    BY <1>0, <1>1, <1>3, <2>1
  <2>2. CASE j # k
    BY <1>1, <1>3, <2>2 DEF Idle
  <2> QED BY <2>1, <2>2
<1>8. Idle(U)
  BY <1>5, <1>6, <1>7 DEF Idle
<1> QED BY <1>1, <1>3, <1>5, <1>8

\* It counts one more for the file.
LEMMA MoreCounts ==
  ASSUME TreeAssumption, NEW b \in [Nodes -> Nat], NEW T, Idle(T), NEW k \in Fds, NEW n \in Nodes,
         T.fd[k].status # "OPENED"
  PROVE  Adding(b, fd_array_open(T, k, n)) = Plus(Adding(b, T), n)
<1>1. PICK U : U = fd_array_open(T, k, n)
  OBVIOUS
<1>2. U.fd[k] = OpenFd(n) /\ \A j \in Fds : j # k => U.fd[j] = T.fd[j]
  BY <1>1, TableMore
<1>3. Opening(T, U, k, n)
  BY <1>2 DEF Opening, OpenFd
<1> QED BY <1>1, <1>3, OneOpened

RestSame(U, T, k) == \A j \in Fds : j # k => U.fd[j] = T.fd[j]

\* fd_array_dup takes one reference and one open.
LEMMA DupHolds ==
  ASSUME TreeAssumption, NEW br \in [Nodes -> Nat], NEW bo \in [Nodes -> Nat], NEW T0, NEW s \in Holding(br, bo, T0),
         NEW k \in Fds, s.T.fd[k].status # "OPENED", NEW n \in Nodes, Adding(br, s.T)[n] > 0
  PROVE  /\ fd_array_dup(s, k, n) \in Holding(br, bo, T0)
         /\ RestSame(fd_array_dup(s, k, n).T, s.T, k)
<1>1. s \in [I : [Nodes -> InodeTypes], T : Tables] /\ Idle(s.T) /\ Held(s, br, bo)
      /\ s.T.pwd = T0.pwd /\ s.T.on = T0.on
  BY DEF Holding
<1>2. PICK I, T, U, r, o : I = s.I /\ T = s.T /\ U = fd_array_open(T, k, n) /\ r = Adding(br, T) /\ o = Adding(bo, T)
  OBVIOUS
<1>3. Counts(I, r, o) /\ Idle(T) /\ r[n] > 0
  BY <1>1, <1>2 DEF Held
<1>4. Idle(U) /\ U.on = T.on /\ U.pwd = T.pwd /\ \A j \in Fds : j # k => U.fd[j] = T.fd[j]
  BY <1>2, <1>3, TableMore
<1>5. Adding(br, U) = Plus(r, n) /\ Adding(bo, U) = Plus(o, n)
  BY <1>2, <1>3, MoreCounts
<1>6. PICK J : J = RefInc(I, n)
  OBVIOUS
<1>7. Counts(J, Plus(r, n), o)
  BY <1>3, <1>6, RefIncCounts
<1>8. r[n] \in Nat /\ o[n] \in Nat /\ Dev(n) \in Nat /\ o[n] + Dev(n) <= r[n] /\ Plus(r, n)[n] = r[n] + 1
  <2>1. Sound(r, o)
    BY <1>3, CountsSound
  <2>2. r \in [Nodes -> Nat]
    BY <2>1 DEF Sound
  <2> QED BY <2>1, <2>2, PlusFacts DEF Sound, Dev
<1>9. o[n] + Dev(n) < Plus(r, n)[n]
  BY <1>8
<1>10. PICK w : w = Plus(r, n)
  OBVIOUS
<1>11. Counts(OpenInc(J, n), w, Plus(o, n))
  BY <1>7, <1>9, <1>10, OpenIncCounts
<1>12. PICK c : c = fd_array_dup(s, k, n)
  OBVIOUS
<1>13. c = [I |-> OpenInc(J, n), T |-> U]
  BY <1>2, <1>6, <1>12 DEF fd_array_dup
<1>14. Held(c, br, bo) /\ c.I \in [Nodes -> InodeTypes]
  <2>1. Counts(c.I, Adding(br, c.T), Adding(bo, c.T))
    BY <1>5, <1>10, <1>11, <1>13
  <2> QED BY <2>1, CountsSound DEF Held
<1>15. c \in Holding(br, bo, T0)
  <2>1. c.T = U /\ U \in Tables /\ c = [I |-> c.I, T |-> U]
    BY <1>4, <1>13 DEF Idle
  <2> QED BY <1>1, <1>2, <1>4, <1>14, <2>1 DEF Holding
<1>16. RestSame(c.T, T, k)
  BY <1>4, <1>13 DEF RestSame
<1> QED BY <1>2, <1>12, <1>15, <1>16

DupTurn(from, k, y) ==
  IF k - 1 \in Opened(from) THEN fd_array_dup(y, k - 1, from.fd[k - 1].node) ELSE y
DupStart(I, from) ==
  [I |-> IF from.pwd = None THEN I ELSE RefInc(I, from.pwd), T |-> [NoFiles EXCEPT !.on = TRUE, !.pwd = from.pwd]]
Dups(I, from, f) == f = [k \in 0 .. NFd |-> IF k = 0 THEN DupStart(I, from) ELSE DupTurn(from, k, f[k - 1])]
DupsOf(I, from) == CHOOSE f : Dups(I, from, f)
States == [I : [Nodes -> InodeTypes], T : Tables]

\* A turn of dup_files keeps the types.
LEMMA DupTurnType ==
  ASSUME TreeAssumption, NEW from, Idle(from), NEW k \in 1 .. NFd, NEW y \in States
  PROVE  DupTurn(from, k, y) \in States
<1>1. CASE k - 1 \notin Opened(from)
  BY <1>1 DEF DupTurn
<1>2. CASE k - 1 \in Opened(from)
  <2>1. PICK i, n, I, T : i = k - 1 /\ n = from.fd[i].node /\ I = y.I /\ T = y.T
    OBVIOUS
  <2>2. i \in Fds /\ n \in Nodes /\ I \in [Nodes -> InodeTypes] /\ T \in Tables
    BY <1>2, <2>1 DEF Opened, Idle, States
  <2>3. PICK J : J = RefInc(I, n)
    OBVIOUS
  <2>4. J \in [Nodes -> InodeTypes]
    <3>1. PICK e : e = [I[n] EXCEPT !.ref = @ + 1]
      OBVIOUS
    <3>2. e \in InodeTypes
      BY <2>2, <3>1 DEF InodeTypes
    <3> QED BY <2>2, <2>3, <3>1, <3>2 DEF RefInc
  <2>5. PICK K : K = OpenInc(J, n)
    OBVIOUS
  <2>6. K \in [Nodes -> InodeTypes]
    <3>1. PICK e : e = [J[n] EXCEPT !.open = @ + 1]
      OBVIOUS
    <3>2. e \in InodeTypes
      BY <2>2, <2>4, <3>1 DEF InodeTypes
    <3> QED BY <2>2, <2>4, <2>5, <3>1, <3>2 DEF OpenInc
  <2>7. PICK U : U = fd_array_open(T, i, n)
    OBVIOUS
  <2>8. U \in Tables
    <3>1. PICK f, g, e, a, d : f = T.fd /\ e = OpenFd(n) /\ g = [f EXCEPT ![i] = e] /\ a = T.on /\ d = T.pwd
      OBVIOUS
    <3>2. f \in [Fds -> FdTypes] /\ a \in BOOLEAN /\ d \in Nodes \cup {None} /\ T = [on |-> a, pwd |-> d, fd |-> f]
      BY <2>2, <3>1 DEF Tables
    <3>3. e \in FdTypes
      BY <2>2, <3>1 DEF OpenFd, FdTypes
    <3>4. g \in [Fds -> FdTypes]
      BY <3>1, <3>2, <3>3
    <3>5. U = [on |-> a, pwd |-> d, fd |-> g]
      BY <2>7, <3>1, <3>2 DEF fd_array_open, OpenFd
    <3>6. [on |-> a, pwd |-> d, fd |-> g] \in Tables
      <4> HIDE DEF FdTypes
      <4> QED BY <3>2, <3>4, Zenon DEF Tables
    <3> QED BY <3>5, <3>6
  <2>9. DupTurn(from, k, y) = [I |-> K, T |-> U]
    BY <1>2, <2>1, <2>3, <2>5, <2>7 DEF DupTurn, fd_array_dup
  <2> QED BY <2>6, <2>8, <2>9 DEF States
<1> QED BY <1>1, <1>2

\* The table of a process that has none.
LEMMA NoFilesIdle ==
  /\ Idle(NoFiles) /\ NoFiles.on = FALSE /\ NoFiles.pwd = None
  /\ \A k \in Fds : NoFiles.fd[k] = Closed
<1>1. PICK f : f = [k \in Fds |-> Closed]
  OBVIOUS
<1>2. f \in [Fds -> FdTypes] /\ \A k \in Fds : f[k] = Closed
  BY <1>1, ClosedType
<1>3. NoFiles = [on |-> FALSE, pwd |-> None, fd |-> f]
  BY <1>1 DEF NoFiles
<1>4. NoFiles \in Tables
  <2>1. PICK a, d : a = FALSE /\ d = None
    OBVIOUS
  <2>2. a \in BOOLEAN /\ d \in Nodes \cup {None}
    BY <2>1
  <2>3. [on |-> a, pwd |-> d, fd |-> f] \in Tables
    <3> HIDE DEF FdTypes
    <3> QED BY <1>2, <2>2, Zenon DEF Tables
  <2> QED BY <1>3, <2>1, <2>3
<1>5. NoFiles.fd = f /\ NoFiles.on = FALSE /\ NoFiles.pwd = None
  BY <1>3
<1> HIDE DEF NoFiles
<1> QED BY <1>2, <1>4, <1>5, ClosedType DEF Idle

Forked(d) == [on |-> TRUE, pwd |-> d]

\* dup_files begins with an empty table and a reference to the directory.
LEMMA DupStartHolds ==
  ASSUME TreeAssumption, NEW br \in [Nodes -> Nat], NEW bo \in [Nodes -> Nat], NEW I, NEW from,
         Counts(I, Adding(br, NoFiles), Adding(bo, NoFiles)), from.pwd \in Dirs, br[from.pwd] > 0
  PROVE  /\ DupStart(I, from) \in Holding(Plus(br, from.pwd), bo, Forked(from.pwd))
         /\ \A k \in Fds : DupStart(I, from).T.fd[k].status # "OPENED"
<1>1. PICK d, f, J : d = from.pwd /\ f = NoFiles.fd /\ J = RefInc(I, d)
  OBVIOUS
<1>2. d \in Dirs /\ d \in Nodes /\ d # None /\ br[d] > 0
  BY <1>1 DEF TreeAssumption, Nodes, Sfs
<1>3. Idle(NoFiles) /\ f \in [Fds -> FdTypes] /\ NoFiles = [on |-> FALSE, pwd |-> None, fd |-> f]
      /\ \A k \in Fds : f[k] = Closed
  BY <1>1, NoFilesIdle DEF Idle, Tables, NoFiles
<1>4. PICK U : U = [on |-> TRUE, pwd |-> d, fd |-> f]
  OBVIOUS
<1>5. U.fd = f /\ U.on = TRUE /\ U.pwd = d
  BY <1>4
<1>6. DupStart(I, from) = [I |-> J, T |-> U]
  <2>1. [NoFiles EXCEPT !.on = TRUE, !.pwd = d] = U
    <3>1. PICK a, b : a = TRUE /\ b = FALSE
      OBVIOUS
    <3>2. PICK N : N = NoFiles
      OBVIOUS
    <3>3. N = [on |-> b, pwd |-> None, fd |-> f] /\ U = [on |-> a, pwd |-> d, fd |-> f]
      BY <1>3, <1>4, <3>1, <3>2
    <3>4. [N EXCEPT !.on = a, !.pwd = d] = U
      <4>1. PICK M : M = [N EXCEPT !.on = a]
        OBVIOUS
      <4>2. M = [on |-> a, pwd |-> None, fd |-> f]
        BY <3>3, <4>1
      <4>3. [M EXCEPT !.pwd = d] = U
        BY <3>3, <4>2
      <4> QED BY <4>1, <4>3
    <3> QED BY <3>1, <3>2, <3>4
  <2> HIDE DEF NoFiles
  <2> QED BY <1>1, <1>2, <2>1 DEF DupStart
<1>7. U \in Tables
  <2>1. PICK a : a = TRUE
    OBVIOUS
  <2>2. a \in BOOLEAN /\ d \in Nodes \cup {None}
    BY <1>2, <2>1
  <2>3. [on |-> a, pwd |-> d, fd |-> f] \in Tables
    <3> HIDE DEF FdTypes
    <3> QED BY <1>3, <2>2, Zenon DEF Tables
  <2> QED BY <1>4, <2>1, <2>3
<1>8. Idle(U) /\ \A k \in Fds : U.fd[k].status # "OPENED"
  <2>1. \A k \in Fds : U.fd[k] = Closed
    BY <1>3, <1>5
  <2> QED BY <1>7, <2>1, ClosedType DEF Idle
<1>9. \A k \in Fds : U.fd[k].status = NoFiles.fd[k].status /\ U.fd[k].node = NoFiles.fd[k].node
  BY <1>1, <1>5
<1>10. PICK r, o : r = Adding(br, NoFiles) /\ o = Adding(bo, NoFiles)
  OBVIOUS
<1>11. r[d] > 0
  <2>1. r[d] = br[d] + Opens(NoFiles, d) /\ Opens(NoFiles, d) \in Nat /\ br[d] \in Nat
    BY <1>2, <1>10, WithType, OpensType
  <2> QED BY <1>2, <2>1
<1>12. Counts(J, Plus(r, d), o)
  BY <1>1, <1>2, <1>10, <1>11, RefIncCounts
<1>13. Adding(Plus(br, d), U) = Plus(r, d) /\ Adding(bo, U) = o
  <2>1. Adding(bo, U) = o
    BY <1>9, <1>10, SameOpen
  <2>2. Adding(Plus(br, d), U) = Adding(Plus(br, d), NoFiles)
    BY <1>9, SameOpen
  <2>3. Adding(Plus(br, d), NoFiles) = Plus(r, d)
    BY <1>2, <1>10, WithPlus
  <2> QED BY <2>1, <2>2, <2>3
<1>14. PICK s : s = [I |-> J, T |-> U]
  OBVIOUS
<1>15. s.I = J /\ s.T = U
  BY <1>14
<1>16. Held(s, Plus(br, d), bo) /\ J \in [Nodes -> InodeTypes]
  BY <1>12, <1>13, <1>15, CountsSound DEF Held
<1>17. s \in Holding(Plus(br, d), bo, Forked(d))
  BY <1>5, <1>7, <1>8, <1>14, <1>15, <1>16 DEF Holding, Forked
<1> QED BY <1>1, <1>6, <1>8, <1>14, <1>15, <1>17

\* dup_files: the child holds what the parent holds.
LEMMA DupFilesHold ==
  ASSUME TreeAssumption, NEW br \in [Nodes -> Nat], NEW bo \in [Nodes -> Nat], NEW I, NEW from, Idle(from),
         Counts(I, Adding(br, NoFiles), Adding(bo, NoFiles)), from.pwd \in Dirs, br[from.pwd] > 0,
         \A k \in Opened(from) : br[from.fd[k].node] > 0
  PROVE  dup_files(I, from) \in Holding(Plus(br, from.pwd), bo, Forked(from.pwd))
<1> DEFINE c == Plus(br, from.pwd)
           x == DupStart(I, from)
           H == Holding(c, bo, Forked(from.pwd))
           G == [k \in 1 .. NFd |-> [y \in States |-> DupTurn(from, k, y)]]
<1>0. NFd \in Nat /\ x \in H /\ x \in States /\ (\A k \in Fds : x.T.fd[k].status # "OPENED")
  <2>1. NFd \in Nat
    BY DEF TreeAssumption
  <2>2. x \in H /\ (\A k \in Fds : x.T.fd[k].status # "OPENED")
    BY DupStartHolds
  <2> HIDE DEF c, x
  <2> QED BY <2>1, <2>2 DEF Holding, States
<1>1. c \in [Nodes -> Nat] /\ \A n \in Nodes : br[n] <= c[n]
  <2>1. from.pwd \in Nodes
    BY DEF Nodes, Sfs
  <2> QED BY <2>1, PlusFacts, PlusMinus
<1> HIDE DEF c, x
<1>2. \A k \in 1 .. NFd : \A y \in States : DupTurn(from, k, y) \in States
  BY DupTurnType
<1>3. G \in [1 .. NFd -> [States -> States]]
  <2> HIDE DEF States
  <2> QED BY <1>2
<1>4. PICK f \in [0 .. NFd -> States] : IsLoop(f, NFd, x, G)
  <2> HIDE DEF G, States
  <2> QED BY <1>0, <1>3, LoopRuns
<1>5. Dups(I, from, f)
  <2> SUFFICES ASSUME NEW k \in 0 .. NFd PROVE f[k] = IF k = 0 THEN x ELSE DupTurn(from, k, f[k - 1])
    BY DEF Dups, x
  <2> HIDE DEF States
  <2>1. f[k] = IF k = 0 THEN x ELSE G[k][f[k - 1]]
    BY <1>4 DEF IsLoop
  <2>2. CASE k = 0
    BY <2>1, <2>2
  <2>3. CASE k # 0
    <3>1. k \in 1 .. NFd /\ k - 1 \in 0 .. NFd
      BY <1>0, <2>3
    <3>2. f[k - 1] \in States
      BY <3>1
    <3> QED BY <2>1, <2>3, <3>1, <3>2
  <2> QED BY <2>2, <2>3
<1>6. PICK g : g = DupsOf(I, from)
  OBVIOUS
<1>7. Dups(I, from, g)
  BY <1>5, <1>6, Zenon DEF DupsOf
<1>8. \A k \in 0 .. NFd : g[k] = IF k = 0 THEN x ELSE DupTurn(from, k, g[k - 1])
  BY <1>7, Zenon DEF Dups, x
<1> HIDE DEF H
<1> DEFINE S == {k \in Nat : g[k] \in H /\ \A j \in Fds : k <= j => g[k].T.fd[j].status # "OPENED"}
<1>9. 0 \in S
  <2>1. g[0] = x
    BY <1>0, <1>8
  <2> QED BY <1>0, <2>1
<1>10. ASSUME NEW k \in 1 .. NFd, k - 1 \in S PROVE k \in S
  <2>1. PICK i, y : i = k - 1 /\ y = g[k - 1]
    OBVIOUS
  <2>2. k \in 0 .. NFd /\ k \in Nat /\ i \in Nat /\ k # 0 /\ i \in Fds /\ Fds \subseteq Nat
    BY <1>0, <2>1 DEF Fds
  <2>3. y \in H /\ \A j \in Fds : i <= j => y.T.fd[j].status # "OPENED"
    BY <1>10, <2>1
  <2>4. g[k] = DupTurn(from, k, y)
    BY <1>8, <2>1, <2>2, Zenon
  <2>5. CASE i \notin Opened(from)
    <3>1. g[k] = y
      BY <2>1, <2>4, <2>5 DEF DupTurn
    <3>2. ASSUME NEW j \in Fds, k <= j PROVE y.T.fd[j].status # "OPENED"
      <4>1. i <= j
        BY <2>1, <2>2, <3>2
      <4> QED BY <2>3, <4>1
    <3> QED BY <2>2, <2>3, <3>1, <3>2
  <2>6. CASE i \in Opened(from)
    <3>1. PICK n : n = from.fd[i].node
      OBVIOUS
    <3>2. n \in Nodes /\ br[n] > 0
      BY <2>2, <2>6, <3>1 DEF Idle, Opened
    <3>3. PICK z : z = fd_array_dup(y, i, n)
      OBVIOUS
    <3>4. g[k] = z
      BY <2>1, <2>4, <2>6, <3>1, <3>3 DEF DupTurn
    <3>5. y.T.fd[i].status # "OPENED"
      BY <2>2, <2>3
    <3>6. Adding(c, y.T)[n] > 0
      <4>1. Adding(c, y.T)[n] = c[n] + Opens(y.T, n) /\ Opens(y.T, n) \in Nat /\ c[n] \in Nat /\ br[n] \in Nat /\ br[n] <= c[n]
        BY <1>1, <3>2, WithType, OpensType
      <4> QED BY <3>2, <4>1
    <3>7. z \in H /\ RestSame(z.T, y.T, i)
      <4>1. PICK T0 : T0 = Forked(from.pwd)
        OBVIOUS
      <4>2. H = Holding(c, bo, T0)
        BY <4>1 DEF H
      <4>3. y \in Holding(c, bo, T0) /\ c \in [Nodes -> Nat]
        BY <1>1, <2>3, <4>2
      <4>4. /\ fd_array_dup(y, i, n) \in Holding(c, bo, T0)
            /\ RestSame(fd_array_dup(y, i, n).T, y.T, i)
        <5>1. i \in Fds /\ n \in Nodes /\ y.T.fd[i].status # "OPENED" /\ Adding(c, y.T)[n] > 0
          BY <2>2, <3>2, <3>5, <3>6
        <5> QED BY <4>3, <5>1, DupHolds
      <4> QED BY <3>3, <4>2, <4>4
    <3>8. ASSUME NEW j \in Fds, k <= j PROVE z.T.fd[j].status # "OPENED"
      <4>1. i <= j /\ j # i
        BY <2>1, <2>2, <3>8
      <4> QED BY <2>3, <3>7, <4>1 DEF RestSame
    <3> QED BY <2>2, <3>4, <3>7, <3>8
  <2> QED BY <2>5, <2>6
<1>11. 0 .. NFd \subseteq S
  <2> HIDE DEF S
  <2> QED BY <1>0, <1>9, <1>10, LoopInduction
<1>12. g[NFd] \in H
  <2>1. NFd \in 0 .. NFd
    BY <1>0
  <2> QED BY <1>11, <2>1
<1>13. dup_files(I, from) = g[NFd]
  BY <1>6, Zenon DEF dup_files, DupsOf, Dups, DupStart, DupTurn
<1> QED BY <1>12, <1>13 DEF H, c

-----------------------------------------------------------------------------
(* The processes together *)

At(b, d) == IF d \in Nodes THEN Plus(b, d) ELSE b

NamingIn(tb, n) == {x \in All \X Fds : tb[x[1]].fd[x[2]].status = "OPENED" /\ tb[x[1]].fd[x[2]].node = n}
StandingIn(tb, n) == {q \in All : tb[q].pwd = n}
RefsOf(tb, L) ==
  [n \in Nodes |-> Own(n) + L[n].ref + Cardinality(NamingIn(tb, n)) + Cardinality(StandingIn(tb, n))]
OpensOf(tb, L) == [n \in Nodes |-> L[n].open + Cardinality(NamingIn(tb, n))]

\* The same without the process p.
OthersNaming(tb, p, n) ==
  {x \in (All \ {p}) \X Fds : tb[x[1]].fd[x[2]].status = "OPENED" /\ tb[x[1]].fd[x[2]].node = n}
OthersStanding(tb, p, n) == {q \in All \ {p} : tb[q].pwd = n}
RestRefs(tb, L, p) ==
  [n \in Nodes |-> Own(n) + L[n].ref + Cardinality(OthersNaming(tb, p, n)) + Cardinality(OthersStanding(tb, p, n))]
RestOpens(tb, L, p) == [n \in Nodes |-> L[n].open + Cardinality(OthersNaming(tb, p, n))]

LostTypes == {L \in [Nodes -> [ref : Nat, open : Nat]] : \A n \in Nodes : L[n].open <= L[n].ref}

\* The other processes name an inode finitely often.
LEMMA OthersFinite ==
  ASSUME TreeAssumption, NEW tb, NEW p, NEW n
  PROVE  /\ IsFiniteSet(OthersNaming(tb, p, n)) /\ Cardinality(OthersNaming(tb, p, n)) \in Nat
         /\ IsFiniteSet(OthersStanding(tb, p, n)) /\ Cardinality(OthersStanding(tb, p, n)) \in Nat
<1>1. OthersNaming(tb, p, n) \subseteq All \X Fds /\ OthersStanding(tb, p, n) \subseteq All
  BY DEF OthersNaming, OthersStanding
<1>2. IsFiniteSet(OthersNaming(tb, p, n)) /\ IsFiniteSet(OthersStanding(tb, p, n))
  BY <1>1, FdsFinite, FS_Subset
<1> QED BY <1>2, FS_CardinalityType

\* The descriptors of p as pairs.
LEMMA PairsOf ==
  ASSUME TreeAssumption, NEW tb, NEW p \in All, NEW n
  PROVE  Cardinality(NamingIn(tb, n)) = Cardinality(OthersNaming(tb, p, n)) + Opens(tb[p], n)
<1> DEFINE A == {k \in Opened(tb[p]) : tb[p].fd[k].node = n}
           B == {x \in {p} \X A : TRUE}
           f == [k \in A |-> <<p, k>>]
<1>1. IsFiniteSet(A)
  BY OpensType, Zenon
<1>2. f \in Bijection(A, B)
  <2>1. f \in [A -> B]
    OBVIOUS
  <2>2. \A j, k \in A : f[j] = f[k] => j = k
    OBVIOUS
  <2>3. \A y \in B : \E k \in A : f[k] = y
    OBVIOUS
  <2> HIDE DEF A, B, f
  <2> QED BY <2>1, <2>2, <2>3 DEF Bijection, Injection, Surjection, IsInjective
<1>3. IsFiniteSet(B) /\ Cardinality(B) = Cardinality(A)
  <2>1. ExistsBijection(A, B)
    BY <1>2 DEF ExistsBijection
  <2> HIDE DEF A, B
  <2> QED BY <1>1, <2>1, FS_Bijection
<1>4. NamingIn(tb, n) = OthersNaming(tb, p, n) \cup B /\ OthersNaming(tb, p, n) \cap B = {}
  BY DEF NamingIn, OthersNaming, Opened
<1>5. PICK C : C = OthersNaming(tb, p, n)
  OBVIOUS
<1>6. IsFiniteSet(C) /\ Cardinality(C) \in Nat /\ Opens(tb[p], n) \in Nat /\ Cardinality(A) = Opens(tb[p], n)
  BY <1>5, OthersFinite, OpensType DEF Opens
<1> HIDE DEF A, B
<1>7. Cardinality(C \cup B) = Cardinality(C) + Cardinality(B) - Cardinality(C \cap B)
  BY <1>3, <1>6, FS_Union
<1>8. Cardinality(C \cap B) = 0
  BY <1>4, <1>5, FS_EmptySet
<1> QED BY <1>3, <1>4, <1>5, <1>6, <1>7, <1>8

\* The processes that stand in n: p or not, and the others.
LEMMA StandersOf ==
  ASSUME TreeAssumption, NEW tb, NEW p \in All, NEW n
  PROVE  Cardinality(StandingIn(tb, n)) = Cardinality(OthersStanding(tb, p, n)) + IF tb[p].pwd = n THEN 1 ELSE 0
<1>1. PICK C : C = OthersStanding(tb, p, n)
  OBVIOUS
<1>2. IsFiniteSet(C) /\ Cardinality(C) \in Nat /\ p \notin C
  <2>1. IsFiniteSet(C) /\ Cardinality(C) \in Nat
    BY <1>1, OthersFinite
  <2>2. p \notin C
    BY <1>1 DEF OthersStanding
  <2> QED BY <2>1, <2>2
<1>3. CASE tb[p].pwd = n
  <2>1. StandingIn(tb, n) = C \cup {p}
    BY <1>1, <1>3 DEF StandingIn, OthersStanding
  <2>2. Cardinality(C \cup {p}) = Cardinality(C) + 1
    BY <1>2, FS_AddElement
  <2> QED BY <1>1, <1>3, <2>1, <2>2
<1>4. CASE tb[p].pwd # n
  <2>1. StandingIn(tb, n) = C
    BY <1>1, <1>4 DEF StandingIn, OthersStanding
  <2> QED BY <1>1, <1>2, <1>4, <2>1
<1> QED BY <1>3, <1>4

\* The counts of the rest are sound, and bootfs_node always counts.
LEMMA RestType ==
  ASSUME TreeAssumption, NEW tb, NEW L \in LostTypes, NEW p
  PROVE  /\ Sound(RestRefs(tb, L, p), RestOpens(tb, L, p))
         /\ RestRefs(tb, L, p) \in [Nodes -> Nat] /\ RestOpens(tb, L, p) \in [Nodes -> Nat]
         /\ RestRefs(tb, L, p)[Root] > 0
<1>1. PICK r, o : r = RestRefs(tb, L, p) /\ o = RestOpens(tb, L, p)
  OBVIOUS
<1>2. ASSUME NEW n \in Nodes
      PROVE  /\ r[n] \in Nat /\ o[n] \in Nat /\ o[n] + Dev(n) <= r[n]
             /\ n = Root => r[n] > 0
  <2>1. PICK a, b, c, d, e : a = Own(n) /\ b = L[n].ref /\ c = Cardinality(OthersNaming(tb, p, n))
                             /\ d = Cardinality(OthersStanding(tb, p, n)) /\ e = L[n].open
    OBVIOUS
  <2>2. c \in Nat /\ d \in Nat
    BY <2>1, OthersFinite
  <2>3. a \in Nat /\ Dev(n) \in Nat /\ Dev(n) <= a /\ (n = Root => a = 1)
    BY <2>1 DEF Own, Dev
  <2>4. b \in Nat /\ e \in Nat /\ e <= b
    BY <2>1 DEF LostTypes
  <2>5. r[n] = a + b + c + d /\ o[n] = e + c
    BY <1>1, <2>1 DEF RestRefs, RestOpens
  <2> QED BY <2>2, <2>3, <2>4, <2>5
<1>3. r \in [Nodes -> Nat] /\ o \in [Nodes -> Nat]
  <2>1. DOMAIN r = Nodes /\ DOMAIN o = Nodes /\ r = [n \in Nodes |-> r[n]] /\ o = [n \in Nodes |-> o[n]]
    BY <1>1 DEF RestRefs, RestOpens
  <2> QED BY <1>2, <2>1
<1>4. Root \in Nodes
  BY DEF TreeAssumption, Nodes, Sfs
<1> QED BY <1>1, <1>2, <1>3, <1>4 DEF Sound

\* A working directory counts once.
LEMMA AtFacts ==
  ASSUME NEW b \in [Nodes -> Nat], NEW d
  PROVE  /\ At(b, d) \in [Nodes -> Nat]
         /\ \A n \in Nodes : At(b, d)[n] = b[n] + IF d = n THEN 1 ELSE 0
<1>1. PICK c : c = At(b, d)
  OBVIOUS
<1>2. CASE d \in Nodes
  <2>1. c = Plus(b, d)
    BY <1>1, <1>2 DEF At
  <2>2. c \in [Nodes -> Nat] /\ c[d] = b[d] + 1 /\ \A m \in Nodes : m # d => c[m] = b[m]
    BY <1>2, <2>1, PlusFacts
  <2>3. ASSUME NEW n \in Nodes PROVE c[n] = b[n] + IF d = n THEN 1 ELSE 0
    <3>1. b[n] \in Nat
      OBVIOUS
    <3>2. CASE n = d
      BY <2>2, <3>2
    <3>3. CASE n # d
      BY <2>2, <3>1, <3>3
    <3> QED BY <3>2, <3>3
  <2> QED BY <1>1, <2>2, <2>3
<1>3. CASE d \notin Nodes
  <2>1. c = b
    BY <1>1, <1>3 DEF At
  <2>2. ASSUME NEW n \in Nodes PROVE c[n] = b[n] + IF d = n THEN 1 ELSE 0
    <3>1. b[n] \in Nat /\ d # n
      BY <1>3
    <3> QED BY <2>1, <3>1
  <2> QED BY <1>1, <2>1, <2>2
<1> QED BY <1>2, <1>3

\* The counts are those of p and those of the rest.
LEMMA SplitCounts ==
  ASSUME TreeAssumption, NEW tb, NEW L \in LostTypes, NEW p \in All
  PROVE  /\ RefsOf(tb, L) = Adding(At(RestRefs(tb, L, p), tb[p].pwd), tb[p])
         /\ OpensOf(tb, L) = Adding(RestOpens(tb, L, p), tb[p])
<1>1. PICK br, bo, a : br = RestRefs(tb, L, p) /\ bo = RestOpens(tb, L, p) /\ a = At(br, tb[p].pwd)
  OBVIOUS
<1>2. br \in [Nodes -> Nat] /\ bo \in [Nodes -> Nat]
  BY <1>1, RestType
<1>3. a \in [Nodes -> Nat] /\ \A n \in Nodes : a[n] = br[n] + IF tb[p].pwd = n THEN 1 ELSE 0
  BY <1>1, <1>2, AtFacts
<1>4. ASSUME NEW n \in Nodes
      PROVE  /\ RefsOf(tb, L)[n] = Adding(a, tb[p])[n]
             /\ OpensOf(tb, L)[n] = Adding(bo, tb[p])[n]
  <2>1. PICK w, b, c, d, e, t, i : w = Own(n) /\ b = L[n].ref /\ c = Cardinality(OthersNaming(tb, p, n))
                             /\ d = Cardinality(OthersStanding(tb, p, n)) /\ e = L[n].open /\ t = Opens(tb[p], n)
                             /\ i = IF tb[p].pwd = n THEN 1 ELSE 0
    OBVIOUS
  <2>2. w \in Nat /\ b \in Nat /\ c \in Nat /\ d \in Nat /\ e \in Nat /\ t \in Nat /\ i \in Nat
    <3>1. c \in Nat /\ d \in Nat /\ t \in Nat
      BY <2>1, OthersFinite, OpensType
    <3>2. b \in Nat /\ e \in Nat
      BY <2>1 DEF LostTypes
    <3> QED BY <2>1, <3>1, <3>2 DEF Own
  <2>3. br[n] = w + b + c + d /\ bo[n] = e + c
    BY <1>1, <2>1 DEF RestRefs, RestOpens
  <2>4. a[n] = br[n] + i
    BY <1>3, <2>1
  <2>5. Adding(a, tb[p])[n] = a[n] + t /\ Adding(bo, tb[p])[n] = bo[n] + t
    BY <1>2, <1>3, <2>1, WithType
  <2>6. Cardinality(NamingIn(tb, n)) = c + t /\ Cardinality(StandingIn(tb, n)) = d + i
    BY <2>1, PairsOf, StandersOf
  <2>7. RefsOf(tb, L)[n] = w + b + (c + t) + (d + i) /\ OpensOf(tb, L)[n] = e + (c + t)
    BY <2>1, <2>6 DEF RefsOf, OpensOf
  <2> QED BY <2>2, <2>3, <2>4, <2>5, <2>7
<1>5. RefsOf(tb, L) = Adding(a, tb[p])
  <2>1. RefsOf(tb, L) = [n \in Nodes |-> RefsOf(tb, L)[n]] /\ Adding(a, tb[p]) = [n \in Nodes |-> Adding(a, tb[p])[n]]
    BY DEF RefsOf, Adding
  <2> QED BY <1>4, <2>1
<1>6. OpensOf(tb, L) = Adding(bo, tb[p])
  <2>1. OpensOf(tb, L) = [n \in Nodes |-> OpensOf(tb, L)[n]] /\ Adding(bo, tb[p]) = [n \in Nodes |-> Adding(bo, tb[p])[n]]
    BY DEF OpensOf, Adding
  <2> QED BY <1>4, <2>1
<1> QED BY <1>1, <1>5, <1>6

\* What p does to its own table does not count for the rest.
LEMMA RestStays ==
  ASSUME NEW tb, DOMAIN tb = All, NEW L, NEW p \in All, NEW T
  PROVE  /\ RestRefs([tb EXCEPT ![p] = T], L, p) = RestRefs(tb, L, p)
         /\ RestOpens([tb EXCEPT ![p] = T], L, p) = RestOpens(tb, L, p)
<1>1. PICK u : u = [tb EXCEPT ![p] = T]
  OBVIOUS
<1>2. \A q \in All \ {p} : u[q] = tb[q]
  BY <1>1
<1>3. ASSUME NEW n PROVE OthersNaming(u, p, n) = OthersNaming(tb, p, n) /\ OthersStanding(u, p, n) = OthersStanding(tb, p, n)
  BY <1>2 DEF OthersNaming, OthersStanding
<1>4. \A n \in Nodes : OthersNaming(u, p, n) = OthersNaming(tb, p, n) /\ OthersStanding(u, p, n) = OthersStanding(tb, p, n)
  BY <1>3
<1> QED BY <1>1, <1>4 DEF RestRefs, RestOpens

-----------------------------------------------------------------------------
(* The inductive invariant *)

\* The table T of a process in the state st that sleeps in a read of rd.
ProcOK(T, st, rd) ==
  /\ T \in Tables /\ st \in {"none", "user", "kern", "zombie"} /\ rd \in Fds \cup {-1}
  /\ \A k \in Fds : /\ T.fd[k].count = (IF T.fd[k].status = "OPENED" THEN 1 ELSE 0) + (IF rd = k THEN 1 ELSE 0)
                    /\ T.fd[k].status = "OPENED" => T.fd[k].node \in Nodes
  /\ rd # -1 => st = "user" /\ T.fd[rd].status = "OPENED"
  /\ st \in {"user", "kern"} => T.on /\ T.pwd \in Dirs
  /\ st = "none" => T = NoFiles

AllOK(I, tb, st, rd, L, h) ==
  /\ DOMAIN I = Nodes /\ h \in BOOLEAN /\ L \in LostTypes
  /\ tb \in [All -> Tables] /\ st \in [All -> {"none", "user", "kern", "zombie"}] /\ rd \in [All -> Fds \cup {-1}]
  /\ \A p \in All : ProcOK(tb[p], st[p], rd[p])
  /\ ~h => Counts(I, RefsOf(tb, L), OpensOf(tb, L))

FilesInv == AllOK(ino, tab, state, reading, lost, halted)

\* The table is the counts' table: what p has to show after a step of its own.
Shown(tb, L, p, I, T) ==
  Counts(I, Adding(At(RestRefs(tb, L, p), T.pwd), T), Adding(RestOpens(tb, L, p), T))

\* A step of p that fits the rest keeps the invariant.
LEMMA OneStep ==
  ASSUME TreeAssumption, NEW I, NEW tb, NEW st, NEW rd, NEW L, NEW h, AllOK(I, tb, st, rd, L, h), NEW p \in All,
         NEW J, NEW T, NEW s, NEW d, NEW g, ProcOK(T, s, d), DOMAIN J = Nodes, g \in BOOLEAN,
         ~g => Shown(tb, L, p, J, T)
  PROVE  AllOK(J, [tb EXCEPT ![p] = T], [st EXCEPT ![p] = s], [rd EXCEPT ![p] = d], L, g)
<1>1. PICK u, v, w : u = [tb EXCEPT ![p] = T] /\ v = [st EXCEPT ![p] = s] /\ w = [rd EXCEPT ![p] = d]
  OBVIOUS
<1>2. /\ tb \in [All -> Tables] /\ st \in [All -> {"none", "user", "kern", "zombie"}] /\ rd \in [All -> Fds \cup {-1}]
      /\ L \in LostTypes
      /\ \A q \in All : ProcOK(tb[q], st[q], rd[q])
  BY DEF AllOK
<1>3. /\ u \in [All -> Tables] /\ v \in [All -> {"none", "user", "kern", "zombie"}] /\ w \in [All -> Fds \cup {-1}]
      /\ u[p] = T /\ v[p] = s /\ w[p] = d
      /\ \A q \in All : q # p => u[q] = tb[q] /\ v[q] = st[q] /\ w[q] = rd[q]
  <2>1. T \in Tables /\ s \in {"none", "user", "kern", "zombie"} /\ d \in Fds \cup {-1}
    BY DEF ProcOK
  <2> QED BY <1>1, <1>2, <2>1
<1>4. \A q \in All : ProcOK(u[q], v[q], w[q])
  <2> TAKE q \in All
  <2>1. CASE q = p
    BY <1>3, <2>1
  <2>2. CASE q # p
    <3>1. ProcOK(tb[q], st[q], rd[q])
      BY <1>2
    <3> QED BY <1>3, <2>2, <3>1
  <2> QED BY <2>1, <2>2
<1>5. ASSUME ~g PROVE Counts(J, RefsOf(u, L), OpensOf(u, L))
  <2>1. RefsOf(u, L) = Adding(At(RestRefs(u, L, p), T.pwd), T) /\ OpensOf(u, L) = Adding(RestOpens(u, L, p), T)
    <3>1. RefsOf(u, L) = Adding(At(RestRefs(u, L, p), u[p].pwd), u[p]) /\ OpensOf(u, L) = Adding(RestOpens(u, L, p), u[p])
      BY <1>2, SplitCounts
    <3> QED BY <1>3, <3>1
  <2>2. RestRefs(u, L, p) = RestRefs(tb, L, p) /\ RestOpens(u, L, p) = RestOpens(tb, L, p)
    <3>1. DOMAIN tb = All
      BY <1>2
    <3> QED BY <1>1, <3>1, RestStays
  <2>3. Shown(tb, L, p, J, T)
    BY <1>5
  <2> QED BY <2>1, <2>2, <2>3 DEF Shown
<1>6. AllOK(J, u, v, w, L, g)
  BY <1>2, <1>3, <1>4, <1>5 DEF AllOK
<1> QED BY <1>1, <1>6

\* Only the table of p changes, or nothing does.
LEMMA OneTable ==
  ASSUME TreeAssumption, NEW I, NEW tb, NEW st, NEW rd, NEW L, NEW h, AllOK(I, tb, st, rd, L, h), NEW p \in All,
         NEW J, NEW T, NEW g, ProcOK(T, st[p], rd[p]), DOMAIN J = Nodes, g \in BOOLEAN,
         ~g => Shown(tb, L, p, J, T)
  PROVE  AllOK(J, [tb EXCEPT ![p] = T], st, rd, L, g)
<1>1. [st EXCEPT ![p] = st[p]] = st /\ [rd EXCEPT ![p] = rd[p]] = rd
  BY DEF AllOK
<1>2. PICK s, d : s = st[p] /\ d = rd[p]
  OBVIOUS
<1>3. AllOK(J, [tb EXCEPT ![p] = T], [st EXCEPT ![p] = s], [rd EXCEPT ![p] = d], L, g)
  BY <1>2, OneStep
<1> QED BY <1>1, <1>2, <1>3

\* A table without a reader.
LEMMA IdleOK ==
  ASSUME NEW T, Idle(T)
  PROVE  /\ ProcOK(T, "zombie", -1)
         /\ T.on /\ T.pwd \in Dirs => ProcOK(T, "user", -1) /\ ProcOK(T, "kern", -1)
<1>1. \A k \in Fds : k # -1 /\ T.fd[k].count \in Nat
  BY DEF Fds, Idle, Tables, FdTypes
<1>2. \A k \in Fds : /\ T.fd[k].count = (IF T.fd[k].status = "OPENED" THEN 1 ELSE 0) + (IF -1 = k THEN 1 ELSE 0)
                     /\ T.fd[k].status = "OPENED" => T.fd[k].node \in Nodes
  BY <1>1 DEF Idle
<1> QED BY <1>2 DEF ProcOK, Idle

\* A process that does not read has no reader in its table.
LEMMA OKIdle ==
  ASSUME NEW T, NEW st, ProcOK(T, st, -1)
  PROVE  Idle(T)
<1>1. T \in Tables /\ \A k \in Fds : k # -1
  BY DEF ProcOK, Fds
<1>2. ASSUME NEW k \in Fds
      PROVE  /\ T.fd[k].count = IF T.fd[k].status = "OPENED" THEN 1 ELSE 0
             /\ T.fd[k].status = "OPENED" => T.fd[k].node \in Nodes
  BY <1>1 DEF ProcOK
<1> QED BY <1>1, <1>2 DEF Idle

\* What a process that runs finds.
LEMMA RunnerFacts ==
  ASSUME TreeAssumption, NEW I, NEW tb, NEW st, NEW rd, NEW L, AllOK(I, tb, st, rd, L, FALSE), NEW p \in All,
         rd[p] = -1, st[p] \in {"user", "kern"}
  PROVE  LET T == tb[p]
             br == RestRefs(tb, L, p)
             bo == RestOpens(tb, L, p)
         IN  /\ Idle(T) /\ T.on /\ T.pwd \in Dirs /\ T.pwd \in Nodes
             /\ [I |-> I, T |-> T] \in Holding(Plus(br, T.pwd), bo, T)
             /\ br \in [Nodes -> Nat] /\ bo \in [Nodes -> Nat] /\ Plus(br, T.pwd) \in [Nodes -> Nat]
             /\ Sound(br, bo)
<1>1. PICK T, br, bo : T = tb[p] /\ br = RestRefs(tb, L, p) /\ bo = RestOpens(tb, L, p)
  OBVIOUS
<1>2. L \in LostTypes /\ ProcOK(T, st[p], -1) /\ Counts(I, RefsOf(tb, L), OpensOf(tb, L))
  BY <1>1 DEF AllOK
<1>3. Idle(T)
  BY <1>2, OKIdle
<1>4. T.on /\ T.pwd \in Dirs /\ T.pwd \in Nodes
  BY <1>2 DEF ProcOK, Nodes, Sfs
<1>5. br \in [Nodes -> Nat] /\ bo \in [Nodes -> Nat] /\ Sound(br, bo)
  BY <1>1, <1>2, RestType
<1>6. Plus(br, T.pwd) \in [Nodes -> Nat]
  BY <1>4, <1>5, PlusFacts
<1>7. At(br, T.pwd) = Plus(br, T.pwd)
  BY <1>4 DEF At
<1>8. RefsOf(tb, L) = Adding(Plus(br, T.pwd), T) /\ OpensOf(tb, L) = Adding(bo, T)
  <2>1. RefsOf(tb, L) = Adding(At(br, T.pwd), T) /\ OpensOf(tb, L) = Adding(bo, T)
    BY <1>1, <1>2, SplitCounts
  <2> QED BY <1>7, <2>1
<1>9. PICK s : s = [I |-> I, T |-> T]
  OBVIOUS
<1>10. s.I = I /\ s.T = T
  BY <1>9
<1>11. Held(s, Plus(br, T.pwd), bo)
  BY <1>2, <1>8, <1>10 DEF Held
<1>12. I \in [Nodes -> InodeTypes] /\ T \in Tables
  BY <1>2, <1>3, CountsSound DEF Idle
<1>13. s \in Holding(Plus(br, T.pwd), bo, T)
  BY <1>3, <1>9, <1>10, <1>11, <1>12 DEF Holding
<1> QED BY <1>1, <1>3, <1>4, <1>5, <1>6, <1>9, <1>13

\* Descriptors keep the counts sound.
LEMMA AddingSound ==
  ASSUME TreeAssumption, NEW br, NEW bo, Sound(br, bo), NEW T
  PROVE  Sound(Adding(br, T), Adding(bo, T))
<1>1. br \in [Nodes -> Nat] /\ bo \in [Nodes -> Nat]
  BY DEF Sound
<1>2. PICK r, o : r = Adding(br, T) /\ o = Adding(bo, T)
  OBVIOUS
<1>3. r \in [Nodes -> Nat] /\ o \in [Nodes -> Nat]
      /\ \A n \in Nodes : r[n] = br[n] + Opens(T, n) /\ o[n] = bo[n] + Opens(T, n)
  BY <1>1, <1>2, WithType
<1>4. ASSUME NEW n \in Nodes PROVE o[n] + Dev(n) <= r[n]
  <2>1. Opens(T, n) \in Nat /\ br[n] \in Nat /\ bo[n] \in Nat /\ Dev(n) \in Nat /\ bo[n] + Dev(n) <= br[n]
    BY <1>1, OpensType DEF Sound, Dev
  <2> QED BY <1>3, <2>1
<1> QED BY <1>2, <1>3, <1>4 DEF Sound

\* What a running process can make of its table by closing fits the rest.
LEMMA HoldingFits ==
  ASSUME TreeAssumption, NEW I, NEW tb, NEW st, NEW rd, NEW L, AllOK(I, tb, st, rd, L, FALSE), NEW p \in All,
         rd[p] = -1, st[p] \in {"user", "kern"},
         NEW s \in Holding(Plus(RestRefs(tb, L, p), tb[p].pwd), RestOpens(tb, L, p), tb[p])
  PROVE  /\ Shown(tb, L, p, s.I, s.T) /\ DOMAIN s.I = Nodes /\ Idle(s.T)
         /\ ProcOK(s.T, "user", -1) /\ ProcOK(s.T, "kern", -1) /\ ProcOK(s.T, "zombie", -1)
<1>1. PICK T, br, bo : T = tb[p] /\ br = RestRefs(tb, L, p) /\ bo = RestOpens(tb, L, p)
  OBVIOUS
<1>2. T.on /\ T.pwd \in Dirs /\ T.pwd \in Nodes
  BY <1>1, RunnerFacts
<1>3. PICK J, U : J = s.I /\ U = s.T
  OBVIOUS
<1>4. Idle(U) /\ Held(s, Plus(br, T.pwd), bo) /\ U.pwd = T.pwd /\ U.on = T.on
  BY <1>1, <1>3 DEF Holding
<1>5. At(br, U.pwd) = Plus(br, T.pwd)
  BY <1>2, <1>4 DEF At
<1>6. Counts(J, Adding(At(br, U.pwd), U), Adding(bo, U))
  BY <1>3, <1>4, <1>5 DEF Held
<1>7. Shown(tb, L, p, J, U)
  BY <1>1, <1>6 DEF Shown
<1>8. U.on /\ U.pwd \in Dirs
  BY <1>2, <1>4
<1>9. ProcOK(U, "user", -1) /\ ProcOK(U, "kern", -1) /\ ProcOK(U, "zombie", -1)
  BY <1>4, <1>8, IdleOK
<1> QED BY <1>3, <1>4, <1>6, <1>7, <1>9, CountsSound

\* The references with which it looks up a name.
LEMMA RunnerLooks ==
  ASSUME TreeAssumption, NEW I, NEW tb, NEW st, NEW rd, NEW L, AllOK(I, tb, st, rd, L, FALSE), NEW p \in All,
         rd[p] = -1, st[p] \in {"user", "kern"}, NEW U
  PROVE  /\ CanLookUp(Adding(Plus(RestRefs(tb, L, p), tb[p].pwd), U), tb[p].pwd)
         /\ Sound(Adding(Plus(RestRefs(tb, L, p), tb[p].pwd), U), Adding(RestOpens(tb, L, p), U))
<1>1. PICK T, br, bo, d, c, r : T = tb[p] /\ br = RestRefs(tb, L, p) /\ bo = RestOpens(tb, L, p) /\ d = T.pwd
                             /\ c = Plus(br, d) /\ r = Adding(c, U)
  OBVIOUS
<1>2. d \in Dirs /\ d \in Nodes /\ br \in [Nodes -> Nat] /\ bo \in [Nodes -> Nat] /\ c \in [Nodes -> Nat] /\ Sound(br, bo)
  BY <1>1, RunnerFacts
<1>3. L \in LostTypes /\ Root \in Nodes
  BY DEF AllOK, TreeAssumption, Nodes, Sfs
<1>4. br[Root] > 0
  BY <1>1, <1>3, RestType
<1>5. c[d] > 0 /\ c[Root] > 0
  <2>1. c[d] = br[d] + 1 /\ \A m \in Nodes : m # d => c[m] = br[m]
    BY <1>1, <1>2, PlusFacts
  <2>2. br[d] \in Nat
    BY <1>2
  <2> QED BY <1>3, <1>4, <2>1, <2>2
<1>6. \A n \in Nodes : r[n] = c[n] + Opens(U, n) /\ Opens(U, n) \in Nat /\ c[n] \in Nat
  BY <1>1, <1>2, WithType, OpensType
<1>7. CanLookUp(r, d)
  BY <1>2, <1>3, <1>5, <1>6 DEF CanLookUp
<1>8. Sound(c, bo)
  BY <1>1, <1>2, SoundPlus
<1>9. Sound(r, Adding(bo, U))
  BY <1>1, <1>8, AddingSound
<1> QED BY <1>1, <1>7, <1>9

-----------------------------------------------------------------------------
(* The steps *)

\* A process that runs: the kernel has not panicked and it does not read.
LEMMA RunsFacts ==
  ASSUME FilesInv, NEW p \in All, Runs(p)
  PROVE  /\ halted = FALSE /\ reading[p] = -1 /\ state[p] \in {"user", "kern"}
         /\ AllOK(ino, tab, state, reading, lost, FALSE)
<1>1. halted = FALSE
  BY DEF FilesInv, AllOK, Runs
<1> QED BY <1>1 DEF FilesInv, Runs

\* close().
LEMMA CloseStep ==
  ASSUME TreeAssumption, FilesInv, NEW p \in All, NEW k \in Fds, file_close(p, k)
  PROVE  FilesInv'
<1>1. Runs(p) /\ state[p] = "user" /\ Valid(p, k) /\ Set(p, fd_array_close(Mine(p), k)) /\ Keep
  BY DEF file_close, User
<1>2. halted = FALSE /\ reading[p] = -1 /\ AllOK(ino, tab, state, reading, lost, FALSE)
  BY <1>1, RunsFacts
<1>3. PICK c, bo, T : c = Plus(RestRefs(tab, lost, p), tab[p].pwd) /\ bo = RestOpens(tab, lost, p) /\ T = tab[p]
  OBVIOUS
<1>4. PICK s : s = Mine(p)
  OBVIOUS
<1>5. s \in Holding(c, bo, T) /\ s.T = T /\ c \in [Nodes -> Nat] /\ bo \in [Nodes -> Nat]
  BY <1>1, <1>2, <1>3, <1>4, RunnerFacts DEF Mine
<1>6. PICK t : t = fd_array_close(s, k)
  OBVIOUS
<1>7. t \in Holding(c, bo, T)
  BY <1>1, <1>3, <1>5, <1>6, CloseHolds DEF Valid
<1>8. Shown(tab, lost, p, t.I, t.T) /\ DOMAIN t.I = Nodes /\ ProcOK(t.T, state[p], reading[p])
  <2>1. t \in Holding(Plus(RestRefs(tab, lost, p), tab[p].pwd), RestOpens(tab, lost, p), tab[p])
    BY <1>3, <1>7
  <2>2. Shown(tab, lost, p, t.I, t.T) /\ DOMAIN t.I = Nodes /\ ProcOK(t.T, "user", -1)
    BY <1>1, <1>2, <2>1, HoldingFits
  <2> QED BY <1>1, <1>2, <2>2
<1>9. AllOK(t.I, [tab EXCEPT ![p] = t.T], state, reading, lost, FALSE)
  BY <1>2, <1>8, OneTable
<1> QED BY <1>1, <1>2, <1>4, <1>6, <1>9 DEF FilesInv, Set, Keep

\* A descriptor that is open counts.
LEMMA OpenedCounts ==
  ASSUME TreeAssumption, NEW b \in [Nodes -> Nat], NEW T, Idle(T), NEW k \in Fds, T.fd[k].status = "OPENED"
  PROVE  T.fd[k].node \in Nodes /\ Adding(b, T)[T.fd[k].node] > 0
<1>1. PICK n, U : n = T.fd[k].node /\ U = Less(T, k)
  OBVIOUS
<1>2. n \in Nodes
  BY <1>1 DEF Idle
<1>3. U.fd[k].status = "NONE" /\ \A j \in Fds : j # k => U.fd[j] = T.fd[j]
  BY <1>1, TableWithout
<1>4. Opening(U, T, k, n)
  BY <1>1, <1>3 DEF Opening
<1>5. Adding(b, T)[n] > b[n]
  BY <1>2, <1>4, OneClosed
<1>6. b[n] \in Nat /\ Adding(b, T)[n] \in Nat
  BY <1>2, WithType
<1>7. Adding(b, T)[n] > 0
  BY <1>5, <1>6
<1> QED BY <1>1, <1>2, <1>7

\* dup().
LEMMA DupStep ==
  ASSUME TreeAssumption, FilesInv, NEW p \in All, NEW k1 \in Fds, NEW k2 \in Fds, file_dup(p, k1, k2)
  PROVE  FilesInv'
<1>1. Runs(p) /\ state[p] = "user" /\ Valid(p, k1) /\ k2 \in FreeFds(tab[p])
      /\ Set(p, fd_array_dup(Mine(p), k2, tab[p].fd[k1].node)) /\ Keep
  BY DEF file_dup, User
<1>2. halted = FALSE /\ reading[p] = -1 /\ AllOK(ino, tab, state, reading, lost, FALSE)
  BY <1>1, RunsFacts
<1>3. PICK c, bo, T : c = Plus(RestRefs(tab, lost, p), tab[p].pwd) /\ bo = RestOpens(tab, lost, p) /\ T = tab[p]
  OBVIOUS
<1>4. PICK s : s = Mine(p)
  OBVIOUS
<1>5. s \in Holding(c, bo, T) /\ s.T = T /\ c \in [Nodes -> Nat] /\ bo \in [Nodes -> Nat] /\ Idle(T)
  BY <1>1, <1>2, <1>3, <1>4, RunnerFacts DEF Mine
<1>6. PICK n : n = T.fd[k1].node
  OBVIOUS
<1>7. n \in Nodes /\ Adding(c, s.T)[n] > 0 /\ s.T.fd[k2].status # "OPENED"
  BY <1>1, <1>3, <1>5, <1>6, OpenedCounts DEF Valid, FreeFds
<1>8. PICK t : t = fd_array_dup(s, k2, n)
  OBVIOUS
<1>9. t \in Holding(c, bo, T)
  BY <1>5, <1>7, <1>8, DupHolds
<1>10. Shown(tab, lost, p, t.I, t.T) /\ DOMAIN t.I = Nodes /\ ProcOK(t.T, state[p], reading[p])
  <2>1. t \in Holding(Plus(RestRefs(tab, lost, p), tab[p].pwd), RestOpens(tab, lost, p), tab[p])
    BY <1>3, <1>9
  <2>2. Shown(tab, lost, p, t.I, t.T) /\ DOMAIN t.I = Nodes /\ ProcOK(t.T, "user", -1)
    BY <1>1, <1>2, <2>1, HoldingFits
  <2> QED BY <1>1, <1>2, <2>2
<1>11. AllOK(t.I, [tab EXCEPT ![p] = t.T], state, reading, lost, FALSE)
  BY <1>2, <1>10, OneTable
<1> QED BY <1>1, <1>2, <1>3, <1>4, <1>6, <1>8, <1>11 DEF FilesInv, Set, Keep

\* The table T with m as the count of k.
Recount(U, T, k, m) ==
  /\ U \in Tables /\ U.on = T.on /\ U.pwd = T.pwd /\ U.fd[k].count = m
  /\ \A j \in Fds : U.fd[j].status = T.fd[j].status /\ U.fd[j].node = T.fd[j].node
                    /\ (j # k => U.fd[j].count = T.fd[j].count)

\* A table in which only a count changes.
LEMMA Recounted ==
  ASSUME NEW T \in Tables, NEW k \in Fds, NEW m \in Nat, NEW U, U = [T EXCEPT !.fd[k].count = m]
  PROVE  Recount(U, T, k, m)
<1>1. PICK f, g, e, a, d : f = T.fd /\ e = [f[k] EXCEPT !.count = m] /\ g = [f EXCEPT ![k] = e] /\ a = T.on /\ d = T.pwd
  OBVIOUS
<1>2. f \in [Fds -> FdTypes] /\ a \in BOOLEAN /\ d \in Nodes \cup {None} /\ T = [on |-> a, pwd |-> d, fd |-> f]
  BY <1>1 DEF Tables
<1>3. e \in FdTypes /\ e.count = m /\ e.status = f[k].status /\ e.node = f[k].node
  BY <1>1, <1>2 DEF FdTypes
<1>4. g \in [Fds -> FdTypes] /\ g[k] = e /\ \A j \in Fds : j # k => g[j] = f[j]
  BY <1>1, <1>2, <1>3
<1>5. U = [on |-> a, pwd |-> d, fd |-> g]
  BY <1>1, <1>2
<1>6. U.fd = g /\ U.on = T.on /\ U.pwd = T.pwd
  BY <1>1, <1>5
<1>7. U \in Tables
  <2>1. [on |-> a, pwd |-> d, fd |-> g] \in Tables
    <3> HIDE DEF FdTypes
    <3> QED BY <1>2, <1>4, Zenon DEF Tables
  <2> QED BY <1>5, <2>1
<1>8. \A j \in Fds : g[j].status = f[j].status /\ g[j].node = f[j].node /\ (j # k => g[j].count = f[j].count)
  BY <1>3, <1>4
<1> QED BY <1>1, <1>3, <1>4, <1>6, <1>7, <1>8 DEF Recount

\* read() of the keyboard, until it sleeps.
LEMMA ReadSleepStep ==
  ASSUME TreeAssumption, FilesInv, NEW p \in All, NEW k \in Fds, file_read_sleep(p, k)
  PROVE  FilesInv'
<1>1. /\ Runs(p) /\ state[p] = "user" /\ Valid(p, k) /\ ino' = ino /\ state' = state /\ lost' = lost /\ halted' = halted
      /\ tab' = [tab EXCEPT ![p].fd[k].count = @ + 1] /\ reading' = [reading EXCEPT ![p] = k]
  BY DEF file_read_sleep, User
<1>2. halted = FALSE /\ reading[p] = -1 /\ AllOK(ino, tab, state, reading, lost, FALSE)
  BY <1>1, RunsFacts
<1>3. PICK c, bo, T : c = Plus(RestRefs(tab, lost, p), tab[p].pwd) /\ bo = RestOpens(tab, lost, p) /\ T = tab[p]
  OBVIOUS
<1>4. Idle(T) /\ T \in Tables /\ [I |-> ino, T |-> T] \in Holding(c, bo, T) /\ T.on /\ T.pwd \in Dirs
  <2>1. Idle(T) /\ [I |-> ino, T |-> T] \in Holding(c, bo, T) /\ T.on /\ T.pwd \in Dirs
    BY <1>1, <1>2, <1>3, RunnerFacts
  <2> QED BY <2>1 DEF Idle
<1>5. Shown(tab, lost, p, ino, T) /\ DOMAIN ino = Nodes
  <2>1. PICK s : s = [I |-> ino, T |-> T]
    OBVIOUS
  <2>2. s \in Holding(Plus(RestRefs(tab, lost, p), tab[p].pwd), RestOpens(tab, lost, p), tab[p])
    BY <1>3, <1>4, <2>1
  <2>3. Shown(tab, lost, p, s.I, s.T) /\ DOMAIN s.I = Nodes
    BY <1>1, <1>2, <2>2, HoldingFits
  <2> QED BY <2>1, <2>3
<1>6. PICK U : U = [T EXCEPT !.fd[k].count = 2]
  OBVIOUS
<1>7. T.fd[k].count = 1 /\ T.fd[k].status = "OPENED"
  BY <1>1, <1>3, <1>4 DEF Idle, Valid
<1>8. tab' = [tab EXCEPT ![p] = U]
  <2>1. [T EXCEPT !.fd[k].count = @ + 1] = U
    BY <1>6, <1>7
  <2> QED BY <1>1, <1>3, <2>1
<1>9. U \in Tables /\ U.on = T.on /\ U.pwd = T.pwd /\ U.fd[k].count = 2
      /\ \A j \in Fds : U.fd[j].status = T.fd[j].status /\ U.fd[j].node = T.fd[j].node
                        /\ (j # k => U.fd[j].count = T.fd[j].count)
  <2>1. Recount(U, T, k, 2)
    BY <1>4, <1>6, Recounted
  <2> QED BY <2>1 DEF Recount
<1>10. ProcOK(U, "user", k)
  <2>1. ASSUME NEW j \in Fds
        PROVE  /\ U.fd[j].count = (IF U.fd[j].status = "OPENED" THEN 1 ELSE 0) + (IF k = j THEN 1 ELSE 0)
               /\ U.fd[j].status = "OPENED" => U.fd[j].node \in Nodes
    <3>1. T.fd[j].count = (IF T.fd[j].status = "OPENED" THEN 1 ELSE 0) /\ (T.fd[j].status = "OPENED" => T.fd[j].node \in Nodes)
      BY <1>4 DEF Idle
    <3>2. CASE j = k
      BY <1>7, <1>9, <3>1, <3>2
    <3>3. CASE j # k
      BY <1>9, <3>1, <3>3
    <3> QED BY <3>2, <3>3
  <2>2. U.fd[k].status = "OPENED" /\ U.on /\ U.pwd \in Dirs
    BY <1>4, <1>7, <1>9
  <2> QED BY <1>9, <2>1, <2>2 DEF ProcOK
<1>11. Shown(tab, lost, p, ino, U)
  <2>1. \A b : Adding(b, U) = Adding(b, T)
    BY <1>9, SameOpen
  <2> QED BY <1>5, <1>9, <2>1 DEF Shown
<1>12. AllOK(ino, [tab EXCEPT ![p] = U], [state EXCEPT ![p] = "user"], [reading EXCEPT ![p] = k], lost, FALSE)
  BY <1>2, <1>5, <1>10, <1>11, OneStep
<1>13. [state EXCEPT ![p] = "user"] = state
  BY <1>1, <1>2 DEF AllOK
<1> QED BY <1>1, <1>2, <1>8, <1>12, <1>13 DEF FilesInv

\* read() of the keyboard, from where it wakes.
LEMMA ReadDoneStep ==
  ASSUME TreeAssumption, FilesInv, NEW p \in All, file_read_done(p)
  PROVE  FilesInv'
<1>1. /\ ~halted /\ reading[p] # -1 /\ state' = state /\ lost' = lost /\ halted' = halted
      /\ Set(p, fd_array_release(Mine(p), reading[p])) /\ reading' = [reading EXCEPT ![p] = -1]
  BY DEF file_read_done
<1>2. halted = FALSE /\ AllOK(ino, tab, state, reading, lost, FALSE)
  BY <1>1 DEF FilesInv, AllOK
<1>3. PICK T, k : T = tab[p] /\ k = reading[p]
  OBVIOUS
<1>4. ProcOK(T, state[p], k) /\ lost \in LostTypes /\ Counts(ino, RefsOf(tab, lost), OpensOf(tab, lost))
  BY <1>2, <1>3 DEF AllOK
<1>5. state[p] = "user" /\ k \in Fds /\ T \in Tables /\ T.fd[k].status = "OPENED" /\ T.fd[k].count = 2 /\ T.on /\ T.pwd \in Dirs
  BY <1>1, <1>3, <1>4 DEF ProcOK
<1>6. Shown(tab, lost, p, ino, T) /\ DOMAIN ino = Nodes
  <2>1. RefsOf(tab, lost) = Adding(At(RestRefs(tab, lost, p), T.pwd), T) /\ OpensOf(tab, lost) = Adding(RestOpens(tab, lost, p), T)
    BY <1>3, <1>4, SplitCounts
  <2> QED BY <1>4, <2>1, CountsSound DEF Shown
<1>7. PICK U : U = [T EXCEPT !.fd[k].count = 1]
  OBVIOUS
<1>8. U \in Tables /\ U.on = T.on /\ U.pwd = T.pwd /\ U.fd[k].count = 1
      /\ \A j \in Fds : U.fd[j].status = T.fd[j].status /\ U.fd[j].node = T.fd[j].node
                        /\ (j # k => U.fd[j].count = T.fd[j].count)
  <2>1. Recount(U, T, k, 1)
    BY <1>5, <1>7, Recounted
  <2> QED BY <2>1 DEF Recount
<1>9. fd_array_release(Mine(p), k) = [I |-> ino, T |-> U]
  <2>1. PICK s : s = Mine(p)
    OBVIOUS
  <2>2. s = [I |-> ino, T |-> T]
    BY <1>3, <2>1 DEF Mine
  <2>3. PICK t : t = [s EXCEPT !.T.fd[k].count = @ - 1]
    OBVIOUS
  <2>4. t = [I |-> ino, T |-> U]
    <3>1. U = [T EXCEPT !.fd[k].count = @ - 1]
      BY <1>5, <1>7
    <3> QED BY <2>2, <2>3, <3>1
  <2>5. t.T.fd[k].count = 1
    BY <1>8, <2>4
  <2>6. fd_array_release(s, k) = IF t.T.fd[k].count = 0 THEN fd_array_free(t, k) ELSE t
    BY <2>3, Zenon DEF fd_array_release
  <2>7. fd_array_release(s, k) = t
    BY <2>5, <2>6
  <2> QED BY <2>1, <2>4, <2>7
<1>10. Idle(U)
  <2>1. ASSUME NEW j \in Fds
        PROVE  /\ U.fd[j].count = IF U.fd[j].status = "OPENED" THEN 1 ELSE 0
               /\ U.fd[j].status = "OPENED" => U.fd[j].node \in Nodes
    <3>1. /\ T.fd[j].count = (IF T.fd[j].status = "OPENED" THEN 1 ELSE 0) + (IF k = j THEN 1 ELSE 0)
          /\ (T.fd[j].status = "OPENED" => T.fd[j].node \in Nodes)
      BY <1>4 DEF ProcOK
    <3>2. CASE j = k
      BY <1>5, <1>8, <3>1, <3>2
    <3>3. CASE j # k
      BY <1>8, <3>1, <3>3
    <3> QED BY <3>2, <3>3
  <2> QED BY <1>8, <2>1 DEF Idle
<1>11. ProcOK(U, "user", -1)
  <2>1. U.on /\ U.pwd \in Dirs
    BY <1>5, <1>8
  <2> QED BY <1>10, <2>1, IdleOK
<1>12. Shown(tab, lost, p, ino, U)
  <2>1. \A b : Adding(b, U) = Adding(b, T)
    BY <1>8, SameOpen
  <2> QED BY <1>6, <1>8, <2>1 DEF Shown
<1>13. AllOK(ino, [tab EXCEPT ![p] = U], [state EXCEPT ![p] = "user"], [reading EXCEPT ![p] = -1], lost, FALSE)
  BY <1>2, <1>6, <1>11, <1>12, OneStep
<1>14. [state EXCEPT ![p] = "user"] = state
  BY <1>2, <1>5 DEF AllOK
<1>15. ino' = ino /\ tab' = [tab EXCEPT ![p] = U]
  BY <1>1, <1>3, <1>9 DEF Set
<1>16. AllOK(ino', tab', state', reading', lost', FALSE)
  BY <1>1, <1>13, <1>14, <1>15
<1>17. halted' = FALSE
  BY <1>1, <1>2
<1> QED BY <1>16, <1>17 DEF FilesInv

\* The kernel stops: nothing but halted changes.
LEMMA PanicStep ==
  ASSUME FilesInv, halted' = TRUE, UNCHANGED <<ino, tab, state, reading, lost>>
  PROVE  FilesInv'
<1>1. AllOK(ino, tab, state, reading, lost, TRUE)
  BY DEF FilesInv, AllOK
<1> QED BY <1>1 DEF FilesInv

\* getcwd().
LEMMA GetcwdStep ==
  ASSUME TreeAssumption, FilesInv, NEW p \in All, vfs_getcwd(p)
  PROVE  FilesInv'
<1>1. /\ Runs(p) /\ state[p] = "user" /\ tab' = tab /\ Keep
      /\ ino' = RefDec(Climb(RefInc(ino, tab[p].pwd), tab[p].pwd), tab[p].pwd)
  BY DEF vfs_getcwd, User
<1>2. halted = FALSE /\ reading[p] = -1 /\ AllOK(ino, tab, state, reading, lost, FALSE)
  BY <1>1, RunsFacts
<1>3. PICK d, r, o : d = tab[p].pwd /\ r = RefsOf(tab, lost) /\ o = OpensOf(tab, lost)
  OBVIOUS
<1>4. Counts(ino, r, o) /\ Sound(r, o) /\ r \in [Nodes -> Nat]
  BY <1>2, <1>3, CountsSound DEF AllOK, Sound
<1>5. d \in Dirs /\ d \in Nodes /\ r[d] > 0
  <2>1. d \in Dirs /\ d \in Nodes
    BY <1>1, <1>2, <1>3, RunnerFacts
  <2>2. lost \in LostTypes
    BY <1>2 DEF AllOK
  <2>3. r = Adding(Plus(RestRefs(tab, lost, p), d), tab[p])
    <3>1. r = Adding(At(RestRefs(tab, lost, p), d), tab[p])
      BY <1>3, <2>2, SplitCounts
    <3> QED BY <2>1, <3>1 DEF At
  <2>4. CanLookUp(r, d)
    BY <1>1, <1>2, <1>3, <2>3, RunnerLooks
  <2> QED BY <2>1, <2>4 DEF CanLookUp
<1>6. PICK J, K : J = RefInc(ino, d) /\ K = Climb(J, d)
  OBVIOUS
<1>7. Counts(J, Plus(r, d), o)
  BY <1>4, <1>5, <1>6, RefIncCounts
<1>8. Counts(K, Plus(r, d), o)
  <2>1. PICK w : w = Plus(r, d)
    OBVIOUS
  <2>2. w[d] > 0
    BY <1>4, <1>5, <2>1, SoundPlus
  <2>3. Counts(K, w, o)
    BY <1>5, <1>6, <1>7, <2>1, <2>2, ClimbCounts
  <2> QED BY <2>1, <2>3
<1>9. Counts(RefDec(K, d), r, o)
  BY <1>4, <1>5, <1>8, GiveBack
<1>10. AllOK(RefDec(K, d), tab, state, reading, lost, FALSE)
  BY <1>2, <1>3, <1>9, CountsSound DEF AllOK
<1> QED BY <1>1, <1>2, <1>3, <1>6, <1>10 DEF FilesInv, Keep

\* fd_array_alloc takes a free descriptor.
LEMMA FreeFdFirst ==
  ASSUME TreeAssumption, NEW T, FreeFds(T) # {}
  PROVE  Min(FreeFds(T)) \in Fds /\ T.fd[Min(FreeFds(T))].status = "NONE"
<1>1. PICK S : S = FreeFds(T)
  OBVIOUS
<1>2. S \subseteq Nat /\ S # {}
  BY <1>1 DEF FreeFds, Fds
<1>3. \E x \in S : \A y \in S : x <= y
  BY <1>2, LeastExists
<1>4. Min(S) \in S
  BY <1>3 DEF Min
<1> QED BY <1>1, <1>4 DEF FreeFds

\* What a runner finds, in the terms of the whole system.
Seen(I, tb, L, p) ==
  /\ Counts(I, RefsOf(tb, L), OpensOf(tb, L)) /\ CanLookUp(RefsOf(tb, L), tb[p].pwd)
  /\ Sound(RefsOf(tb, L), OpensOf(tb, L))
  /\ RefsOf(tb, L) = Adding(Plus(RestRefs(tb, L, p), tb[p].pwd), tb[p])
  /\ OpensOf(tb, L) = Adding(RestOpens(tb, L, p), tb[p])

LEMMA RunnerSees ==
  ASSUME TreeAssumption, NEW I, NEW tb, NEW st, NEW rd, NEW L, AllOK(I, tb, st, rd, L, FALSE), NEW p \in All,
         rd[p] = -1, st[p] \in {"user", "kern"}
  PROVE  Seen(I, tb, L, p)
<1>1. Counts(I, RefsOf(tb, L), OpensOf(tb, L)) /\ L \in LostTypes
  BY DEF AllOK
<1>2. tb[p].pwd \in Nodes
  BY RunnerFacts
<1>3. RefsOf(tb, L) = Adding(At(RestRefs(tb, L, p), tb[p].pwd), tb[p]) /\ OpensOf(tb, L) = Adding(RestOpens(tb, L, p), tb[p])
  BY <1>1, SplitCounts
<1>4. RefsOf(tb, L) = Adding(Plus(RestRefs(tb, L, p), tb[p].pwd), tb[p])
  BY <1>2, <1>3 DEF At
<1>5. CanLookUp(RefsOf(tb, L), tb[p].pwd)
  BY <1>4, RunnerLooks
<1>6. Sound(RefsOf(tb, L), OpensOf(tb, L))
  BY <1>1, CountsSound
<1> QED BY <1>1, <1>3, <1>4, <1>5, <1>6 DEF Seen

\* The same of the current state.
LEMMA RunnerState ==
  ASSUME TreeAssumption, FilesInv, NEW p \in All, Runs(p)
  PROVE  /\ Counts(ino, RefsOf(tab, lost), OpensOf(tab, lost)) /\ CanLookUp(RefsOf(tab, lost), tab[p].pwd)
         /\ Sound(RefsOf(tab, lost), OpensOf(tab, lost))
         /\ RefsOf(tab, lost) = Adding(Plus(RestRefs(tab, lost, p), tab[p].pwd), tab[p])
         /\ OpensOf(tab, lost) = Adding(RestOpens(tab, lost, p), tab[p])
         /\ Idle(tab[p]) /\ tab[p].on /\ tab[p].pwd \in Dirs /\ tab[p].pwd \in Nodes
<1>1. AllOK(ino, tab, state, reading, lost, FALSE) /\ reading[p] = -1 /\ state[p] \in {"user", "kern"}
  BY RunsFacts
<1>2. Idle(tab[p]) /\ tab[p].on /\ tab[p].pwd \in Dirs /\ tab[p].pwd \in Nodes
  BY <1>1, RunnerFacts
<1>3. /\ Counts(ino, RefsOf(tab, lost), OpensOf(tab, lost)) /\ CanLookUp(RefsOf(tab, lost), tab[p].pwd)
      /\ Sound(RefsOf(tab, lost), OpensOf(tab, lost))
      /\ RefsOf(tab, lost) = Adding(Plus(RestRefs(tab, lost, p), tab[p].pwd), tab[p])
      /\ OpensOf(tab, lost) = Adding(RestOpens(tab, lost, p), tab[p])
  <2>1. Seen(ino, tab, lost, p)
    BY <1>1, RunnerSees
  <2> QED BY <2>1, Zenon DEF Seen
<1> QED BY <1>2, <1>3

\* A reference to n is lost.
Lose(L, n) == [L EXCEPT ![n].ref = @ + 1]

\* It stays counted.
LEMMA LoseOne ==
  ASSUME TreeAssumption, NEW tb, NEW L \in LostTypes, NEW n \in Nodes, NEW M, M = Lose(L, n)
  PROVE  M \in LostTypes /\ RefsOf(tb, M) = Plus(RefsOf(tb, L), n) /\ OpensOf(tb, M) = OpensOf(tb, L)
<1>1. L \in [Nodes -> [ref : Nat, open : Nat]] /\ \A m \in Nodes : L[m].open <= L[m].ref
  BY DEF LostTypes
<1>2. PICK e : e = [L[n] EXCEPT !.ref = @ + 1]
  OBVIOUS
<1>3. e \in [ref : Nat, open : Nat] /\ e.ref = L[n].ref + 1 /\ e.open = L[n].open
  BY <1>1, <1>2
<1>4. M \in [Nodes -> [ref : Nat, open : Nat]] /\ M[n] = e /\ \A m \in Nodes : m # n => M[m] = L[m]
  BY <1>1, <1>2, <1>3 DEF Lose
<1>5. \A m \in Nodes : M[m].open = L[m].open /\ M[m].ref = L[m].ref + IF m = n THEN 1 ELSE 0
  <2> TAKE m \in Nodes
  <2>1. L[m].ref \in Nat
    BY <1>1
  <2>2. CASE m = n
    BY <1>3, <1>4, <2>2
  <2>3. CASE m # n
    BY <1>4, <2>1, <2>3
  <2> QED BY <2>2, <2>3
<1>6. M \in LostTypes
  <2>1. \A m \in Nodes : M[m].open <= M[m].ref
    <3> TAKE m \in Nodes
    <3>1. L[m].ref \in Nat /\ L[m].open \in Nat /\ L[m].open <= L[m].ref
      BY <1>1
    <3> QED BY <1>5, <3>1
  <2> QED BY <1>4, <2>1 DEF LostTypes
<1>7. OpensOf(tb, M) = OpensOf(tb, L)
  BY <1>5 DEF OpensOf
<1>8. PICK r, s : r = RefsOf(tb, L) /\ s = RefsOf(tb, M)
  OBVIOUS
<1>9. \A m \in Nodes : r[m] \in Nat /\ s[m] = r[m] + IF m = n THEN 1 ELSE 0
  <2> TAKE m \in Nodes
  <2>1. PICK a, b, c, d, e2 : a = Own(m) /\ b = L[m].ref /\ c = Cardinality(NamingIn(tb, m)) /\ d = Cardinality(StandingIn(tb, m))
                           /\ e2 = M[m].ref
    OBVIOUS
  <2>2. c \in Nat /\ d \in Nat
    <3>1. NamingIn(tb, m) \subseteq All \X Fds /\ StandingIn(tb, m) \subseteq All
      BY DEF NamingIn, StandingIn
    <3>2. IsFiniteSet(NamingIn(tb, m)) /\ IsFiniteSet(StandingIn(tb, m))
      BY <3>1, FdsFinite, FS_Subset
    <3> QED BY <2>1, <3>2, FS_CardinalityType
  <2>3. a \in Nat /\ b \in Nat /\ e2 = b + IF m = n THEN 1 ELSE 0
    BY <1>1, <1>5, <2>1 DEF Own
  <2>4. r[m] = a + b + c + d /\ s[m] = a + e2 + c + d
    BY <1>8, <2>1 DEF RefsOf
  <2> QED BY <2>2, <2>3, <2>4
<1>10. r \in [Nodes -> Nat] /\ s = [m \in Nodes |-> s[m]]
  BY <1>8, <1>9 DEF RefsOf
<1>11. s = Plus(r, n)
  <2>1. PICK w : w = Plus(r, n)
    OBVIOUS
  <2>2. w \in [Nodes -> Nat] /\ w[n] = r[n] + 1 /\ \A m \in Nodes : m # n => w[m] = r[m]
    BY <1>10, <2>1, PlusFacts
  <2>3. \A m \in Nodes : s[m] = w[m]
    BY <1>9, <2>2
  <2> QED BY <1>10, <2>1, <2>2, <2>3
<1> QED BY <1>6, <1>7, <1>8, <1>11

\* open().
LEMMA OpenStep ==
  ASSUME TreeAssumption, FilesInv, NEW p \in All, NEW path \in Paths, NEW fl, file_open(p, path, fl)
  PROVE  FilesInv'
<1>1. PICK v : v = vfs_open(ino, p, path, fl)
  OBVIOUS
<1>2. /\ Runs(p) /\ state[p] = "user" /\ FreeFds(tab[p]) # {} /\ state' = state /\ reading' = reading
      /\ halted' = (v.err = "panic")
      /\ lost' = IF v.err = "EXISTS" THEN [lost EXCEPT ![v.node].ref = @ + 1] ELSE lost
      /\ IF v.err = "ok" THEN Set(p, [I |-> v.I, T |-> fd_array_open(tab[p], Min(FreeFds(tab[p])), v.node)])
         ELSE Set(p, [I |-> v.I, T |-> tab[p]])
  BY <1>1 DEF file_open, User, NoteLost
<1>3. halted = FALSE /\ reading[p] = -1 /\ AllOK(ino, tab, state, reading, lost, FALSE)
  BY <1>2, RunsFacts
<1>4. PICK r, o, T, n : r = RefsOf(tab, lost) /\ o = OpensOf(tab, lost) /\ T = tab[p] /\ n = v.node
  OBVIOUS
<1>5. Counts(ino, r, o) /\ CanLookUp(r, T.pwd) /\ Idle(T) /\ lost \in LostTypes
  BY <1>2, <1>3, <1>4, RunnerState DEF AllOK
<1>6. OpenedUp(v, r, o, fl)
  BY <1>1, <1>4, <1>5, OpenCounts
<1>7. [tab EXCEPT ![p] = T] = tab
  BY <1>3, <1>4 DEF AllOK
<1>8. CASE v.err = "ok"
  <2>1. n \in Nodes /\ Counts(v.I, Plus(r, n), Plus(o, n))
    BY <1>4, <1>6, <1>8 DEF OpenedUp
  <2>2. PICK k, U : k = Min(FreeFds(T)) /\ U = fd_array_open(T, k, n)
    OBVIOUS
  <2>3. k \in Fds /\ T.fd[k].status = "NONE"
    BY <1>2, <1>4, <2>2, FreeFdFirst
  <2>4. Idle(U) /\ U.on = T.on /\ U.pwd = T.pwd
    BY <1>5, <2>1, <2>2, <2>3, TableMore
  <2>5. PICK c, bo : c = Plus(RestRefs(tab, lost, p), T.pwd) /\ bo = RestOpens(tab, lost, p)
    OBVIOUS
  <2>6. c \in [Nodes -> Nat] /\ bo \in [Nodes -> Nat] /\ T.on /\ T.pwd \in Dirs /\ T.pwd \in Nodes
        /\ r = Adding(c, T) /\ o = Adding(bo, T)
    <3>1. c \in [Nodes -> Nat] /\ bo \in [Nodes -> Nat] /\ T.on /\ T.pwd \in Dirs /\ T.pwd \in Nodes
      BY <1>2, <1>3, <1>4, <2>5, RunnerFacts
    <3>2. r = Adding(c, T) /\ o = Adding(bo, T)
      BY <1>2, <1>4, <2>5, RunnerState
    <3> QED BY <3>1, <3>2
  <2>7. Adding(c, U) = Plus(r, n) /\ Adding(bo, U) = Plus(o, n)
    BY <1>5, <2>1, <2>2, <2>3, <2>6, MoreCounts
  <2>8. Shown(tab, lost, p, v.I, U)
    BY <2>1, <2>4, <2>5, <2>6, <2>7 DEF Shown, At
  <2>9. ProcOK(U, "user", -1) /\ DOMAIN v.I = Nodes
    BY <2>1, <2>4, <2>6, IdleOK, CountsSound
  <2>10. PICK J : J = v.I
    OBVIOUS
  <2>11. AllOK(J, [tab EXCEPT ![p] = U], state, reading, lost, FALSE)
    BY <1>2, <1>3, <2>8, <2>9, <2>10, OneTable
  <2>12. ino' = J /\ tab' = [tab EXCEPT ![p] = U] /\ lost' = lost /\ halted' = FALSE
    BY <1>2, <1>4, <1>8, <2>2, <2>10 DEF Set
  <2> QED BY <1>2, <2>11, <2>12 DEF FilesInv
<1>9. CASE v.err # "ok"
  <2>1. ino' = v.I /\ tab' = tab
    BY <1>2, <1>4, <1>7, <1>9 DEF Set
  <2>2. CASE v.err = "EXISTS"
    <3>1. n \in Nodes /\ Counts(v.I, Plus(r, n), o)
      BY <1>4, <1>6, <2>2 DEF OpenedUp
    <3>2. PICK M : M = Lose(lost, n)
      OBVIOUS
    <3>3. lost' = M /\ halted' = FALSE
      BY <1>2, <1>4, <2>2, <3>2 DEF Lose
    <3>4. M \in LostTypes /\ RefsOf(tab, M) = Plus(r, n) /\ OpensOf(tab, M) = o
      BY <1>4, <1>5, <3>1, <3>2, LoseOne
    <3>5. AllOK(v.I, tab, state, reading, M, FALSE)
      BY <1>3, <3>1, <3>4, CountsSound DEF AllOK
    <3> QED BY <1>2, <2>1, <3>3, <3>5 DEF FilesInv
  <2>3. CASE v.err = "panic"
    <3>1. DOMAIN v.I = Nodes
      BY <1>6, <2>3 DEF OpenedUp
    <3>2. AllOK(v.I, tab, state, reading, lost, TRUE)
      BY <1>3, <3>1 DEF AllOK
    <3>3. lost' = lost /\ halted' = TRUE
      BY <1>2, <2>3
    <3> QED BY <1>2, <2>1, <3>2, <3>3 DEF FilesInv
  <2>4. CASE v.err \in {"NOENT", "INVAL"}
    <3>1. Counts(v.I, r, o)
      BY <1>6, <2>4 DEF OpenedUp
    <3>2. AllOK(v.I, tab, state, reading, lost, FALSE)
      BY <1>3, <1>4, <3>1, CountsSound DEF AllOK
    <3>3. lost' = lost /\ halted' = FALSE
      BY <1>2, <2>4
    <3> QED BY <1>2, <2>1, <3>2, <3>3 DEF FilesInv
  <2> QED BY <1>6, <1>9, <2>2, <2>3, <2>4 DEF OpenedUp
<1> QED BY <1>8, <1>9

\* chdir(): the two directories and the look-up's own reference.
LEMMA ChdirStep ==
  ASSUME TreeAssumption, FilesInv, NEW p \in All, NEW path \in Paths, vfs_chdir(p, path)
  PROVE  FilesInv'
<1>1. PICK l : l = vfs_lookup(ino, p, path)
  OBVIOUS
<1>2. PICK s : s = SetCurdir([I |-> l.I, T |-> tab[p]], l.node)
  OBVIOUS
<1>3. /\ Runs(p) /\ state[p] = "user" /\ Keep
      /\ Set(p, IF l.err = "ok" THEN [s EXCEPT !.I = RefDec(s.I, l.node)] ELSE [I |-> l.I, T |-> tab[p]])
  BY <1>1, <1>2 DEF vfs_chdir, User
<1>4. halted = FALSE /\ reading[p] = -1 /\ AllOK(ino, tab, state, reading, lost, FALSE)
  BY <1>3, RunsFacts
<1>5. PICK r, o, T, n, K, d : r = RefsOf(tab, lost) /\ o = OpensOf(tab, lost) /\ T = tab[p] /\ n = l.node /\ K = l.I /\ d = T.pwd
  OBVIOUS
<1>6. Counts(ino, r, o) /\ CanLookUp(r, d) /\ Sound(r, o) /\ r \in [Nodes -> Nat]
  <2>1. Counts(ino, r, o) /\ CanLookUp(r, d) /\ Sound(r, o)
    BY <1>3, <1>5, RunnerState
  <2> QED BY <2>1 DEF Sound
<1>7. LookedUp(l, r, o)
  BY <1>1, <1>5, <1>6, LookupCounts
<1>8. [tab EXCEPT ![p] = T] = tab
  BY <1>4, <1>5 DEF AllOK
<1>9. ASSUME NEW J, Counts(J, r, o), ino' = J, tab' = tab PROVE FilesInv'
  <2>1. AllOK(J, tab, state, reading, lost, FALSE)
    BY <1>4, <1>5, <1>9, CountsSound DEF AllOK
  <2> QED BY <1>3, <1>4, <1>9, <2>1 DEF FilesInv, Keep
<1>10. CASE l.err # "ok"
  <2>1. ino' = K /\ tab' = tab /\ Counts(K, r, o)
    BY <1>3, <1>5, <1>7, <1>8, <1>10 DEF Set, LookedUp
  <2> QED BY <1>9, <2>1
<1>11. CASE l.err = "ok" /\ (n = d \/ n \notin Dirs)
  <2>1. n \in Nodes /\ Counts(K, Plus(r, n), o)
    BY <1>5, <1>7, <1>11 DEF LookedUp
  <2>2. s = [I |-> K, T |-> T]
    BY <1>2, <1>5, <1>11 DEF SetCurdir
  <2>3. ino' = RefDec(K, n) /\ tab' = tab
    BY <1>3, <1>5, <1>8, <1>11, <2>2 DEF Set
  <2>4. Counts(RefDec(K, n), r, o)
    BY <1>6, <2>1, GiveBack
  <2> QED BY <1>9, <2>3, <2>4
<1>12. CASE l.err = "ok" /\ n # d /\ n \in Dirs
  <2>1. n \in Nodes /\ Counts(K, Plus(r, n), o)
    BY <1>5, <1>7, <1>12 DEF LookedUp
  <2>2. PICK J, M, N, U : J = RefInc(K, n) /\ M = RefDec(J, d) /\ N = RefDec(M, n) /\ U = [T EXCEPT !.pwd = n]
    OBVIOUS
  <2>3. s = [I |-> M, T |-> U]
    BY <1>2, <1>5, <1>12, <2>2 DEF SetCurdir
  <2>4. ino' = N /\ tab' = [tab EXCEPT ![p] = U]
    BY <1>3, <1>5, <1>12, <2>2, <2>3 DEF Set
  <2>5. PICK br, bo, q : br = RestRefs(tab, lost, p) /\ bo = RestOpens(tab, lost, p) /\ q = Adding(br, T)
    OBVIOUS
  <2>6. Idle(T) /\ T.on /\ d \in Nodes /\ br \in [Nodes -> Nat] /\ Sound(br, bo)
    BY <1>3, <1>4, <1>5, <2>5, RunnerFacts
  <2>7. r = Plus(q, d) /\ o = Adding(bo, T) /\ q \in [Nodes -> Nat] /\ Sound(q, o)
    <3>1. r = Adding(Plus(br, d), T) /\ o = Adding(bo, T)
      BY <1>3, <1>5, <2>5, RunnerState
    <3>2. Adding(Plus(br, d), T) = Plus(q, d)
      BY <2>5, <2>6, WithPlus
    <3>3. Sound(q, o)
      BY <2>5, <2>6, <3>1, AddingSound
    <3> QED BY <3>1, <3>2, <3>3 DEF Sound
  <2>8. Counts(J, Plus(Plus(r, n), n), o)
    <3>1. PICK w : w = Plus(r, n)
      OBVIOUS
    <3>2. w[n] > 0
      BY <1>6, <2>1, <3>1, SoundPlus
    <3>3. Counts(J, Plus(w, n), o)
      BY <2>1, <2>2, <3>1, <3>2, RefIncCounts
    <3> QED BY <3>1, <3>3
  <2>9. Plus(Plus(Plus(q, d), n), n) = Plus(Plus(Plus(q, n), n), d)
    <3>1. PICK w : w = Plus(q, n)
      OBVIOUS
    <3>2. w \in [Nodes -> Nat]
      BY <2>1, <2>7, <3>1, PlusFacts
    <3>3. Plus(Plus(q, d), n) = Plus(w, d)
      BY <2>1, <2>6, <2>7, <3>1, PlusSwap
    <3>4. Plus(Plus(w, d), n) = Plus(Plus(w, n), d)
      BY <2>1, <2>6, <3>2, PlusSwap
    <3> QED BY <3>1, <3>3, <3>4
  <2>10. PICK q1, q2 : q1 = Plus(q, n) /\ q2 = Plus(q1, n)
    OBVIOUS
  <2>11. Sound(q1, o) /\ Sound(q2, o)
    BY <2>1, <2>7, <2>10, SoundPlus
  <2>12. Counts(J, Plus(q2, d), o)
    BY <2>7, <2>8, <2>9, <2>10
  <2>13. Counts(M, q2, o)
    BY <2>2, <2>6, <2>11, <2>12, GiveBack
  <2>14. Counts(N, q1, o)
    BY <2>1, <2>2, <2>10, <2>11, <2>13, GiveBack
  <2>15. Idle(U) /\ U.on = T.on /\ U.pwd = n /\ U.fd = T.fd
    BY <2>1, <2>2, <2>6 DEF Idle, Tables
  <2>16. Adding(Plus(br, n), U) = q1 /\ Adding(bo, U) = o
    <3>1. \A b : Adding(b, U) = Adding(b, T)
      BY <2>15, SameOpen
    <3>2. Adding(Plus(br, n), T) = q1
      BY <2>1, <2>5, <2>6, <2>10, WithPlus
    <3> QED BY <2>7, <3>1, <3>2
  <2>17. Shown(tab, lost, p, N, U)
    BY <2>1, <2>5, <2>14, <2>15, <2>16 DEF Shown, At
  <2>18. ProcOK(U, "user", -1) /\ DOMAIN N = Nodes
    BY <1>12, <2>6, <2>14, <2>15, IdleOK, CountsSound
  <2>19. AllOK(N, [tab EXCEPT ![p] = U], state, reading, lost, FALSE)
    BY <1>3, <1>4, <2>17, <2>18, OneTable
  <2> QED BY <1>3, <1>4, <2>4, <2>19 DEF FilesInv, Keep
<1> QED BY <1>10, <1>11, <1>12

\* A process that is there counts for the others.
LEMMA OtherCounts ==
  ASSUME TreeAssumption, NEW tb, NEW L \in LostTypes, NEW p \in All, NEW c \in All, p # c, NEW n \in Nodes,
         tb[p].pwd = n \/ \E k \in Opened(tb[p]) : tb[p].fd[k].node = n
  PROVE  RestRefs(tb, L, c)[n] > 0
<1>1. PICK a, b, e, d : a = Own(n) /\ b = L[n].ref /\ e = Cardinality(OthersNaming(tb, c, n)) /\ d = Cardinality(OthersStanding(tb, c, n))
  OBVIOUS
<1>2. RestRefs(tb, L, c)[n] = a + b + e + d
  BY <1>1 DEF RestRefs
<1>3. a \in Nat /\ b \in Nat /\ e \in Nat /\ d \in Nat
  <2>1. e \in Nat /\ d \in Nat
    BY <1>1, OthersFinite
  <2> QED BY <1>1, <2>1 DEF LostTypes, Own
<1>4. e # 0 \/ d # 0
  <2>1. CASE tb[p].pwd = n
    <3>1. p \in OthersStanding(tb, c, n)
      BY <2>1 DEF OthersStanding
    <3>2. OthersStanding(tb, c, n) # {}
      BY <3>1
    <3> QED BY <1>1, <3>2, OthersFinite, FS_EmptySet
  <2>2. CASE \E k \in Opened(tb[p]) : tb[p].fd[k].node = n
    <3>1. PICK k \in Opened(tb[p]) : tb[p].fd[k].node = n
      BY <2>2
    <3>2. <<p, k>> \in OthersNaming(tb, c, n)
      BY <3>1 DEF OthersNaming, Opened
    <3>3. OthersNaming(tb, c, n) # {}
      BY <3>2
    <3> QED BY <1>1, <3>3, OthersFinite, FS_EmptySet
  <2> QED BY <2>1, <2>2
<1> QED BY <1>2, <1>3, <1>4

\* fork(): the child's references are new ones.
LEMMA ForkStep ==
  ASSUME TreeAssumption, FilesInv, NEW p \in All, NEW c \in Procs, do_fork(p, c)
  PROVE  FilesInv'
<1>1. PICK e : e = dup_files(ino, tab[p])
  OBVIOUS
<1>2. /\ Runs(p) /\ state[c] = "none" /\ ino' = e.I /\ tab' = [tab EXCEPT ![c] = e.T]
      /\ state' = [state EXCEPT ![c] = state[p]] /\ reading' = reading /\ lost' = lost /\ halted' = halted
  BY <1>1 DEF do_fork, User
<1>3. halted = FALSE /\ reading[p] = -1 /\ state[p] \in {"user", "kern"} /\ AllOK(ino, tab, state, reading, lost, FALSE)
  BY <1>2, RunsFacts
<1>4. c \in All /\ p # c
  BY <1>2, <1>3 DEF All
<1>5. PICK from, d, br, bo : from = tab[p] /\ d = from.pwd /\ br = RestRefs(tab, lost, c) /\ bo = RestOpens(tab, lost, c)
  OBVIOUS
<1>6. Idle(from) /\ d \in Dirs /\ d \in Nodes
  BY <1>2, <1>5, RunnerState
<1>7. lost \in LostTypes /\ ProcOK(tab[c], "none", reading[c])
  BY <1>2, <1>3, <1>4 DEF AllOK
<1>8. tab[c] = NoFiles /\ reading[c] = -1
  BY <1>7 DEF ProcOK
<1>9. br \in [Nodes -> Nat] /\ bo \in [Nodes -> Nat]
  BY <1>5, <1>7, RestType
<1>10. Counts(ino, Adding(br, NoFiles), Adding(bo, NoFiles))
  <2>1. Counts(ino, RefsOf(tab, lost), OpensOf(tab, lost))
    BY <1>3 DEF AllOK
  <2>2. RefsOf(tab, lost) = Adding(At(br, NoFiles.pwd), NoFiles) /\ OpensOf(tab, lost) = Adding(bo, NoFiles)
    BY <1>4, <1>5, <1>7, <1>8, SplitCounts
  <2>3. At(br, NoFiles.pwd) = br
    <3>1. NoFiles.pwd \notin Nodes
      BY NoFilesIdle DEF TreeAssumption
    <3> QED BY <3>1 DEF At
  <2> QED BY <2>1, <2>2, <2>3
<1>11. br[d] > 0 /\ \A k \in Opened(from) : br[from.fd[k].node] > 0
  <2>1. br[d] > 0
    BY <1>4, <1>5, <1>6, <1>7, OtherCounts
  <2>2. ASSUME NEW k \in Opened(from) PROVE br[from.fd[k].node] > 0
    <3>1. PICK n : n = from.fd[k].node
      OBVIOUS
    <3>2. n \in Nodes
      BY <1>6, <3>1 DEF Idle, Opened
    <3>3. \E j \in Opened(tab[p]) : tab[p].fd[j].node = n
      BY <1>5, <3>1
    <3>4. br[n] > 0
      BY <1>4, <1>5, <1>7, <3>2, <3>3, OtherCounts
    <3> QED BY <3>1, <3>4
  <2> QED BY <2>1, <2>2
<1>12. e \in Holding(Plus(br, d), bo, Forked(d))
  <2>1. dup_files(ino, from) \in Holding(Plus(br, from.pwd), bo, Forked(from.pwd))
    BY <1>5, <1>6, <1>9, <1>10, <1>11, DupFilesHold
  <2> QED BY <1>1, <1>5, <2>1
<1>13. PICK J, U : J = e.I /\ U = e.T
  OBVIOUS
<1>14. Idle(U) /\ Held(e, Plus(br, d), bo) /\ U.pwd = d /\ U.on
  BY <1>12, <1>13 DEF Holding, Forked
<1>15. Counts(J, Adding(Plus(br, d), U), Adding(bo, U))
  BY <1>13, <1>14 DEF Held
<1>16. Shown(tab, lost, c, J, U) /\ DOMAIN J = Nodes
  BY <1>5, <1>6, <1>14, <1>15, CountsSound DEF Shown, At
<1>17. PICK s : s = state[p]
  OBVIOUS
<1>18. ProcOK(U, s, -1)
  <2>1. ProcOK(U, "user", -1) /\ ProcOK(U, "kern", -1)
    BY <1>6, <1>14, IdleOK
  <2> QED BY <1>3, <1>17, <2>1
<1>19. AllOK(J, [tab EXCEPT ![c] = U], [state EXCEPT ![c] = s], [reading EXCEPT ![c] = -1], lost, FALSE)
  BY <1>3, <1>4, <1>16, <1>18, OneStep
<1>20. [reading EXCEPT ![c] = -1] = reading
  BY <1>3, <1>4, <1>8 DEF AllOK
<1> QED BY <1>2, <1>3, <1>13, <1>17, <1>19, <1>20 DEF FilesInv

\* put_files: what a process held is given back, its directory included.
LEMMA DestroyHolds ==
  ASSUME TreeAssumption, NEW br, NEW bo, Sound(br, bo), NEW T0, NEW d \in Nodes, T0.pwd = d,
         NEW s \in Holding(Plus(br, d), bo, T0)
  PROVE  /\ files_destroy(s).T = NoFiles
         /\ Counts(files_destroy(s).I, Adding(br, NoFiles), Adding(bo, NoFiles))
<1>1. br \in [Nodes -> Nat] /\ bo \in [Nodes -> Nat] /\ d # None
  BY DEF Sound, TreeAssumption
<1>2. PICK I, T : I = s.I /\ T = s.T
  OBVIOUS
<1>3. s = [I |-> I, T |-> T] /\ T \in Tables /\ Idle(T) /\ T.pwd = d /\ T.on = T0.on /\ Held(s, Plus(br, d), bo)
  BY <1>2 DEF Holding
<1>4. PICK r, o, J, t : r = Adding(br, T) /\ o = Adding(bo, T) /\ J = RefDec(I, d) /\ t = [I |-> J, T |-> T]
  OBVIOUS
<1>5. Counts(I, Plus(r, d), o)
  <2>1. Adding(Plus(br, d), T) = Plus(r, d)
    BY <1>1, <1>4, WithPlus
  <2> QED BY <1>2, <1>3, <1>4, <2>1 DEF Held
<1>6. Counts(J, r, o)
  <2>1. Sound(r, o)
    BY <1>4, AddingSound
  <2> QED BY <1>4, <1>5, <2>1, GiveBack
<1>7. t \in Holding(br, bo, T0)
  <2>1. t.I = J /\ t.T = T
    BY <1>4
  <2>2. Held(t, br, bo) /\ J \in [Nodes -> InodeTypes]
    BY <1>4, <1>6, <2>1, CountsSound DEF Held
  <2> QED BY <1>3, <1>4, <2>1, <2>2 DEF Holding
<1>8. PICK e : e = CloseFrom(t, 0)
  OBVIOUS
<1>9. e \in Holding(br, bo, T0) /\ ClosedTo(e, 0, NFd)
  BY <1>1, <1>7, <1>8, CloseFromHolds
<1>10. files_destroy(s) = [I |-> e.I, T |-> NoFiles]
  <2>1. [s EXCEPT !.I = RefDec(s.I, s.T.pwd)] = t
    BY <1>2, <1>3, <1>4
  <2> QED BY <1>1, <1>2, <1>3, <1>8, <2>1 DEF files_destroy
<1>11. \A m : Opens(e.T, m) = Opens(NoFiles, m)
  <2>1. Opened(e.T) = {}
    <3>1. \A k \in Fds : 0 <= k /\ k < NFd
      <4>1. NFd \in Nat
        BY DEF TreeAssumption
      <4> QED BY <4>1 DEF Fds
    <3> QED BY <1>9, <3>1 DEF ClosedTo, Opened
  <2>2. Opened(NoFiles) = {}
    BY NoFilesIdle, ClosedType DEF Opened
  <2> QED BY <2>1, <2>2 DEF Opens
<1>12. Adding(br, e.T) = Adding(br, NoFiles) /\ Adding(bo, e.T) = Adding(bo, NoFiles)
  BY <1>11 DEF Adding
<1>13. Counts(e.I, Adding(br, NoFiles), Adding(bo, NoFiles))
  BY <1>9, <1>12 DEF Holding, Held
<1> QED BY <1>10, <1>13

\* A process that ends with the table and the inodes s.
LEMMA EndStep ==
  ASSUME TreeAssumption, FilesInv, NEW p \in All, Runs(p), NEW user \in BOOLEAN,
         NEW s \in Holding(Plus(RestRefs(tab, lost, p), tab[p].pwd), RestOpens(tab, lost, p), tab[p]),
         Set(p, ExitFiles(s, user)), state' = [state EXCEPT ![p] = "zombie"], UNCHANGED <<reading, lost, halted>>
  PROVE  FilesInv'
<1>1. halted = FALSE /\ reading[p] = -1 /\ state[p] \in {"user", "kern"} /\ AllOK(ino, tab, state, reading, lost, FALSE)
  BY RunsFacts
<1>2. PICK e, J, U : e = ExitFiles(s, user) /\ J = e.I /\ U = e.T
  OBVIOUS
<1>3. Shown(tab, lost, p, J, U) /\ ProcOK(U, "zombie", -1) /\ DOMAIN J = Nodes
  <2>1. CASE user = FALSE
    <3>1. e = s
      BY <1>2, <2>1 DEF ExitFiles
    <3>2. Shown(tab, lost, p, s.I, s.T) /\ DOMAIN s.I = Nodes /\ ProcOK(s.T, "zombie", -1)
      BY <1>1, HoldingFits
    <3> QED BY <1>2, <3>1, <3>2
  <2>2. CASE user = TRUE
    <3>1. PICK br, bo, d, T : br = RestRefs(tab, lost, p) /\ bo = RestOpens(tab, lost, p) /\ T = tab[p] /\ d = T.pwd
      OBVIOUS
    <3>2. Sound(br, bo) /\ d \in Nodes
      BY <1>1, <3>1, RunnerFacts
    <3>3. e = files_destroy(s) /\ s \in Holding(Plus(br, d), bo, T)
      BY <1>2, <2>2, <3>1 DEF ExitFiles
    <3>4. U = NoFiles /\ Counts(J, Adding(br, NoFiles), Adding(bo, NoFiles))
      BY <1>2, <3>1, <3>2, <3>3, DestroyHolds
    <3>5. At(br, NoFiles.pwd) = br
      <4>1. NoFiles.pwd \notin Nodes
        BY NoFilesIdle DEF TreeAssumption
      <4> QED BY <4>1 DEF At
    <3>6. Shown(tab, lost, p, J, U)
      BY <3>1, <3>4, <3>5 DEF Shown
    <3> QED BY <3>4, <3>6, NoFilesIdle, IdleOK, CountsSound
  <2> QED BY <2>1, <2>2
<1>4. AllOK(J, [tab EXCEPT ![p] = U], [state EXCEPT ![p] = "zombie"], [reading EXCEPT ![p] = -1], lost, FALSE)
  BY <1>1, <1>3, OneStep
<1>5. [reading EXCEPT ![p] = -1] = reading
  BY <1>1 DEF AllOK
<1>6. ino' = J /\ tab' = [tab EXCEPT ![p] = U]
  BY <1>2 DEF Set
<1> QED BY <1>1, <1>4, <1>5, <1>6 DEF FilesInv

\* exit().
LEMMA ExitStep ==
  ASSUME TreeAssumption, FilesInv, NEW p \in All, do_exit(p)
  PROVE  FilesInv'
<1>1. /\ Runs(p) /\ Set(p, ExitFiles(Mine(p), TRUE)) /\ state' = [state EXCEPT ![p] = "zombie"]
      /\ UNCHANGED <<reading, lost, halted>>
  BY DEF do_exit, User
<1>2. PICK s : s = Mine(p)
  OBVIOUS
<1>3. s \in Holding(Plus(RestRefs(tab, lost, p), tab[p].pwd), RestOpens(tab, lost, p), tab[p])
  BY <1>1, <1>2, RunsFacts, RunnerFacts DEF Mine
<1>4. Set(p, ExitFiles(s, TRUE))
  BY <1>1, <1>2
<1> QED BY <1>1, <1>3, <1>4, EndStep

\* do_execve until the program's file is open: what is closed stays closed, and
\* what was opened is what vfs_close of it gives back.
LEMMA ExecHolds ==
  ASSUME TreeAssumption, FilesInv, NEW p \in All, Runs(p), NEW path \in Paths, ReadOnly.excl = FALSE,
         NEW X, X = Holding(Plus(RestRefs(tab, lost, p), tab[p].pwd), RestOpens(tab, lost, p), tab[p]),
         NEW s, s = files_closeall(Mine(p)), NEW v, v = Executed(s, p, path)
  PROVE  /\ s \in X
         /\ v.err = "ok" => v.node \in Nodes /\ [s EXCEPT !.I = vfs_close(v.I, v.node)] \in X
         /\ v.err \notin {"ok", "panic"} => [s EXCEPT !.I = v.I] \in X
<1>1. halted = FALSE /\ reading[p] = -1 /\ state[p] \in {"user", "kern"} /\ AllOK(ino, tab, state, reading, lost, FALSE)
  BY RunsFacts
<1>2. PICK c, bo, T, d, m : /\ c = Plus(RestRefs(tab, lost, p), d) /\ bo = RestOpens(tab, lost, p)
                            /\ T = tab[p] /\ d = T.pwd /\ m = Mine(p)
  OBVIOUS
<1>3. m \in Holding(c, bo, T) /\ c \in [Nodes -> Nat] /\ bo \in [Nodes -> Nat]
  BY <1>1, <1>2, RunnerFacts DEF Mine
<1>4. s \in Holding(c, bo, T)
  BY <1>2, <1>3, CloseFromHolds DEF files_closeall
<1>5. PICK I, U, r, o : I = s.I /\ U = s.T /\ r = Adding(c, U) /\ o = Adding(bo, U)
  OBVIOUS
<1>6. Counts(I, r, o) /\ CanLookUp(r, d)
  <2>1. Counts(I, r, o)
    BY <1>4, <1>5 DEF Holding, Held
  <2>2. CanLookUp(r, d)
    BY <1>1, <1>2, <1>5, RunnerLooks
  <2> QED BY <2>1, <2>2
<1>7. ASSUME NEW J, Counts(J, r, o) PROVE [s EXCEPT !.I = J] \in Holding(c, bo, T)
  <2>1. PICK t : t = [s EXCEPT !.I = J]
    OBVIOUS
  <2>2. s = [I |-> I, T |-> U] /\ U \in Tables /\ Idle(U) /\ U.pwd = T.pwd /\ U.on = T.on
    BY <1>4, <1>5 DEF Holding
  <2>3. t = [I |-> J, T |-> U] /\ t.I = J /\ t.T = U
    BY <2>1, <2>2
  <2>4. Held(t, c, bo) /\ J \in [Nodes -> InodeTypes]
    BY <1>5, <1>7, <2>3, CountsSound DEF Held
  <2>5. t \in Holding(c, bo, T)
    BY <2>2, <2>3, <2>4 DEF Holding
  <2> QED BY <2>1, <2>5
<1>8. X = Holding(c, bo, T)
  BY <1>2
<1>9. CASE FreeFds(s.T) = {}
  <2>1. v.err = "MAX_OPEN" /\ v.I = I
    BY <1>5, <1>9 DEF Executed, Failed
  <2> QED BY <1>4, <1>6, <1>7, <1>8, <2>1
<1>10. CASE FreeFds(s.T) # {}
  <2>1. v = vfs_open(I, p, path, ReadOnly)
    BY <1>5, <1>10 DEF Executed
  <2>2. OpenedUp(v, r, o, ReadOnly)
    BY <1>2, <1>6, <2>1, OpenCounts
  <2>3. PICK n, K : n = v.node /\ K = v.I
    OBVIOUS
  <2>4. CASE v.err = "ok"
    <3>1. n \in Nodes /\ Counts(K, Plus(r, n), Plus(o, n))
      BY <2>2, <2>3, <2>4 DEF OpenedUp
    <3>2. r \in [Nodes -> Nat] /\ o \in [Nodes -> Nat] /\ o[n] \in Nat
      BY <1>6, <3>1 DEF Counts
    <3>3. PICK a, b : a = Plus(r, n) /\ b = Plus(o, n)
      OBVIOUS
    <3>4. Minus(a, n) = r /\ Minus(b, n) = o /\ b[n] > 0
      BY <3>1, <3>2, <3>3, PlusFacts
    <3>5. Counts(vfs_close(K, n), Minus(a, n), Minus(b, n))
      BY <3>1, <3>3, <3>4, CloseCounts
    <3>6. [s EXCEPT !.I = vfs_close(K, n)] \in X
      BY <1>7, <1>8, <3>4, <3>5
    <3> QED BY <1>4, <1>8, <2>3, <2>4, <3>1, <3>6
  <2>5. CASE v.err = "panic"
    BY <1>4, <1>8, <2>5
  <2>6. CASE v.err \in {"NOENT", "INVAL"}
    <3>1. Counts(K, r, o)
      BY <2>2, <2>3, <2>6 DEF OpenedUp
    <3>2. [s EXCEPT !.I = K] \in X
      BY <1>7, <1>8, <3>1
    <3> QED BY <1>4, <1>8, <2>3, <2>6, <3>2
  <2> QED BY <2>2, <2>4, <2>5, <2>6 DEF OpenedUp
<1> QED BY <1>9, <1>10

\* exec() of a program that loads.
LEMMA ExecveStep ==
  ASSUME TreeAssumption, FilesInv, NEW p \in All, NEW path \in Paths, do_execve(p, path)
  PROVE  FilesInv'
<1>1. PICK s, v, X : /\ s = files_closeall(Mine(p)) /\ v = Executed(s, p, path)
                     /\ X = Holding(Plus(RestRefs(tab, lost, p), tab[p].pwd), RestOpens(tab, lost, p), tab[p])
  OBVIOUS
<1>2. PICK t : t = [s EXCEPT !.I = vfs_close(v.I, v.node)]
  OBVIOUS
<1>3. /\ Runs(p) /\ v.err = "ok" /\ Set(p, t) /\ state' = [state EXCEPT ![p] = "user"]
      /\ UNCHANGED <<reading, lost, halted>>
  BY <1>1, <1>2 DEF do_execve
<1>4. t \in X
  <2>1. ReadOnly.excl = FALSE
    BY DEF ReadOnly
  <2> QED BY <1>1, <1>2, <1>3, <2>1, ExecHolds
<1>5. halted = FALSE /\ reading[p] = -1 /\ state[p] \in {"user", "kern"} /\ AllOK(ino, tab, state, reading, lost, FALSE)
  BY <1>3, RunsFacts
<1>6. PICK J, U : J = t.I /\ U = t.T
  OBVIOUS
<1>7. Shown(tab, lost, p, J, U) /\ DOMAIN J = Nodes /\ ProcOK(U, "user", -1)
  <2>1. Shown(tab, lost, p, t.I, t.T) /\ DOMAIN t.I = Nodes /\ ProcOK(t.T, "user", -1)
    BY <1>1, <1>4, <1>5, HoldingFits
  <2> QED BY <1>6, <2>1
<1>8. AllOK(J, [tab EXCEPT ![p] = U], [state EXCEPT ![p] = "user"], [reading EXCEPT ![p] = -1], lost, FALSE)
  BY <1>5, <1>7, OneStep
<1>9. [reading EXCEPT ![p] = -1] = reading
  BY <1>5 DEF AllOK
<1>10. ino' = J /\ tab' = [tab EXCEPT ![p] = U]
  BY <1>3, <1>6 DEF Set
<1> QED BY <1>3, <1>5, <1>8, <1>9, <1>10 DEF FilesInv

\* exec() that fails is an exit, with the files or without.
LEMMA ExecFailStep ==
  ASSUME TreeAssumption, FilesInv, NEW p \in All, NEW path \in Paths, execve_noent(p, path) \/ execve_badelf(p, path)
  PROVE  FilesInv'
<1>1. PICK s, v, X : /\ s = files_closeall(Mine(p)) /\ v = Executed(s, p, path)
                     /\ X = Holding(Plus(RestRefs(tab, lost, p), tab[p].pwd), RestOpens(tab, lost, p), tab[p])
  OBVIOUS
<1>2. ReadOnly.excl = FALSE
  BY DEF ReadOnly
<1>3. CASE execve_noent(p, path)
  <2>1. PICK t, user : t = [s EXCEPT !.I = v.I] /\ user = (state[p] = "user")
    OBVIOUS
  <2>2. /\ Runs(p) /\ v.err \notin {"ok", "panic"} /\ Set(p, ExitFiles(t, user))
        /\ state' = [state EXCEPT ![p] = "zombie"] /\ UNCHANGED <<reading, lost, halted>>
    BY <1>1, <1>3, <2>1 DEF execve_noent
  <2>3. t \in X
    BY <1>1, <1>2, <2>1, <2>2, ExecHolds
  <2>4. user \in BOOLEAN
    BY <2>1
  <2> QED BY <1>1, <2>2, <2>3, <2>4, EndStep
<1>4. CASE execve_badelf(p, path)
  <2>1. PICK t, user : t = [s EXCEPT !.I = vfs_close(v.I, v.node)] /\ user = FALSE
    OBVIOUS
  <2>2. /\ Runs(p) /\ v.err = "ok" /\ Set(p, ExitFiles(t, user))
        /\ state' = [state EXCEPT ![p] = "zombie"] /\ UNCHANGED <<reading, lost, halted>>
    BY <1>1, <1>4, <2>1 DEF execve_badelf
  <2>3. t \in X
    BY <1>1, <1>2, <2>1, <2>2, ExecHolds
  <2>4. user \in BOOLEAN
    BY <2>1
  <2> QED BY <1>1, <2>2, <2>3, <2>4, EndStep
<1> QED BY <1>3, <1>4

\* What the table of c held, is lost with it.
Losing(L, T) ==
  [n \in Nodes |-> [ref |-> L[n].ref + Refs(T, n), open |-> L[n].open + Opens(T, n)]]

\* With them the counts are what they were.
LEMMA LoseTable ==
  ASSUME TreeAssumption, NEW tb, NEW L \in LostTypes, NEW c \in All, NEW M, M = Losing(L, tb[c])
  PROVE  /\ M \in LostTypes
         /\ Adding(RestRefs(tb, M, c), NoFiles) = RefsOf(tb, L)
         /\ Adding(RestOpens(tb, M, c), NoFiles) = OpensOf(tb, L)
<1>1. PICK T : T = tb[c]
  OBVIOUS
<1>2. ASSUME NEW n \in Nodes
      PROVE  /\ Opens(T, n) \in Nat /\ L[n].ref \in Nat /\ L[n].open \in Nat /\ L[n].open <= L[n].ref
             /\ M[n] = [ref |-> L[n].ref + Refs(T, n), open |-> L[n].open + Opens(T, n)]
             /\ Refs(T, n) = Opens(T, n) + IF T.pwd = n THEN 1 ELSE 0
  <2>1. Opens(T, n) \in Nat
    BY OpensType
  <2>2. L[n].ref \in Nat /\ L[n].open \in Nat /\ L[n].open <= L[n].ref
    BY DEF LostTypes
  <2>3. M[n] = [ref |-> L[n].ref + Refs(T, n), open |-> L[n].open + Opens(T, n)]
    BY <1>1 DEF Losing
  <2>4. Refs(T, n) = Opens(T, n) + IF T.pwd = n THEN 1 ELSE 0
    BY DEF Refs, Opens
  <2> QED BY <2>1, <2>2, <2>3, <2>4
<1>3. M \in LostTypes
  <2>1. ASSUME NEW n \in Nodes PROVE M[n] \in [ref : Nat, open : Nat] /\ M[n].open <= M[n].ref
    <3>1. PICK a, b, x, i : a = L[n].ref /\ b = L[n].open /\ x = Opens(T, n) /\ i = IF T.pwd = n THEN 1 ELSE 0
      OBVIOUS
    <3>2. a \in Nat /\ b \in Nat /\ x \in Nat /\ i \in Nat /\ b <= a /\ M[n] = [ref |-> a + (x + i), open |-> b + x]
      BY <1>2, <3>1
    <3> QED BY <3>2
  <2>2. M = [n \in Nodes |-> M[n]]
    BY DEF Losing
  <2> QED BY <2>1, <2>2 DEF LostTypes
<1>4. PICK br, bo, cr, co, r, o : /\ br = RestRefs(tb, L, c) /\ bo = RestOpens(tb, L, c)
                                  /\ cr = RestRefs(tb, M, c) /\ co = RestOpens(tb, M, c)
                                  /\ r = RefsOf(tb, L) /\ o = OpensOf(tb, L)
  OBVIOUS
<1>5. br \in [Nodes -> Nat] /\ bo \in [Nodes -> Nat] /\ cr \in [Nodes -> Nat] /\ co \in [Nodes -> Nat]
  BY <1>3, <1>4, RestType
<1>6. PICK x, y, a : x = Adding(cr, NoFiles) /\ y = Adding(co, NoFiles) /\ a = At(br, T.pwd)
  OBVIOUS
<1>7. \A n : Opens(NoFiles, n) = 0
  <2>1. Opened(NoFiles) = {}
    BY NoFilesIdle, ClosedType DEF Opened
  <2>2. \A n : {k \in Opened(NoFiles) : NoFiles.fd[k].node = n} = {}
    BY <2>1
  <2> QED BY <2>2, FS_EmptySet DEF Opens
<1>8. /\ x \in [Nodes -> Nat] /\ \A n \in Nodes : x[n] = cr[n] + Opens(NoFiles, n)
      /\ y \in [Nodes -> Nat] /\ \A n \in Nodes : y[n] = co[n] + Opens(NoFiles, n)
  BY <1>5, <1>6, WithType
<1>9. a \in [Nodes -> Nat] /\ \A n \in Nodes : a[n] = br[n] + IF T.pwd = n THEN 1 ELSE 0
  BY <1>5, <1>6, AtFacts
<1>10. r = Adding(a, T) /\ o = Adding(bo, T)
  BY <1>1, <1>4, <1>6, SplitCounts
<1>11. /\ r \in [Nodes -> Nat] /\ \A n \in Nodes : r[n] = a[n] + Opens(T, n)
       /\ o \in [Nodes -> Nat] /\ \A n \in Nodes : o[n] = bo[n] + Opens(T, n)
  BY <1>5, <1>9, <1>10, WithType
<1>12. ASSUME NEW n \in Nodes PROVE x[n] = r[n] /\ y[n] = o[n]
  <2>1. PICK w, b, e, d, h, t, i : w = Own(n) /\ b = L[n].ref /\ e = Cardinality(OthersNaming(tb, c, n))
                             /\ d = Cardinality(OthersStanding(tb, c, n)) /\ h = L[n].open /\ t = Opens(T, n)
                             /\ i = IF T.pwd = n THEN 1 ELSE 0
    OBVIOUS
  <2>2. e \in Nat /\ d \in Nat /\ w \in Nat /\ b \in Nat /\ h \in Nat /\ t \in Nat /\ i \in Nat
    <3>1. e \in Nat /\ d \in Nat
      BY <2>1, OthersFinite
    <3>2. w \in Nat /\ i \in Nat
      BY <2>1 DEF Own
    <3> QED BY <1>2, <2>1, <3>1, <3>2
  <2>3. M[n].ref = b + (t + i) /\ M[n].open = h + t
    <3>1. M[n] = [ref |-> L[n].ref + Refs(T, n), open |-> L[n].open + Opens(T, n)] /\ Refs(T, n) = t + i
      BY <1>2, <2>1
    <3>2. M[n].ref = L[n].ref + Refs(T, n) /\ M[n].open = L[n].open + Opens(T, n)
      BY <3>1
    <3> QED BY <2>1, <3>1, <3>2, Zenon
  <2>4. cr[n] = w + M[n].ref + e + d /\ co[n] = M[n].open + e
    BY <1>4, <2>1 DEF RestRefs, RestOpens
  <2>5. br[n] = w + b + e + d /\ bo[n] = h + e
    BY <1>4, <2>1 DEF RestRefs, RestOpens
  <2>6. r[n] = (br[n] + i) + t /\ o[n] = bo[n] + t
    BY <1>9, <1>11, <2>1
  <2>7. x[n] = cr[n] + 0 /\ y[n] = co[n] + 0
    BY <1>7, <1>8
  <2> QED BY <2>2, <2>3, <2>4, <2>5, <2>6, <2>7
<1>13. x = r /\ y = o
  BY <1>8, <1>11, <1>12
<1> QED BY <1>3, <1>4, <1>6, <1>13

\* wait() of a zombie.
LEMMA WaitStep ==
  ASSUME TreeAssumption, FilesInv, NEW c \in Procs, do_wait(c)
  PROVE  FilesInv'
<1>1. PICK M : M = Losing(lost, tab[c])
  OBVIOUS
<1>2. /\ ~halted /\ state[c] = "zombie" /\ lost' = M /\ tab' = [tab EXCEPT ![c] = NoFiles]
      /\ state' = [state EXCEPT ![c] = "none"] /\ UNCHANGED <<ino, reading, halted>>
  BY <1>1 DEF do_wait, Losing
<1>3. c \in All /\ halted = FALSE /\ AllOK(ino, tab, state, reading, lost, FALSE)
  <2>1. halted = FALSE
    BY <1>2 DEF FilesInv, AllOK
  <2> QED BY <2>1 DEF FilesInv, All
<1>4. lost \in LostTypes /\ ProcOK(tab[c], "zombie", reading[c]) /\ Counts(ino, RefsOf(tab, lost), OpensOf(tab, lost))
  BY <1>2, <1>3 DEF AllOK
<1>5. reading[c] = -1
  BY <1>4 DEF ProcOK
<1>6. PICK r, o, x, y : /\ r = RefsOf(tab, lost) /\ o = OpensOf(tab, lost)
                        /\ x = RestRefs(tab, M, c) /\ y = RestOpens(tab, M, c)
  OBVIOUS
<1>7. M \in LostTypes /\ Adding(x, NoFiles) = r /\ Adding(y, NoFiles) = o
  BY <1>1, <1>3, <1>4, <1>6, LoseTable
<1>8. AllOK(ino, tab, state, reading, M, TRUE)
  BY <1>3, <1>7 DEF AllOK
<1>9. Shown(tab, M, c, ino, NoFiles)
  <2>1. At(x, NoFiles.pwd) = x
    <3>1. NoFiles.pwd \notin Nodes
      BY NoFilesIdle DEF TreeAssumption
    <3> QED BY <3>1 DEF At
  <2>2. Counts(ino, Adding(x, NoFiles), Adding(y, NoFiles))
    BY <1>4, <1>6, <1>7
  <2> QED BY <1>6, <2>1, <2>2 DEF Shown
<1>10. ProcOK(NoFiles, "none", -1) /\ DOMAIN ino = Nodes
  <2>1. ProcOK(NoFiles, "zombie", -1)
    BY NoFilesIdle, IdleOK
  <2>2. ProcOK(NoFiles, "none", -1)
    <3>1. PICK N : N = NoFiles
      OBVIOUS
    <3>2. ProcOK(N, "zombie", -1)
      BY <2>1, <3>1
    <3>3. /\ N \in Tables /\ -1 \in Fds \cup {-1}
          /\ \A k \in Fds : /\ N.fd[k].count = (IF N.fd[k].status = "OPENED" THEN 1 ELSE 0) + (IF -1 = k THEN 1 ELSE 0)
                            /\ N.fd[k].status = "OPENED" => N.fd[k].node \in Nodes
      BY <3>2 DEF ProcOK
    <3>4. ProcOK(N, "none", -1)
      BY <3>1, <3>3 DEF ProcOK
    <3> QED BY <3>1, <3>4
  <2> QED BY <1>4, <2>2, CountsSound
<1>11. AllOK(ino, [tab EXCEPT ![c] = NoFiles], [state EXCEPT ![c] = "none"], [reading EXCEPT ![c] = -1], M, FALSE)
  BY <1>3, <1>8, <1>9, <1>10, OneStep
<1>12. [reading EXCEPT ![c] = -1] = reading
  BY <1>3, <1>5 DEF AllOK
<1> QED BY <1>2, <1>3, <1>11, <1>12 DEF FilesInv

-----------------------------------------------------------------------------
(* The theorem *)

\* In the beginning bootfs_node and init stand for the two references to Root.
LEMMA InitInv ==
  ASSUME TreeAssumption, FilesInit
  PROVE  FilesInv
<1>1. Root \in Dirs /\ Root \in Nodes /\ Root \notin Devs /\ Init_ \in All /\ None \notin Nodes /\ Root # None
  BY DEF TreeAssumption, Nodes, Sfs, All
<1>2. PICK f, U : f = NoFiles.fd /\ U = [on |-> TRUE, pwd |-> Root, fd |-> f]
  OBVIOUS
<1>3. f \in [Fds -> FdTypes] /\ (\A k \in Fds : f[k] = Closed) /\ NoFiles \in Tables /\ Idle(NoFiles)
  <2>1. PICK N : N = NoFiles
    OBVIOUS
  <2>2. Idle(N) /\ \A k \in Fds : N.fd[k] = Closed
    BY <2>1, NoFilesIdle
  <2>3. N \in Tables
    BY <2>2 DEF Idle
  <2>4. N.fd \in [Fds -> FdTypes]
    <3> HIDE DEF FdTypes
    <3> QED BY <2>3 DEF Tables
  <2> QED BY <1>2, <2>1, <2>2, <2>3, <2>4
<1>4. U.on = TRUE /\ U.pwd = Root /\ U.fd = f
  BY <1>2
<1>5. [NoFiles EXCEPT !.on = TRUE, !.pwd = Root] = U
  <2>1. PICK a, b : a = TRUE /\ b = FALSE
    OBVIOUS
  <2>2. PICK N : N = NoFiles
    OBVIOUS
  <2>3. N = [on |-> FALSE, pwd |-> None, fd |-> f]
    BY <1>2, <2>2 DEF NoFiles
  <2>4. N = [on |-> b, pwd |-> None, fd |-> f] /\ U = [on |-> a, pwd |-> Root, fd |-> f]
    BY <1>2, <2>1, <2>2, <2>3
  <2>5. [N EXCEPT !.on = a, !.pwd = Root] = U
    <3>1. PICK M : M = [N EXCEPT !.on = a]
      OBVIOUS
    <3>2. M = [on |-> a, pwd |-> None, fd |-> f]
      BY <2>4, <3>1
    <3>3. [M EXCEPT !.pwd = Root] = U
      BY <2>4, <3>2
    <3> QED BY <3>1, <3>3
  <2> QED BY <2>1, <2>2, <2>5
<1>6. U \in Tables
  <2>1. PICK a, d : a = TRUE /\ d = Root
    OBVIOUS
  <2>2. a \in BOOLEAN /\ d \in Nodes \cup {None} /\ U = [on |-> a, pwd |-> d, fd |-> f]
    BY <1>1, <1>2, <2>1
  <2> HIDE DEF FdTypes
  <2> QED BY <1>3, <2>2, Zenon DEF Tables
<1>7. Idle(U)
  BY <1>3, <1>4, <1>6, ClosedType DEF Idle
<1>8. /\ ProcOK(U, "kern", -1)
      /\ ProcOK(NoFiles, "none", -1)
  <2>1. ProcOK(U, "kern", -1) /\ ProcOK(NoFiles, "zombie", -1)
    BY <1>1, <1>3, <1>4, <1>7, IdleOK
  <2>2. PICK N : N = NoFiles
    OBVIOUS
  <2>3. ProcOK(N, "zombie", -1)
    BY <2>1, <2>2
  <2>4. /\ N \in Tables /\ -1 \in Fds \cup {-1}
        /\ \A k \in Fds : /\ N.fd[k].count = (IF N.fd[k].status = "OPENED" THEN 1 ELSE 0) + (IF -1 = k THEN 1 ELSE 0)
                          /\ N.fd[k].status = "OPENED" => N.fd[k].node \in Nodes
    BY <2>3 DEF ProcOK
  <2>5. ProcOK(N, "none", -1)
    BY <2>2, <2>4 DEF ProcOK
  <2> QED BY <2>1, <2>2, <2>5
<1>9. PICK N : N = NoFiles
  OBVIOUS
<1>10. /\ tab = [p \in All |-> IF p = Init_ THEN U ELSE N]
       /\ state = [p \in All |-> IF p = Init_ THEN "kern" ELSE "none"]
       /\ reading = [p \in All |-> -1] /\ halted = FALSE
       /\ lost = [n \in Nodes |-> [ref |-> 0, open |-> 0]]
  BY <1>5, <1>9 DEF FilesInit
<1>11. \A p \in All : ProcOK(tab[p], state[p], reading[p])
  <2> TAKE p \in All
  <2>1. CASE p = Init_
    <3>1. tab[p] = U /\ state[p] = "kern" /\ reading[p] = -1
      BY <1>10, <2>1
    <3> QED BY <1>8, <3>1
  <2>2. CASE p # Init_
    <3>1. tab[p] = N /\ state[p] = "none" /\ reading[p] = -1
      BY <1>10, <2>2
    <3> QED BY <1>8, <1>9, <3>1
  <2> QED BY <2>1, <2>2
<1>12. /\ tab \in [All -> Tables] /\ state \in [All -> {"none", "user", "kern", "zombie"}]
       /\ reading \in [All -> Fds \cup {-1}] /\ lost \in LostTypes
  <2>1. tab \in [All -> Tables]
    BY <1>3, <1>6, <1>9, <1>10
  <2>2. state \in [All -> {"none", "user", "kern", "zombie"}] /\ reading \in [All -> Fds \cup {-1}]
    BY <1>10
  <2>3. lost \in [Nodes -> [ref : Nat, open : Nat]] /\ \A n \in Nodes : lost[n].open <= lost[n].ref
    BY <1>10
  <2> QED BY <2>1, <2>2, <2>3 DEF LostTypes
<1>13. PICK r, o : r = RefsOf(tab, lost) /\ o = OpensOf(tab, lost)
  OBVIOUS
<1>14. ASSUME NEW n \in Nodes
       PROVE  o[n] = 0 /\ r[n] = IF n = Root THEN 2 ELSE IF n \in Devs THEN 1 ELSE 0
  <2>1. NamingIn(tab, n) = {}
    <3>1. \A p \in All : \A k \in Fds : tab[p].fd[k].status = "NONE"
      <4> TAKE p \in All
      <4>1. tab[p].fd = f
        BY <1>2, <1>4, <1>9, <1>10
      <4> QED BY <1>3, <4>1, ClosedType
    <3> QED BY <3>1 DEF NamingIn
  <2>2. Cardinality(NamingIn(tab, n)) = 0
    BY <2>1, FS_EmptySet
  <2>3. \A p \in All : tab[p].pwd = IF p = Init_ THEN Root ELSE None
    BY <1>4, <1>9, <1>10, NoFilesIdle
  <2>4. lost[n].ref = 0 /\ lost[n].open = 0
    BY <1>10
  <2>5. o[n] = 0
    BY <1>13, <2>2, <2>4 DEF OpensOf
  <2>6. r[n] = Own(n) + 0 + 0 + Cardinality(StandingIn(tab, n))
    BY <1>13, <2>2, <2>4 DEF RefsOf
  <2>7. CASE n = Root
    <3>1. StandingIn(tab, n) = {Init_}
      BY <1>1, <2>3, <2>7 DEF StandingIn
    <3>2. Cardinality(StandingIn(tab, n)) = 1
      BY <3>1, FS_Singleton
    <3> QED BY <2>5, <2>6, <2>7, <3>2 DEF Own
  <2>8. CASE n # Root
    <3>1. StandingIn(tab, n) = {}
      BY <1>1, <2>3, <2>8 DEF StandingIn
    <3>2. Cardinality(StandingIn(tab, n)) = 0
      BY <3>1, FS_EmptySet
    <3> QED BY <2>5, <2>6, <2>8, <3>2 DEF Own
  <2> QED BY <2>7, <2>8
<1>15. Counts(ino, r, o)
  <2>1. r \in [Nodes -> Nat] /\ o \in [Nodes -> Nat]
    <3>1. r = [n \in Nodes |-> r[n]] /\ o = [n \in Nodes |-> o[n]]
      BY <1>13 DEF RefsOf, OpensOf
    <3> QED BY <1>14, <3>1
  <2>2. ASSUME NEW n \in Nodes
        PROVE  /\ ino[n] \in InodeTypes
               /\ ino[n].ref = r[n] /\ ino[n].open = o[n] /\ o[n] + Dev(n) <= r[n]
               /\ n \in Sfs => (ino[n].mem <=> r[n] > 0) /\ ino[n].reclaim = IF r[n] > 0 THEN 1 ELSE 0
    <3>1. ino[n] = CASE n = Root -> [ref |-> 2, open |-> 0, reclaim |-> 1, mem |-> TRUE]
                     [] n \in Devs -> [ref |-> 1, open |-> 0, reclaim |-> 0, mem |-> TRUE]
                     [] OTHER -> Unloaded
      BY DEF FilesInit
    <3>2. Sfs \cap Devs = {}
      BY DEF TreeAssumption
    <3>3. CASE n = Root
      <4>1. ino[n] = [ref |-> 2, open |-> 0, reclaim |-> 1, mem |-> TRUE]
        BY <1>1, <3>1, <3>3
      <4> QED BY <1>1, <1>14, <3>3, <4>1 DEF InodeTypes, Dev
    <3>4. CASE n # Root /\ n \in Devs
      <4>1. ino[n] = [ref |-> 1, open |-> 0, reclaim |-> 0, mem |-> TRUE]
        BY <3>1, <3>4
      <4> QED BY <1>14, <3>2, <3>4, <4>1 DEF InodeTypes, Dev
    <3>5. CASE n # Root /\ n \notin Devs
      <4>1. ino[n] = [ref |-> 0, open |-> 0, reclaim |-> 0, mem |-> FALSE]
        BY <3>1, <3>5 DEF Unloaded
      <4> QED BY <1>14, <3>5, <4>1 DEF InodeTypes, Dev
    <3> QED BY <3>3, <3>4, <3>5
  <2>3. ino \in [Nodes -> InodeTypes]
    <3>1. ino = [n \in Nodes |-> ino[n]]
      BY DEF FilesInit
    <3> QED BY <2>2, <3>1
  <2>4. \A n \in Sfs : n \in Nodes
    BY DEF Nodes
  <2> QED BY <2>1, <2>2, <2>3, <2>4 DEF Counts
<1> QED BY <1>10, <1>11, <1>12, <1>13, <1>15, CountsSound DEF FilesInv, AllOK

\* The invariant implies the property.
LEMMA InvExact ==
  ASSUME TreeAssumption, FilesInv
  PROVE  RefsExact
<1>1. /\ DOMAIN ino = Nodes /\ halted \in BOOLEAN
      /\ tab \in [All -> Tables] /\ state \in [All -> {"none", "user", "kern", "zombie"}] /\ reading \in [All -> Fds \cup {-1}]
      /\ \A p \in All : ProcOK(tab[p], state[p], reading[p])
      /\ ~halted => Counts(ino, RefsOf(tab, lost), OpensOf(tab, lost))
  BY DEF FilesInv, AllOK
<1>2. ASSUME NEW p \in All, NEW k \in Fds
      PROVE  /\ tab[p].fd[k].node \in Nodes \cup {None} /\ tab[p].fd[k].status \in {"NONE", "OPENED"}
             /\ tab[p].fd[k].count = (IF Valid(p, k) THEN 1 ELSE 0) + (IF reading[p] = k THEN 1 ELSE 0)
  <2>1. ProcOK(tab[p], state[p], reading[p])
    BY <1>1
  <2>2. PICK e : e = tab[p].fd[k]
    OBVIOUS
  <2>3. e \in FdTypes
    BY <2>1, <2>2 DEF ProcOK, Tables
  <2>4. e.node \in Nodes \cup {None} /\ e.status \in {"NONE", "OPENED"}
    BY <2>3 DEF FdTypes
  <2>5. tab[p].fd[k].count = (IF tab[p].fd[k].status = "OPENED" THEN 1 ELSE 0) + (IF reading[p] = k THEN 1 ELSE 0)
    BY <2>1 DEF ProcOK
  <2> QED BY <2>2, <2>4, <2>5 DEF Valid
<1>3. FilesTypeOK
  BY <1>1, <1>2 DEF FilesTypeOK
<1>4. ASSUME ~halted, NEW n \in Nodes
      PROVE  /\ ino[n].ref = Own(n) + lost[n].ref + Cardinality(Naming(n)) + Cardinality(Standing(n))
             /\ ino[n].open = lost[n].open + Cardinality(Naming(n))
             /\ n \in Sfs => ino[n].mem = (ino[n].ref > 0) /\ ino[n].reclaim = (IF ino[n].mem THEN 1 ELSE 0)
  <2>1. PICK r, o : r = RefsOf(tab, lost) /\ o = OpensOf(tab, lost)
    OBVIOUS
  <2>2. Counts(ino, r, o)
    BY <1>1, <1>4, <2>1
  <2>3. Naming(n) = NamingIn(tab, n) /\ Standing(n) = StandingIn(tab, n)
    BY DEF Naming, NamingIn, Standing, StandingIn, Valid
  <2>4. /\ r[n] = Own(n) + lost[n].ref + Cardinality(Naming(n)) + Cardinality(Standing(n))
        /\ o[n] = lost[n].open + Cardinality(Naming(n))
    BY <2>1, <2>3 DEF RefsOf, OpensOf
  <2>5. ino[n].ref = r[n] /\ ino[n].open = o[n] /\ ino[n] \in InodeTypes
    BY <2>2 DEF Counts
  <2>6. PICK m : m = ino[n].mem
    OBVIOUS
  <2>7. m \in BOOLEAN
    BY <2>5, <2>6 DEF InodeTypes
  <2>8. n \in Sfs => (m <=> ino[n].ref > 0) /\ ino[n].reclaim = IF ino[n].ref > 0 THEN 1 ELSE 0
    BY <2>2, <2>5, <2>6 DEF Counts
  <2>9. n \in Sfs => m = (ino[n].ref > 0) /\ ino[n].reclaim = (IF m THEN 1 ELSE 0)
    BY <2>7, <2>8
  <2> QED BY <2>4, <2>5, <2>6, <2>9
<1>5. \A p \in All : state[p] \in {"user", "kern"} => tab[p].on /\ tab[p].pwd \in Dirs
  BY <1>1 DEF ProcOK
<1> QED BY <1>2, <1>3, <1>4, <1>5 DEF RefsExact

\* Any call of p.
LEMMA StepInv ==
  ASSUME TreeAssumption, FilesInv, NEW p \in All, Step(p)
  PROVE  FilesInv'
<1>1. ASSUME NEW c \in Procs, do_fork(p, c) PROVE FilesInv'
  BY <1>1, ForkStep
<1>2. CASE do_exit(p)
  BY <1>2, ExitStep
<1>3. ASSUME NEW path \in Paths, do_execve(p, path) PROVE FilesInv'
  BY <1>3, ExecveStep
<1>4. ASSUME NEW path \in Paths, execve_noent(p, path) \/ execve_badelf(p, path) PROVE FilesInv'
  BY <1>4, ExecFailStep
<1>5. ASSUME NEW path \in Paths, execve_dir(p, path) PROVE FilesInv'
  BY <1>5, PanicStep DEF execve_dir
<1>6. ASSUME NEW path \in Paths, vfs_chdir(p, path) PROVE FilesInv'
  BY <1>6, ChdirStep
<1>7. ASSUME NEW path \in Paths, NEW fl \in Flags, file_open(p, path, fl) PROVE FilesInv'
  BY <1>7, OpenStep
<1>8. ASSUME NEW k \in Fds, file_close(p, k) PROVE FilesInv'
  BY <1>8, CloseStep
<1>9. ASSUME NEW k \in Fds, file_read_sleep(p, k) PROVE FilesInv'
  BY <1>9, ReadSleepStep
<1>10. ASSUME NEW k \in Fds, file_op_missing(p, k) PROVE FilesInv'
  BY <1>10, PanicStep DEF file_op_missing
<1>11. ASSUME NEW k \in Fds, NEW k2 \in Fds, file_dup(p, k, k2) PROVE FilesInv'
  BY <1>11, DupStep
<1>12. CASE file_read_done(p)
  BY <1>12, ReadDoneStep
<1>13. CASE vfs_getcwd(p)
  BY <1>13, GetcwdStep
<1> QED BY <1>1, <1>2, <1>3, <1>4, <1>5, <1>6, <1>7, <1>8, <1>9, <1>10, <1>11, <1>12, <1>13 DEF Step

\* RefsExact for every tree, every set of processes and every table size:
\* after any calls, ref_count and open_count say exactly who names an inode.
THEOREM RefsAlwaysExact ==
  ASSUME TreeAssumption
  PROVE  FilesSpec => []RefsExact
<1>1. FilesInit => FilesInv
  BY InitInv
<1>2. FilesInv /\ [FilesNext]_open_files => FilesInv'
  <2> SUFFICES ASSUME FilesInv, [FilesNext]_open_files PROVE FilesInv'
    OBVIOUS
  <2>1. CASE UNCHANGED open_files
    BY <2>1 DEF open_files, FilesInv
  <2>2. ASSUME NEW p \in All, Step(p) PROVE FilesInv'
    BY <2>2, StepInv
  <2>3. ASSUME NEW c \in Procs, do_wait(c) PROVE FilesInv'
    BY <2>3, WaitStep
  <2> QED BY <2>1, <2>2, <2>3 DEF FilesNext
<1>3. FilesInv => RefsExact
  BY InvExact
<1> QED BY <1>1, <1>2, <1>3, PTL DEF FilesSpec
=============================================================================
