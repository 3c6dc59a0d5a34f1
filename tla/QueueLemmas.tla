----------------------------- MODULE QueueLemmas -----------------------------
(***************************************************************************)
(* Facts about the queues of the kernel as sequences without duplicates,   *)
(* and about what down() and up() of sem.c do to a family of semaphores.   *)
(***************************************************************************)
EXTENDS Integers, Sequences, Functions, SequenceTheorems, WellFoundedInduction, TLAPS

\* list_add_before at the head of a list adds an entry at its tail: RR_enqueue,
\* wait_queue_add.
LEMMA AppendFacts ==
  ASSUME NEW S, NEW q \in Seq(S), NEW x \in S
  PROVE  /\ Append(q, x) \in Seq(S)
         /\ Append(q, x) # <<>>
         /\ Range(Append(q, x)) = Range(q) \cup {x}
         /\ IsInjective(q) /\ x \notin Range(q) => IsInjective(Append(q, x))
<1>1. /\ Append(q, x) \in Seq(S) /\ Append(q, x) # <<>>
      /\ Len(q) \in Nat /\ DOMAIN q = 1..Len(q)
      /\ DOMAIN Append(q, x) = 1..(Len(q) + 1)
      /\ \A i \in 1..Len(q) : Append(q, x)[i] = q[i]
      /\ Append(q, x)[Len(q) + 1] = x
  OBVIOUS
<1>2. Range(Append(q, x)) = Range(q) \cup {x}
  <2>1. ASSUME NEW y \in Range(q) \cup {x} PROVE y \in Range(Append(q, x))
    BY <1>1, <2>1, SMT DEF Range
  <2>2. ASSUME NEW y \in Range(Append(q, x)) PROVE y \in Range(q) \cup {x}
    BY <1>1, <2>2, SMT DEF Range
  <2> QED BY <2>1, <2>2
<1>3. ASSUME IsInjective(q), x \notin Range(q) PROVE IsInjective(Append(q, x))
  BY <1>1, <1>3, SMT DEF Range, IsInjective
<1> QED BY <1>1, <1>2, <1>3

\* The entry at the head is taken off: RR_pick_next and RR_dequeue, up().
LEMMA TailFacts ==
  ASSUME NEW S, NEW q \in Seq(S), q # <<>>
  PROVE  /\ Head(q) \in S
         /\ Head(q) \in Range(q)
         /\ Tail(q) \in Seq(S)
         /\ IsInjective(q) => /\ IsInjective(Tail(q))
                              /\ Range(Tail(q)) = Range(q) \ {Head(q)}
<1>1. /\ Head(q) \in S /\ Tail(q) \in Seq(S)
      /\ Len(q) \in Nat \ {0} /\ DOMAIN q = 1..Len(q)
      /\ DOMAIN Tail(q) = 1..(Len(q) - 1)
      /\ \A i \in 1..(Len(q) - 1) : Tail(q)[i] = q[i + 1]
      /\ Head(q) = q[1]
  BY HeadTailProperties, LenProperties, EmptySeq, SMT
<1>2. Head(q) \in Range(q)
  BY <1>1, SMT DEF Range
<1>3. ASSUME IsInjective(q)
      PROVE  IsInjective(Tail(q)) /\ Range(Tail(q)) = Range(q) \ {Head(q)}
  <2>1. IsInjective(Tail(q))
    BY <1>1, <1>3, SMT DEF IsInjective
  <2>2. ASSUME NEW y \in Range(Tail(q)) PROVE y \in Range(q) \ {Head(q)}
    BY <1>1, <1>3, <2>2, SMT DEF Range, IsInjective
  <2>3. ASSUME NEW y \in Range(q) \ {Head(q)} PROVE y \in Range(Tail(q))
    <3>1. PICK i \in 1..Len(q) : q[i] = y
      BY <1>1, <2>3 DEF Range
    <3>2. i - 1 \in 1..(Len(q) - 1) /\ Tail(q)[i - 1] = y
      BY <1>1, <2>3, <3>1, SMT
    <3> QED BY <1>1, <3>2 DEF Range
  <2> QED BY <2>1, <2>2, <2>3
<1> QED BY <1>1, <1>2, <1>3

\* A sequence without its k-th entry.
Without(q, k, r) ==
  /\ DOMAIN r = 1 .. (Len(q) - 1)
  /\ \A i \in 1 .. (Len(q) - 1) : r[i] = (IF i < k THEN q[i] ELSE q[i + 1])

LEMMA WithoutFacts ==
  ASSUME NEW S, NEW q \in Seq(S), IsInjective(q), NEW k \in 1 .. Len(q), NEW r, Without(q, k, r)
  PROVE  IsInjective(r) /\ Range(r) = Range(q) \ {q[k]}
<1>1. /\ Len(q) \in Nat /\ DOMAIN q = 1 .. Len(q) /\ DOMAIN r = 1 .. (Len(q) - 1)
      /\ \A i \in 1 .. (Len(q) - 1) : r[i] = (IF i < k THEN q[i] ELSE q[i + 1])
  BY DEF Without
<1>2. \A i, j \in 1 .. Len(q) : q[i] = q[j] => i = j
  BY <1>1 DEF IsInjective
<1>3. IsInjective(r)
  <2> SUFFICES ASSUME NEW i \in 1 .. (Len(q) - 1), NEW j \in 1 .. (Len(q) - 1), r[i] = r[j]
               PROVE  i = j
    BY <1>1 DEF IsInjective
  <2>1. i \in 1 .. Len(q) /\ i + 1 \in 1 .. Len(q) /\ j \in 1 .. Len(q) /\ j + 1 \in 1 .. Len(q)
    BY <1>1
  <2> QED BY <1>1, <1>2, <2>1
<1>4. ASSUME NEW y \in Range(r) PROVE y \in Range(q) \ {q[k]}
  <2>1. PICK i \in 1 .. (Len(q) - 1) : y = r[i]
    BY <1>1, <1>4 DEF Range
  <2>2. PICK j \in 1 .. Len(q) : y = q[j] /\ j # k
    <3>1. CASE i < k
      BY <1>1, <2>1, <3>1
    <3>2. CASE ~(i < k)
      <4>1. i + 1 \in 1 .. Len(q) /\ i + 1 # k
        BY <1>1, <3>2
      <4> QED BY <1>1, <2>1, <3>2, <4>1
    <3> QED BY <3>1, <3>2
  <2> QED BY <1>1, <1>2, <2>2 DEF Range
<1>5. ASSUME NEW y \in Range(q) \ {q[k]} PROVE y \in Range(r)
  <2>1. PICK i \in 1 .. Len(q) : q[i] = y
    BY <1>1, <1>5 DEF Range
  <2>2. i # k
    BY <1>5, <2>1
  <2>3. CASE i < k
    <3>1. i \in 1 .. (Len(q) - 1) /\ r[i] = y
      BY <1>1, <2>1, <2>3
    <3> QED BY <1>1, <3>1 DEF Range
  <2>4. CASE i > k
    <3>1. i - 1 \in 1 .. (Len(q) - 1) /\ ~(i - 1 < k) /\ (i - 1) + 1 = i
      BY <1>1, <2>1, <2>4
    <3>2. r[i - 1] = y
      BY <1>1, <2>1, <3>1
    <3> QED BY <1>1, <3>1, <3>2 DEF Range
  <2> QED BY <2>2, <2>3, <2>4
<1> QED BY <1>3, <1>4, <1>5

\* The two parts of a list before and from its k-th place on.
LEMMA PartFacts ==
  ASSUME NEW S, NEW q \in Seq(S), NEW k \in 1 .. (Len(q) + 1)
  PROVE  /\ Len(q) \in Nat
         /\ SubSeq(q, 1, k - 1) \in Seq(S) /\ Len(SubSeq(q, 1, k - 1)) = k - 1
         /\ \A i \in 1 .. (k - 1) : SubSeq(q, 1, k - 1)[i] = q[i]
         /\ SubSeq(q, k, Len(q)) \in Seq(S) /\ Len(SubSeq(q, k, Len(q))) = Len(q) - k + 1
         /\ \A i \in 1 .. (Len(q) - k + 1) : SubSeq(q, k, Len(q))[i] = q[k + i - 1]
<1>1. Len(q) \in Nat /\ DOMAIN q = 1 .. Len(q) /\ \A i \in 1 .. Len(q) : q[i] \in S
  OBVIOUS
<1>2. PICK n \in Nat : n = Len(q)
  BY <1>1
<1>3. PICK h \in Int : h = k - 1
  BY <1>1
<1>4. /\ \A i \in 1 .. h : q[i] \in S
      /\ \A i \in k .. n : q[i] \in S
  BY <1>1, <1>2, <1>3
<1>5. /\ SubSeq(q, 1, h) \in Seq(S)
      /\ Len(SubSeq(q, 1, h)) = (IF 1 <= h THEN h - 1 + 1 ELSE 0)
      /\ \A i \in 1 .. (h - 1 + 1) : SubSeq(q, 1, h)[i] = q[1 + i - 1]
  BY <1>4, SubSeqProperties
<1>6. /\ SubSeq(q, k, n) \in Seq(S)
      /\ Len(SubSeq(q, k, n)) = (IF k <= n THEN n - k + 1 ELSE 0)
      /\ \A i \in 1 .. (n - k + 1) : SubSeq(q, k, n)[i] = q[k + i - 1]
  <2>1. k \in Int /\ n \in Int
    BY <1>1
  <2> QED BY <1>4, <2>1, SubSeqProperties
<1>7. Len(SubSeq(q, 1, h)) = h
  BY <1>1, <1>3, <1>5
<1>8. ASSUME NEW i \in 1 .. h PROVE SubSeq(q, 1, h)[i] = q[i]
  <2>1. i \in 1 .. (h - 1 + 1) /\ 1 + i - 1 = i
    OBVIOUS
  <2> QED BY <1>5, <2>1
<1>9. Len(SubSeq(q, k, n)) = n - k + 1
  BY <1>1, <1>2, <1>6
<1>10. /\ SubSeq(q, 1, h) \in Seq(S) /\ Len(SubSeq(q, 1, h)) = h
       /\ \A i \in 1 .. h : SubSeq(q, 1, h)[i] = q[i]
       /\ SubSeq(q, k, n) \in Seq(S) /\ Len(SubSeq(q, k, n)) = n - k + 1
       /\ \A i \in 1 .. (n - k + 1) : SubSeq(q, k, n)[i] = q[k + i - 1]
  BY <1>5, <1>6, <1>7, <1>8, <1>9
<1> QED BY <1>1, <1>2, <1>3, <1>10, Zenon

\* An entry is taken out of the middle: list_del, wait_queue_del.
LEMMA RemoveIs ==
  ASSUME NEW S, NEW q \in Seq(S), NEW k \in 1 .. Len(q)
  PROVE  LET r == SubSeq(q, 1, k - 1) \o SubSeq(q, k + 1, Len(q))
         IN  r \in Seq(S) /\ Without(q, k, r)
<1> DEFINE a == SubSeq(q, 1, k - 1)
           b == SubSeq(q, k + 1, Len(q))
           r == a \o b
<1>1. Len(q) \in Nat
  OBVIOUS
<1>2. a \in Seq(S) /\ Len(a) = k - 1 /\ \A i \in 1 .. (k - 1) : a[i] = q[i]
  <2>1. k \in 1 .. (Len(q) + 1)
    BY <1>1
  <2> QED BY <2>1, PartFacts
<1>3. b \in Seq(S) /\ Len(b) = Len(q) - k /\ \A i \in 1 .. (Len(q) - k) : b[i] = q[i + k]
  <2>1. PICK m \in 1 .. (Len(q) + 1) : m = k + 1
    BY <1>1
  <2>2. /\ SubSeq(q, m, Len(q)) \in Seq(S) /\ Len(SubSeq(q, m, Len(q))) = Len(q) - m + 1
        /\ \A i \in 1 .. (Len(q) - m + 1) : SubSeq(q, m, Len(q))[i] = q[m + i - 1]
    BY PartFacts
  <2>3. b = SubSeq(q, m, Len(q)) /\ Len(q) - m + 1 = Len(q) - k
    BY <1>1, <2>1
  <2> HIDE DEF a, b
  <2>4. ASSUME NEW i \in 1 .. (Len(q) - k) PROVE b[i] = q[i + k]
    <3>1. m + i - 1 = i + k /\ i \in 1 .. (Len(q) - m + 1)
      BY <1>1, <2>1
    <3> QED BY <2>2, <2>3, <3>1
  <2> QED BY <2>2, <2>3, <2>4
<1>4. /\ r \in Seq(S) /\ Len(r) = Len(a) + Len(b)
      /\ \A i \in 1 .. (Len(a) + Len(b)) : r[i] = (IF i <= Len(a) THEN a[i] ELSE b[i - Len(a)])
  <2>1. a \in Seq(S) /\ b \in Seq(S)
    BY <1>2, <1>3
  <2> HIDE DEF a, b
  <2> QED BY <2>1, ConcatProperties
<1> HIDE DEF a, b, r
<1>5. Without(q, k, r)
  <2>1. Len(a) + Len(b) = Len(q) - 1
    BY <1>1, <1>2, <1>3
  <2>2. DOMAIN r = 1 .. (Len(q) - 1)
    BY <1>4, <2>1
  <2>3. ASSUME NEW i \in 1 .. (Len(q) - 1) PROVE r[i] = (IF i < k THEN q[i] ELSE q[i + 1])
    <3>1. CASE i < k
      <4>1. i \in 1 .. (k - 1) /\ i <= Len(a)
        BY <1>1, <1>2, <3>1
      <4> QED BY <1>2, <1>4, <2>1, <3>1, <4>1
    <3>2. CASE ~(i < k)
      <4>1. i - (k - 1) \in 1 .. (Len(q) - k) /\ ~(i <= Len(a)) /\ (i - (k - 1)) + k = i + 1
        BY <1>1, <1>2, <3>2
      <4> QED BY <1>2, <1>3, <1>4, <2>1, <3>2, <4>1
    <3> QED BY <3>1, <3>2
  <2> QED BY <2>2, <2>3 DEF Without
<1> QED BY <1>4, <1>5 DEF a, b, r

LEMMA RemoveFacts ==
  ASSUME NEW S, NEW q \in Seq(S), IsInjective(q), NEW k \in 1 .. Len(q)
  PROVE  LET r == SubSeq(q, 1, k - 1) \o SubSeq(q, k + 1, Len(q))
         IN  r \in Seq(S) /\ IsInjective(r) /\ Range(r) = Range(q) \ {q[k]}
BY RemoveIs, WithoutFacts

\* A sequence with x as a new k-th entry.
With(q, k, x, r) ==
  /\ DOMAIN r = 1 .. (Len(q) + 1)
  /\ \A i \in 1 .. (Len(q) + 1) : r[i] = (IF i < k THEN q[i] ELSE IF i = k THEN x ELSE q[i - 1])

\* An entry is put before the k-th one: list_add_before.
LEMMA InsertIs ==
  ASSUME NEW S, NEW q \in Seq(S), NEW k \in 1 .. (Len(q) + 1), NEW x \in S
  PROVE  LET r == SubSeq(q, 1, k - 1) \o <<x>> \o SubSeq(q, k, Len(q))
         IN  r \in Seq(S) /\ With(q, k, x, r)
<1> DEFINE a == SubSeq(q, 1, k - 1)
           c == a \o <<x>>
           b == SubSeq(q, k, Len(q))
           r == c \o b
<1>1. /\ Len(q) \in Nat
      /\ a \in Seq(S) /\ Len(a) = k - 1 /\ \A i \in 1 .. (k - 1) : a[i] = q[i]
      /\ b \in Seq(S) /\ Len(b) = Len(q) - k + 1 /\ \A i \in 1 .. (Len(q) - k + 1) : b[i] = q[k + i - 1]
  BY PartFacts
<1> HIDE DEF a, b
<1>2. <<x>> \in Seq(S) /\ Len(<<x>>) = 1 /\ <<x>>[1] = x
  OBVIOUS
<1>3. /\ c \in Seq(S) /\ Len(c) = Len(a) + 1
      /\ \A i \in 1 .. (Len(a) + 1) : c[i] = (IF i <= Len(a) THEN a[i] ELSE <<x>>[i - Len(a)])
  <2>1. /\ c \in Seq(S) /\ Len(c) = Len(a) + Len(<<x>>)
        /\ \A i \in 1 .. (Len(a) + Len(<<x>>)) : c[i] = (IF i <= Len(a) THEN a[i] ELSE <<x>>[i - Len(a)])
    BY <1>1, <1>2, ConcatProperties
  <2> QED BY <1>2, <2>1
<1>4. Len(c) = k /\ \A i \in 1 .. k : c[i] = (IF i < k THEN q[i] ELSE x)
  <2>1. Len(c) = k
    BY <1>1, <1>3
  <2>2. ASSUME NEW i \in 1 .. k PROVE c[i] = (IF i < k THEN q[i] ELSE x)
    <3>1. CASE i < k
      <4>1. i \in 1 .. (Len(a) + 1) /\ i <= Len(a) /\ i \in 1 .. (k - 1)
        BY <1>1, <3>1
      <4> QED BY <1>1, <1>3, <3>1, <4>1
    <3>2. CASE i = k
      <4>1. i \in 1 .. (Len(a) + 1) /\ ~(i <= Len(a)) /\ i - Len(a) = 1
        BY <1>1, <3>2
      <4> QED BY <1>2, <1>3, <3>2, <4>1
    <3>3. i < k \/ i = k
      BY <1>1
    <3> QED BY <3>1, <3>2, <3>3
  <2> QED BY <2>1, <2>2
<1> HIDE DEF c
<1>5. /\ r \in Seq(S) /\ Len(r) = Len(c) + Len(b)
      /\ \A i \in 1 .. (Len(c) + Len(b)) : r[i] = (IF i <= Len(c) THEN c[i] ELSE b[i - Len(c)])
  BY <1>1, <1>3, ConcatProperties
<1> HIDE DEF r
<1>6. With(q, k, x, r)
  <2>1. Len(c) + Len(b) = Len(q) + 1
    BY <1>1, <1>4
  <2>2. DOMAIN r = 1 .. (Len(q) + 1)
    BY <1>5, <2>1
  <2>3. ASSUME NEW i \in 1 .. (Len(q) + 1)
        PROVE  r[i] = (IF i < k THEN q[i] ELSE IF i = k THEN x ELSE q[i - 1])
    <3>1. CASE i <= k
      <4>1. i \in 1 .. k /\ i <= Len(c) /\ (i < k \/ i = k)
        BY <1>1, <1>4, <3>1
      <4>2. r[i] = c[i]
        BY <1>5, <2>1, <4>1
      <4>3. c[i] = (IF i < k THEN q[i] ELSE x)
        BY <1>4, <4>1
      <4> QED BY <4>1, <4>2, <4>3, Zenon
    <3>2. CASE ~(i <= k)
      <4>1. /\ i - k \in 1 .. (Len(q) - k + 1) /\ ~(i <= Len(c)) /\ k + (i - k) - 1 = i - 1
            /\ i - Len(c) = i - k /\ ~(i < k) /\ i # k
        BY <1>1, <1>4, <3>2
      <4>2. b[i - k] = q[i - 1]
        BY <1>1, <4>1
      <4> QED BY <1>5, <2>1, <4>1, <4>2
    <3> QED BY <3>1, <3>2
  <2> QED BY <2>2, <2>3 DEF With
<1> QED BY <1>5, <1>6 DEF a, b, c, r

LEMMA WithFacts ==
  ASSUME NEW S, NEW q \in Seq(S), NEW k \in 1 .. (Len(q) + 1), NEW x, NEW r, With(q, k, x, r)
  PROVE  /\ Range(r) = Range(q) \cup {x}
         /\ IsInjective(q) /\ x \notin Range(q) => IsInjective(r)
<1>1. /\ Len(q) \in Nat /\ DOMAIN q = 1 .. Len(q) /\ DOMAIN r = 1 .. (Len(q) + 1)
      /\ \A i \in 1 .. (Len(q) + 1) : r[i] = (IF i < k THEN q[i] ELSE IF i = k THEN x ELSE q[i - 1])
  BY DEF With
<1>2. ASSUME NEW y \in Range(r) PROVE y \in Range(q) \cup {x}
  <2>1. PICK i \in 1 .. (Len(q) + 1) : y = r[i]
    BY <1>1, <1>2 DEF Range
  <2>2. (i < k => i \in 1 .. Len(q)) /\ (i > k => i - 1 \in 1 .. Len(q)) /\ (i < k \/ i = k \/ i > k)
    BY <1>1
  <2>3. y = x \/ \E j \in 1 .. Len(q) : y = q[j]
    BY <1>1, <2>1, <2>2
  <2> QED BY <1>1, <2>3 DEF Range
<1>3. ASSUME NEW y \in Range(q) PROVE y \in Range(r)
  <2>1. PICK i \in 1 .. Len(q) : y = q[i]
    BY <1>1, <1>3 DEF Range
  <2>2. CASE i < k
    <3>1. i \in 1 .. (Len(q) + 1) /\ r[i] = y
      BY <1>1, <2>1, <2>2
    <3> QED BY <1>1, <3>1 DEF Range
  <2>3. CASE ~(i < k)
    <3>1. i + 1 \in 1 .. (Len(q) + 1) /\ ~(i + 1 < k) /\ i + 1 # k /\ (i + 1) - 1 = i
      BY <1>1, <2>3
    <3>2. r[i + 1] = y
      BY <1>1, <2>1, <3>1
    <3> QED BY <1>1, <3>1, <3>2 DEF Range
  <2> QED BY <2>2, <2>3
<1>4. x \in Range(r)
  <2>1. k \in 1 .. (Len(q) + 1) /\ r[k] = x
    BY <1>1
  <2> QED BY <1>1, <2>1 DEF Range
<1>5. ASSUME IsInjective(q), x \notin Range(q) PROVE IsInjective(r)
  <2>1. /\ \A i, j \in 1 .. Len(q) : q[i] = q[j] => i = j
        /\ \A i \in 1 .. Len(q) : q[i] # x
    BY <1>1, <1>5 DEF IsInjective, Range
  <2> SUFFICES ASSUME NEW i \in 1 .. (Len(q) + 1), NEW j \in 1 .. (Len(q) + 1), r[i] = r[j]
               PROVE  i = j
    BY <1>1 DEF IsInjective
  <2>2. /\ i < k => i \in 1 .. Len(q) /\ r[i] = q[i]
        /\ i = k => r[i] = x
        /\ i > k => i - 1 \in 1 .. Len(q) /\ r[i] = q[i - 1]
    BY <1>1
  <2>3. /\ j < k => j \in 1 .. Len(q) /\ r[j] = q[j]
        /\ j = k => r[j] = x
        /\ j > k => j - 1 \in 1 .. Len(q) /\ r[j] = q[j - 1]
    BY <1>1
  <2>4. i < k \/ i = k \/ i > k
    BY <1>1
  <2>5. j < k \/ j = k \/ j > k
    BY <1>1
  <2> QED BY <2>1, <2>2, <2>3, <2>4, <2>5
<1> QED BY <1>2, <1>3, <1>4, <1>5

-----------------------------------------------------------------------------
(* Loops *)

\* A non-empty set of naturals has a least element.
LEMMA LeastExists ==
  ASSUME NEW T, T \subseteq Nat, T # {}
  PROVE  \E n \in T : \A k \in T : n <= k
<1>1. PICK n \in T : \A k \in T : <<k, n>> \notin OpToRel(<, Nat)
  BY WFMin, NatLessThanWellFounded
<1>2. \A k \in T : ~(k < n)
  BY <1>1 DEF OpToRel
<1> QED BY <1>2

\* What holds before a loop and after each of its n turns if it held before the
\* turn: S is the set of turns after which it holds.
LEMMA LoopInduction ==
  ASSUME NEW n \in Nat, NEW S, 0 \in S, \A k \in 1 .. n : k - 1 \in S => k \in S
  PROVE  0 .. n \subseteq S
<1> SUFFICES ASSUME NEW m \in 0 .. n, m \notin S PROVE FALSE
  OBVIOUS
<1> DEFINE B == {k \in 0 .. n : k \notin S}
<1>1. PICK k \in B : \A j \in B : k <= j
  <2>1. B \subseteq Nat /\ B # {}
    OBVIOUS
  <2> HIDE DEF B
  <2> QED BY <2>1, LeastExists
<1>2. k \in 1 .. n /\ k \notin S
  BY <1>1
<1>3. k - 1 \in 0 .. n /\ k - 1 \notin B
  BY <1>1, <1>2
<1> QED BY <1>2, <1>3

\* The states of a loop that starts with x and whose k-th turn is G[k].
IsLoop(f, n, x, G) == f = [k \in 0 .. n |-> IF k = 0 THEN x ELSE G[k][f[k - 1]]]

LEMMA LoopRuns ==
  ASSUME NEW n \in Nat, NEW X, NEW x \in X, NEW G \in [1 .. n -> [X -> X]]
  PROVE  \E f \in [0 .. n -> X] : IsLoop(f, n, x, G)
<1> DEFINE S == {m \in Nat : m <= n => \E f \in [0 .. m -> X] : IsLoop(f, m, x, G)}
<1>1. 0 \in S
  <2> DEFINE f == [k \in 0 .. 0 |-> x]
  <2>1. f \in [0 .. 0 -> X] /\ IsLoop(f, 0, x, G)
    BY DEF IsLoop
  <2> QED BY <2>1
<1>2. ASSUME NEW m \in 1 .. n, m - 1 \in S PROVE m \in S
  <2>1. PICK f \in [0 .. (m - 1) -> X] : IsLoop(f, m - 1, x, G)
    BY <1>2
  <2> DEFINE g == [k \in 0 .. m |-> IF k = m THEN G[m][f[m - 1]] ELSE f[k]]
  <2>2. m - 1 \in 0 .. (m - 1) /\ f[m - 1] \in X /\ G[m] \in [X -> X] /\ G[m][f[m - 1]] \in X
    OBVIOUS
  <2>3. g \in [0 .. m -> X]
    BY <2>2
  <2>4. \A k \in 0 .. (m - 1) : f[k] = IF k = 0 THEN x ELSE G[k][f[k - 1]]
    BY <2>1 DEF IsLoop
  <2>5. ASSUME NEW k \in 0 .. m PROVE g[k] = IF k = 0 THEN x ELSE G[k][g[k - 1]]
    <3>1. CASE k = m
      BY <3>1
    <3>2. CASE k # m
      <4>1. k \in 0 .. (m - 1) /\ g[k] = f[k] /\ (k # 0 => k - 1 \in 0 .. m /\ k - 1 # m /\ g[k - 1] = f[k - 1])
        BY <3>2
      <4> QED BY <4>1, <2>4
    <3> QED BY <3>1, <3>2
  <2>6. IsLoop(g, m, x, G)
    BY <2>5 DEF IsLoop
  <2> QED BY <2>3, <2>6
<1>3. n \in S
  <2> HIDE DEF S
  <2>1. 0 .. n \subseteq S
    BY <1>1, <1>2, LoopInduction
  <2> QED BY <2>1
<1> QED BY <1>3

-----------------------------------------------------------------------------
(* Semaphores *)

\* SemTypeOK and SemOK of Sem, for values v and queues q: nobody waits for a
\* semaphore that could be had, and nobody waits twice.
QueuesOK(Sems, Threads, v, q) ==
  /\ v \in [Sems -> Nat] /\ q \in [Sems -> Seq(Threads)]
  /\ \A s \in Sems : v[s] > 0 => q[s] = <<>>
  /\ \A s \in Sems : IsInjective(q[s])
  /\ \A s, r \in Sems : s # r => Range(q[s]) \cap Range(q[r]) = {}

\* down() by t and up() on s, from v and q to v2 and q2.
Down(v, q, v2, q2, t, s) ==
  IF v[s] > 0 THEN v2 = [v EXCEPT ![s] = @ - 1] /\ q2 = q
  ELSE q2 = [q EXCEPT ![s] = Append(@, t)] /\ v2 = v
Up(v, q, v2, q2, s) ==
  /\ v2 = IF q[s] = <<>> THEN [v EXCEPT ![s] = @ + 1] ELSE v
  /\ q2 = IF q[s] = <<>> THEN q ELSE [q EXCEPT ![s] = Tail(@)]

\* What down() leaves: one less, or one waiter more.
AfterDown(Sems, v, q, v2, q2, t, s) ==
  /\ \A r \in Sems : r # s => v2[r] = v[r] /\ Range(q2[r]) = Range(q[r])
  /\ IF v[s] > 0
     THEN v2[s] = v[s] - 1 /\ Range(q[s]) = {} /\ Range(q2[s]) = {}
     ELSE v2[s] = v[s] /\ Range(q2[s]) = Range(q[s]) \cup {t}

LEMMA DownFacts ==
  ASSUME NEW Sems, NEW Threads, NEW v, NEW q, NEW v2, NEW q2, QueuesOK(Sems, Threads, v, q),
         NEW t \in Threads, NEW s \in Sems, \A r \in Sems : t \notin Range(q[r]),
         Down(v, q, v2, q2, t, s)
  PROVE  QueuesOK(Sems, Threads, v2, q2) /\ AfterDown(Sems, v, q, v2, q2, t, s)
<1>0. Range(<<>>) = {} /\ v \in [Sems -> Nat] /\ q \in [Sems -> Seq(Threads)]
  BY DEF Range, QueuesOK
<1>1. CASE v[s] > 0
  <2>1. v2 = [v EXCEPT ![s] = @ - 1] /\ q2 = q /\ v[s] - 1 \in Nat
    BY <1>0, <1>1 DEF Down
  <2> QED BY <1>0, <1>1, <2>1 DEF QueuesOK, AfterDown
<1>2. CASE ~(v[s] > 0)
  <2> DEFINE w == Append(q[s], t)
  <2>1. v2 = v /\ q2 = [q EXCEPT ![s] = w]
    BY <1>2 DEF Down
  <2>2. w \in Seq(Threads) /\ Range(w) = Range(q[s]) \cup {t} /\ IsInjective(w)
    BY <1>0, AppendFacts DEF QueuesOK
  <2>3. /\ q2[s] = w /\ \A r \in Sems : r # s => q2[r] = q[r]
        /\ q2 \in [Sems -> Seq(Threads)]
    BY <1>0, <2>1, <2>2
  <2> HIDE DEF w
  <2>4. QueuesOK(Sems, Threads, v2, q2)
    BY <1>0, <1>2, <2>1, <2>2, <2>3 DEF QueuesOK
  <2> QED BY <1>2, <2>1, <2>2, <2>3, <2>4 DEF AfterDown
<1> QED BY <1>1, <1>2

\* What up() leaves: one more, or one waiter less.
AfterUp(Sems, v, q, v2, q2, s) ==
  /\ \A r \in Sems : r # s => v2[r] = v[r] /\ Range(q2[r]) = Range(q[r])
  /\ \/ Range(q[s]) = {} /\ Range(q2[s]) = {} /\ v2[s] = v[s] + 1
     \/ /\ v[s] = 0 /\ v2[s] = 0
        /\ \E t \in Range(q[s]) : Range(q2[s]) = Range(q[s]) \ {t}

LEMMA UpFacts ==
  ASSUME NEW Sems, NEW Threads, NEW v, NEW q, NEW v2, NEW q2, QueuesOK(Sems, Threads, v, q),
         NEW s \in Sems, Up(v, q, v2, q2, s)
  PROVE  QueuesOK(Sems, Threads, v2, q2) /\ AfterUp(Sems, v, q, v2, q2, s)
<1>0. Range(<<>>) = {} /\ v \in [Sems -> Nat] /\ q \in [Sems -> Seq(Threads)]
  BY DEF Range, QueuesOK
<1>1. CASE q[s] = <<>>
  <2>1. v2 = [v EXCEPT ![s] = @ + 1] /\ q2 = q
    BY <1>1 DEF Up
  <2>2. v2 \in [Sems -> Nat] /\ v2[s] = v[s] + 1 /\ \A r \in Sems : r # s => v2[r] = v[r]
    BY <1>0, <2>1
  <2> QED BY <1>0, <1>1, <2>1, <2>2 DEF QueuesOK, AfterUp
<1>2. CASE q[s] # <<>>
  <2> DEFINE w == Tail(q[s])
             t == Head(q[s])
  <2>1. v2 = v /\ q2 = [q EXCEPT ![s] = w]
    BY <1>2 DEF Up
  <2>2. w \in Seq(Threads) /\ Range(w) = Range(q[s]) \ {t} /\ IsInjective(w) /\ t \in Range(q[s])
    BY <1>0, <1>2, TailFacts DEF QueuesOK
  <2>3. /\ q2[s] = w /\ \A r \in Sems : r # s => q2[r] = q[r]
        /\ q2 \in [Sems -> Seq(Threads)]
    BY <1>0, <2>1, <2>2
  <2> HIDE DEF w, t
  <2>4. v[s] = 0
    BY <1>0, <1>2 DEF QueuesOK
  <2>5. QueuesOK(Sems, Threads, v2, q2)
    BY <1>0, <1>2, <2>1, <2>2, <2>3, <2>4 DEF QueuesOK
  <2> QED BY <2>1, <2>2, <2>3, <2>4, <2>5 DEF AfterUp
<1> QED BY <1>1, <1>2
=============================================================================
