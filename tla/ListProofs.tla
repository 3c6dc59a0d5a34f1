----------------------------- MODULE ListProofs -----------------------------
(***************************************************************************)
(* TreeExact of ProcTree, and that the pointers implement Family, for any  *)
(* set of proc_structs.  The inductive invariant says of every process,    *)
(* not only of those that run, that its children are one list along cptr   *)
(* and optr, and that yptr leads back, except from the first child of the  *)
(* process in do_exit's loop; that a parent is alive or in that loop; and  *)
(* that no set of processes is closed under parent.                        *)
(*                                                                         *)
(* And that the list of tick differences of TimerList implements Timers    *)
(* for any number of sleepers.  The inductive invariant says that a linked *)
(* timer is a sleeper's, that no entry is further away than MaxSleep, and  *)
(* that the head is not due outside the interrupt.                         *)
(***************************************************************************)
EXTENDS ProcTree, TimerList, QueueLemmas, FiniteSetTheorems

-----------------------------------------------------------------------------
(* Lists of children *)

\* s is the list of the processes of kids from the pointer x on, along op;
\* yp leads back.  The first one's yp is NULL unless it is loose.
IsList(s, x, op, yp, kids, loose) ==
  /\ s \in Seq(Slots) /\ IsInjective(s) /\ Range(s) = kids
  /\ x = (IF s = <<>> THEN NULL ELSE s[1])
  /\ \A i \in 1 .. Len(s) : op[s[i]] = (IF i = Len(s) THEN NULL ELSE s[i + 1])
  /\ \A i \in 2 .. Len(s) : yp[s[i]] = s[i - 1]
  /\ loose \/ s = <<>> \/ yp[s[1]] = NULL

HasList(x, op, yp, kids, loose) == \E s : IsList(s, x, op, yp, kids, loose)

\* Everybody in kids has a place in the list.
LEMMA Places ==
  ASSUME NEW s, NEW x, NEW op, NEW yp, NEW kids, NEW loose, IsList(s, x, op, yp, kids, loose)
  PROVE  /\ Len(s) \in Nat /\ DOMAIN s = 1 .. Len(s) /\ (s = <<>> <=> Len(s) = 0)
         /\ \A i \in 1 .. Len(s) : s[i] \in kids /\ s[i] \in Slots
         /\ \A i, j \in 1 .. Len(s) : s[i] = s[j] => i = j
         /\ \A k \in kids : \E i \in 1 .. Len(s) : s[i] = k
<1>1. s \in Seq(Slots) /\ IsInjective(s) /\ Range(s) = kids
  BY DEF IsList
<1>2. Len(s) \in Nat /\ DOMAIN s = 1 .. Len(s) /\ (s = <<>> <=> Len(s) = 0)
  BY <1>1
<1>3. \A i \in 1 .. Len(s) : s[i] \in Slots
  BY <1>1
<1> QED BY <1>1, <1>2, <1>3 DEF Range, IsInjective

LEMMA FirstFacts ==
  ASSUME NULL \notin Slots, NEW x, NEW op, NEW yp, NEW kids, NEW loose, HasList(x, op, yp, kids, loose)
  PROVE  /\ kids \subseteq Slots
         /\ x = NULL <=> kids = {}
         /\ x # NULL => x \in kids
         /\ \A k \in kids : op[k] \in kids \cup {NULL} /\ op[k] # k
         /\ \A k \in kids : op[k] # NULL => op[k] # x
<1>1. PICK s : IsList(s, x, op, yp, kids, loose)
  BY DEF HasList
<1>2. /\ Len(s) \in Nat /\ (s = <<>> <=> Len(s) = 0)
      /\ \A i \in 1 .. Len(s) : s[i] \in kids /\ s[i] \in Slots
      /\ \A i, j \in 1 .. Len(s) : s[i] = s[j] => i = j
      /\ \A k \in kids : \E i \in 1 .. Len(s) : s[i] = k
  BY <1>1, Places
<1>3. /\ x = (IF s = <<>> THEN NULL ELSE s[1])
      /\ \A i \in 1 .. Len(s) : op[s[i]] = (IF i = Len(s) THEN NULL ELSE s[i + 1])
  BY <1>1 DEF IsList
<1>4. kids \subseteq Slots
  BY <1>2
<1>5. ASSUME NEW k \in kids
      PROVE  op[k] \in kids \cup {NULL} /\ op[k] # k /\ (op[k] # NULL => op[k] # x)
  <2>1. PICK i \in 1 .. Len(s) : s[i] = k
    BY <1>2
  <2>2. CASE i = Len(s)
    BY <1>2, <1>3, <2>1, <2>2
  <2>3. CASE i # Len(s)
    <3>1. i + 1 \in 1 .. Len(s) /\ op[k] = s[i + 1] /\ i + 1 # i /\ i + 1 # 1 /\ 1 \in 1 .. Len(s)
      BY <1>2, <1>3, <2>1, <2>3
    <3>2. x = s[1]
      BY <1>2, <1>3, <3>1
    <3> QED BY <1>2, <2>1, <3>1, <3>2
  <2> QED BY <2>2, <2>3
<1>6. CASE s = <<>>
  BY <1>2, <1>3, <1>4, <1>5, <1>6
<1>7. CASE s # <<>>
  <2>1. 1 \in 1 .. Len(s)
    BY <1>2, <1>7
  <2>2. x \in kids /\ x # NULL
    BY <1>2, <1>3, <1>7, <2>1
  <2> QED BY <1>4, <1>5, <2>2
<1> QED BY <1>6, <1>7

\* The two sibling pointers undo each other.
BothWays(x, op, yp, kids) ==
  \A k \in kids : /\ op[k] # NULL => yp[op[k]] = k
                  /\ yp[k] # NULL => yp[k] \in kids /\ op[yp[k]] = k
                  /\ yp[k] = NULL <=> x = k

LEMMA SiblingFacts ==
  ASSUME NULL \notin Slots, NEW x, NEW op, NEW yp, NEW kids, NEW loose, ~loose,
         HasList(x, op, yp, kids, loose)
  PROVE  BothWays(x, op, yp, kids)
<1> SUFFICES ASSUME NEW k \in kids
             PROVE  /\ op[k] # NULL => yp[op[k]] = k
                    /\ yp[k] # NULL => yp[k] \in kids /\ op[yp[k]] = k
                    /\ yp[k] = NULL <=> x = k
  BY DEF BothWays
<1>1. PICK s : IsList(s, x, op, yp, kids, loose)
  BY DEF HasList
<1>2. /\ Len(s) \in Nat /\ (s = <<>> <=> Len(s) = 0)
      /\ \A i \in 1 .. Len(s) : s[i] \in kids /\ s[i] \in Slots
      /\ \A i, j \in 1 .. Len(s) : s[i] = s[j] => i = j
      /\ \A m \in kids : \E i \in 1 .. Len(s) : s[i] = m
  BY <1>1, Places
<1>3. /\ x = (IF s = <<>> THEN NULL ELSE s[1])
      /\ \A i \in 1 .. Len(s) : op[s[i]] = (IF i = Len(s) THEN NULL ELSE s[i + 1])
      /\ \A i \in 2 .. Len(s) : yp[s[i]] = s[i - 1]
      /\ s = <<>> \/ yp[s[1]] = NULL
  BY <1>1 DEF IsList
<1>4. PICK i \in 1 .. Len(s) : s[i] = k
  BY <1>2
<1>5. op[k] # NULL => yp[op[k]] = k
  <2>1. CASE i = Len(s)
    BY <1>3, <1>4, <2>1
  <2>2. CASE i # Len(s)
    <3>1. i + 1 \in 2 .. Len(s) /\ op[k] = s[i + 1] /\ (i + 1) - 1 = i
      BY <1>2, <1>3, <1>4, <2>2
    <3> QED BY <1>3, <1>4, <3>1
  <2> QED BY <2>1, <2>2
<1>6. CASE i = 1
  BY <1>2, <1>3, <1>4, <1>5, <1>6
<1>7. CASE i # 1
  <2>1. i \in 2 .. Len(s) /\ i - 1 \in 1 .. Len(s) /\ i - 1 # Len(s) /\ (i - 1) + 1 = i /\ 1 \in 1 .. Len(s)
    BY <1>2, <1>7
  <2>2. yp[k] = s[i - 1] /\ op[s[i - 1]] = k /\ s[i - 1] \in kids /\ s[i - 1] # NULL
    BY <1>2, <1>3, <1>4, <2>1
  <2>3. x # k
    BY <1>2, <1>3, <1>4, <1>7, <2>1
  <2> QED BY <1>5, <2>2, <2>3
<1> QED BY <1>6, <1>7

\* A list whose pointers do not change stays.
LEMMA ListKept ==
  ASSUME NEW x, NEW op, NEW yp, NEW op2, NEW yp2, NEW kids, NEW loose, HasList(x, op, yp, kids, loose),
         \A k \in kids : op2[k] = op[k] /\ yp2[k] = yp[k]
  PROVE  HasList(x, op2, yp2, kids, loose)
<1>1. PICK s : IsList(s, x, op, yp, kids, loose)
  BY DEF HasList
<1>2. Len(s) \in Nat /\ (s = <<>> <=> Len(s) = 0) /\ \A i \in 1 .. Len(s) : s[i] \in kids
  BY <1>1, Places
<1>3. \A i \in 1 .. Len(s) : op2[s[i]] = op[s[i]] /\ yp2[s[i]] = yp[s[i]]
  BY <1>2
<1>4. s = <<>> \/ yp2[s[1]] = yp[s[1]]
  BY <1>2, <1>3
<1>5. \A i \in 2 .. Len(s) : yp2[s[i]] = yp[s[i]]
  BY <1>2, <1>3
<1>6. IsList(s, x, op2, yp2, kids, loose)
  BY <1>1, <1>3, <1>4, <1>5 DEF IsList
<1> QED BY <1>6 DEF HasList

LEMMA NoList == ASSUME NEW op, NEW yp, NEW loose PROVE HasList(NULL, op, yp, {}, loose)
<1>1. <<>> \in Seq(Slots) /\ IsInjective(<<>>) /\ Range(<<>>) = {} /\ Len(<<>>) = 0
  BY DEF IsInjective, Range
<1>2. IsList(<<>>, NULL, op, yp, {}, loose)
  BY <1>1 DEF IsList
<1> QED BY <1>2 DEF HasList

LEMMA MayBeLoose ==
  ASSUME NEW x, NEW op, NEW yp, NEW kids, NEW loose, NEW loose2, HasList(x, op, yp, kids, loose),
         loose => loose2
  PROVE  HasList(x, op, yp, kids, loose2)
BY DEF HasList, IsList

\* set_links, and the second half of adopt: q comes before the others.
Prepended(x, op, yp, op2, yp2, kids, q) ==
  /\ op2[q] = x /\ yp2[q] = NULL
  /\ \A k \in kids : op2[k] = op[k] /\ yp2[k] = (IF k = x THEN q ELSE yp[k])

LEMMA PrependFacts ==
  ASSUME NULL \notin Slots, NEW x, NEW op, NEW yp, NEW op2, NEW yp2, NEW kids, NEW loose,
         NEW loose2, HasList(x, op, yp, kids, loose), NEW q \in Slots, q \notin kids,
         Prepended(x, op, yp, op2, yp2, kids, q)
  PROVE  HasList(q, op2, yp2, kids \cup {q}, loose2)
<1>1. PICK s : IsList(s, x, op, yp, kids, loose)
  BY DEF HasList
<1>2. /\ Len(s) \in Nat /\ (s = <<>> <=> Len(s) = 0)
      /\ \A i \in 1 .. Len(s) : s[i] \in kids /\ s[i] \in Slots
      /\ \A i, j \in 1 .. Len(s) : s[i] = s[j] => i = j
      /\ \A k \in kids : \E i \in 1 .. Len(s) : s[i] = k
  BY <1>1, Places
<1>3. /\ x = (IF s = <<>> THEN NULL ELSE s[1])
      /\ \A i \in 1 .. Len(s) : op[s[i]] = (IF i = Len(s) THEN NULL ELSE s[i + 1])
      /\ \A i \in 2 .. Len(s) : yp[s[i]] = s[i - 1]
  BY <1>1 DEF IsList
<1> DEFINE n == Len(s)
           r == [i \in 1 .. (n + 1) |-> IF i = 1 THEN q ELSE s[i - 1]]
<1>4. n \in Nat /\ n = Len(s)
  BY <1>2
<1> HIDE DEF n
<1>5. r \in Seq(Slots) /\ Len(r) = n + 1 /\ DOMAIN r = 1 .. (n + 1)
  <2>1. r \in [1 .. (n + 1) -> Slots]
    BY <1>2, <1>4
  <2> QED BY <1>4, <2>1
<1>6. /\ r[1] = q
      /\ \A i \in 2 .. (n + 1) : r[i] = s[i - 1] /\ i - 1 \in 1 .. n
  BY <1>4
<1>7. \A i \in 1 .. n : r[i + 1] = s[i]
  BY <1>4
<1> HIDE DEF r
<1>8. IsInjective(r)
  <2> SUFFICES ASSUME NEW i \in 1 .. (n + 1), NEW j \in 1 .. (n + 1), r[i] = r[j] PROVE i = j
    BY <1>5 DEF IsInjective
  <2>1. CASE i = 1 \/ j = 1
    BY <1>2, <1>4, <1>6, <2>1
  <2>2. CASE i # 1 /\ j # 1
    <3>1. i - 1 \in 1 .. n /\ j - 1 \in 1 .. n /\ s[i - 1] = s[j - 1]
      BY <1>4, <1>6, <2>2
    <3>2. i - 1 = j - 1
      BY <1>2, <1>4, <3>1
    <3> QED BY <1>4, <3>2
  <2> QED BY <2>1, <2>2
<1>9. Range(r) = kids \cup {q}
  <2>1. ASSUME NEW y \in Range(r) PROVE y \in kids \cup {q}
    <3>1. PICK i \in 1 .. (n + 1) : r[i] = y
      BY <1>5 DEF Range
    <3>2. CASE i = 1
      BY <1>6, <3>1, <3>2
    <3>3. CASE i # 1
      BY <1>2, <1>4, <1>6, <3>1, <3>3
    <3> QED BY <3>2, <3>3
  <2>2. ASSUME NEW y \in kids PROVE y \in Range(r)
    <3>1. PICK i \in 1 .. n : s[i] = y
      BY <1>2, <1>4
    <3>2. i + 1 \in 1 .. (n + 1) /\ r[i + 1] = y
      BY <1>4, <1>7, <3>1
    <3> QED BY <1>5, <3>2 DEF Range
  <2>3. q \in Range(r)
    BY <1>4, <1>5, <1>6 DEF Range
  <2> QED BY <2>1, <2>2, <2>3
<1>10. ASSUME NEW i \in 1 .. (n + 1)
       PROVE  op2[r[i]] = (IF i = n + 1 THEN NULL ELSE r[i + 1])
  <2>1. CASE i = 1
    <3>1. op2[r[i]] = x
      BY <1>6, <2>1 DEF Prepended
    <3>2. CASE n = 0
      BY <1>2, <1>3, <1>4, <2>1, <3>1, <3>2
    <3>3. CASE n # 0
      BY <1>2, <1>3, <1>4, <1>7, <2>1, <3>1, <3>3
    <3> QED BY <3>2, <3>3
  <2>2. CASE i # 1
    <3>1. r[i] = s[i - 1] /\ i - 1 \in 1 .. n /\ (i - 1) + 1 = i
      BY <1>4, <1>6, <2>2
    <3>2. op2[r[i]] = (IF i - 1 = n THEN NULL ELSE s[i])
      BY <1>2, <1>3, <1>4, <3>1 DEF Prepended
    <3>3. i # n + 1 => r[i + 1] = s[i]
      BY <1>4, <1>7
    <3> QED BY <1>4, <3>2, <3>3
  <2> QED BY <2>1, <2>2
<1>11. ASSUME NEW i \in 2 .. (n + 1) PROVE yp2[r[i]] = r[i - 1]
  <2>1. r[i] = s[i - 1] /\ i - 1 \in 1 .. n /\ s[i - 1] \in kids
    BY <1>2, <1>4, <1>6
  <2>2. CASE i = 2
    <3>1. x = s[1] /\ r[i] = s[1]
      BY <1>2, <1>3, <1>4, <2>1, <2>2
    <3> QED BY <1>6, <2>1, <2>2, <3>1 DEF Prepended
  <2>3. CASE i # 2
    <3>1. i - 1 \in 2 .. n /\ 1 \in 1 .. n /\ s # <<>> /\ i - 1 # 1
      BY <1>2, <1>4, <2>1, <2>3
    <3>2. s[i - 1] # x
      BY <1>2, <1>3, <1>4, <2>1, <3>1
    <3>3. yp2[r[i]] = s[(i - 1) - 1]
      BY <1>3, <1>4, <2>1, <3>1, <3>2 DEF Prepended
    <3> QED BY <1>4, <1>6, <2>3, <3>1, <3>3
  <2> QED BY <2>2, <2>3
<1>12. r # <<>> /\ q = r[1] /\ yp2[r[1]] = NULL
  BY <1>4, <1>5, <1>6 DEF Prepended
<1>13. IsList(r, q, op2, yp2, kids \cup {q}, loose2)
  BY <1>5, <1>8, <1>9, <1>10, <1>11, <1>12 DEF IsList
<1> QED BY <1>13 DEF HasList

\* remove_links, and the first half of adopt: q is taken out.
TakenOut(x, x2, op, yp, op2, yp2, kids, q, loose) ==
  /\ x2 = (IF x = q THEN op[q] ELSE x)
  /\ \A k \in kids \ {q} : op2[k] = (IF op[k] = q THEN op[q] ELSE op[k])
  /\ \A k \in kids \ {q} : k # op[q] => yp2[k] = yp[k]
  /\ op[q] # NULL => IF x = q THEN loose \/ yp2[op[q]] = NULL ELSE yp2[op[q]] = yp[q]

LEMMA TakeOutFacts ==
  ASSUME NULL \notin Slots, NEW x, NEW x2, NEW op, NEW yp, NEW op2, NEW yp2, NEW kids,
         NEW loose, NEW loose2, HasList(x, op, yp, kids, loose), loose => loose2,
         NEW q \in kids, TakenOut(x, x2, op, yp, op2, yp2, kids, q, loose2)
  PROVE  HasList(x2, op2, yp2, kids \ {q}, loose2)
<1>1. PICK s : IsList(s, x, op, yp, kids, loose)
  BY DEF HasList
<1>2. /\ Len(s) \in Nat /\ (s = <<>> <=> Len(s) = 0)
      /\ \A i \in 1 .. Len(s) : s[i] \in kids /\ s[i] \in Slots
      /\ \A i, j \in 1 .. Len(s) : s[i] = s[j] => i = j
      /\ \A k \in kids : \E i \in 1 .. Len(s) : s[i] = k
  BY <1>1, Places
<1>3. /\ x = (IF s = <<>> THEN NULL ELSE s[1])
      /\ \A i \in 1 .. Len(s) : op[s[i]] = (IF i = Len(s) THEN NULL ELSE s[i + 1])
      /\ \A i \in 2 .. Len(s) : yp[s[i]] = s[i - 1]
      /\ loose \/ s = <<>> \/ yp[s[1]] = NULL
      /\ s \in Seq(Slots) /\ IsInjective(s) /\ Range(s) = kids
  BY <1>1 DEF IsList
<1>4. PICK k \in 1 .. Len(s) : s[k] = q
  BY <1>2
<1> DEFINE n == Len(s)
           r == [i \in 1 .. (n - 1) |-> IF i < k THEN s[i] ELSE s[i + 1]]
<1>5. n \in Nat /\ n = Len(s) /\ n # 0 /\ s # <<>> /\ n - 1 \in Nat /\ 1 \in 1 .. n
  BY <1>2, <1>4
<1> HIDE DEF n
<1>6. r \in Seq(Slots) /\ Len(r) = n - 1 /\ DOMAIN r = 1 .. (n - 1)
  <2>1. \A i \in 1 .. (n - 1) : i \in 1 .. n /\ i + 1 \in 1 .. n
    BY <1>5
  <2>2. r \in [1 .. (n - 1) -> Slots]
    BY <1>2, <1>5, <2>1
  <2> HIDE DEF r
  <2>3. PICK m \in Nat : m = n - 1
    BY <1>5
  <2>4. r \in [1 .. m -> Slots]
    BY <2>2, <2>3
  <2>5. r \in Seq(Slots) /\ Len(r) = m /\ DOMAIN r = 1 .. m
    BY <2>3, <2>4
  <2> QED BY <2>3, <2>5
<1>7. \A i \in 1 .. (n - 1) : r[i] = (IF i < k THEN s[i] ELSE s[i + 1])
  OBVIOUS
<1> HIDE DEF r
<1>8. IsInjective(r) /\ Range(r) = kids \ {q}
  <2>1. Without(s, k, r)
    BY <1>5, <1>6, <1>7 DEF Without
  <2> QED BY <1>3, <1>4, <2>1, WithoutFacts
<1>9. x = s[1] /\ (x = q <=> k = 1)
  BY <1>2, <1>3, <1>4, <1>5
<1>10. op[q] = (IF k = n THEN NULL ELSE s[k + 1]) /\ (k # 1 => yp[q] = s[k - 1])
  BY <1>3, <1>4, <1>5
<1>11. x2 = (IF r = <<>> THEN NULL ELSE r[1])
  <2>1. x2 = (IF k = 1 THEN op[q] ELSE s[1])
    BY <1>9 DEF TakenOut
  <2>2. CASE n = 1
    BY <1>5, <1>6, <1>10, <2>1, <2>2
  <2>3. CASE n # 1
    <3>1. 1 \in 1 .. (n - 1) /\ r # <<>>
      BY <1>5, <1>6, <2>3
    <3>2. r[1] = (IF 1 < k THEN s[1] ELSE s[1 + 1])
      BY <1>7, <3>1
    <3> QED BY <1>5, <1>10, <2>1, <2>3, <3>1, <3>2
  <2> QED BY <2>2, <2>3
<1>12. ASSUME NEW i \in 1 .. n, i # k
       PROVE  s[i] \in kids \ {q} /\ op2[s[i]] = (IF i + 1 = k THEN op[q] ELSE op[s[i]])
  <2>1. s[i] \in kids \ {q}
    BY <1>2, <1>4, <1>5, <1>12
  <2>2. op[s[i]] = q <=> i + 1 = k
    <3>1. CASE i = n
      BY <1>2, <1>3, <1>4, <1>5, <3>1
    <3>2. CASE i # n
      BY <1>2, <1>3, <1>4, <1>5, <3>2
    <3> QED BY <3>1, <3>2
  <2> QED BY <2>1, <2>2 DEF TakenOut
<1>13. ASSUME NEW i \in 1 .. (n - 1)
       PROVE  op2[r[i]] = (IF i = n - 1 THEN NULL ELSE r[i + 1])
  <2>1. i # n - 1 => r[i + 1] = (IF i + 1 < k THEN s[i + 1] ELSE s[(i + 1) + 1])
    BY <1>5, <1>7
  <2>2. CASE i + 1 < k
    <3>1. i \in 1 .. n /\ i # k /\ i + 1 # k /\ r[i] = s[i] /\ i # n - 1 /\ i # n
      BY <1>4, <1>5, <1>7, <2>2
    <3>2. op2[r[i]] = op[s[i]] /\ op[s[i]] = s[i + 1]
      BY <1>3, <1>5, <1>12, <3>1
    <3> QED BY <2>1, <2>2, <3>1, <3>2
  <2>3. CASE i + 1 = k
    <3>1. i \in 1 .. n /\ i # k /\ r[i] = s[i] /\ (i = n - 1 <=> k = n) /\ i + 1 = k /\ ~(i + 1 < k)
      BY <1>4, <1>5, <1>7, <2>3
    <3>2. op2[r[i]] = op[q]
      BY <1>12, <3>1
    <3> QED BY <1>10, <2>1, <2>3, <3>1, <3>2
  <2>4. CASE i + 1 > k
    <3>1. i + 1 \in 1 .. n /\ i + 1 # k /\ (i + 1) + 1 # k /\ r[i] = s[i + 1] /\ ~(i + 1 < k)
          /\ (i + 1 = n <=> i = n - 1)
      BY <1>4, <1>5, <1>7, <2>4
    <3>2. op2[r[i]] = op[s[i + 1]]
      BY <1>12, <3>1
    <3>3. op[s[i + 1]] = (IF i + 1 = n THEN NULL ELSE s[(i + 1) + 1])
      BY <1>3, <1>5, <3>1
    <3> QED BY <2>1, <3>1, <3>2, <3>3
  <2> QED BY <1>4, <1>5, <2>2, <2>3, <2>4
<1>14. ASSUME NEW i \in 1 .. n, i # k, i # k + 1 PROVE yp2[s[i]] = yp[s[i]]
  <2>1. s[i] \in kids \ {q}
    BY <1>12, <1>14
  <2>2. s[i] # op[q]
    <3>1. CASE k = n
      BY <1>2, <1>5, <1>10, <3>1
    <3>2. CASE k # n
      <4>1. k + 1 \in 1 .. n /\ op[q] = s[k + 1]
        BY <1>4, <1>5, <1>10, <3>2
      <4> QED BY <1>2, <1>5, <1>14, <4>1
    <3> QED BY <3>1, <3>2
  <2> QED BY <2>1, <2>2 DEF TakenOut
<1>15. ASSUME k + 1 \in 1 .. n
       PROVE  IF k = 1 THEN loose2 \/ yp2[s[k + 1]] = NULL ELSE yp2[s[k + 1]] = s[k - 1]
  <2>1. k # n /\ op[q] = s[k + 1] /\ s[k + 1] # NULL
    BY <1>2, <1>4, <1>5, <1>10, <1>15
  <2> QED BY <1>9, <1>10, <2>1 DEF TakenOut
<1>16. ASSUME NEW i \in 2 .. (n - 1) PROVE yp2[r[i]] = r[i - 1]
  <2>1. r[i - 1] = (IF i - 1 < k THEN s[i - 1] ELSE s[(i - 1) + 1])
    BY <1>5, <1>7
  <2>2. CASE i < k
    <3>1. i \in 1 .. n /\ i # k /\ i # k + 1 /\ r[i] = s[i] /\ i - 1 < k /\ i \in 2 .. n
      BY <1>4, <1>5, <1>7, <2>2
    <3> QED BY <1>3, <1>5, <1>14, <2>1, <3>1
  <2>3. CASE i = k
    <3>1. k + 1 \in 1 .. n /\ k # 1 /\ r[i] = s[k + 1] /\ i - 1 < k
      BY <1>4, <1>5, <1>7, <2>3
    <3> QED BY <1>15, <2>1, <2>3, <3>1
  <2>4. CASE i > k
    <3>1. i + 1 \in 1 .. n /\ i + 1 # k /\ i + 1 # k + 1 /\ r[i] = s[i + 1] /\ ~(i - 1 < k)
          /\ i + 1 \in 2 .. n /\ (i + 1) - 1 = i /\ (i - 1) + 1 = i
      BY <1>4, <1>5, <1>7, <2>4
    <3>2. yp2[s[i + 1]] = s[(i + 1) - 1]
      BY <1>3, <1>5, <1>14, <3>1
    <3> QED BY <2>1, <3>1, <3>2
  <2> QED BY <1>4, <1>5, <2>2, <2>3, <2>4
<1>17. loose2 \/ r = <<>> \/ yp2[r[1]] = NULL
  <2> SUFFICES ASSUME ~loose2, r # <<>> PROVE yp2[r[1]] = NULL
    OBVIOUS
  <2>1. 1 \in 1 .. (n - 1)
    BY <1>5, <1>6
  <2>2. r[1] = (IF 1 < k THEN s[1] ELSE s[1 + 1])
    BY <1>7, <2>1
  <2>3. CASE k = 1
    <3>1. k + 1 \in 1 .. n /\ r[1] = s[k + 1]
      BY <1>5, <2>1, <2>2, <2>3
    <3> QED BY <1>15, <2>3, <3>1
  <2>4. CASE k # 1
    <3>1. r[1] = s[1] /\ 1 # k /\ 1 # k + 1
      BY <1>4, <1>5, <2>2, <2>4
    <3> QED BY <1>3, <1>5, <1>14, <3>1
  <2> QED BY <2>3, <2>4
<1>18. \A i \in 1 .. Len(r) : op2[r[i]] = (IF i = Len(r) THEN NULL ELSE r[i + 1])
  BY <1>6, <1>13
<1>19. \A i \in 2 .. Len(r) : yp2[r[i]] = r[i - 1]
  BY <1>6, <1>16
<1>20. IsList(r, x2, op2, yp2, kids \ {q}, loose2)
  BY <1>6, <1>8, <1>11, <1>17, <1>18, <1>19 DEF IsList
<1> QED BY <1>20 DEF HasList

\* A list is one of the orders its members can be put in.
LEMMA ListIsOrder ==
  ASSUME NEW x, NEW yp, NEW kids, NEW loose, HasList(x, optr, yp, kids, loose)
  PROVE  \E s \in SetToSeqs(kids) : Lists(s, x)
<1>1. PICK s : IsList(s, x, optr, yp, kids, loose)
  BY DEF HasList
<1>2. /\ Len(s) \in Nat /\ DOMAIN s = 1 .. Len(s)
      /\ \A i \in 1 .. Len(s) : s[i] \in kids
      /\ \A i, j \in 1 .. Len(s) : s[i] = s[j] => i = j
      /\ \A k \in kids : \E i \in 1 .. Len(s) : s[i] = k
  BY <1>1, Places
<1>3. s \in Seq(Slots)
  BY <1>1 DEF IsList
<1> DEFINE n == Len(s)
<1>4. n \in Nat /\ n = Len(s)
  BY <1>2
<1> HIDE DEF n
<1>5. s \in [1 .. n -> kids]
  BY <1>2, <1>3, <1>4
<1>6. s \in Bijection(1 .. n, kids)
  BY <1>2, <1>4, <1>5 DEF Bijection, Injection, Surjection, IsInjective
<1>7. Cardinality(kids) = n
  <2>1. ExistsBijection(1 .. n, kids)
    BY <1>6 DEF ExistsBijection
  <2> QED BY <1>4, <2>1, FS_CountingElements
<1>8. s \in SetToSeqs(kids)
  BY <1>2, <1>4, <1>5, <1>7 DEF SetToSeqs
<1>9. Lists(s, x)
  BY <1>1, <1>2 DEF IsList, Lists
<1> QED BY <1>8, <1>9

-----------------------------------------------------------------------------
(* The inductive invariant *)

Exists(q) == life[q] # "none"

Chains == \A p \in Procs : HasList(cptr[p], optr, yptr, Children(p), p = exiting)

Parents ==
  \A q \in Slots : Exists(q) =>
    /\ parent[q] \in Procs
    /\ Alive(parent[q]) \/ parent[q] = exiting

ExitingOK == exiting # NULL => life[exiting] = "zombie"

InitClear == optr[initproc] = NULL /\ yptr[initproc] = NULL

\* Nobody is an ancestor of himself.
Rooted ==
  \A S \in SUBSET Slots : S # {} /\ (\A q \in S : Exists(q)) => \E q \in S : parent[q] \notin S

Counted == nr_process = 2 + Cardinality({q \in Slots : Exists(q)})

IInv == TypeOK /\ Chains /\ Parents /\ ExitingOK /\ InitClear /\ Rooted /\ Counted

LEMMA InitIInv == ASSUME TreeAssumption, Init PROVE IInv
<1>1. TypeOK
  BY DEF Init, TypeOK, Procs
<1>2. Chains
  <2> SUFFICES ASSUME NEW p \in Procs
               PROVE  HasList(cptr[p], optr, yptr, Children(p), p = exiting)
    BY DEF Chains
  <2>1. cptr[p] = NULL /\ Children(p) = {}
    BY DEF Init, Children
  <2>2. HasList(NULL, optr, yptr, {}, p = exiting)
    BY NoList
  <2> QED BY <2>1, <2>2
<1>3. Parents /\ ExitingOK /\ InitClear /\ Rooted
  BY DEF Init, Parents, ExitingOK, InitClear, Rooted, Exists, Procs
<1>4. Counted
  <2>1. {q \in Slots : Exists(q)} = {}
    BY DEF Init, Exists
  <2>2. Cardinality({q \in Slots : Exists(q)}) = 0
    BY <2>1, FS_EmptySet
  <2> QED BY <2>2 DEF Counted, Init
<1> QED BY <1>1, <1>2, <1>3, <1>4 DEF IInv

\* Whoever is neither alive nor in do_exit's loop has no children.
LEMMA NoChildren ==
  ASSUME IInv, NEW q \in Procs, ~Alive(q), q # exiting
  PROVE  Children(q) = {}
BY DEF IInv, Parents, Children, Exists

\* The youngest child of p, and its siblings.
LEMMA ChildFacts ==
  ASSUME TreeAssumption, IInv, NEW p \in Procs
  PROVE  /\ HasList(cptr[p], optr, yptr, Children(p), p = exiting)
         /\ Children(p) \subseteq Slots
         /\ cptr[p] = NULL <=> Children(p) = {}
         /\ cptr[p] # NULL => cptr[p] \in Children(p)
         /\ \A k \in Children(p) : optr[k] \in Children(p) \cup {NULL} /\ optr[k] # k
         /\ \A k \in Children(p) : optr[k] # NULL => optr[k] # cptr[p]
<1>1. HasList(cptr[p], optr, yptr, Children(p), p = exiting) /\ NULL \notin Slots
  BY DEF IInv, Chains, TreeAssumption
<1> QED BY <1>1, FirstFacts

LEMMA SiblingsBack ==
  ASSUME TreeAssumption, IInv, NEW p \in Procs, p # exiting, NEW k \in Children(p)
  PROVE  /\ optr[k] # NULL => yptr[optr[k]] = k
         /\ yptr[k] # NULL => yptr[k] \in Children(p) /\ optr[yptr[k]] = k
         /\ yptr[k] = NULL <=> cptr[p] = k
<1>1. HasList(cptr[p], optr, yptr, Children(p), p = exiting) /\ NULL \notin Slots /\ ~(p = exiting)
  BY DEF IInv, Chains, TreeAssumption
<1>2. BothWays(cptr[p], optr, yptr, Children(p))
  BY <1>1, SiblingFacts
<1> QED BY <1>2 DEF BothWays

\* The processes there are, with one more or one less.
LEMMA OneMore ==
  ASSUME TreeAssumption, Counted, NEW q \in Slots, life \in [Slots -> {"none", "live", "zombie"}],
         life[q] = "none", life' = [life EXCEPT ![q] = "live"], nr_process' = nr_process + 1
  PROVE  Counted' /\ nr_process' \in Nat
<1> DEFINE T == {k \in Slots : Exists(k)}
<1>1. IsFiniteSet(T) /\ Cardinality(T) \in Nat
  BY FS_Subset, FS_CardinalityType DEF TreeAssumption
<1>2. T' = T \cup {q} /\ q \notin T
  BY DEF Exists
<1>3. Cardinality(T \cup {q}) = Cardinality(T) + 1
  BY <1>1, <1>2, FS_AddElement
<1>4. nr_process = 2 + Cardinality(T)
  BY DEF Counted
<1>5. Cardinality(T') = Cardinality(T) + 1
  BY <1>2, <1>3
<1>6. Counted' <=> nr_process' = 2 + Cardinality(T')
  BY DEF Counted
<1> HIDE DEF T
<1> QED BY <1>1, <1>4, <1>5, <1>6

LEMMA OneLess ==
  ASSUME TreeAssumption, Counted, NEW q \in Slots, life \in [Slots -> {"none", "live", "zombie"}],
         life[q] # "none", life' = [life EXCEPT ![q] = "none"], nr_process' = nr_process - 1
  PROVE  Counted' /\ nr_process' \in Nat
<1> DEFINE T == {k \in Slots : Exists(k)}
<1>1. IsFiniteSet(T) /\ Cardinality(T) \in Nat
  BY FS_Subset, FS_CardinalityType DEF TreeAssumption
<1>2. T' = T \ {q} /\ q \in T
  BY DEF Exists
<1>3. Cardinality(T \ {q}) = Cardinality(T) - 1 /\ IsFiniteSet(T \ {q})
  BY <1>1, <1>2, FS_RemoveElement
<1>4. nr_process = 2 + Cardinality(T)
  BY DEF Counted
<1>5. Cardinality(T') = Cardinality(T) - 1 /\ Cardinality(T') \in Nat
  BY <1>2, <1>3, FS_CardinalityType
<1>6. Counted' <=> nr_process' = 2 + Cardinality(T')
  BY DEF Counted
<1> HIDE DEF T
<1> QED BY <1>1, <1>4, <1>5, <1>6

-----------------------------------------------------------------------------
(* The steps *)

LEMMA ForkStep ==
  ASSUME TreeAssumption, IInv, NEW p \in Procs, NEW q \in Slots, set_links(p, q)
  PROVE  IInv'
<1> USE DEF TreeAssumption
<1>1. /\ p # q /\ q \in Procs /\ Alive(p) /\ ~Alive(q) /\ exiting = NULL /\ exiting' = NULL
      /\ NULL \notin Procs /\ q # initproc
  BY DEF set_links, Alive, Procs
<1>2. /\ life[q] = "none" /\ life' = [life EXCEPT ![q] = "live"]
      /\ parent' = [parent EXCEPT ![q] = p]
      /\ optr' = [optr EXCEPT ![q] = cptr[p]]
      /\ yptr' = Store([yptr EXCEPT ![q] = NULL], cptr[p], q)
      /\ cptr' = [cptr EXCEPT ![p] = q, ![q] = NULL]
      /\ nr_process' = nr_process + 1
  BY DEF set_links
<1>3. TypeOK /\ Chains /\ Parents /\ ExitingOK /\ InitClear /\ Rooted /\ Counted
  BY DEF IInv
<1>4. Counted' /\ nr_process' \in Nat
  BY <1>2, <1>3, OneMore DEF TypeOK
<1>5. TypeOK'
  BY <1>1, <1>2, <1>3, <1>4 DEF TypeOK, Store, Procs
<1>6. /\ Children(q) = {} /\ q \notin Children(p)
      /\ Children(p)' = Children(p) \cup {q}
      /\ \A r \in Procs : r # p => Children(r)' = Children(r) /\ q \notin Children(r)
  <2>1. Children(q) = {}
    BY <1>1, NoChildren
  <2>2. \A r : q \notin Children(r)
    BY <1>2 DEF Children
  <2>3. \A k \in Slots : k # q => life'[k] = life[k] /\ parent'[k] = parent[k]
    BY <1>2, <1>3 DEF TypeOK, Procs
  <2>4. life'[q] = "live" /\ parent'[q] = p
    BY <1>1, <1>2, <1>3 DEF TypeOK
  <2>5. \A r \in Procs : Children(r)' = (IF r = p THEN Children(r) \cup {q} ELSE Children(r))
    BY <2>2, <2>3, <2>4 DEF Children
  <2> QED BY <2>1, <2>2, <2>5
<1>7. /\ HasList(cptr[p], optr, yptr, Children(p), p = exiting)
      /\ Children(p) \subseteq Slots
      /\ cptr[p] # NULL => cptr[p] \in Children(p)
  BY ChildFacts
<1>8. /\ optr'[q] = cptr[p] /\ yptr'[q] = NULL
      /\ \A k \in Procs \ {q} : optr'[k] = optr[k] /\ yptr'[k] = (IF k = cptr[p] THEN q ELSE yptr[k])
  BY <1>1, <1>2, <1>3, <1>6, <1>7 DEF TypeOK, Store, Procs
<1>9. ASSUME NEW r \in Procs PROVE HasList(cptr'[r], optr', yptr', Children(r)', r = exiting')
  <2>1. CASE r = p
    <3>1. \A k \in Children(p) : k \in Procs \ {q}
      BY <1>6, <1>7 DEF Procs
    <3>2. Prepended(cptr[p], optr, yptr, optr', yptr', Children(p), q)
      BY <1>8, <3>1 DEF Prepended
    <3>3. HasList(q, optr', yptr', Children(p) \cup {q}, r = exiting')
      BY <1>6, <1>7, <3>2, PrependFacts
    <3>4. cptr'[r] = q
      BY <1>1, <1>2, <1>3, <2>1 DEF TypeOK
    <3> QED BY <1>6, <2>1, <3>3, <3>4
  <2>2. CASE r = q
    <3>1. cptr'[r] = NULL /\ Children(r)' = {}
      BY <1>1, <1>2, <1>3, <1>6, <2>2 DEF TypeOK
    <3>2. HasList(NULL, optr', yptr', {}, r = exiting')
      BY NoList
    <3> QED BY <3>1, <3>2
  <2>3. CASE r # p /\ r # q
    <3>1. cptr'[r] = cptr[r] /\ Children(r)' = Children(r) /\ exiting' = exiting
      BY <1>1, <1>2, <1>3, <1>6, <2>3 DEF TypeOK
    <3>2. HasList(cptr[r], optr, yptr, Children(r), r = exiting) /\ Children(r) \subseteq Slots
      BY ChildFacts
    <3>3. \A k \in Children(r) : k \in Procs \ {q} /\ k # cptr[p]
      BY <1>6, <1>7, <2>3, <3>2 DEF Children, Procs
    <3>4. \A k \in Children(r) : optr'[k] = optr[k] /\ yptr'[k] = yptr[k]
      BY <1>8, <3>3
    <3>5. HasList(cptr[r], optr', yptr', Children(r), r = exiting)
      BY <3>2, <3>4, ListKept
    <3> QED BY <3>1, <3>5
  <2> QED BY <2>1, <2>2, <2>3
<1>10. Chains'
  BY <1>9 DEF Chains, Procs
<1>11. Parents' /\ ExitingOK' /\ InitClear'
  <2>1. Parents'
    <3> SUFFICES ASSUME NEW k \in Slots, Exists(k)'
                 PROVE  (parent[k] \in Procs /\ (Alive(parent[k]) \/ parent[k] = exiting))'
      BY DEF Parents, Procs
    <3>1. CASE k = q
      BY <1>1, <1>2, <1>3, <3>1 DEF Alive, TypeOK, Procs
    <3>2. CASE k # q
      <4>1. Exists(k) /\ parent'[k] = parent[k]
        BY <1>2, <1>3, <3>2 DEF Exists, TypeOK, Procs
      <4>2. parent[k] \in Procs /\ (Alive(parent[k]) \/ parent[k] = exiting)
        BY <1>3, <4>1 DEF Parents
      <4> QED BY <1>1, <1>2, <1>3, <4>1, <4>2 DEF Alive, TypeOK, Procs
    <3> QED BY <3>1, <3>2
  <2>2. ExitingOK'
    BY <1>1 DEF ExitingOK
  <2>3. InitClear'
    <3>1. initproc \in Procs \ {q} /\ initproc # cptr[p]
      BY <1>1, <1>7 DEF Procs
    <3> QED BY <1>3, <1>8, <3>1 DEF InitClear
  <2> QED BY <2>1, <2>2, <2>3
<1>12. Rooted'
  <2> SUFFICES ASSUME NEW S \in SUBSET Slots, S # {}, \A k \in S : Exists(k)'
               PROVE  \E k \in S : parent'[k] \notin S
    BY DEF Rooted
  <2>1. \A k \in Slots \ {q} : (Exists(k)' <=> Exists(k)) /\ parent'[k] = parent[k]
    BY <1>2, <1>3 DEF Exists, TypeOK, Procs
  <2>2. parent'[q] = p
    BY <1>1, <1>2, <1>3 DEF TypeOK
  <2>3. CASE S \subseteq {q}
    BY <1>1, <2>2, <2>3
  <2>4. CASE ~(S \subseteq {q})
    <3> DEFINE R == S \ {q}
    <3>1. R \in SUBSET Slots /\ R # {} /\ \A k \in R : Exists(k)
      BY <2>1, <2>4
    <3>2. PICK k \in R : parent[k] \notin R
      BY <1>3, <3>1 DEF Rooted
    <3>3. parent[k] # q
      BY <1>6, <3>1, <3>2 DEF Children, Exists
    <3> QED BY <2>1, <3>2, <3>3
  <2> QED BY <2>3, <2>4
<1> QED BY <1>4, <1>5, <1>10, <1>11, <1>12 DEF IInv

LEMMA ExitStep ==
  ASSUME TreeAssumption, IInv, NEW p \in Slots, do_exit(p)
  PROVE  IInv'
<1> USE DEF TreeAssumption
<1>1. /\ exiting = NULL /\ exiting' = p /\ life[p] = "live" /\ life' = [life EXCEPT ![p] = "zombie"]
      /\ UNCHANGED <<parent, cptr, optr, yptr, nr_process>> /\ NULL \notin Procs
  BY DEF do_exit, Procs
<1>2. TypeOK /\ Chains /\ Parents /\ ExitingOK /\ InitClear /\ Rooted /\ Counted
  BY DEF IInv
<1>3. \A k \in Slots : Exists(k)' <=> Exists(k)
  BY <1>1, <1>2 DEF Exists, TypeOK
<1>4. \A r : Children(r)' = Children(r)
  BY <1>1, <1>3 DEF Children, Exists
<1>5. TypeOK' /\ ExitingOK' /\ InitClear' /\ Rooted'
  BY <1>1, <1>2, <1>3 DEF TypeOK, ExitingOK, InitClear, Rooted
<1>6. Chains'
  <2> SUFFICES ASSUME NEW r \in Procs PROVE HasList(cptr[r], optr, yptr, Children(r), r = exiting')
    BY <1>1, <1>4 DEF Chains, Procs
  <2>1. HasList(cptr[r], optr, yptr, Children(r), r = exiting) /\ (r = exiting => r = exiting')
    BY <1>1, <1>2 DEF Chains
  <2> QED BY <2>1, MayBeLoose
<1>7. Parents'
  BY <1>1, <1>2, <1>3 DEF Parents, Alive, TypeOK, Procs
<1>8. Counted'
  <2>1. {q \in Slots : Exists(q)}' = {q \in Slots : Exists(q)}
    BY <1>3
  <2> QED BY <1>1, <1>2, <2>1 DEF Counted
<1> QED BY <1>5, <1>6, <1>7, <1>8 DEF IInv

LEMMA ExitDoneStep ==
  ASSUME TreeAssumption, IInv, exit_done
  PROVE  IInv'
<1> USE DEF TreeAssumption
<1>1. /\ exiting \in Slots /\ exiting' = NULL /\ cptr[exiting] = NULL
      /\ UNCHANGED <<life, parent, cptr, optr, yptr, nr_process>> /\ exiting \in Procs
  BY DEF exit_done, IInv, TypeOK, Procs
<1>2. TypeOK /\ Chains /\ Parents /\ ExitingOK /\ InitClear /\ Rooted /\ Counted
  BY DEF IInv
<1>3. Children(exiting) = {} /\ \A r : Children(r)' = Children(r)
  BY <1>1, ChildFacts DEF Children
<1>4. TypeOK' /\ ExitingOK' /\ InitClear' /\ Rooted' /\ Counted'
  BY <1>1, <1>2 DEF TypeOK, ExitingOK, InitClear, Rooted, Counted, Exists
<1>5. Chains'
  <2> SUFFICES ASSUME NEW r \in Procs PROVE HasList(cptr[r], optr, yptr, Children(r), r = exiting')
    BY <1>1, <1>3 DEF Chains, Procs
  <2>1. CASE r = exiting
    <3>1. HasList(NULL, optr, yptr, {}, r = exiting')
      BY NoList
    <3> QED BY <1>1, <1>3, <2>1, <3>1
  <2>2. CASE r # exiting
    <3>1. HasList(cptr[r], optr, yptr, Children(r), r = exiting) /\ (r = exiting => r = exiting')
      BY <1>2, <2>2 DEF Chains
    <3> QED BY <3>1, MayBeLoose
  <2> QED BY <2>1, <2>2
<1>6. Parents'
  BY <1>1, <1>2, <1>3 DEF Parents, Alive, Children, Exists
<1> QED BY <1>4, <1>5, <1>6 DEF IInv

LEMMA AdoptStep ==
  ASSUME TreeAssumption, IInv, adopt
  PROVE  IInv'
<1> USE DEF TreeAssumption
<1>0. PICK e, q, o : e = exiting /\ q = cptr[exiting] /\ o = cptr[initproc]
  OBVIOUS
<1>1. TypeOK /\ Chains /\ Parents /\ ExitingOK /\ InitClear /\ Rooted /\ Counted
  BY DEF IInv
<1>2. /\ e \in Slots /\ q \in Slots /\ e \in Procs /\ e # initproc /\ q # initproc /\ q \in Procs
      /\ initproc \in Procs /\ NULL \notin Procs
  BY <1>0, <1>1 DEF adopt, TypeOK, Procs
<1>3. /\ cptr' = [cptr EXCEPT ![e] = optr[q], ![initproc] = q]
      /\ yptr' = Store([yptr EXCEPT ![q] = NULL], o, q)
      /\ optr' = [optr EXCEPT ![q] = o]
      /\ parent' = [parent EXCEPT ![q] = initproc]
      /\ UNCHANGED <<life, nr_process, exiting>>
  BY <1>0 DEF adopt, Heir, Elder, Adopted
<1>4. /\ HasList(q, optr, yptr, Children(e), e = exiting)
      /\ Children(e) \subseteq Slots /\ q \in Children(e)
      /\ optr[q] \in Children(e) \cup {NULL}
      /\ \A k \in Children(e) : optr[k] # NULL => optr[k] # q
  BY <1>0, <1>2, ChildFacts
<1>5. /\ HasList(o, optr, yptr, Children(initproc), initproc = exiting)
      /\ Children(initproc) \subseteq Slots
      /\ o # NULL => o \in Children(initproc)
  BY <1>0, <1>2, ChildFacts
<1>6. o \in Slots \cup {NULL}
  BY <1>0, <1>1, <1>2 DEF TypeOK
<1>7. TypeOK'
  BY <1>1, <1>2, <1>3, <1>4, <1>6 DEF TypeOK, Store, Procs
<1>8. /\ parent[q] = e /\ Exists(q) /\ q \notin Children(initproc)
      /\ Children(e)' = Children(e) \ {q}
      /\ Children(initproc)' = Children(initproc) \cup {q}
      /\ \A r \in Procs : r # e /\ r # initproc => Children(r)' = Children(r)
  <2>1. parent[q] = e /\ Exists(q) /\ q \notin Children(initproc)
    BY <1>2, <1>4 DEF Children, Exists
  <2>2. \A k \in Slots : k # q => life'[k] = life[k] /\ parent'[k] = parent[k]
    BY <1>1, <1>3 DEF TypeOK, Procs
  <2>3. life'[q] = life[q] /\ parent'[q] = initproc
    BY <1>1, <1>2, <1>3 DEF TypeOK
  <2>4. ASSUME NEW r \in Procs
        PROVE  Children(r)' = (IF r = e THEN Children(r) \ {q}
                               ELSE IF r = initproc THEN Children(r) \cup {q} ELSE Children(r))
    BY <1>2, <2>1, <2>2, <2>3 DEF Children, Exists
  <2> QED BY <1>2, <2>1, <2>4
<1>9. /\ optr'[q] = o /\ yptr'[q] = NULL
      /\ \A k \in Procs \ {q} : optr'[k] = optr[k] /\ yptr'[k] = (IF k = o THEN q ELSE yptr[k])
  <2>1. o # q
    BY <1>2, <1>5, <1>8
  <2> QED BY <1>1, <1>2, <1>3, <1>6, <2>1 DEF TypeOK, Store, Procs
<1>10. ASSUME NEW r \in Procs PROVE HasList(cptr'[r], optr', yptr', Children(r)', r = exiting')
  <2>1. CASE r = e
    <3>1. \A k \in Children(e) : k \in Procs /\ k # o
      BY <1>2, <1>4, <1>5 DEF Children, Procs
    <3>2. TakenOut(q, optr[q], optr, yptr, optr', yptr', Children(e), q, r = exiting')
      <4>1. \A k \in Children(e) \ {q} : optr[k] # q
        BY <1>2, <1>4
      <4>2. r = exiting'
        BY <1>0, <1>3, <2>1
      <4> QED BY <1>9, <3>1, <4>1, <4>2 DEF TakenOut
    <3>3. (e = exiting) => (r = exiting')
      BY <1>0, <1>3, <2>1
    <3>4. HasList(optr[q], optr', yptr', Children(e) \ {q}, r = exiting')
      BY <1>4, <3>2, <3>3, TakeOutFacts
    <3>5. cptr'[r] = optr[q] /\ Children(r)' = Children(e) \ {q}
      BY <1>1, <1>2, <1>3, <1>8, <2>1 DEF TypeOK
    <3> QED BY <3>4, <3>5
  <2>2. CASE r = initproc
    <3>1. \A k \in Children(initproc) : k \in Procs \ {q}
      BY <1>5, <1>8 DEF Procs
    <3>2. Prepended(o, optr, yptr, optr', yptr', Children(initproc), q)
      BY <1>9, <3>1 DEF Prepended
    <3>3. HasList(q, optr', yptr', Children(initproc) \cup {q}, r = exiting')
      BY <1>2, <1>5, <1>8, <3>2, PrependFacts
    <3>4. cptr'[r] = q
      BY <1>1, <1>2, <1>3, <2>2 DEF TypeOK
    <3> QED BY <1>8, <2>2, <3>3, <3>4
  <2>3. CASE r # e /\ r # initproc
    <3>1. cptr'[r] = cptr[r] /\ Children(r)' = Children(r) /\ exiting' = exiting
      BY <1>1, <1>2, <1>3, <1>8, <2>3 DEF TypeOK
    <3>2. HasList(cptr[r], optr, yptr, Children(r), r = exiting) /\ Children(r) \subseteq Slots
      BY ChildFacts
    <3>3. \A k \in Children(r) : k \in Procs \ {q} /\ k # o
      BY <1>2, <1>5, <1>8, <2>3, <3>2 DEF Children, Procs
    <3>4. \A k \in Children(r) : optr'[k] = optr[k] /\ yptr'[k] = yptr[k]
      BY <1>9, <3>3
    <3>5. HasList(cptr[r], optr', yptr', Children(r), r = exiting)
      BY <3>2, <3>4, ListKept
    <3> QED BY <3>1, <3>5
  <2> QED BY <2>1, <2>2, <2>3
<1>11. Chains'
  BY <1>10 DEF Chains, Procs
<1>12. Parents' /\ ExitingOK' /\ Counted'
  BY <1>1, <1>2, <1>3 DEF Parents, ExitingOK, Counted, Exists, Alive, TypeOK, Procs
<1>13. InitClear'
  <2>1. initproc \in Procs \ {q} /\ initproc # o
    BY <1>2, <1>6
  <2> QED BY <1>1, <1>9, <2>1 DEF InitClear
<1>14. Rooted'
  <2> SUFFICES ASSUME NEW S \in SUBSET Slots, S # {}, \A k \in S : Exists(k)'
               PROVE  \E k \in S : parent'[k] \notin S
    BY DEF Rooted
  <2>1. \A k \in S : Exists(k)
    BY <1>3 DEF Exists
  <2>2. PICK k \in S : parent[k] \notin S
    BY <1>1, <2>1 DEF Rooted
  <2>3. parent'[k] \notin S
    <3>1. parent'[k] = (IF k = q THEN initproc ELSE parent[k])
      BY <1>1, <1>2, <1>3 DEF TypeOK, Procs
    <3> QED BY <2>2, <3>1
  <2> QED BY <2>3
<1> QED BY <1>7, <1>11, <1>12, <1>13, <1>14 DEF IInv

LEMMA ReapStep ==
  ASSUME TreeAssumption, IInv, exiting = NULL, NEW q \in Slots, life[q] = "zombie", remove_links(q)
  PROVE  IInv'
<1> USE DEF TreeAssumption
<1>0. PICK p, o, y : p = parent[q] /\ o = optr[q] /\ y = yptr[q]
  OBVIOUS
<1>1. TypeOK /\ Chains /\ Parents /\ ExitingOK /\ InitClear /\ Rooted /\ Counted
  BY DEF IInv
<1>2. /\ p \in Procs /\ q \in Procs /\ Alive(p) /\ ~Alive(q) /\ p # q /\ q # initproc
      /\ NULL \notin Procs /\ q \in Children(p) /\ p # exiting
  BY <1>0, <1>1 DEF Parents, Exists, Alive, Procs, Children
<1>3. /\ yptr' = [Store(yptr, o, y) EXCEPT ![q] = NULL]
      /\ optr' = [Store(optr, y, o) EXCEPT ![q] = NULL]
      /\ cptr' = (IF y = NULL THEN [cptr EXCEPT ![p] = o] ELSE cptr)
      /\ life' = [life EXCEPT ![q] = "none"] /\ parent' = [parent EXCEPT ![q] = NULL]
      /\ nr_process' = nr_process - 1 /\ exiting' = exiting
  BY <1>0 DEF remove_links, NewFirst, Uncount
<1>4. Counted' /\ nr_process' \in Nat
  BY <1>1, <1>3, OneLess DEF TypeOK
<1>5. /\ HasList(cptr[p], optr, yptr, Children(p), p = exiting)
      /\ Children(p) \subseteq Slots
      /\ o \in Children(p) \cup {NULL} /\ o # q
  BY <1>0, <1>2, ChildFacts
<1>6. /\ \A k \in Children(p) : optr[k] # NULL => yptr[optr[k]] = k
      /\ y # NULL => y \in Children(p) /\ optr[y] = q
      /\ y = NULL <=> cptr[p] = q
  BY <1>0, <1>2, SiblingsBack
<1>7. y # q
  <2>1. optr[q] # q
    BY <1>0, <1>5
  <2> QED BY <1>2, <1>6, <2>1
<1>8. o \in Slots \cup {NULL} /\ y \in Slots \cup {NULL} /\ q \in Procs
  BY <1>0, <1>1, <1>2 DEF TypeOK
<1>9. TypeOK'
  BY <1>1, <1>2, <1>3, <1>4, <1>8 DEF TypeOK, Store, Procs
<1>10. \A k \in Procs \ {q} : /\ optr'[k] = (IF k = y THEN o ELSE optr[k])
                              /\ yptr'[k] = (IF k = o THEN y ELSE yptr[k])
  BY <1>1, <1>2, <1>3, <1>8 DEF TypeOK, Store, Procs
<1>11. /\ Children(p)' = Children(p) \ {q} /\ Children(q) = {} /\ Children(q)' = {}
       /\ \A r \in Procs : r # p => Children(r)' = Children(r)
  <2>1. Children(q) = {}
    BY <1>2, NoChildren
  <2>2. \A k \in Slots : k # q => life'[k] = life[k] /\ parent'[k] = parent[k]
    BY <1>1, <1>3 DEF TypeOK, Procs
  <2>3. life'[q] = "none" /\ parent[q] = p
    BY <1>0, <1>1, <1>3 DEF TypeOK
  <2>4. ASSUME NEW r \in Procs PROVE Children(r)' = Children(r) \ {q}
    BY <2>2, <2>3 DEF Children
  <2>5. \A r \in Procs : r # p => q \notin Children(r)
    BY <2>3 DEF Children
  <2> QED BY <1>2, <2>1, <2>4, <2>5
<1>12. ASSUME NEW r \in Procs PROVE HasList(cptr'[r], optr', yptr', Children(r)', r = exiting')
  <2>1. CASE r = p
    <3>1. \A k \in Children(p) \ {q} : k \in Procs \ {q}
      BY <1>5 DEF Procs
    <3>2. cptr'[r] = (IF cptr[p] = q THEN o ELSE cptr[p])
      BY <1>1, <1>2, <1>3, <1>6, <2>1 DEF TypeOK
    <3>3. ASSUME NEW k \in Children(p) PROVE optr[k] = q <=> k = y
      <4>1. k # NULL /\ q # NULL
        BY <1>2, <1>5
      <4>2. optr[k] = q => yptr[q] = k
        BY <1>6, <4>1
      <4> QED BY <1>0, <1>6, <4>1, <4>2
    <3>4. TakenOut(cptr[p], cptr'[r], optr, yptr, optr', yptr', Children(p), q, r = exiting')
      <4>1. \A k \in Children(p) \ {q} : optr'[k] = (IF optr[k] = q THEN optr[q] ELSE optr[k])
        BY <1>0, <1>10, <3>1, <3>3
      <4>2. \A k \in Children(p) \ {q} : k # optr[q] => yptr'[k] = yptr[k]
        BY <1>0, <1>10, <3>1
      <4>3. o # NULL => yptr'[o] = y
        BY <1>5, <1>10, <3>1
      <4> QED BY <1>0, <1>6, <3>2, <4>1, <4>2, <4>3 DEF TakenOut
    <3>5. (p = exiting) => (r = exiting')
      BY <1>2
    <3>6. HasList(cptr'[r], optr', yptr', Children(p) \ {q}, r = exiting')
      BY <1>2, <1>5, <3>4, <3>5, TakeOutFacts
    <3> QED BY <1>11, <2>1, <3>6
  <2>2. CASE r # p
    <3>1. cptr'[r] = cptr[r] /\ Children(r)' = Children(r)
      BY <1>1, <1>2, <1>3, <1>11, <2>2 DEF TypeOK
    <3>2. HasList(cptr[r], optr, yptr, Children(r), r = exiting) /\ Children(r) \subseteq Slots
      BY ChildFacts
    <3>3. \A k \in Children(r) : k \in Procs \ {q} /\ k # o /\ k # y
      <4>1. \A k \in Children(r) : k \notin Children(p) /\ k # NULL
        BY <2>2, <3>2 DEF Children
      <4> QED BY <1>2, <1>5, <1>6, <3>2, <4>1 DEF Procs
    <3>4. \A k \in Children(r) : optr'[k] = optr[k] /\ yptr'[k] = yptr[k]
      BY <1>10, <3>3
    <3>5. HasList(cptr[r], optr', yptr', Children(r), r = exiting)
      BY <3>2, <3>4, ListKept
    <3> QED BY <1>3, <3>1, <3>5
  <2> QED BY <2>1, <2>2
<1>13. Chains'
  BY <1>12 DEF Chains, Procs
<1>14. Parents'
  <2> SUFFICES ASSUME NEW k \in Slots, Exists(k)'
               PROVE  (parent[k] \in Procs /\ (Alive(parent[k]) \/ parent[k] = exiting))'
    BY DEF Parents, Procs
  <2>1. Exists(k) /\ parent'[k] = parent[k]
    BY <1>1, <1>3 DEF Exists, TypeOK, Procs
  <2>2. parent[k] \in Procs /\ (Alive(parent[k]) \/ parent[k] = exiting)
    BY <1>1, <2>1 DEF Parents
  <2> QED BY <1>1, <1>2, <1>3, <2>1, <2>2 DEF Alive, TypeOK, Procs
<1>15. ExitingOK' /\ InitClear'
  <2>1. initproc \in Procs \ {q} /\ initproc # o /\ initproc # y
    BY <1>2, <1>8 DEF Procs
  <2> QED BY <1>1, <1>3, <1>10, <2>1 DEF InitClear, ExitingOK
<1>16. Rooted'
  <2> SUFFICES ASSUME NEW S \in SUBSET Slots, S # {}, \A k \in S : Exists(k)'
               PROVE  \E k \in S : parent'[k] \notin S
    BY DEF Rooted
  <2>1. \A k \in S : Exists(k) /\ parent'[k] = parent[k]
    BY <1>1, <1>3 DEF Exists, TypeOK, Procs
  <2>2. PICK k \in S : parent[k] \notin S
    BY <1>1, <2>1 DEF Rooted
  <2> QED BY <2>1, <2>2
<1> QED BY <1>4, <1>9, <1>13, <1>14, <1>15, <1>16 DEF IInv

\* do_wait(0) walks over children only.
LEMMA WalkFacts ==
  ASSUME TreeAssumption, IInv, NEW p \in Procs, NEW s \in Walks(p)
  PROVE  Len(s) \in Nat /\ Len(s) # 0 /\ \A i \in 1 .. Len(s) : s[i] \in Children(p)
<1>1. /\ Children(p) \subseteq Slots /\ NULL \notin Slots
      /\ cptr[p] # NULL => cptr[p] \in Children(p)
      /\ \A k \in Children(p) : optr[k] \in Children(p) \cup {NULL}
  BY ChildFacts DEF TreeAssumption
<1>2. PICK m \in Nat : s \in [1 .. m -> Slots]
  BY DEF Walks, SeqOf
<1>3. Len(s) = m /\ DOMAIN s = 1 .. m
  BY <1>2
<1>4. s # <<>> /\ s[1] = cptr[p] /\ \A i \in 1 .. (m - 1) : s[i + 1] = optr[s[i]]
  BY <1>3 DEF Walks
<1>5. m # 0
  BY <1>2, <1>4
<1> DEFINE B == {i \in 1 .. m : s[i] \notin Children(p)}
<1>6. SUFFICES ASSUME B # {} PROVE FALSE
  BY <1>3, <1>5
<1>7. B \subseteq Nat
  BY <1>2
<1>8. PICK n \in B : \A k \in B : ~(k < n)
  <2>1. \E n \in B : \A k \in B : <<k, n>> \notin OpToRel(<, Nat)
    BY <1>6, <1>7, WFMin, NatLessThanWellFounded
  <2> QED BY <1>7, <2>1 DEF OpToRel
<1>9. CASE n = 1
  BY <1>1, <1>2, <1>4, <1>5, <1>8, <1>9
<1>10. CASE n # 1
  <2>1. n - 1 \in 1 .. (m - 1) /\ (n - 1) + 1 = n /\ n - 1 \in 1 .. m /\ n - 1 < n /\ n \in 1 .. m
    BY <1>2, <1>8, <1>10
  <2>2. n - 1 \notin B
    BY <1>8, <2>1
  <2>3. s[n - 1] \in Children(p) /\ s[n] = optr[s[n - 1]] /\ s[n] \in Slots
    BY <1>2, <1>4, <2>1, <2>2
  <2> QED BY <1>1, <1>8, <2>3
<1> QED BY <1>9, <1>10

\* Either way of waiting removes a zombie child of the waiting process.
LEMMA WaitFacts ==
  ASSUME TreeAssumption, IInv, NEW p \in Procs, wait_any(p)
  PROVE  \E q \in Slots : wait_pid(p, q)
<1>1. PICK s \in Walks(p) : /\ \A i \in 1 .. Len(s) : (life[s[i]] = "zombie") <=> (i = Len(s))
                            /\ remove_links(s[Len(s)])
  BY DEF wait_any
<1>2. Len(s) \in 1 .. Len(s) /\ s[Len(s)] \in Children(p)
  <2>1. Len(s) \in Nat /\ Len(s) # 0 /\ \A i \in 1 .. Len(s) : s[i] \in Children(p)
    BY WalkFacts
  <2> QED BY <2>1
<1>3. PICK q : q = s[Len(s)]
  OBVIOUS
<1>4. life[q] = "zombie" /\ remove_links(q) /\ q \in Slots /\ parent[q] = p
  BY <1>1, <1>2, <1>3 DEF Children
<1>5. wait_pid(p, q)
  BY <1>4 DEF wait_any, wait_pid
<1> QED BY <1>4, <1>5

LEMMA NextIInv == ASSUME TreeAssumption, IInv, [Next]_vars PROVE IInv'
<1>1. ASSUME NEW p \in Procs, NEW q \in Slots, wait_pid(p, q) PROVE IInv'
  BY <1>1, ReapStep DEF wait_pid
<1>2. ASSUME NEW p \in Procs, wait_any(p) PROVE IInv'
  BY <1>1, <1>2, WaitFacts
<1>3. CASE UNCHANGED vars
  BY <1>3 DEF vars, IInv, TypeOK, Chains, Children, Parents, Alive, ExitingOK, InitClear, Rooted,
              Counted, Exists, Procs
<1> QED BY <1>1, <1>2, <1>3, ForkStep, ExitStep, AdoptStep, ExitDoneStep DEF Next

-----------------------------------------------------------------------------
(* Theorems *)

\* If init has no child and nobody is in do_exit's loop, nobody is left.
LEMMA AloneFacts ==
  ASSUME TreeAssumption, IInv, Children(initproc) = {}, exiting = NULL
  PROVE  \A q \in Slots : ~Exists(q)
<1> DEFINE T == {q \in Slots : Exists(q)}
<1> SUFFICES ASSUME T # {} PROVE FALSE
  OBVIOUS
<1>1. T \in SUBSET Slots /\ \A q \in T : Exists(q)
  OBVIOUS
<1>2. PICK q \in T : parent[q] \notin T
  BY <1>1 DEF IInv, Rooted
<1>3. parent[q] \in Procs /\ Alive(parent[q]) /\ parent[q] # initproc
  BY <1>2 DEF IInv, Parents, Children, Exists, TreeAssumption, Procs
<1>4. parent[q] \in Slots /\ Exists(parent[q])
  BY <1>3 DEF Procs, Alive, Exists
<1> QED BY <1>2, <1>4

LEMMA IInvTreeExact == ASSUME TreeAssumption, IInv PROVE TreeExact
<1>1. TypeOK
  BY DEF IInv
<1>2. ChainIsChildren
  <2> SUFFICES ASSUME NEW p \in Procs PROVE \E s \in SetToSeqs(Children(p)) : Lists(s, cptr[p])
    BY DEF ChainIsChildren
  <2>1. HasList(cptr[p], optr, yptr, Children(p), p = exiting)
    BY ChildFacts
  <2> QED BY <2>1, ListIsOrder
<1>3. SiblingsAgree
  <2> SUFFICES ASSUME NEW q \in Slots, exiting = NULL, Exists(q)
               PROVE  /\ optr[q] # NULL => yptr[optr[q]] = q /\ parent[optr[q]] = parent[q]
                      /\ yptr[q] # NULL => optr[yptr[q]] = q
                      /\ yptr[q] = NULL <=> cptr[parent[q]] = q
    BY DEF SiblingsAgree, Exists
  <2>1. PICK p \in Procs : p = parent[q]
    BY DEF IInv, Parents
  <2>2. q \in Children(p) /\ p # exiting
    BY <2>1 DEF Children, Exists, TreeAssumption, Procs
  <2>3. /\ optr[q] # NULL => yptr[optr[q]] = q
        /\ yptr[q] # NULL => optr[yptr[q]] = q
        /\ yptr[q] = NULL <=> cptr[p] = q
    BY <2>2, SiblingsBack
  <2>4. optr[q] # NULL => optr[q] \in Children(p)
    BY <2>2, ChildFacts
  <2> QED BY <2>1, <2>3, <2>4 DEF Children
<1>4. InitMainAsserts
  <2> SUFFICES ASSUME Children(initproc) = {}, exiting = NULL
               PROVE  /\ cptr[initproc] = NULL /\ yptr[initproc] = NULL /\ optr[initproc] = NULL
                      /\ nr_process = 2
    BY DEF InitMainAsserts
  <2>1. cptr[initproc] = NULL
    BY ChildFacts DEF Procs
  <2>2. Cardinality({q \in Slots : Exists(q)}) = 0
    <3>1. {q \in Slots : Exists(q)} = {}
      BY AloneFacts
    <3> QED BY <3>1, FS_EmptySet
  <2>3. nr_process = 2
    BY <2>2 DEF IInv, Counted
  <2> QED BY <2>1, <2>3 DEF IInv, InitClear
<1> QED BY <1>1, <1>2, <1>3, <1>4 DEF TreeExact

LEMMA AlwaysIInv == ASSUME TreeAssumption PROVE Spec => []IInv
BY InitIInv, NextIInv, PTL DEF Spec

\* The process tree is right between any two steps of set_links, of the loop of
\* do_exit and of remove_links: do_wait(0) meets every child, once, and nobody
\* else, the sibling pointers undo each other, and what init_main asserts holds
\* when init has no child left.
THEOREM TreeAlwaysExact == ASSUME TreeAssumption PROVE Spec => []TreeExact
BY AlwaysIInv, IInvTreeExact, PTL

-----------------------------------------------------------------------------
(* The refinement of Family *)

\* Whose child q is for Family.
Shown(q) == IF life[q] = "none" \/ ~Alive(parent[q]) THEN initproc ELSE parent[q]

LEMMA FamilyStep == ASSUME TreeAssumption, IInv, [Next]_vars PROVE [F!Next]_F!vars
<1> USE DEF TreeAssumption
<1>1. TypeOK /\ Parents /\ ExitingOK
  BY DEF IInv
<1>2. [q \in Slots |-> IF life[q] = "none" \/ ~Alive(parent[q]) THEN initproc ELSE parent[q]]
        = [q \in Slots |-> Shown(q)]
  BY DEF Shown
<1>3. ASSUME NEW p \in Procs, NEW q \in Slots, set_links(p, q) PROVE F!Fork(p, q)
  <2>1. /\ life[q] = "none" /\ life' = [life EXCEPT ![q] = "live"] /\ Alive(p)
        /\ parent' = [parent EXCEPT ![q] = p] /\ exiting = NULL /\ p # q
    BY <1>3 DEF set_links, Alive
  <2>2. Children(q) = {}
    BY <2>1, NoChildren DEF Alive, Procs
  <2>3. ASSUME NEW k \in Slots PROVE Shown(k)' = (IF k = q THEN p ELSE Shown(k))
    <3>1. CASE k = q
      BY <1>1, <2>1, <3>1 DEF Shown, Alive, TypeOK, Procs
    <3>2. CASE k # q
      <4>1. life'[k] = life[k] /\ parent'[k] = parent[k]
        BY <1>1, <2>1, <3>2 DEF TypeOK, Procs
      <4>2. CASE life[k] = "none"
        BY <3>2, <4>1, <4>2 DEF Shown
      <4>3. CASE life[k] # "none"
        <5>1. parent[k] # q
          BY <2>2, <4>3 DEF Children
        <5>2. Alive(parent[k])' <=> Alive(parent[k])
          BY <1>1, <2>1, <4>1, <5>1 DEF Alive, TypeOK, Procs
        <5> QED BY <3>2, <4>1, <5>2 DEF Shown
      <4> QED BY <4>2, <4>3
    <3> QED BY <3>1, <3>2
  <2>4. [k \in Slots |-> Shown(k)]' = [[k \in Slots |-> Shown(k)] EXCEPT ![q] = p]
    BY <2>3
  <2> QED BY <2>1, <2>4 DEF F!Fork, F!Alive, Alive, Shown
<1>4. ASSUME NEW p \in Slots, do_exit(p) PROVE F!Exit(p)
  <2>1. /\ life[p] = "live" /\ life' = [life EXCEPT ![p] = "zombie"] /\ parent' = parent
        /\ p # initproc
    BY <1>4 DEF do_exit
  <2>2. ASSUME NEW k \in Slots PROVE Shown(k)' = (IF Shown(k) = p THEN initproc ELSE Shown(k))
    BY <1>1, <2>1 DEF Shown, Alive, TypeOK, Procs
  <2> QED BY <2>1, <2>2 DEF F!Exit, Shown
<1>5. ASSUME adopt PROVE UNCHANGED F!vars
  <2>1. PICK q \in Slots : q = cptr[exiting]
    BY <1>1, <1>5 DEF adopt, TypeOK, Procs
  <2>2. /\ life' = life /\ parent' = [parent EXCEPT ![q] = initproc]
        /\ exiting \in Slots /\ life[exiting] = "zombie"
    BY <1>1, <1>5, <2>1 DEF adopt, Heir, ExitingOK, TypeOK
  <2>3. parent[q] = exiting
    <3>1. exiting \in Procs /\ cptr[exiting] # NULL
      BY <1>5, <2>2 DEF adopt, Procs
    <3>2. q \in Children(exiting)
      BY <2>1, <3>1, ChildFacts
    <3> QED BY <3>2 DEF Children
  <2>4. ASSUME NEW k \in Slots PROVE Shown(k)' = Shown(k)
    BY <1>1, <2>1, <2>2, <2>3 DEF Shown, Alive, TypeOK, Procs
  <2>5. [k \in Slots |-> Shown(k)]' = [k \in Slots |-> Shown(k)]
    BY <2>4
  <2> QED BY <2>2, <2>5 DEF F!vars, Shown
<1>6. ASSUME NEW p \in Procs, NEW q \in Slots, wait_pid(p, q) PROVE F!Reap(p, q)
  <2>1. /\ life[q] = "zombie" /\ life' = [life EXCEPT ![q] = "none"] /\ Alive(p)
        /\ parent' = [parent EXCEPT ![q] = NULL] /\ parent[q] = p
    BY <1>6 DEF wait_pid, remove_links
  <2>2. Shown(q) = p
    BY <2>1 DEF Shown
  <2>3. ASSUME NEW k \in Slots PROVE Shown(k)' = (IF k = q THEN initproc ELSE Shown(k))
    BY <1>1, <2>1 DEF Shown, Alive, TypeOK, Procs
  <2>4. [k \in Slots |-> Shown(k)]' = [[k \in Slots |-> Shown(k)] EXCEPT ![q] = initproc]
    BY <2>3
  <2> QED BY <2>1, <2>2, <2>4 DEF F!Reap, F!Alive, Alive, Shown
<1>7. ASSUME NEW p \in Procs, wait_any(p) PROVE \E q \in Slots : F!Reap(p, q)
  BY <1>6, <1>7, WaitFacts
<1>8. CASE exit_done \/ UNCHANGED vars
  BY <1>8 DEF exit_done, vars, F!vars, Alive
<1>9. CASE Next
  <2>1. CASE \E p \in Procs, q \in Slots : set_links(p, q) \/ wait_pid(p, q)
    BY <1>3, <1>6, <2>1 DEF F!Next, Procs
  <2>2. CASE \E p \in Procs : wait_any(p)
    BY <1>7, <2>2 DEF F!Next, Procs
  <2>3. CASE \E p \in Slots : do_exit(p)
    BY <1>4, <2>3 DEF F!Next
  <2> QED BY <1>5, <1>8, <1>9, <2>1, <2>2, <2>3 DEF Next
<1> QED BY <1>8, <1>9

\* What the pointers say implements Family: a child belongs to the process that
\* forked it until that process enters do_exit, and to init from then on, and
\* remove_links only ever takes out a child of the process that waits.
THEOREM TreeIsFamily == ASSUME TreeAssumption PROVE Spec => ImplementsFamily
<1>1. Init => F!Init
  BY DEF Init, F!Init
<1>2. IInv /\ [Next]_vars => [F!Next]_F!vars
  BY FamilyStep
<1> QED BY <1>1, <1>2, AlwaysIInv, PTL DEF Spec, ImplementsFamily, F!Spec

-----------------------------------------------------------------------------
(* The list of timers: sums along it *)

\* u is the running sums of the entries e of the list s.
Sums(u, s, e) == u = [k \in 0 .. Len(s) |-> IF k = 0 THEN 0 ELSE u[k - 1] + e[s[k]]]
SumsOf(s, e) == CHOOSE u : Sums(u, s, e)

LEMMA SumsStep ==
  ASSUME NEW s \in Seq(Sleepers), NEW e, NEW u, Sums(u, s, e)
  PROVE  /\ u = [k \in 0 .. Len(s) |-> u[k]]
         /\ u[0] = 0
         /\ \A k \in 1 .. Len(s) : u[k] = u[k - 1] + e[s[k]]
<1>1. Len(s) \in Nat
  OBVIOUS
<1>2. DOMAIN u = 0 .. Len(s) /\ \A k \in 0 .. Len(s) : u[k] = IF k = 0 THEN 0 ELSE u[k - 1] + e[s[k]]
  BY Zenon DEF Sums
<1>3. u = [k \in 0 .. Len(s) |-> u[k]]
  BY <1>2, Zenon DEF Sums
<1>4. 0 \in 0 .. Len(s) /\ \A k \in 1 .. Len(s) : k \in 0 .. Len(s) /\ k # 0
  BY <1>1
<1> QED BY <1>2, <1>3, <1>4, Zenon

LEMMA StepSums ==
  ASSUME NEW s \in Seq(Sleepers), NEW e, NEW u, u = [k \in 0 .. Len(s) |-> u[k]], u[0] = 0,
         \A k \in 1 .. Len(s) : u[k] = u[k - 1] + e[s[k]]
  PROVE  Sums(u, s, e)
<1> SUFFICES ASSUME NEW k \in 0 .. Len(s) PROVE u[k] = IF k = 0 THEN 0 ELSE u[k - 1] + e[s[k]]
  BY Zenon DEF Sums
<1>1. k = 0 \/ k \in 1 .. Len(s)
  OBVIOUS
<1> QED BY <1>1, Zenon

LEMMA SumsExist ==
  ASSUME NEW s \in Seq(Sleepers), NEW e \in [Sleepers -> Nat]
  PROVE  SumsOf(s, e) \in [0 .. Len(s) -> Nat] /\ Sums(SumsOf(s, e), s, e)
<1> DEFINE n == Len(s)
           G == [k \in 1 .. n |-> [x \in Nat |-> x + e[s[k]]]]
<1>1. n \in Nat /\ \A k \in 1 .. n : s[k] \in Sleepers /\ e[s[k]] \in Nat
  OBVIOUS
<1>2. G \in [1 .. n -> [Nat -> Nat]]
  BY <1>1
<1>3. PICK u \in [0 .. n -> Nat] : IsLoop(u, n, 0, G)
  <2> HIDE DEF G, n
  <2> QED BY <1>1, <1>2, LoopRuns
<1>4. Sums(u, s, e)
  <2> SUFFICES ASSUME NEW k \in 0 .. n PROVE u[k] = IF k = 0 THEN 0 ELSE u[k - 1] + e[s[k]]
    BY DEF Sums
  <2>1. u[k] = IF k = 0 THEN 0 ELSE G[k][u[k - 1]]
    BY <1>3 DEF IsLoop
  <2>2. CASE k # 0
    <3>1. k \in 1 .. n /\ k - 1 \in 0 .. n
      BY <1>1, <2>2
    <3>2. u[k - 1] \in Nat
      BY <3>1
    <3> QED BY <2>1, <2>2, <3>1, <3>2
  <2> QED BY <2>1, <2>2
<1>5. Sums(SumsOf(s, e), s, e)
  BY <1>4 DEF SumsOf
<1>6. PICK v : v = SumsOf(s, e)
  OBVIOUS
<1>7. v = [k \in 0 .. n |-> v[k]] /\ v[0] = 0 /\ \A k \in 1 .. n : v[k] = v[k - 1] + e[s[k]]
  BY <1>5, <1>6, SumsStep
<1> DEFINE S == {k \in Nat : v[k] \in Nat}
<1>8. 0 \in S
  BY <1>7
<1>9. ASSUME NEW k \in 1 .. n, k - 1 \in S PROVE k \in S
  <2>1. v[k - 1] \in Nat
    BY <1>9
  <2>2. v[k] = v[k - 1] + e[s[k]]
    BY <1>7, Zenon
  <2>3. e[s[k]] \in Nat /\ k \in Nat
    BY <1>1
  <2> QED BY <2>1, <2>2, <2>3
<1>10. 0 .. n \subseteq S
  <2> HIDE DEF S, n
  <2> QED BY <1>1, <1>8, <1>9, LoopInduction
<1>11. v \in [0 .. n -> Nat]
  BY <1>7, <1>10
<1> QED BY <1>5, <1>6, <1>11

LEMMA SumsUnique ==
  ASSUME NEW s \in Seq(Sleepers), NEW e \in [Sleepers -> Nat], NEW u, Sums(u, s, e)
  PROVE  SumsOf(s, e) = u
<1> DEFINE n == Len(s)
<1>1. PICK v : v = SumsOf(s, e)
  OBVIOUS
<1>2. n \in Nat
  OBVIOUS
<1>3. v = [k \in 0 .. n |-> v[k]] /\ v[0] = 0 /\ \A k \in 1 .. n : v[k] = v[k - 1] + e[s[k]]
  <2>1. Sums(v, s, e)
    BY <1>1, SumsExist
  <2> QED BY <2>1, SumsStep
<1>4. u = [k \in 0 .. n |-> u[k]] /\ u[0] = 0 /\ \A k \in 1 .. n : u[k] = u[k - 1] + e[s[k]]
  BY SumsStep
<1> DEFINE S == {k \in Nat : v[k] = u[k]}
<1>5. 0 \in S
  BY <1>3, <1>4
<1>6. ASSUME NEW k \in 1 .. n, k - 1 \in S PROVE k \in S
  <2>1. v[k - 1] = u[k - 1]
    BY <1>6
  <2>2. v[k] = v[k - 1] + e[s[k]] /\ u[k] = u[k - 1] + e[s[k]]
    BY <1>3, <1>4, Zenon
  <2>3. k \in Nat
    BY <1>2
  <2> QED BY <2>1, <2>2, <2>3
<1>7. 0 .. n \subseteq S
  <2> HIDE DEF S, n
  <2> QED BY <1>2, <1>5, <1>6, LoopInduction
<1>8. \A k \in 0 .. n : v[k] = u[k]
  BY <1>7
<1> QED BY <1>1, <1>3, <1>4, <1>8, Zenon

\* The sums grow along the list.
LEMMA SumsGrow ==
  ASSUME NEW s \in Seq(Sleepers), NEW e \in [Sleepers -> Nat]
  PROVE  \A j, k \in 0 .. Len(s) : j <= k => SumsOf(s, e)[j] <= SumsOf(s, e)[k]
<1> DEFINE n == Len(s)
<1>1. PICK v : v = SumsOf(s, e)
  OBVIOUS
<1>2. n \in Nat /\ \A k \in 1 .. n : e[s[k]] \in Nat
  OBVIOUS
<1>3. v \in [0 .. n -> Nat] /\ \A k \in 1 .. n : v[k] = v[k - 1] + e[s[k]]
  BY <1>1, SumsExist, SumsStep
<1> SUFFICES ASSUME NEW j \in 0 .. n PROVE \A k \in 0 .. n : j <= k => v[j] <= v[k]
  BY <1>1
<1> DEFINE S == {i \in Nat : j <= i => v[j] <= v[i]}
<1>4. 0 \in S
  BY <1>2, <1>3
<1>5. ASSUME NEW i \in 1 .. n, i - 1 \in S PROVE i \in S
  <2>0. i - 1 \in 0 .. n /\ i \in Nat
    BY <1>2
  <2>1. v[j] \in Nat /\ v[i - 1] \in Nat /\ v[i] = v[i - 1] + e[s[i]] /\ e[s[i]] \in Nat
    BY <1>2, <1>3, <2>0
  <2>2. CASE j <= i - 1
    BY <1>5, <2>0, <2>1, <2>2
  <2>3. CASE ~(j <= i - 1)
    <3>1. j = i \/ ~(j <= i)
      BY <2>3, <1>2
    <3> QED BY <2>0, <2>1, <3>1
  <2> QED BY <2>2, <2>3
<1>6. 0 .. n \subseteq S
  <2> HIDE DEF S, n
  <2> QED BY <1>2, <1>4, <1>5, LoopInduction
<1> QED BY <1>6

\* What the changes of the list rest on.
Running(u, s, e, n) ==
  u \in [0 .. n -> Nat] /\ u[0] = 0 /\ \A i \in 1 .. n : u[i] = u[i - 1] + e[s[i]]

LEMMA SumsFacts ==
  ASSUME NEW s \in Seq(Sleepers), NEW e \in [Sleepers -> Nat]
  PROVE  Running(SumsOf(s, e), s, e, Len(s))
<1>1. PICK u : u = SumsOf(s, e)
  OBVIOUS
<1>2. u \in [0 .. Len(s) -> Nat] /\ Sums(u, s, e)
  BY <1>1, SumsExist
<1>3. u[0] = 0 /\ \A i \in 1 .. Len(s) : u[i] = u[i - 1] + e[s[i]]
  <2>1. Sums(u, s, e)
    BY <1>2
  <2>2. u = [k \in 0 .. Len(s) |-> u[k]] /\ u[0] = 0 /\ \A i \in 1 .. Len(s) : u[i] = u[i - 1] + e[s[i]]
    BY <2>1, SumsStep
  <2> QED BY <2>2, Zenon
<1>4. Running(u, s, e, Len(s))
  BY <1>2, <1>3, Zenon DEF Running
<1> QED BY <1>1, <1>4, Zenon

LEMMA EntryFacts ==
  ASSUME NEW s \in Seq(Sleepers), IsInjective(s), NEW e \in [Sleepers -> Nat],
         NEW n \in Nat, n = Len(s)
  PROVE  /\ \A i \in 1 .. n : s[i] \in Sleepers /\ e[s[i]] \in Nat
         /\ \A i, j \in 1 .. n : s[i] = s[j] => i = j
<1>1. DOMAIN s = 1 .. n /\ \A i \in 1 .. n : s[i] \in Sleepers
  OBVIOUS
<1>2. \A i, j \in 1 .. n : s[i] = s[j] => i = j
  BY <1>1, Zenon DEF IsInjective
<1> QED BY <1>1, <1>2

-----------------------------------------------------------------------------
(* The sums after a change of the list *)

\* A new entry p before the k-th one with t ticks up to it: add_timer.
Inserted(s, e, u, k, p, t) ==
  [q \in Sleepers |-> IF q = p THEN t - u[k - 1]
                      ELSE IF k <= Len(s) /\ q = s[k] THEN e[q] - (t - u[k - 1]) ELSE e[q]]

SumsWith(u, k, t, n) == [i \in 0 .. n |-> IF i < k THEN u[i] ELSE IF i = k THEN t ELSE u[i - 1]]

\* t lies between the sums around k.
Fits(u, k, t, n) == u[k - 1] <= t /\ (k <= n => t < u[k])

LEMMA InsertSums ==
  ASSUME NEW s \in Seq(Sleepers), IsInjective(s), NEW e \in [Sleepers -> Nat],
         NEW k \in 1 .. (Len(s) + 1), NEW p \in Sleepers, p \notin Range(s), NEW t \in Nat,
         NEW u, u = SumsOf(s, e), Fits(u, k, t, Len(s)),
         NEW r \in Seq(Sleepers), With(s, k, p, r), NEW e2, e2 = Inserted(s, e, u, k, p, t)
  PROVE  /\ e2 \in [Sleepers -> Nat]
         /\ SumsOf(r, e2) = SumsWith(u, k, t, Len(r))
<1>1. PICK n \in Nat : n = Len(s) /\ Len(r) = n + 1 /\ DOMAIN s = 1 .. n
  BY DEF With
<1>2. /\ u \in [0 .. n -> Nat] /\ u[0] = 0 /\ \A i \in 1 .. n : u[i] = u[i - 1] + e[s[i]]
  <2>1. Running(SumsOf(s, e), s, e, Len(s))
    BY SumsFacts
  <2>2. Running(u, s, e, n)
    BY <1>1, <2>1, Zenon
  <2> QED BY <2>2, Zenon DEF Running
<1>3. /\ \A i \in 1 .. (n + 1) : r[i] = (IF i < k THEN s[i] ELSE IF i = k THEN p ELSE s[i - 1])
      /\ \A i \in 1 .. n : s[i] \in Sleepers /\ e[s[i]] \in Nat /\ s[i] # p
      /\ \A i, j \in 1 .. n : s[i] = s[j] => i = j
  <2>1. /\ \A i \in 1 .. n : s[i] \in Sleepers /\ e[s[i]] \in Nat
        /\ \A i, j \in 1 .. n : s[i] = s[j] => i = j
    BY <1>1, EntryFacts
  <2>2. \A i \in 1 .. n : s[i] # p
    BY <1>1, Zenon DEF Range
  <2>3. \A i \in 1 .. (n + 1) : r[i] = (IF i < k THEN s[i] ELSE IF i = k THEN p ELSE s[i - 1])
    BY <1>1, Zenon DEF With
  <2> QED BY <2>1, <2>2, <2>3
<1>4. k - 1 \in 0 .. n /\ u[k - 1] \in Nat /\ u[k - 1] <= t
  <2>1. k - 1 \in 0 .. n
    BY <1>1
  <2> QED BY <1>2, <2>1 DEF Fits
<1>5. \A q \in Sleepers : e2[q] = IF q = p THEN t - u[k - 1]
                      ELSE IF k <= n /\ q = s[k] THEN e[q] - (t - u[k - 1]) ELSE e[q]
  BY <1>1 DEF Inserted
<1>6. k <= n => t < u[k] /\ u[k] = u[k - 1] + e[s[k]] /\ k \in 1 .. n
  BY <1>1, <1>2 DEF Fits
<1>7. \A q \in Sleepers : e2[q] \in Nat
  <2> SUFFICES ASSUME NEW q \in Sleepers PROVE e2[q] \in Nat
    OBVIOUS
  <2>1. e[q] \in Nat
    OBVIOUS
  <2>2. CASE q = p
    BY <1>4, <1>5, <2>2
  <2>3. CASE q # p /\ k <= n /\ q = s[k]
    BY <1>4, <1>5, <1>6, <2>1, <2>3
  <2> QED BY <1>5, <2>1, <2>2, <2>3
<1>8. e2 \in [Sleepers -> Nat]
  BY <1>7 DEF Inserted
<1> DEFINE f == SumsWith(u, k, t, Len(r))
<1>9. \A i \in 0 .. (n + 1) : f[i] = IF i < k THEN u[i] ELSE IF i = k THEN t ELSE u[i - 1]
  BY <1>1 DEF SumsWith
<1>10. f = [i \in 0 .. Len(r) |-> f[i]] /\ f[0] = 0
  BY <1>1, <1>2 DEF SumsWith
<1> HIDE DEF f
<1>11. ASSUME NEW i \in 1 .. (n + 1) PROVE f[i] = f[i - 1] + e2[r[i]]
  <2>1. i \in 0 .. (n + 1) /\ i - 1 \in 0 .. (n + 1)
    OBVIOUS
  <2>2. CASE i < k
    <3>1. i \in 1 .. n /\ f[i] = u[i] /\ f[i - 1] = u[i - 1] /\ r[i] = s[i]
      <4>1. i \in 1 .. n /\ i - 1 < k
        BY <1>1, <2>2
      <4> QED BY <1>3, <1>9, <2>1, <2>2, <4>1
    <3>2. k <= n => s[i] # s[k]
      BY <1>3, <1>6, <2>2, <3>1
    <3>3. e2[s[i]] = e[s[i]]
      BY <1>3, <1>5, <3>1, <3>2
    <3> QED BY <1>2, <3>1, <3>3
  <2>3. CASE i = k
    <3>1. f[i] = t /\ f[i - 1] = u[k - 1] /\ r[i] = p
      <4>1. i - 1 < k /\ ~(i < k) /\ i - 1 = k - 1
        BY <1>1, <2>3
      <4> QED BY <1>3, <1>9, <2>1, <2>3, <4>1
    <3>2. e2[p] = t - u[k - 1]
      BY <1>5
    <3> QED BY <1>4, <3>1, <3>2
  <2>4. CASE i = k + 1
    <3>1. k \in 1 .. n /\ f[i] = u[k] /\ f[i - 1] = t /\ r[i] = s[k]
      <4>1. ~(i < k) /\ i # k /\ ~(i - 1 < k) /\ i - 1 = k /\ k \in 1 .. n
        BY <1>1, <2>4
      <4> QED BY <1>3, <1>9, <2>1, <4>1
    <3>2. e2[s[k]] = e[s[k]] - (t - u[k - 1])
      BY <1>1, <1>3, <1>5, <3>1
    <3>3. e[s[k]] \in Nat
      BY <1>3, <3>1
    <3>4. u[k] = u[k - 1] + e[s[k]]
      BY <1>2, <3>1
    <3> QED BY <1>4, <3>1, <3>2, <3>3, <3>4
  <2>5. CASE i > k + 1
    <3>1. /\ i - 1 \in 1 .. n /\ f[i] = u[i - 1] /\ f[i - 1] = u[(i - 1) - 1] /\ r[i] = s[i - 1]
          /\ i - 1 # k
      <4>1. ~(i < k) /\ i # k /\ ~(i - 1 < k) /\ i - 1 # k /\ i - 1 \in 1 .. n
        BY <1>1, <2>5
      <4> QED BY <1>3, <1>9, <2>1, <4>1
    <3>2. k <= n => s[i - 1] # s[k]
      BY <1>3, <1>6, <3>1
    <3>3. e2[s[i - 1]] = e[s[i - 1]]
      BY <1>3, <1>5, <3>1, <3>2
    <3> QED BY <1>2, <3>1, <3>3
  <2>6. i < k \/ i = k \/ i = k + 1 \/ i > k + 1
    BY <1>1
  <2> QED BY <2>2, <2>3, <2>4, <2>5, <2>6
<1>12. Sums(f, r, e2)
  BY <1>1, <1>10, <1>11, StepSums
<1>13. SumsOf(r, e2) = f
  BY <1>8, <1>12, SumsUnique
<1> QED BY <1>8, <1>13 DEF f

\* The k-th entry goes and leaves its ticks to the next: del_timer.
Deleted(s, e, k) ==
  [q \in Sleepers |-> IF k < Len(s) /\ q = s[k + 1] THEN e[q] + e[s[k]] ELSE e[q]]

SumsWithout(u, k, n) == [i \in 0 .. n |-> IF i < k THEN u[i] ELSE u[i + 1]]

LEMMA DeleteSums ==
  ASSUME NEW s \in Seq(Sleepers), IsInjective(s), NEW e \in [Sleepers -> Nat], NEW k \in 1 .. Len(s),
         NEW u, u = SumsOf(s, e), NEW r \in Seq(Sleepers), Without(s, k, r),
         NEW e2, e2 = Deleted(s, e, k)
  PROVE  /\ e2 \in [Sleepers -> Nat]
         /\ SumsOf(r, e2) = SumsWithout(u, k, Len(r))
<1>1. PICK n \in Nat : n = Len(s) /\ Len(r) = n - 1 /\ DOMAIN s = 1 .. n /\ n # 0
  <2>1. Len(s) \in Nat /\ Len(s) # 0 /\ Len(r) \in Nat /\ DOMAIN r = 1 .. Len(r)
    OBVIOUS
  <2>2. Len(r) = Len(s) - 1
    BY <2>1 DEF Without
  <2> QED BY <2>1, <2>2
<1>2. /\ u \in [0 .. n -> Nat] /\ u[0] = 0 /\ \A i \in 1 .. n : u[i] = u[i - 1] + e[s[i]]
  <2>1. Running(SumsOf(s, e), s, e, Len(s))
    BY SumsFacts
  <2>2. Running(u, s, e, n)
    BY <1>1, <2>1, Zenon
  <2> QED BY <2>2, Zenon DEF Running
<1>3. /\ \A i \in 1 .. (n - 1) : r[i] = (IF i < k THEN s[i] ELSE s[i + 1])
      /\ \A i \in 1 .. n : s[i] \in Sleepers /\ e[s[i]] \in Nat
      /\ \A i, j \in 1 .. n : s[i] = s[j] => i = j
  <2>1. /\ \A i \in 1 .. n : s[i] \in Sleepers /\ e[s[i]] \in Nat
        /\ \A i, j \in 1 .. n : s[i] = s[j] => i = j
    BY <1>1, EntryFacts
  <2>2. \A i \in 1 .. (n - 1) : r[i] = (IF i < k THEN s[i] ELSE s[i + 1])
    BY <1>1, Zenon DEF Without
  <2> QED BY <2>1, <2>2
<1>4. \A q \in Sleepers : e2[q] = IF k < n /\ q = s[k + 1] THEN e[q] + e[s[k]] ELSE e[q]
  BY <1>1 DEF Deleted
<1>5. e2 \in [Sleepers -> Nat]
  <2>1. \A q \in Sleepers : e2[q] \in Nat
    BY <1>1, <1>3, <1>4
  <2> QED BY <2>1 DEF Deleted
<1> DEFINE f == SumsWithout(u, k, Len(r))
<1>6. \A i \in 0 .. (n - 1) : f[i] = IF i < k THEN u[i] ELSE u[i + 1]
  BY <1>1 DEF SumsWithout
<1>7. f = [i \in 0 .. Len(r) |-> f[i]] /\ f[0] = 0
  BY <1>1, <1>2 DEF SumsWithout
<1> HIDE DEF f
<1>8. ASSUME NEW i \in 1 .. (n - 1) PROVE f[i] = f[i - 1] + e2[r[i]]
  <2>1. i \in 0 .. (n - 1) /\ i - 1 \in 0 .. (n - 1) /\ i \in 1 .. n /\ i + 1 \in 1 .. n
    BY <1>1
  <2>2. CASE i < k
    <3>1. f[i] = u[i] /\ f[i - 1] = u[i - 1] /\ r[i] = s[i]
      BY <1>1, <1>3, <1>6, <2>1, <2>2
    <3>2. k < n => s[i] # s[k + 1]
      <4>1. k < n => k + 1 \in 1 .. n /\ i # k + 1
        BY <1>1, <2>2
      <4> QED BY <1>3, <2>1, <4>1
    <3>3. e2[s[i]] = e[s[i]]
      BY <1>3, <1>4, <2>1, <3>2
    <3> QED BY <1>2, <2>1, <3>1, <3>3
  <2>3. CASE i = k
    <3>1. f[i] = u[k + 1] /\ f[i - 1] = u[k - 1] /\ r[i] = s[k + 1] /\ k < n
      BY <1>1, <1>3, <1>6, <2>1, <2>3
    <3>2. e2[s[k + 1]] = e[s[k + 1]] + e[s[k]]
      BY <1>3, <1>4, <2>1, <2>3, <3>1
    <3>3. k - 1 \in 0 .. n /\ k \in 1 .. n /\ k + 1 \in 1 .. n /\ (k + 1) - 1 = k
      BY <1>1, <2>1, <2>3
    <3>4. u[k + 1] = u[k] + e[s[k + 1]] /\ u[k] = u[k - 1] + e[s[k]]
      BY <1>2, <3>3
    <3>5. u[k - 1] \in Nat /\ e[s[k]] \in Nat /\ e[s[k + 1]] \in Nat
      BY <1>2, <1>3, <3>3
    <3>6. \A a, b, c \in Nat : (a + b) + c = a + (c + b)
      OBVIOUS
    <3>7. (u[k - 1] + e[s[k]]) + e[s[k + 1]] = u[k - 1] + (e[s[k + 1]] + e[s[k]])
      BY <3>5, <3>6, Zenon
    <3>8. f[i] = (u[k - 1] + e[s[k]]) + e[s[k + 1]]
      BY <3>1, <3>4, Zenon
    <3>9. f[i - 1] + e2[r[i]] = u[k - 1] + (e[s[k + 1]] + e[s[k]])
      BY <3>1, <3>2, Zenon
    <3> QED BY <3>7, <3>8, <3>9, Zenon
  <2>4. CASE i > k
    <3>1. f[i] = u[i + 1] /\ f[i - 1] = u[i] /\ r[i] = s[i + 1]
      <4>1. ~(i < k) /\ ~(i - 1 < k) /\ (i - 1) + 1 = i
        BY <1>1, <2>1, <2>4
      <4> QED BY <1>3, <1>6, <2>1, <4>1
    <3>2. k < n => s[i + 1] # s[k + 1]
      <4>1. k < n => k + 1 \in 1 .. n /\ i + 1 # k + 1
        BY <1>1, <2>4
      <4> QED BY <1>3, <2>1, <4>1
    <3>3. e2[s[i + 1]] = e[s[i + 1]]
      BY <1>3, <1>4, <2>1, <3>2
    <3>4. u[i + 1] = u[(i + 1) - 1] + e[s[i + 1]]
      BY <1>2, <2>1, Zenon
    <3>5. (i + 1) - 1 = i
      BY <1>1
    <3> QED BY <3>1, <3>3, <3>4, <3>5
  <2>5. i < k \/ i = k \/ i > k
    BY <1>1
  <2> QED BY <2>2, <2>3, <2>4, <2>5
<1>9. Sums(f, r, e2)
  BY <1>1, <1>7, <1>8, StepSums
<1>10. SumsOf(r, e2) = f
  BY <1>5, <1>9, SumsUnique
<1> QED BY <1>5, <1>10 DEF f

SumsTicked(u, n) == [i \in 0 .. n |-> IF i = 0 THEN 0 ELSE u[i] - 1]

\* A tick is taken off the head, and with it off every sum: run_timer_list.
LEMMA TickSums ==
  ASSUME NEW s \in Seq(Sleepers), IsInjective(s), s # <<>>, NEW e \in [Sleepers -> Nat], e[Head(s)] # 0,
         NEW u, u = SumsOf(s, e), NEW e2, e2 = [e EXCEPT ![Head(s)] = @ - 1]
  PROVE  /\ e2 \in [Sleepers -> Nat]
         /\ SumsOf(s, e2) = SumsTicked(u, Len(s))
<1>1. PICK n \in Nat : n = Len(s) /\ DOMAIN s = 1 .. n /\ n # 0 /\ Head(s) = s[1] /\ 1 \in 1 .. n
  OBVIOUS
<1>2. /\ u \in [0 .. n -> Nat] /\ u[0] = 0 /\ \A i \in 1 .. n : u[i] = u[i - 1] + e[s[i]]
  <2>1. Running(SumsOf(s, e), s, e, Len(s))
    BY SumsFacts
  <2>2. Running(u, s, e, n)
    BY <1>1, <2>1, Zenon
  <2> QED BY <2>2, Zenon DEF Running
<1>3. /\ \A i \in 1 .. n : s[i] \in Sleepers /\ e[s[i]] \in Nat
      /\ \A i, j \in 1 .. n : s[i] = s[j] => i = j
  BY <1>1, EntryFacts
<1>4. \A q \in Sleepers : e2[q] = IF q = s[1] THEN e[q] - 1 ELSE e[q]
  BY <1>1, <1>3
<1>5. e2 \in [Sleepers -> Nat]
  <2>1. e[s[1]] - 1 \in Nat
    BY <1>1, <1>3
  <2> QED BY <1>1, <2>1
<1> DEFINE f == SumsTicked(u, Len(s))
<1>6. \A i \in 0 .. n : f[i] = IF i = 0 THEN 0 ELSE u[i] - 1
  BY <1>1 DEF SumsTicked
<1>7. f = [i \in 0 .. Len(s) |-> f[i]] /\ f[0] = 0
  BY <1>1 DEF SumsTicked
<1> HIDE DEF f
<1>8. ASSUME NEW i \in 1 .. n PROVE f[i] = f[i - 1] + e2[s[i]]
  <2>1. i \in 0 .. n /\ i - 1 \in 0 .. n /\ i # 0
    OBVIOUS
  <2>2. u[i] = u[i - 1] + e[s[i]] /\ u[i - 1] \in Nat /\ e[s[i]] \in Nat /\ s[i] \in Sleepers
    BY <1>2, <1>3, <2>1
  <2>3. CASE i = 1
    <3>1. f[i] = u[i] - 1 /\ f[i - 1] = 0 /\ u[i - 1] = 0 /\ e2[s[i]] = e[s[i]] - 1
      BY <1>1, <1>2, <1>4, <1>6, <2>1, <2>2, <2>3
    <3> QED BY <2>2, <3>1
  <2>4. CASE i # 1
    <3>1. f[i] = u[i] - 1 /\ f[i - 1] = u[i - 1] - 1
      BY <1>6, <2>1, <2>4
    <3>2. s[i] # s[1]
      BY <1>1, <1>3, <2>4
    <3>3. e2[s[i]] = e[s[i]]
      BY <1>4, <2>2, <3>2
    <3>4. u[i] - 1 = (u[i - 1] - 1) + e[s[i]]
      <4>1. \A a, b \in Nat : (a + b) - 1 = (a - 1) + b
        OBVIOUS
      <4>2. (u[i - 1] + e[s[i]]) - 1 = (u[i - 1] - 1) + e[s[i]]
        BY <2>2, <4>1, Zenon
      <4> QED BY <2>2, <4>2, Zenon
    <3> QED BY <3>1, <3>3, <3>4
  <2> QED BY <2>3, <2>4
<1>9. Sums(f, s, e2)
  BY <1>1, <1>7, <1>8, StepSums
<1>10. SumsOf(s, e2) = f
  BY <1>5, <1>9, SumsUnique
<1> QED BY <1>5, <1>10 DEF f

\* A head without ticks goes, and the sums stay: the loop of run_timer_list.
LEMMA ExpireSums ==
  ASSUME NEW s \in Seq(Sleepers), s # <<>>, NEW e \in [Sleepers -> Nat], e[Head(s)] = 0,
         NEW u, u = SumsOf(s, e)
  PROVE  SumsOf(Tail(s), e) = [i \in 0 .. Len(Tail(s)) |-> u[i + 1]]
<1>1. PICK n \in Nat : n = Len(s) /\ DOMAIN s = 1 .. n /\ n # 0 /\ Head(s) = s[1] /\ 1 \in 1 .. n
  OBVIOUS
<1>2. /\ u \in [0 .. n -> Nat] /\ u[0] = 0 /\ \A i \in 1 .. n : u[i] = u[i - 1] + e[s[i]]
  <2>1. Running(SumsOf(s, e), s, e, Len(s))
    BY SumsFacts
  <2>2. Running(u, s, e, n)
    BY <1>1, <2>1, Zenon
  <2> QED BY <2>2, Zenon DEF Running
<1>3. PICK r \in Seq(Sleepers) : r = Tail(s) /\ Len(r) = n - 1 /\ \A i \in 1 .. (n - 1) : r[i] = s[i + 1]
  <2>1. Tail(s) \in Seq(Sleepers) /\ Len(Tail(s)) = Len(s) - 1 /\ \A i \in 1 .. Len(Tail(s)) : Tail(s)[i] = s[i + 1]
    BY HeadTailProperties
  <2> QED BY <1>1, <2>1, Zenon
<1> DEFINE f == [i \in 0 .. Len(r) |-> u[i + 1]]
<1>4. \A i \in 0 .. (n - 1) : f[i] = u[i + 1]
  BY <1>1, <1>3
<1>5. f = [i \in 0 .. Len(r) |-> f[i]]
  BY <1>1
<1>6. f[0] = 0
  <2>1. 0 \in 0 .. (n - 1) /\ 0 + 1 = 1 /\ 1 - 1 = 0
    BY <1>1
  <2>2. u[1] = u[0] + e[s[1]]
    BY <1>1, <1>2, <2>1
  <2>3. f[0] = u[1]
    BY <1>4, <2>1
  <2> QED BY <1>1, <1>2, <2>2, <2>3
<1> HIDE DEF f
<1>7. ASSUME NEW i \in 1 .. (n - 1) PROVE f[i] = f[i - 1] + e[r[i]]
  <2>1. i \in 0 .. (n - 1) /\ i - 1 \in 0 .. (n - 1) /\ i + 1 \in 1 .. n /\ (i - 1) + 1 = i /\ (i + 1) - 1 = i
    BY <1>1
  <2>2. f[i] = u[i + 1] /\ f[i - 1] = u[i] /\ r[i] = s[i + 1]
    BY <1>3, <1>4, <2>1
  <2>3. u[i + 1] = u[(i + 1) - 1] + e[s[i + 1]]
    BY <1>2, <2>1
  <2> QED BY <2>1, <2>2, <2>3
<1>8. Sums(f, r, e)
  BY <1>1, <1>3, <1>5, <1>6, <1>7, StepSums
<1>9. SumsOf(r, e) = f
  BY <1>8, SumsUnique
<1> QED BY <1>3, <1>9 DEF f

-----------------------------------------------------------------------------
(* Ticks left of every process *)

IsSleepState(s, e, a) ==
  /\ s \in Seq(Sleepers) /\ IsInjective(s)
  /\ e \in [Sleepers -> 0 .. MaxSleep]
  /\ a \subseteq Sleepers /\ Range(s) \subseteq a

\* No entry is further away than anybody may have asked for.
Near(s, e) == \A k \in 0 .. Len(s) : SumsOf(s, e)[k] <= MaxSleep
AtHead(s, e) == s # <<>> /\ e[Head(s)] = 0

PlaceIn(s, p) == CHOOSE k \in 1 .. Len(s) : s[k] = p
LeftIn(s, e) ==
  [p \in Sleepers |-> IF \E k \in 1 .. Len(s) : s[k] = p THEN SumsOf(s, e)[PlaceIn(s, p)] ELSE 0]

LEMMA StateFacts ==
  ASSUME MaxSleep \in Nat, NEW s, NEW e, NEW a, IsSleepState(s, e, a)
  PROVE  /\ s \in Seq(Sleepers) /\ IsInjective(s) /\ e \in [Sleepers -> Nat]
         /\ Len(s) \in Nat /\ DOMAIN s = 1 .. Len(s)
         /\ \A k \in 1 .. Len(s) : s[k] \in Sleepers /\ s[k] \in Range(s) /\ s[k] \in a
         /\ \A p \in Range(s) : \E k \in 1 .. Len(s) : s[k] = p
         /\ \A i, j \in 1 .. Len(s) : s[i] = s[j] => i = j
<1>1. s \in Seq(Sleepers) /\ IsInjective(s) /\ e \in [Sleepers -> 0 .. MaxSleep] /\ Range(s) \subseteq a
  BY DEF IsSleepState
<1>2. \A x \in 0 .. MaxSleep : x \in Nat
  OBVIOUS
<1>3. e \in [Sleepers -> Nat]
  BY <1>1, <1>2
<1>4. Len(s) \in Nat /\ DOMAIN s = 1 .. Len(s) /\ \A k \in 1 .. Len(s) : s[k] \in Sleepers
  BY <1>1
<1>5. \A i, j \in 1 .. Len(s) : s[i] = s[j] => i = j
  BY <1>1, <1>4, Zenon DEF IsInjective
<1>6. /\ \A k \in 1 .. Len(s) : s[k] \in Range(s)
      /\ \A p \in Range(s) : \E k \in 1 .. Len(s) : s[k] = p
  BY <1>4, Zenon DEF Range
<1> QED BY <1>1, <1>3, <1>4, <1>5, <1>6, Zenon

\* LeftIn is the one function that has the sums at the linked processes and
\* nothing at the others.
IsLeft(f, s, e) ==
  /\ f = [p \in Sleepers |-> f[p]]
  /\ \A k \in 1 .. Len(s) : f[s[k]] = SumsOf(s, e)[k]
  /\ \A p \in Sleepers : p \notin Range(s) => f[p] = 0

LEMMA LeftIs ==
  ASSUME MaxSleep \in Nat, NEW s, NEW e, NEW a, IsSleepState(s, e, a)
  PROVE  IsLeft(LeftIn(s, e), s, e)
<1>1. /\ s \in Seq(Sleepers)
      /\ \A k \in 1 .. Len(s) : s[k] \in Sleepers /\ s[k] \in Range(s)
      /\ \A i, j \in 1 .. Len(s) : s[i] = s[j] => i = j
  BY StateFacts
<1>2. ASSUME NEW k \in 1 .. Len(s) PROVE LeftIn(s, e)[s[k]] = SumsOf(s, e)[k]
  <2>1. PlaceIn(s, s[k]) = k
    BY <1>1, Zenon DEF PlaceIn
  <2> QED BY <1>1, <2>1, Zenon DEF LeftIn
<1>3. ASSUME NEW p \in Sleepers, p \notin Range(s) PROVE LeftIn(s, e)[p] = 0
  <2>1. ~\E k \in 1 .. Len(s) : s[k] = p
    BY <1>1, <1>3, Zenon
  <2> QED BY <2>1, Zenon DEF LeftIn
<1>4. LeftIn(s, e) = [p \in Sleepers |-> LeftIn(s, e)[p]]
  BY Zenon DEF LeftIn
<1> QED BY <1>2, <1>3, <1>4, Zenon DEF IsLeft

LEMMA LeftOnly ==
  ASSUME MaxSleep \in Nat, NEW s, NEW e, NEW a, IsSleepState(s, e, a), NEW f, IsLeft(f, s, e)
  PROVE  LeftIn(s, e) = f
<1>1. PICK g : g = LeftIn(s, e)
  OBVIOUS
<1>2. IsLeft(g, s, e)
  BY <1>1, LeftIs
<1>3. \A p \in Range(s) : \E k \in 1 .. Len(s) : s[k] = p
  BY StateFacts
<1>4. ASSUME NEW p \in Sleepers PROVE g[p] = f[p]
  <2>1. CASE p \in Range(s)
    <3>1. PICK k \in 1 .. Len(s) : s[k] = p
      BY <1>3, <2>1
    <3>2. g[s[k]] = SumsOf(s, e)[k] /\ f[s[k]] = SumsOf(s, e)[k]
      BY <1>2, Zenon DEF IsLeft
    <3> QED BY <3>1, <3>2
  <2>2. CASE p \notin Range(s)
    BY <1>2, <2>2, Zenon DEF IsLeft
  <2> QED BY <2>1, <2>2
<1>5. g = f
  BY <1>2, <1>4, Zenon DEF IsLeft
<1> QED BY <1>1, <1>5

\* With ticks left at the head, every linked process has ticks left.
LEMMA AllLeft ==
  ASSUME MaxSleep \in Nat, NEW s, NEW e, NEW a, IsSleepState(s, e, a), ~AtHead(s, e)
  PROVE  /\ \A k \in 1 .. Len(s) : SumsOf(s, e)[k] # 0
         /\ \A p \in Sleepers : LeftIn(s, e)[p] = 0 <=> p \notin Range(s)
<1>1. /\ s \in Seq(Sleepers) /\ e \in [Sleepers -> Nat] /\ Len(s) \in Nat
      /\ \A k \in 1 .. Len(s) : s[k] \in Sleepers
      /\ \A p \in Range(s) : \E k \in 1 .. Len(s) : s[k] = p
  BY StateFacts
<1>2. PICK u : u = SumsOf(s, e)
  OBVIOUS
<1>3. Running(u, s, e, Len(s)) /\ \A j, k \in 0 .. Len(s) : j <= k => u[j] <= u[k]
  BY <1>1, <1>2, SumsFacts, SumsGrow
<1>4. ASSUME NEW k \in 1 .. Len(s) PROVE u[k] # 0
  <2>1. 1 \in 1 .. Len(s) /\ 1 \in 0 .. Len(s) /\ k \in 0 .. Len(s) /\ 1 <= k /\ 1 - 1 = 0 /\ s # <<>>
    BY <1>1
  <2>2. e[s[1]] # 0 /\ e[s[1]] \in Nat
    BY <1>1, <2>1 DEF AtHead
  <2>3. u[1] = u[0] + e[s[1]] /\ u[0] = 0
    BY <1>3, <2>1 DEF Running
  <2>4. u[1] <= u[k] /\ u[k] \in Nat
    BY <1>3, <2>1 DEF Running
  <2> QED BY <2>2, <2>3, <2>4
<1>5. IsLeft(LeftIn(s, e), s, e)
  BY LeftIs
<1>6. ASSUME NEW p \in Sleepers, p \in Range(s) PROVE LeftIn(s, e)[p] # 0
  <2>1. PICK k \in 1 .. Len(s) : s[k] = p
    BY <1>1, <1>6
  <2>2. LeftIn(s, e)[s[k]] = u[k]
    BY <1>2, <1>5, Zenon DEF IsLeft
  <2> QED BY <1>4, <2>1, <2>2, Zenon
<1>7. \A p \in Sleepers : p \notin Range(s) => LeftIn(s, e)[p] = 0
  BY <1>5, Zenon DEF IsLeft
<1> QED BY <1>2, <1>4, <1>6, <1>7, Zenon

\* The place where add_timer's loop stops.
StopIn(s, u, t) == Min({k \in 1 .. (Len(s) + 1) : k <= Len(s) => t < u[k]})

LEMMA StopFacts ==
  ASSUME MaxSleep \in Nat, NEW s, NEW e, NEW a, IsSleepState(s, e, a), NEW u, u = SumsOf(s, e),
         NEW t \in Nat, NEW k, k = StopIn(s, u, t)
  PROVE  k \in 1 .. (Len(s) + 1) /\ u[k - 1] <= t /\ (k <= Len(s) => t < u[k])
<1>1. s \in Seq(Sleepers) /\ e \in [Sleepers -> Nat] /\ Len(s) \in Nat
  BY StateFacts
<1>2. PICK n \in Nat : n = Len(s)
  BY <1>1
<1>3. u \in [0 .. n -> Nat] /\ u[0] = 0
  <2>1. Running(u, s, e, Len(s))
    BY <1>1, SumsFacts
  <2> QED BY <1>2, <2>1, Zenon DEF Running
<1> DEFINE B == {i \in 1 .. (n + 1) : i <= n => t < u[i]}
<1>4. B \subseteq Nat /\ n + 1 \in B
  OBVIOUS
<1>5. \E i \in B : \A j \in B : i <= j
  <2> HIDE DEF B
  <2>1. B # {}
    BY <1>4
  <2> QED BY <1>4, <2>1, LeastExists
<1>6. k \in B /\ \A j \in B : k <= j
  <2>1. k = CHOOSE i \in B : \A j \in B : i <= j
    BY <1>2, Zenon DEF StopIn, Min
  <2> HIDE DEF B
  <2> QED BY <1>5, <2>1, Zenon
<1>7. k \in 1 .. (n + 1) /\ (k <= n => t < u[k])
  BY <1>6
<1>8. u[k - 1] <= t
  <2>1. CASE k = 1
    BY <1>3, <2>1
  <2>2. CASE k # 1
    <3>1. k - 1 \in 1 .. (n + 1) /\ k - 1 \in 0 .. n /\ k - 1 <= n /\ ~(k <= k - 1)
      BY <1>7, <2>2
    <3>2. ~(t < u[k - 1])
      <4>1. k - 1 \notin B
        BY <1>6, <3>1
      <4> QED BY <3>1, <4>1
    <3>3. u[k - 1] \in Nat
      BY <1>3, <3>1
    <3> QED BY <3>2, <3>3
  <2> QED BY <2>1, <2>2
<1> QED BY <1>2, <1>7, <1>8, Zenon

-----------------------------------------------------------------------------
(* One lemma per operation on the list *)

\* A function on Sleepers whose values are small stays an expires.
LEMMA Bounded ==
  ASSUME MaxSleep \in Nat, NEW e \in [Sleepers -> Nat], \A q \in Sleepers : e[q] <= MaxSleep
  PROVE  e \in [Sleepers -> 0 .. MaxSleep]
<1>1. \A q \in Sleepers : e[q] \in 0 .. MaxSleep
  OBVIOUS
<1> QED BY <1>1

\* add_timer: p gets t ticks, nobody else's change, and the head keeps some.
Added(s, e, a, p, t, r, e2) ==
  /\ IsSleepState(r, e2, a) /\ Near(r, e2) /\ ~AtHead(r, e2)
  /\ LeftIn(s, e)[p] = 0
  /\ LeftIn(r, e2) = [LeftIn(s, e) EXCEPT ![p] = t]

AddStep(s, e, k, p, t, r, e2) ==
  /\ k = StopIn(s, SumsOf(s, e), t)
  /\ r = InsertAt(s, k, p)
  /\ e2 = Inserted(s, e, SumsOf(s, e), k, p, t)

LEMMA AddTimer ==
  ASSUME MaxSleep \in Nat, NEW s, NEW e, NEW a, IsSleepState(s, e, a), Near(s, e), ~AtHead(s, e),
         NEW p \in Sleepers, p \notin a, NEW t \in 1 .. MaxSleep,
         NEW k, NEW r, NEW e2, AddStep(s, e, k, p, t, r, e2)
  PROVE  Added(s, e, a \cup {p}, p, t, r, e2)
<1>0. /\ k = StopIn(s, SumsOf(s, e), t) /\ r = InsertAt(s, k, p)
      /\ e2 = Inserted(s, e, SumsOf(s, e), k, p, t)
  BY DEF AddStep
<1>1. /\ s \in Seq(Sleepers) /\ IsInjective(s) /\ e \in [Sleepers -> Nat] /\ Len(s) \in Nat
      /\ \A i \in 1 .. Len(s) : s[i] \in Sleepers /\ s[i] \in Range(s) /\ s[i] \in a
      /\ \A i, j \in 1 .. Len(s) : s[i] = s[j] => i = j
  BY StateFacts
<1>2. PICK n \in Nat : n = Len(s)
  BY <1>1
<1>3. PICK u : u = SumsOf(s, e)
  OBVIOUS
<1>4. /\ u \in [0 .. n -> Nat] /\ u[0] = 0 /\ \A i \in 1 .. n : u[i] = u[i - 1] + e[s[i]]
  <2>1. Running(u, s, e, n)
    BY <1>1, <1>2, <1>3, SumsFacts
  <2> QED BY <2>1, Zenon DEF Running
<1>5. k \in 1 .. (n + 1) /\ u[k - 1] <= t /\ (k <= n => t < u[k])
  <2>1. t \in Nat
    OBVIOUS
  <2> QED BY <1>0, <1>2, <1>3, <2>1, StopFacts
<1>6. p \notin Range(s) /\ a \subseteq Sleepers /\ Range(s) \subseteq a /\ e \in [Sleepers -> 0 .. MaxSleep]
  BY DEF IsSleepState
<1>7. r \in Seq(Sleepers) /\ With(s, k, p, r)
  BY <1>0, <1>1, <1>2, <1>5, InsertIs DEF InsertAt
<1>8. Range(r) = Range(s) \cup {p} /\ IsInjective(r)
  BY <1>1, <1>2, <1>5, <1>6, <1>7, WithFacts
<1>9. /\ e2 \in [Sleepers -> Nat]
      /\ SumsOf(r, e2) = SumsWith(u, k, t, Len(r))
  <2>1. /\ k \in 1 .. (Len(s) + 1) /\ t \in Nat /\ u[k - 1] <= t /\ (k <= Len(s) => t < u[k])
    BY <1>2, <1>5
  <2>2. e2 = Inserted(s, e, u, k, p, t)
    BY <1>0, <1>3
  <2>3. s \in Seq(Sleepers) /\ IsInjective(s) /\ e \in [Sleepers -> Nat] /\ r \in Seq(Sleepers) /\ With(s, k, p, r)
    BY <1>1, <1>7
  <2>4. p \notin Range(s)
    BY <1>6
  <2>5. Fits(u, k, t, Len(s))
    BY <2>1 DEF Fits
  <2>6. t \in Nat /\ k \in 1 .. (Len(s) + 1)
    BY <2>1
  <2> QED BY <1>3, <2>2, <2>3, <2>4, <2>5, <2>6, InsertSums
<1>10. PICK v : v = SumsOf(r, e2)
  OBVIOUS
<1>11. /\ Len(r) = n + 1 /\ DOMAIN r = 1 .. (n + 1)
       /\ \A i \in 1 .. (n + 1) : r[i] = (IF i < k THEN s[i] ELSE IF i = k THEN p ELSE s[i - 1])
  <2>1. DOMAIN r = 1 .. (n + 1) /\ \A i \in 1 .. (n + 1) : r[i] = (IF i < k THEN s[i] ELSE IF i = k THEN p ELSE s[i - 1])
    BY <1>2, <1>7, Zenon DEF With
  <2>2. Len(r) \in Nat /\ DOMAIN r = 1 .. Len(r) /\ n + 1 \in Nat
    BY <1>7
  <2>3. \A x, y \in Nat : 1 .. x = 1 .. y => x = y
    OBVIOUS
  <2> QED BY <2>1, <2>2, <2>3, Zenon
<1>12. \A i \in 0 .. (n + 1) : v[i] = IF i < k THEN u[i] ELSE IF i = k THEN t ELSE u[i - 1]
  BY <1>9, <1>10, <1>11 DEF SumsWith
<1>13. k - 1 \in 0 .. n /\ u[k - 1] \in Nat
  <2>1. k - 1 \in 0 .. n
    BY <1>5
  <2> QED BY <1>4, <2>1
<1>14. \A q \in Sleepers : e2[q] = IF q = p THEN t - u[k - 1]
                      ELSE IF k <= n /\ q = s[k] THEN e[q] - (t - u[k - 1]) ELSE e[q]
  BY <1>0, <1>2, <1>3 DEF Inserted
<1>15. e2 \in [Sleepers -> 0 .. MaxSleep]
  <2>1. ASSUME NEW q \in Sleepers PROVE e2[q] <= MaxSleep
    <3>1. e[q] \in 0 .. MaxSleep
      BY <1>6
    <3>2. t - u[k - 1] \in Nat /\ t - u[k - 1] <= MaxSleep
      BY <1>5, <1>13
    <3>3. PICK d \in Nat : d = t - u[k - 1] /\ d <= MaxSleep
      BY <3>2
    <3>4. e2[q] = d \/ e2[q] = e[q] - d \/ e2[q] = e[q]
      BY <1>14, <3>3, Zenon
    <3> QED BY <3>1, <3>3, <3>4
  <2> QED BY <1>9, <2>1, Bounded
<1>16. IsSleepState(r, e2, a \cup {p})
  BY <1>6, <1>7, <1>8, <1>15 DEF IsSleepState
<1>17. \A i \in 0 .. n : u[i] <= MaxSleep
  BY <1>2, <1>3 DEF Near
<1>18. Near(r, e2)
  <2> SUFFICES ASSUME NEW i \in 0 .. (n + 1) PROVE v[i] <= MaxSleep
    BY <1>10, <1>11, Zenon DEF Near
  <2>1. CASE i < k
    <3>1. i \in 0 .. n
      BY <1>5, <2>1
    <3> QED BY <1>12, <1>17, <2>1, <3>1, Zenon
  <2>2. CASE i = k
    BY <1>12, <2>2
  <2>3. CASE i > k
    <3>1. i - 1 \in 0 .. n /\ ~(i < k) /\ i # k
      BY <1>5, <2>3
    <3> QED BY <1>12, <1>17, <3>1, Zenon
  <2>4. i < k \/ i = k \/ i > k
    BY <1>5
  <2> QED BY <2>1, <2>2, <2>3, <2>4
<1>19. ~AtHead(r, e2)
  <2>1. Head(r) = r[1] /\ 1 \in 1 .. (n + 1)
    BY <1>7, <1>11
  <2>2. CASE k = 1
    <3>1. r[1] = p
      BY <1>11, <2>1, <2>2
    <3>2. e2[p] = t - u[0]
      BY <1>14, <2>2
    <3> QED BY <1>4, <2>1, <3>1, <3>2 DEF AtHead
  <2>3. CASE k # 1
    <3>1. 1 < k /\ 1 \in 1 .. n /\ s # <<>> /\ Head(s) = s[1]
      BY <1>1, <1>2, <1>5, <2>3
    <3>2. r[1] = s[1]
      BY <1>11, <2>1, <3>1
    <3>3. s[1] # p /\ s[1] \in Sleepers /\ (k <= n => s[1] # s[k])
      <4>1. k <= n => k \in 1 .. n
        BY <1>5
      <4> QED BY <1>1, <1>2, <1>6, <2>3, <3>1, <4>1
    <3>4. e2[s[1]] = e[s[1]]
      BY <1>14, <3>3, Zenon
    <3> QED BY <2>1, <3>1, <3>2, <3>4 DEF AtHead
  <2> QED BY <2>2, <2>3
<1>20. PICK f : f = LeftIn(s, e)
  OBVIOUS
<1>21. /\ f = [q \in Sleepers |-> f[q]] /\ \A i \in 1 .. n : f[s[i]] = u[i]
       /\ \A q \in Sleepers : q \notin Range(s) => f[q] = 0
  <2>1. IsLeft(f, s, e)
    BY <1>20, LeftIs
  <2> QED BY <1>2, <1>3, <2>1, Zenon DEF IsLeft
<1> DEFINE g == [f EXCEPT ![p] = t]
<1>22. IsLeft(g, r, e2)
  <2>1. g = [q \in Sleepers |-> g[q]] /\ g[p] = t /\ \A q \in Sleepers : q # p => g[q] = f[q]
    BY <1>21
  <2> HIDE DEF g
  <2>2. ASSUME NEW i \in 1 .. (n + 1) PROVE g[r[i]] = v[i]
    <3>0. i \in 0 .. (n + 1)
      OBVIOUS
    <3>1. CASE i < k
      <4>1. i \in 1 .. n
        BY <1>5, <3>1
      <4>2. r[i] = s[i] /\ s[i] # p /\ s[i] \in Sleepers
        BY <1>1, <1>2, <1>6, <1>11, <3>1, <4>1
      <4>3. v[i] = u[i]
        BY <1>12, <3>0, <3>1
      <4> QED BY <1>21, <2>1, <4>1, <4>2, <4>3
    <3>2. CASE i = k
      <4>1. r[i] = p /\ v[i] = t
        <5>1. ~(i < k)
          BY <1>5, <3>2
        <5> QED BY <1>11, <1>12, <3>0, <3>2, <5>1
      <4> QED BY <2>1, <4>1
    <3>3. CASE i > k
      <4>1. i - 1 \in 1 .. n /\ ~(i < k) /\ i # k
        BY <1>5, <3>3
      <4>2. r[i] = s[i - 1] /\ s[i - 1] # p /\ s[i - 1] \in Sleepers
        BY <1>1, <1>2, <1>6, <1>11, <4>1
      <4>3. v[i] = u[i - 1]
        BY <1>12, <3>0, <4>1
      <4> QED BY <1>21, <2>1, <4>1, <4>2, <4>3
    <3>4. i < k \/ i = k \/ i > k
      BY <1>5
    <3> QED BY <3>1, <3>2, <3>3, <3>4
  <2>3. \A q \in Sleepers : q \notin Range(r) => g[q] = 0
    BY <1>8, <1>21, <2>1
  <2> QED BY <1>10, <1>11, <2>1, <2>2, <2>3, Zenon DEF IsLeft
<1>23. LeftIn(r, e2) = g
  <2> HIDE DEF g
  <2> QED BY <1>16, <1>22, LeftOnly
<1> QED BY <1>6, <1>16, <1>18, <1>19, <1>20, <1>21, <1>23 DEF Added

\* del_timer: p has no ticks left, nobody else's change, and the head keeps some.
LEMMA DelTimer ==
  ASSUME MaxSleep \in Nat, NEW s, NEW e, NEW a, IsSleepState(s, e, a), Near(s, e), ~AtHead(s, e),
         NEW k \in 1 .. Len(s), NEW r, r = RemoveAt(s, k), NEW e2, e2 = Deleted(s, e, k)
  PROVE  /\ IsSleepState(r, e2, a \ {s[k]}) /\ Near(r, e2) /\ ~AtHead(r, e2)
         /\ LeftIn(r, e2) = [LeftIn(s, e) EXCEPT ![s[k]] = 0]
<1>1. /\ s \in Seq(Sleepers) /\ IsInjective(s) /\ e \in [Sleepers -> Nat] /\ Len(s) \in Nat
      /\ \A i \in 1 .. Len(s) : s[i] \in Sleepers /\ s[i] \in Range(s) /\ s[i] \in a
      /\ \A i, j \in 1 .. Len(s) : s[i] = s[j] => i = j
  BY StateFacts
<1>2. PICK n \in Nat : n = Len(s)
  BY <1>1
<1>3. PICK u : u = SumsOf(s, e)
  OBVIOUS
<1>4. /\ u \in [0 .. n -> Nat] /\ u[0] = 0 /\ \A i \in 1 .. n : u[i] = u[i - 1] + e[s[i]]
  <2>1. Running(u, s, e, n)
    BY <1>1, <1>2, <1>3, SumsFacts
  <2> QED BY <2>1, Zenon DEF Running
<1>5. PICK p \in Sleepers : p = s[k]
  BY <1>1
<1>6. a \subseteq Sleepers /\ Range(s) \subseteq a /\ e \in [Sleepers -> 0 .. MaxSleep]
  BY DEF IsSleepState
<1>7. r \in Seq(Sleepers) /\ Without(s, k, r)
  BY <1>1, RemoveIs DEF RemoveAt
<1>8. Range(r) = Range(s) \ {p} /\ IsInjective(r)
  BY <1>1, <1>5, <1>7, WithoutFacts
<1>9. /\ e2 \in [Sleepers -> Nat]
      /\ SumsOf(r, e2) = SumsWithout(u, k, Len(r))
  <2>1. s \in Seq(Sleepers) /\ IsInjective(s) /\ e \in [Sleepers -> Nat] /\ r \in Seq(Sleepers) /\ Without(s, k, r)
    BY <1>1, <1>7
  <2> QED BY <1>3, <2>1, DeleteSums
<1>10. PICK v : v = SumsOf(r, e2)
  OBVIOUS
<1>11. /\ n # 0 /\ k \in 1 .. n /\ n - 1 \in Nat /\ Len(r) = n - 1 /\ DOMAIN r = 1 .. (n - 1)
       /\ \A i \in 1 .. (n - 1) : r[i] = (IF i < k THEN s[i] ELSE s[i + 1])
  <2>1. DOMAIN r = 1 .. (n - 1) /\ \A i \in 1 .. (n - 1) : r[i] = (IF i < k THEN s[i] ELSE s[i + 1])
    BY <1>2, <1>7, Zenon DEF Without
  <2>2. k \in 1 .. n /\ n # 0 /\ n - 1 \in Nat
    BY <1>2
  <2>3. Len(r) \in Nat /\ DOMAIN r = 1 .. Len(r)
    BY <1>7
  <2>4. Len(r) = n - 1
    <3>1. \A x, y \in Nat : 1 .. x = 1 .. y => x = y
      OBVIOUS
    <3> QED BY <2>1, <2>2, <2>3, <3>1, Zenon
  <2> QED BY <2>1, <2>2, <2>4, Zenon
<1>12. \A i \in 0 .. (n - 1) : v[i] = IF i < k THEN u[i] ELSE u[i + 1]
  BY <1>9, <1>10, <1>11 DEF SumsWithout
<1>13. \A q \in Sleepers : e2[q] = IF k < n /\ q = s[k + 1] THEN e[q] + e[p] ELSE e[q]
  BY <1>2, <1>5 DEF Deleted
<1>14. \A i \in 0 .. n : u[i] <= MaxSleep
  BY <1>2, <1>3 DEF Near
<1>15. e2 \in [Sleepers -> 0 .. MaxSleep]
  <2>1. ASSUME NEW q \in Sleepers PROVE e2[q] <= MaxSleep
    <3>1. e[q] \in 0 .. MaxSleep
      BY <1>6
    <3>2. CASE k < n /\ q = s[k + 1]
      <4>1. k - 1 \in 0 .. n /\ k \in 1 .. n /\ k + 1 \in 1 .. n /\ (k + 1) - 1 = k /\ k + 1 \in 0 .. n
        BY <1>11, <3>2
      <4>2. u[k + 1] = u[k] + e[q] /\ u[k] = u[k - 1] + e[p] /\ u[k - 1] \in Nat
        BY <1>4, <1>5, <3>2, <4>1
      <4>3. u[k + 1] <= MaxSleep /\ e[q] \in Nat /\ e[p] \in Nat /\ e2[q] = e[q] + e[p]
        BY <1>1, <1>13, <1>14, <3>2, <4>1
      <4>4. \A x, y, z \in Nat : (x + y) + z <= MaxSleep => z + y <= MaxSleep
        OBVIOUS
      <4> QED BY <4>2, <4>3, <4>4, Zenon
    <3>3. CASE ~(k < n /\ q = s[k + 1])
      BY <1>13, <3>1, <3>3
    <3> QED BY <3>2, <3>3
  <2> QED BY <1>9, <2>1, Bounded
<1>16. IsSleepState(r, e2, a \ {p})
  BY <1>6, <1>7, <1>8, <1>15 DEF IsSleepState
<1>17. Near(r, e2)
  <2> SUFFICES ASSUME NEW i \in 0 .. (n - 1) PROVE v[i] <= MaxSleep
    BY <1>10, <1>11, Zenon DEF Near
  <2>1. i \in 0 .. n /\ i + 1 \in 0 .. n
    BY <1>11
  <2> QED BY <1>12, <1>14, <2>1
<1>18. ~AtHead(r, e2)
  <2> SUFFICES ASSUME r # <<>> PROVE e2[Head(r)] # 0
    BY DEF AtHead
  <2>1. Head(r) = r[1] /\ 1 \in 1 .. (n - 1) /\ 1 \in 1 .. n /\ 2 \in 1 .. n /\ s # <<>> /\ Head(s) = s[1]
    BY <1>1, <1>2, <1>7, <1>11
  <2>2. e[s[1]] # 0 /\ e[s[1]] \in Nat /\ s[1] \in Sleepers
    BY <1>1, <1>2, <2>1 DEF AtHead
  <2>3. CASE k = 1
    <3>1. r[1] = s[2] /\ s[2] \in Sleepers /\ k < n /\ 1 + 1 = 2
      BY <1>1, <1>2, <1>11, <2>1, <2>3
    <3>2. e2[s[2]] = e[s[2]] + e[s[1]] /\ e[s[2]] \in Nat
      BY <1>1, <1>5, <1>13, <2>3, <3>1
    <3> QED BY <2>1, <2>2, <3>1, <3>2
  <2>4. CASE k # 1
    <3>1. 1 < k /\ r[1] = s[1]
      BY <1>11, <2>1, <2>4
    <3>2. k < n => s[1] # s[k + 1]
      <4>1. k < n => k + 1 \in 1 .. n /\ k + 1 # 1
        BY <1>11
      <4> QED BY <1>1, <1>2, <2>1, <4>1
    <3>3. e2[s[1]] = e[s[1]]
      BY <1>13, <2>2, <3>2
    <3> QED BY <2>1, <2>2, <3>1, <3>3
  <2> QED BY <2>3, <2>4
<1>19. PICK f : f = LeftIn(s, e)
  OBVIOUS
<1>20. /\ f = [q \in Sleepers |-> f[q]] /\ \A i \in 1 .. n : f[s[i]] = u[i]
       /\ \A q \in Sleepers : q \notin Range(s) => f[q] = 0
  <2>1. IsLeft(f, s, e)
    BY <1>19, LeftIs
  <2> QED BY <1>2, <1>3, <2>1, Zenon DEF IsLeft
<1> DEFINE g == [f EXCEPT ![p] = 0]
<1>21. IsLeft(g, r, e2)
  <2>1. g = [q \in Sleepers |-> g[q]] /\ g[p] = 0 /\ \A q \in Sleepers : q # p => g[q] = f[q]
    BY <1>20
  <2> HIDE DEF g
  <2>2. ASSUME NEW i \in 1 .. (n - 1) PROVE g[r[i]] = v[i]
    <3>0. i \in 0 .. (n - 1) /\ i \in 1 .. n /\ i + 1 \in 1 .. n
      BY <1>11
    <3>1. CASE i < k
      <4>1. r[i] = s[i] /\ s[i] \in Sleepers /\ s[i] # p
        <5>1. i # k
          BY <1>11, <3>1
        <5> QED BY <1>1, <1>2, <1>5, <1>11, <3>0, <3>1, <5>1
      <4>2. v[i] = u[i]
        BY <1>12, <3>0, <3>1
      <4> QED BY <1>20, <2>1, <3>0, <4>1, <4>2
    <3>2. CASE ~(i < k)
      <4>1. r[i] = s[i + 1] /\ s[i + 1] \in Sleepers /\ s[i + 1] # p
        <5>1. i + 1 # k
          BY <1>11, <3>2
        <5> QED BY <1>1, <1>2, <1>5, <1>11, <3>0, <3>2, <5>1
      <4>2. v[i] = u[i + 1]
        BY <1>12, <3>0, <3>2
      <4> QED BY <1>20, <2>1, <3>0, <4>1, <4>2
    <3> QED BY <3>1, <3>2
  <2>3. \A q \in Sleepers : q \notin Range(r) => g[q] = 0
    BY <1>8, <1>20, <2>1
  <2> QED BY <1>10, <1>11, <2>1, <2>2, <2>3, Zenon DEF IsLeft
<1>22. LeftIn(r, e2) = g
  <2> HIDE DEF g
  <2> QED BY <1>16, <1>21, LeftOnly
<1> QED BY <1>5, <1>16, <1>17, <1>18, <1>19, <1>22

\* run_timer_list takes a tick off everybody who has some left.
Ticked(s, e) == IF s = <<>> THEN e ELSE [e EXCEPT ![Head(s)] = @ - 1]

LEMMA TickTimers ==
  ASSUME MaxSleep \in Nat, NEW s, NEW e, NEW a, IsSleepState(s, e, a), Near(s, e), ~AtHead(s, e),
         NEW e2, e2 = Ticked(s, e)
  PROVE  /\ IsSleepState(s, e2, a) /\ Near(s, e2)
         /\ LeftIn(s, e2) = [p \in Sleepers |-> IF LeftIn(s, e)[p] = 0 THEN 0 ELSE LeftIn(s, e)[p] - 1]
<1>1. /\ s \in Seq(Sleepers) /\ IsInjective(s) /\ e \in [Sleepers -> Nat] /\ Len(s) \in Nat
      /\ \A i \in 1 .. Len(s) : s[i] \in Sleepers /\ s[i] \in Range(s)
      /\ \A p \in Range(s) : \E k \in 1 .. Len(s) : s[k] = p
  BY StateFacts
<1>2. /\ \A k \in 1 .. Len(s) : SumsOf(s, e)[k] # 0
      /\ \A p \in Sleepers : LeftIn(s, e)[p] = 0 <=> p \notin Range(s)
  BY AllLeft
<1>3. PICK f : f = LeftIn(s, e)
  OBVIOUS
<1>4. IsLeft(f, s, e)
  BY <1>3, LeftIs
<1> DEFINE g == [p \in Sleepers |-> IF f[p] = 0 THEN 0 ELSE f[p] - 1]
<1>5. g = [p \in Sleepers |-> g[p]] /\ \A p \in Sleepers : g[p] = IF f[p] = 0 THEN 0 ELSE f[p] - 1
  BY Zenon
<1> HIDE DEF g
<1>6. \A p \in Sleepers : p \notin Range(s) => g[p] = 0
  BY <1>2, <1>3, <1>5, Zenon
<1>7. CASE s = <<>>
  <2>1. e2 = e /\ Len(s) = 0 /\ 1 .. Len(s) = {}
    BY <1>7 DEF Ticked
  <2>2. IsLeft(g, s, e2)
    BY <1>5, <1>6, <2>1, Zenon DEF IsLeft
  <2>3. IsSleepState(s, e2, a) /\ Near(s, e2)
    BY <2>1
  <2>4. LeftIn(s, e2) = g
    BY <2>2, <2>3, LeftOnly
  <2> QED BY <1>3, <2>3, <2>4 DEF g
<1>8. CASE s # <<>>
  <2>1. PICK n \in Nat : n = Len(s) /\ Head(s) = s[1] /\ 1 \in 1 .. n
    BY <1>1, <1>8
  <2>2. PICK u : u = SumsOf(s, e)
    OBVIOUS
  <2>3. u \in [0 .. n -> Nat]
    <3>1. Running(u, s, e, n)
      BY <1>1, <2>1, <2>2, SumsFacts
    <3> QED BY <3>1, Zenon DEF Running
  <2>4. e2 = [e EXCEPT ![Head(s)] = @ - 1] /\ e[Head(s)] # 0
    BY <1>8 DEF Ticked, AtHead
  <2>5. /\ e2 \in [Sleepers -> Nat]
        /\ SumsOf(s, e2) = SumsTicked(u, Len(s))
    <3>1. s \in Seq(Sleepers) /\ IsInjective(s) /\ e \in [Sleepers -> Nat]
      BY <1>1
    <3> QED BY <1>8, <2>2, <2>4, <3>1, TickSums
  <2>6. PICK v : v = SumsOf(s, e2)
    OBVIOUS
  <2>7. \A i \in 0 .. n : v[i] = IF i = 0 THEN 0 ELSE u[i] - 1
    BY <2>1, <2>5, <2>6 DEF SumsTicked
  <2>8. e \in [Sleepers -> 0 .. MaxSleep] /\ a \subseteq Sleepers /\ Range(s) \subseteq a
    BY DEF IsSleepState
  <2>9. e2 \in [Sleepers -> 0 .. MaxSleep]
    <3>1. ASSUME NEW q \in Sleepers PROVE e2[q] <= MaxSleep
      <4>1. e[q] \in 0 .. MaxSleep
        BY <2>8
      <4>2. e2[q] = e[q] \/ e2[q] = e[q] - 1
        BY <2>4, <2>8
      <4> QED BY <4>1, <4>2
    <3> QED BY <2>5, <3>1, Bounded
  <2>10. IsSleepState(s, e2, a)
    BY <1>1, <2>8, <2>9 DEF IsSleepState
  <2>11. Near(s, e2)
    <3> SUFFICES ASSUME NEW i \in 0 .. n PROVE v[i] <= MaxSleep
      BY <2>1, <2>6, Zenon DEF Near
    <3>1. u[i] \in Nat /\ u[i] <= MaxSleep
      BY <2>1, <2>2, <2>3 DEF Near
    <3>2. v[i] = 0 \/ v[i] = u[i] - 1
      BY <2>7
    <3> QED BY <3>1, <3>2
  <2>12. ASSUME NEW i \in 1 .. n PROVE g[s[i]] = v[i]
    <3>1. i \in 0 .. n /\ i # 0
      OBVIOUS
    <3>2. f[s[i]] = u[i] /\ u[i] # 0 /\ s[i] \in Sleepers
      BY <1>1, <1>2, <1>4, <2>1, <2>2, Zenon DEF IsLeft
    <3>3. v[i] = u[i] - 1
      BY <2>7, <3>1, Zenon
    <3> QED BY <1>5, <3>2, <3>3, Zenon
  <2>13. IsLeft(g, s, e2)
    BY <1>5, <1>6, <2>1, <2>6, <2>12, Zenon DEF IsLeft
  <2>14. LeftIn(s, e2) = g
    BY <2>10, <2>13, LeftOnly
  <2> QED BY <1>3, <2>10, <2>11, <2>14 DEF g
<1> QED BY <1>7, <1>8

\* The loop of run_timer_list unlinks a process with no ticks left.
LEMMA ExpireHead ==
  ASSUME MaxSleep \in Nat, NEW s, NEW e, NEW a, IsSleepState(s, e, a), Near(s, e), AtHead(s, e)
  PROVE  /\ IsSleepState(Tail(s), e, a) /\ Near(Tail(s), e)
         /\ Head(s) \in Range(s) /\ Range(Tail(s)) = Range(s) \ {Head(s)}
         /\ LeftIn(s, e)[Head(s)] = 0 /\ LeftIn(Tail(s), e) = LeftIn(s, e)
<1>1. /\ s \in Seq(Sleepers) /\ IsInjective(s) /\ e \in [Sleepers -> Nat]
      /\ \A i \in 1 .. Len(s) : s[i] \in Sleepers
  BY StateFacts
<1>2. s # <<>> /\ e[Head(s)] = 0
  BY DEF AtHead
<1>3. PICK n \in Nat : n = Len(s) /\ Head(s) = s[1] /\ 1 \in 1 .. n /\ n - 1 \in Nat
  BY <1>1, <1>2
<1>4. PICK u : u = SumsOf(s, e)
  OBVIOUS
<1>5. u \in [0 .. n -> Nat] /\ u[0] = 0 /\ \A i \in 1 .. n : u[i] = u[i - 1] + e[s[i]]
  <2>1. Running(u, s, e, n)
    BY <1>1, <1>3, <1>4, SumsFacts
  <2> QED BY <2>1, Zenon DEF Running
<1>6. PICK r \in Seq(Sleepers) : r = Tail(s) /\ Len(r) = n - 1 /\ \A i \in 1 .. (n - 1) : r[i] = s[i + 1]
  <2>1. Tail(s) \in Seq(Sleepers) /\ Len(Tail(s)) = Len(s) - 1 /\ \A i \in 1 .. Len(Tail(s)) : Tail(s)[i] = s[i + 1]
    BY <1>1, <1>2, HeadTailProperties
  <2> QED BY <1>3, <2>1, Zenon
<1>7. IsInjective(r) /\ Range(r) = Range(s) \ {s[1]} /\ s[1] \in Range(s)
  BY <1>1, <1>2, <1>3, <1>6, TailFacts
<1>8. SumsOf(r, e) = [i \in 0 .. Len(r) |-> u[i + 1]]
  <2>1. SumsOf(Tail(s), e) = [i \in 0 .. Len(Tail(s)) |-> u[i + 1]]
    BY <1>1, <1>2, <1>4, ExpireSums
  <2> QED BY <1>6, <2>1, Zenon
<1>9. PICK v : v = SumsOf(r, e)
  OBVIOUS
<1>10. \A i \in 0 .. (n - 1) : v[i] = u[i + 1]
  BY <1>6, <1>8, <1>9
<1>11. IsSleepState(r, e, a)
  BY <1>6, <1>7 DEF IsSleepState
<1>12. Near(r, e)
  <2> SUFFICES ASSUME NEW i \in 0 .. (n - 1) PROVE v[i] <= MaxSleep
    BY <1>6, <1>9, Zenon DEF Near
  <2>1. i + 1 \in 0 .. n
    BY <1>3
  <2> QED BY <1>3, <1>4, <1>10, <2>1 DEF Near
<1>13. PICK f : f = LeftIn(s, e)
  OBVIOUS
<1>14. /\ f = [q \in Sleepers |-> f[q]] /\ \A i \in 1 .. n : f[s[i]] = u[i]
       /\ \A q \in Sleepers : q \notin Range(s) => f[q] = 0
  <2>1. IsLeft(f, s, e)
    BY <1>13, LeftIs
  <2> QED BY <1>3, <1>4, <2>1, Zenon DEF IsLeft
<1>15. f[s[1]] = 0
  <2>1. 1 - 1 = 0
    OBVIOUS
  <2>2. u[1] = u[0] + e[s[1]] /\ f[s[1]] = u[1]
    BY <1>3, <1>5, <1>14, <2>1
  <2> QED BY <1>2, <1>3, <1>5, <2>2
<1>16. IsLeft(f, r, e)
  <2>1. ASSUME NEW i \in 1 .. (n - 1) PROVE f[r[i]] = v[i]
    <3>1. i + 1 \in 1 .. n /\ i \in 0 .. (n - 1)
      BY <1>3
    <3> QED BY <1>6, <1>10, <1>14, <3>1
  <2>2. \A q \in Sleepers : q \notin Range(r) => f[q] = 0
    BY <1>7, <1>14, <1>15
  <2> QED BY <1>6, <1>9, <1>14, <2>1, <2>2, Zenon DEF IsLeft
<1>17. LeftIn(r, e) = f
  BY <1>11, <1>16, LeftOnly
<1> QED BY <1>3, <1>6, <1>7, <1>11, <1>12, <1>13, <1>15, <1>17, Zenon

-----------------------------------------------------------------------------
(* The specification *)

\* The inductive invariant: no entry is further away than MaxSleep ticks, so
\* that no sum of two entries is, and the head has ticks left between the
\* interrupts.
SleepInv ==
  /\ IsSleepState(timer_list, expires, asleep) /\ irq \in {"off", "on"}
  /\ Near(timer_list, expires)
  /\ irq = "off" => ~AtHead(timer_list, expires)

LEMMA SumsAreUpTo == UpTo = SumsOf(timer_list, expires)
BY Zenon DEF UpTo, SumsOf, Sums

LEMMA LeftBarIs == leftBar = LeftIn(timer_list, expires)
BY SumsAreUpTo, Zenon DEF leftBar, Linked, PlaceOf, LeftIn, PlaceIn

LEMMA InvIsOK ==
  ASSUME SleepAssumption
  PROVE  SleepInv => HeadNotDue
<1> SUFFICES ASSUME SleepInv PROVE HeadNotDue
  OBVIOUS
<1>1. \A k \in 1 .. Len(timer_list) : timer_list[k] \in asleep
  BY StateFacts DEF SleepInv, SleepAssumption
<1>2. \A p \in Sleepers : Linked(p) => p \in asleep
  BY <1>1, Zenon DEF Linked
<1> QED BY <1>2 DEF SleepInv, IsSleepState, HeadNotDue, TimersOK, AtHead, HeadDue

LEMMA LinkedIsIn ==
  ASSUME MaxSleep \in Nat, NEW s, NEW e, NEW a, IsSleepState(s, e, a)
  PROVE  \A p \in Sleepers : (\E k \in 1 .. Len(s) : s[k] = p) <=> p \in Range(s)
<1>1. /\ \A k \in 1 .. Len(s) : s[k] \in Range(s)
      /\ \A q \in Range(s) : \E k \in 1 .. Len(s) : s[k] = q
  BY StateFacts
<1> QED BY <1>1, Zenon

LEMMA SleepStart == SleepAssumption /\ TimerInit => SleepInv /\ Ticks!Init
<1> SUFFICES ASSUME SleepAssumption, TimerInit PROVE SleepInv /\ Ticks!Init
  OBVIOUS
<1>1. /\ timer_list = <<>> /\ expires = [p \in Sleepers |-> 0] /\ asleep = {} /\ irq = "off"
      /\ timer_list \in Seq(Sleepers) /\ Len(timer_list) = 0 /\ DOMAIN timer_list = {}
  BY DEF TimerInit
<1>2. IsSleepState(timer_list, expires, asleep)
  <2>1. IsInjective(timer_list) /\ Range(timer_list) = {}
    BY <1>1, Zenon DEF IsInjective, Range
  <2>2. expires \in [Sleepers -> 0 .. MaxSleep]
    BY <1>1 DEF SleepAssumption
  <2> QED BY <1>1, <2>1, <2>2 DEF IsSleepState
<1>3. Near(timer_list, expires)
  <2>1. expires \in [Sleepers -> Nat] /\ MaxSleep \in Nat
    BY <1>1 DEF SleepAssumption
  <2>2. Running(SumsOf(timer_list, expires), timer_list, expires, Len(timer_list))
    BY <1>1, <2>1, SumsFacts
  <2>3. SumsOf(timer_list, expires)[0] = 0
    BY <2>2, Zenon DEF Running
  <2>4. \A k \in 0 .. Len(timer_list) : k = 0
    BY <1>1
  <2> QED BY <2>1, <2>3, <2>4 DEF Near
<1>4. \A p \in Sleepers : ~Linked(p)
  BY <1>1 DEF Linked
<1>5. leftBar = [p \in Sleepers |-> 0] /\ dueBar = {}
  BY <1>4, Zenon DEF leftBar, dueBar
<1> QED BY <1>1, <1>2, <1>3, <1>5 DEF SleepInv, AtHead, Ticks!Init

LEMMA SleepStep == SleepAssumption /\ SleepInv /\ [TimerNext]_timers => SleepInv' /\ [Ticks!Next]_(Ticks!vars)
<1> SUFFICES ASSUME SleepAssumption, SleepInv, [TimerNext]_timers PROVE SleepInv' /\ [Ticks!Next]_(Ticks!vars)
  OBVIOUS
<1>0. /\ MaxSleep \in Nat
      /\ IsSleepState(timer_list, expires, asleep) /\ Near(timer_list, expires) /\ irq \in {"off", "on"}
      /\ irq = "off" => ~AtHead(timer_list, expires)
      /\ asleep \subseteq Sleepers /\ Range(timer_list) \subseteq asleep
  BY DEF SleepInv, SleepAssumption, IsSleepState
<1>1. leftBar = LeftIn(timer_list, expires) /\ leftBar' = LeftIn(timer_list', expires')
  <2>1. (leftBar = LeftIn(timer_list, expires))'
    BY LeftBarIs, PTL
  <2> QED BY <2>1, LeftBarIs
<1>2. \A p \in Sleepers : Linked(p) <=> p \in Range(timer_list)
  BY <1>0, LinkedIsIn DEF Linked
<1>3. SleepInv' => \A p \in Sleepers : Linked(p)' <=> p \in Range(timer_list')
  <2> SUFFICES ASSUME SleepInv' PROVE \A p \in Sleepers : Linked(p)' <=> p \in Range(timer_list')
    OBVIOUS
  <2>1. IsSleepState(timer_list', expires', asleep')
    BY DEF SleepInv
  <2>2. \A p \in Sleepers : (\E k \in 1 .. Len(timer_list') : timer_list'[k] = p) <=> p \in Range(timer_list')
    BY <1>0, <2>1, LinkedIsIn
  <2> QED BY <2>2, Zenon DEF Linked
<1>4. ASSUME NEW p \in Sleepers, NEW t \in 1 .. MaxSleep, add_timer(p, t) PROVE SleepInv' /\ Ticks!Start(p, t)
  <2>1. PICK k : k = StopIn(timer_list, SumsOf(timer_list, expires), t)
    OBVIOUS
  <2>2. Stop(t) = k
    BY <2>1, SumsAreUpTo, Zenon DEF Stop, StopIn
  <2>3. /\ irq = "off" /\ p \notin asleep /\ timer_list' = InsertAt(timer_list, k, p)
        /\ expires' = Inserted(timer_list, expires, SumsOf(timer_list, expires), k, p, t)
        /\ asleep' = asleep \cup {p} /\ irq' = irq
    BY <1>4, <2>2, SumsAreUpTo DEF add_timer, Walk, Pushed, Inserted
  <2>4. /\ IsSleepState(timer_list', expires', asleep') /\ Near(timer_list', expires')
        /\ ~AtHead(timer_list', expires') /\ LeftIn(timer_list, expires)[p] = 0
        /\ LeftIn(timer_list', expires') = [LeftIn(timer_list, expires) EXCEPT ![p] = t]
    <3>1. /\ MaxSleep \in Nat /\ IsSleepState(timer_list, expires, asleep) /\ Near(timer_list, expires)
          /\ ~AtHead(timer_list, expires) /\ p \notin asleep
      BY <1>0, <2>3
    <3>2. /\ timer_list' = InsertAt(timer_list, k, p) /\ asleep' = asleep \cup {p}
          /\ expires' = Inserted(timer_list, expires, SumsOf(timer_list, expires), k, p, t)
      BY <2>3
    <3>3. AddStep(timer_list, expires, k, p, t, timer_list', expires')
      BY <2>1, <3>2, Zenon DEF AddStep
    <3>4. Added(timer_list, expires, asleep \cup {p}, p, t, timer_list', expires')
      BY <3>1, <3>3, AddTimer
    <3> QED BY <3>2, <3>4, Zenon DEF Added
  <2>5. SleepInv'
    BY <1>0, <2>3, <2>4 DEF SleepInv
  <2>6. dueBar = {} /\ dueBar' = {}
    BY <2>3 DEF dueBar
  <2> QED BY <1>1, <2>3, <2>4, <2>5, <2>6 DEF Ticks!Start
<1>5. ASSUME NEW p \in Sleepers, del_timer(p) PROVE SleepInv' /\ Ticks!Cancel(p)
  <2>0. irq = "off" /\ irq' = irq /\ asleep' = asleep \ {p}
    BY <1>5 DEF del_timer
  <2>1. dueBar = {} /\ dueBar' = {}
    BY <2>0 DEF dueBar
  <2>2. CASE Linked(p)
    <3>1. PICK k \in 1 .. Len(timer_list) : k = PlaceOf(p) /\ timer_list[k] = p
      BY <2>2, Zenon DEF Linked, PlaceOf
    <3>2. timer_list' = RemoveAt(timer_list, k) /\ expires' = Deleted(timer_list, expires, k)
      BY <1>5, <2>2, <3>1 DEF del_timer, Inherits, Deleted
    <3>3. /\ IsSleepState(timer_list', expires', asleep') /\ Near(timer_list', expires')
          /\ ~AtHead(timer_list', expires')
          /\ LeftIn(timer_list', expires') = [LeftIn(timer_list, expires) EXCEPT ![p] = 0]
      BY <1>0, <2>0, <3>1, <3>2, DelTimer
    <3>4. SleepInv'
      BY <1>0, <2>0, <3>3 DEF SleepInv
    <3> QED BY <1>1, <2>0, <2>1, <3>3, <3>4 DEF Ticks!Cancel
  <2>3. CASE ~Linked(p)
    <3>1. timer_list' = timer_list /\ expires' = expires
      BY <1>5, <2>3 DEF del_timer
    <3>2. p \notin Range(timer_list)
      BY <1>2, <2>3
    <3>3. IsSleepState(timer_list', expires', asleep')
      BY <1>0, <2>0, <3>1, <3>2 DEF IsSleepState
    <3>4. SleepInv'
      BY <1>0, <2>0, <3>1, <3>3 DEF SleepInv
    <3>5. leftBar = [q \in Sleepers |-> leftBar[q]] /\ leftBar[p] = 0
      BY <2>3, Zenon DEF leftBar
    <3>6. leftBar' = leftBar
      BY <1>1, <3>1
    <3>7. leftBar' = [leftBar EXCEPT ![p] = 0]
      BY <3>5, <3>6
    <3> QED BY <2>0, <2>1, <3>4, <3>7 DEF Ticks!Cancel
  <2> QED BY <2>2, <2>3
<1>6. ASSUME run_timer_list PROVE SleepInv' /\ Ticks!Tick
  <2>1. /\ irq = "off" /\ irq' = "on" /\ expires' = Ticked(timer_list, expires)
        /\ timer_list' = timer_list /\ asleep' = asleep
    BY <1>6 DEF run_timer_list, Ticked
  <2>2. /\ IsSleepState(timer_list, expires', asleep) /\ Near(timer_list, expires')
        /\ LeftIn(timer_list, expires') = [p \in Sleepers |-> IF LeftIn(timer_list, expires)[p] = 0 THEN 0 ELSE LeftIn(timer_list, expires)[p] - 1]
    BY <1>0, <2>1, TickTimers
  <2>3. SleepInv'
    BY <2>1, <2>2 DEF SleepInv
  <2>4. leftBar' = [p \in Sleepers |-> IF leftBar[p] = 0 THEN 0 ELSE leftBar[p] - 1]
    BY <1>1, <2>1, <2>2, Zenon
  <2>5. \A p \in Sleepers : leftBar[p] = 0 <=> p \notin Range(timer_list)
    BY <1>0, <1>1, <2>1, AllLeft
  <2>6. \A p \in Sleepers : leftBar[p] \in Nat
    <3>1. timer_list \in Seq(Sleepers) /\ expires \in [Sleepers -> Nat]
      BY <1>0, StateFacts
    <3>2. SumsOf(timer_list, expires) \in [0 .. Len(timer_list) -> Nat]
      BY <3>1, SumsExist
    <3>3. ASSUME NEW p \in Sleepers, Linked(p) PROVE UpTo[PlaceOf(p)] \in Nat
      <4>1. PlaceOf(p) \in 1 .. Len(timer_list)
        BY <3>3, Zenon DEF Linked, PlaceOf
      <4>2. PlaceOf(p) \in 0 .. Len(timer_list)
        BY <3>1, <4>1
      <4> QED BY <3>2, <4>2, SumsAreUpTo
    <3> QED BY <3>3 DEF leftBar
  <2>7. dueBar' = {p \in Sleepers : leftBar[p] = 1}
    <3>1. ASSUME NEW p \in Sleepers PROVE p \in dueBar' <=> leftBar[p] = 1
      <4>1. p \in dueBar' <=> p \in Range(timer_list) /\ leftBar'[p] = 0
        BY <1>3, <2>1, <2>3, Zenon DEF dueBar
      <4>2. leftBar'[p] = IF leftBar[p] = 0 THEN 0 ELSE leftBar[p] - 1
        BY <2>4, Zenon
      <4>3. leftBar[p] \in Nat
        BY <2>6
      <4>4. \A x \in Nat : x # 0 => (x - 1 = 0 <=> x = 1)
        OBVIOUS
      <4>5. leftBar[p] = 1 => leftBar[p] # 0
        OBVIOUS
      <4> QED BY <2>5, <4>1, <4>2, <4>3, <4>4, <4>5, Zenon
    <3>2. dueBar' \subseteq Sleepers
      BY DEF dueBar
    <3> QED BY <3>1, <3>2
  <2> QED BY <2>1, <2>3, <2>4, <2>7 DEF Ticks!Tick
<1>7. ASSUME expire_head PROVE SleepInv' /\ \E p \in Sleepers : Ticks!Fire(p)
  <2>1. /\ irq = "on" /\ irq' = irq /\ AtHead(timer_list, expires) /\ timer_list' = Tail(timer_list)
        /\ expires' = expires /\ asleep' = asleep
    BY <1>7 DEF expire_head, HeadDue, AtHead
  <2>2. PICK p : p = Head(timer_list)
    OBVIOUS
  <2>3. /\ IsSleepState(timer_list', expires, asleep) /\ Near(timer_list', expires)
        /\ p \in Range(timer_list) /\ Range(timer_list') = Range(timer_list) \ {p}
        /\ LeftIn(timer_list, expires)[p] = 0 /\ LeftIn(timer_list', expires) = LeftIn(timer_list, expires)
    BY <1>0, <2>1, <2>2, ExpireHead
  <2>4. SleepInv'
    BY <2>1, <2>3 DEF SleepInv
  <2>5. p \in Sleepers
    BY <1>0, <2>3
  <2>6. leftBar' = leftBar /\ leftBar[p] = 0
    BY <1>1, <2>1, <2>3
  <2>7. \A q \in Sleepers : q \in dueBar <=> q \in Range(timer_list) /\ leftBar[q] = 0
    BY <1>2, <2>1, Zenon DEF dueBar
  <2>8. \A q \in Sleepers : q \in dueBar' <=> q \in Range(timer_list') /\ leftBar[q] = 0
    <3>1. \A q \in Sleepers : q \in dueBar' <=> Linked(q)' /\ leftBar'[q] = 0
      BY <2>1, Zenon DEF dueBar
    <3> QED BY <1>3, <2>4, <2>6, <3>1
  <2>9. dueBar \subseteq Sleepers /\ dueBar' \subseteq Sleepers
    BY DEF dueBar
  <2>10. dueBar' = dueBar \ {p} /\ p \in dueBar
    BY <2>3, <2>5, <2>6, <2>7, <2>8, <2>9
  <2>11. Ticks!Fire(p)
    BY <2>1, <2>6, <2>10 DEF Ticks!Fire
  <2> QED BY <2>4, <2>5, <2>11
<1>8. ASSUME run_timer_list_end PROVE SleepInv' /\ Ticks!Return
  <2>1. /\ irq = "on" /\ irq' = "off" /\ ~AtHead(timer_list, expires) /\ timer_list' = timer_list
        /\ expires' = expires /\ asleep' = asleep
    BY <1>8 DEF run_timer_list_end, HeadDue, AtHead
  <2>2. SleepInv'
    BY <1>0, <2>1 DEF SleepInv
  <2>3. \A p \in Sleepers : leftBar[p] = 0 <=> p \notin Range(timer_list)
    BY <1>0, <1>1, <2>1, AllLeft
  <2>4. dueBar = {}
    BY <1>2, <2>3 DEF dueBar
  <2>5. dueBar' = {} /\ leftBar' = leftBar
    BY <1>1, <2>1 DEF dueBar
  <2> QED BY <2>1, <2>2, <2>4, <2>5 DEF Ticks!Return
<1>9. ASSUME UNCHANGED timers PROVE SleepInv' /\ UNCHANGED Ticks!vars
  <2>1. timer_list' = timer_list /\ expires' = expires /\ asleep' = asleep /\ irq' = irq
    BY <1>9 DEF timers
  <2>2. SleepInv'
    BY <1>0, <2>1 DEF SleepInv
  <2>3. leftBar' = leftBar
    BY <1>1, <2>1
  <2>4. dueBar' = dueBar
    <3>1. \A p \in Sleepers : Linked(p)' <=> Linked(p)
      BY <1>2, <1>3, <2>1, <2>2
    <3> QED BY <2>1, <2>3, <3>1 DEF dueBar
  <2> QED BY <2>1, <2>2, <2>3, <2>4 DEF Ticks!vars
<1> QED BY <1>4, <1>5, <1>6, <1>7, <1>8, <1>9 DEF TimerNext, Ticks!Next

\* add_timer, del_timer and run_timer_list implement Timers, and the assertion
\* of run_timer_list holds, for any set of processes and any bound on the ticks.
THEOREM TimersImplemented == ASSUME SleepAssumption PROVE TimerSpec => ImplementsTimers
<1>1. SleepInv => HeadNotDue
  BY InvIsOK
<1>2. TimerInit => SleepInv /\ Ticks!Init
  BY SleepStart
<1>3. SleepInv /\ [TimerNext]_timers => SleepInv' /\ [Ticks!Next]_(Ticks!vars)
  BY SleepStep
<1> QED BY <1>1, <1>2, <1>3, PTL DEF TimerSpec, ImplementsTimers, Ticks!Spec
=============================================================================
