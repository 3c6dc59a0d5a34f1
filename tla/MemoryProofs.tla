---------------------------- MODULE MemoryProofs ----------------------------
(***************************************************************************)
(* Memory of user processes is safe, for any number of processes, mms and  *)
(* pages, any shape of the page tables and any programs.                   *)
(***************************************************************************)
EXTENDS AddressSpace, QueueLemmas, FiniteSetTheorems

PteMaps == [Addrs -> Ptes \cup {None}]
RefMaps == [Frames -> Nat]

\* A page table maps the page f.
Maps(q, f) == \E la \in Addrs : q[la] # None /\ q[la].frame = f
One(q, f) == IF Maps(q, f) THEN 1 ELSE 0

Used(r) == {f \in Frames : r[f] > 0}

\* What q may write is mapped once.
Private(r, q) == \A la \in Addrs : q[la] # None /\ q[la].write => r[q[la].frame] <= 1

(***************************************************************************)
(* A page table q beside others.  F pages are free and K in use for other  *)
(* things than mappings; the others map a page f b[f] times, and may write *)
(* those in w.                                                             *)
(***************************************************************************)
FitMap(F, K, r, q, b, w) ==
  /\ F \in Nat /\ K \in Nat /\ r \in RefMaps /\ q \in PteMaps
  /\ Apart(q) /\ Private(r, q)
  /\ \A f \in Frames : r[f] = b[f] + One(q, f)
  /\ \A f \in w : r[f] <= 1
  /\ F + K + Cardinality(Used(r)) <= NPage

LEMMA SizeFacts ==
  /\ N1 \in Nat \ {0} /\ N0 \in Nat \ {0} /\ NT \in Nat \ {0} /\ NPage \in Nat \ {0}
  /\ COW \in BOOLEAN /\ IsFiniteSet(Procs) /\ Init0 \in Procs /\ IsFiniteSet(Mms)
  /\ Programs \subseteq Seq(Vmas) /\ Stack \in Vmas
  /\ StackPages \in 0 .. (Stack.end - Stack.start)
  /\ None \notin Mms /\ None \notin Ptes /\ None \notin MmStructs
BY SizeAssumption DEF SizesOK

\* The pages that are mapped are finitely many.
LEMMA UsedFacts ==
  ASSUME NEW r
  PROVE  /\ IsFiniteSet(Frames) /\ Cardinality(Frames) = NPage /\ Frames \subseteq Int
         /\ IsFiniteSet(Used(r)) /\ Cardinality(Used(r)) \in Nat
         /\ \A S : S \subseteq Frames => IsFiniteSet(S) /\ Cardinality(S) \in Nat
<1>1. IsFiniteSet(Frames) /\ Cardinality(Frames) = NPage /\ Frames \subseteq Int
  BY SizeFacts, FS_Interval DEF Frames
<1>2. ASSUME NEW S, S \subseteq Frames PROVE IsFiniteSet(S) /\ Cardinality(S) \in Nat
  BY <1>1, <1>2, FS_Subset, FS_CardinalityType
<1>3. Used(r) \subseteq Frames
  BY DEF Used
<1> QED BY <1>1, <1>2, <1>3

LEMMA PteFacts ==
  ASSUME NEW q \in PteMaps, NEW la \in Addrs, q[la] # None
  PROVE  /\ q[la] \in Ptes /\ q[la].frame \in Frames /\ q[la].write \in BOOLEAN
         /\ Maps(q, q[la].frame)
<1>1. q[la] \in Ptes
  BY DEF PteMaps
<1> QED BY <1>1 DEF Ptes, Maps

\* A free page is mapped where nothing was, and is in hand no longer.
IsMapNew(r, q, f, la, P, r2, q2) ==
  /\ f \in Frames /\ r[f] = 0 /\ la \in Addrs /\ q[la] = None /\ P \in Ptes /\ P.frame = f
  /\ r2 = [r EXCEPT ![f] = @ + 1] /\ q2 = [q EXCEPT ![la] = P]

LEMMA MapNew ==
  ASSUME NEW b \in RefMaps, NEW w, w \subseteq Frames, NEW F, NEW K \in Nat, NEW r, NEW q,
         FitMap(F, K + 1, r, q, b, w), NEW f, NEW la, NEW P, NEW r2, NEW q2,
         IsMapNew(r, q, f, la, P, r2, q2)
  PROVE  FitMap(F, K, r2, q2, b, w)
<1>0. /\ f \in Frames /\ r[f] = 0 /\ la \in Addrs /\ q[la] = None /\ P \in Ptes /\ P.frame = f
      /\ r2 = [r EXCEPT ![f] = @ + 1] /\ q2 = [q EXCEPT ![la] = P]
  BY DEF IsMapNew
<1>1. /\ F \in Nat /\ r \in RefMaps /\ q \in PteMaps /\ Apart(q) /\ Private(r, q)
      /\ \A g \in Frames : r[g] = b[g] + One(q, g)
      /\ \A g \in w : r[g] <= 1
      /\ F + (K + 1) + Cardinality(Used(r)) <= NPage
  BY <1>0 DEF FitMap
<1>2. /\ r2 \in RefMaps /\ r2[f] = 1 /\ \A g \in Frames : g # f => r2[g] = r[g]
  BY <1>0, <1>1 DEF RefMaps
<1>3. /\ q2 \in PteMaps /\ q2[la] = P /\ \A lb \in Addrs : lb # la => q2[lb] = q[lb]
  BY <1>0, <1>1 DEF PteMaps
<1>4. P # None
  BY <1>0, SizeFacts
<1>5. ~Maps(q, f) /\ b[f] = 0
  BY <1>0, <1>1 DEF One, RefMaps
<1>6. \A lb \in Addrs : lb # la /\ q2[lb] # None => q2[lb].frame # f
  BY <1>0, <1>3, <1>5 DEF Maps
<1>7. Apart(q2)
  BY <1>0, <1>1, <1>3, <1>4, <1>6 DEF Apart
<1>8. Private(r2, q2)
  <2> SUFFICES ASSUME NEW lb \in Addrs, q2[lb] # None, q2[lb].write PROVE r2[q2[lb].frame] <= 1
    BY <1>0 DEF Private
  <2>1. CASE lb = la
    BY <1>0, <1>2, <1>3, <2>1
  <2>2. CASE lb # la
    <3>1. q2[lb] = q[lb] /\ q[lb].frame \in Frames /\ r[q[lb].frame] <= 1 /\ q[lb].frame # f
      BY <1>0, <1>1, <1>3, <1>6, <2>2, PteFacts DEF Private
    <3> QED BY <1>0, <1>2, <3>1
  <2> QED BY <1>0, <2>1, <2>2
<1>9. ASSUME NEW g \in Frames PROVE r2[g] = b[g] + One(q2, g)
  <2>1. CASE g = f
    <3>1. Maps(q2, f)
      BY <1>0, <1>3, <1>4 DEF Maps
    <3> QED BY <1>0, <1>2, <1>5, <2>1, <3>1 DEF One
  <2>2. CASE g # f
    <3>1. Maps(q2, g) <=> Maps(q, g)
      BY <1>0, <1>3, <2>2 DEF Maps
    <3> QED BY <1>0, <1>1, <1>2, <2>2, <3>1 DEF One
  <2> QED BY <1>0, <2>1, <2>2
<1>10. \A g \in w : r2[g] <= 1
  BY <1>0, <1>1, <1>2
<1>11. Used(r2) = Used(r) \cup {f} /\ f \notin Used(r)
  <2>1. \A g \in Frames : r2[g] > 0 <=> r[g] > 0 \/ g = f
    BY <1>0, <1>2
  <2>2. \A g : g \in Used(r2) <=> g \in Used(r) \cup {f}
    BY <1>0, <2>1 DEF Used
  <2>3. f \notin Used(r)
    BY <1>0 DEF Used
  <2> QED BY <1>0, <2>2, <2>3
<1>12. Cardinality(Used(r2)) = Cardinality(Used(r)) + 1 /\ Cardinality(Used(r)) \in Nat
  <2>1. IsFiniteSet(Used(r)) /\ Cardinality(Used(r)) \in Nat
    BY <1>0, UsedFacts
  <2>2. Cardinality(Used(r) \cup {f}) = IF f \in Used(r) THEN Cardinality(Used(r)) ELSE Cardinality(Used(r)) + 1
    BY <1>0, <2>1, FS_AddElement
  <2> QED BY <1>0, <1>11, <2>1, <2>2
<1>13. F + K + Cardinality(Used(r2)) <= NPage
  BY <1>0, <1>1, <1>12, SizeFacts
<1> QED BY <1>0, <1>1, <1>2, <1>3, <1>7, <1>8, <1>9, <1>10, <1>13 DEF FitMap

\* The entry of a mapped page changes: it may be written if nobody else maps it.
LEMMA MapSame ==
  ASSUME NEW b \in RefMaps, NEW w, NEW F, NEW K, NEW r, NEW q, FitMap(F, K, r, q, b, w),
         NEW la \in Addrs, q[la] # None, NEW P \in Ptes, P.frame = q[la].frame,
         P.write => r[P.frame] <= 1, NEW q2, q2 = [q EXCEPT ![la] = P]
  PROVE  FitMap(F, K, r, q2, b, w)
<1>1. q \in PteMaps /\ Apart(q) /\ Private(r, q) /\ \A g \in Frames : r[g] = b[g] + One(q, g)
  BY DEF FitMap
<1>2. q2 \in PteMaps /\ q2[la] = P /\ \A lb \in Addrs : lb # la => q2[lb] = q[lb]
  BY <1>1 DEF PteMaps
<1>3. P # None
  BY SizeFacts
<1>4. \A lb \in Addrs : (q2[lb] # None <=> q[lb] # None) /\ (q[lb] # None => q2[lb].frame = q[lb].frame)
  BY <1>2, <1>3
<1>5. Apart(q2)
  BY <1>1, <1>4 DEF Apart
<1>6. Private(r, q2)
  <2> SUFFICES ASSUME NEW lb \in Addrs, q2[lb] # None, q2[lb].write PROVE r[q2[lb].frame] <= 1
    BY DEF Private
  <2>1. CASE lb = la
    BY <1>2, <2>1
  <2>2. CASE lb # la
    BY <1>1, <1>2, <2>2 DEF Private
  <2> QED BY <2>1, <2>2
<1>7. \A g \in Frames : Maps(q2, g) <=> Maps(q, g)
  BY <1>4 DEF Maps
<1> QED BY <1>1, <1>2, <1>5, <1>6, <1>7 DEF FitMap, One

\* A page of somebody else is mapped too; nobody may write it.
IsMapShared(b, w, r, q, f, la, P, r2, q2) ==
  /\ f \in Frames /\ b[f] >= 1 /\ (f \in w => b[f] >= 2) /\ ~Maps(q, f)
  /\ la \in Addrs /\ q[la] = None /\ P \in Ptes /\ P.frame = f /\ ~P.write
  /\ r2 = [r EXCEPT ![f] = @ + 1] /\ q2 = [q EXCEPT ![la] = P]

LEMMA MapShared ==
  ASSUME NEW b \in RefMaps, NEW w, w \subseteq Frames, NEW F, NEW K, NEW r, NEW q,
         FitMap(F, K, r, q, b, w), NEW f, NEW la, NEW P, NEW r2, NEW q2,
         IsMapShared(b, w, r, q, f, la, P, r2, q2)
  PROVE  FitMap(F, K, r2, q2, b, w)
<1>0. /\ f \in Frames /\ b[f] >= 1 /\ (f \in w => b[f] >= 2) /\ ~Maps(q, f)
      /\ la \in Addrs /\ q[la] = None /\ P \in Ptes /\ P.frame = f /\ ~P.write
      /\ r2 = [r EXCEPT ![f] = @ + 1] /\ q2 = [q EXCEPT ![la] = P]
  BY DEF IsMapShared
<1>1. /\ r \in RefMaps /\ q \in PteMaps /\ Apart(q) /\ Private(r, q)
      /\ \A g \in Frames : r[g] = b[g] + One(q, g)
      /\ \A g \in w : r[g] <= 1
  BY <1>0 DEF FitMap
<1>2. /\ r2 \in RefMaps /\ r2[f] = r[f] + 1 /\ \A g \in Frames : g # f => r2[g] = r[g]
  BY <1>0, <1>1 DEF RefMaps
<1>3. /\ q2 \in PteMaps /\ q2[la] = P /\ \A lb \in Addrs : lb # la => q2[lb] = q[lb]
  BY <1>0, <1>1 DEF PteMaps
<1>4. P # None
  BY <1>0, SizeFacts
<1>5. r[f] = b[f] /\ r[f] \in Nat
  BY <1>0, <1>1 DEF One, RefMaps
<1>6. \A lb \in Addrs : lb # la /\ q2[lb] # None => q2[lb].frame # f
  BY <1>0, <1>3 DEF Maps
<1>7. Apart(q2)
  BY <1>0, <1>1, <1>3, <1>4, <1>6 DEF Apart
<1>8. Private(r2, q2)
  <2> SUFFICES ASSUME NEW lb \in Addrs, q2[lb] # None, q2[lb].write PROVE r2[q2[lb].frame] <= 1
    BY <1>0 DEF Private
  <2>1. lb # la
    BY <1>0, <1>3
  <2>2. q2[lb] = q[lb] /\ q[lb].frame \in Frames /\ r[q[lb].frame] <= 1 /\ q[lb].frame # f
    BY <1>0, <1>1, <1>3, <1>6, <2>1, PteFacts DEF Private
  <2> QED BY <1>0, <1>2, <2>2
<1>9. ASSUME NEW g \in Frames PROVE r2[g] = b[g] + One(q2, g)
  <2>1. CASE g = f
    <3>1. Maps(q2, f)
      BY <1>0, <1>3, <1>4 DEF Maps
    <3> QED BY <1>0, <1>2, <1>5, <2>1, <3>1 DEF One
  <2>2. CASE g # f
    <3>1. Maps(q2, g) <=> Maps(q, g)
      BY <1>0, <1>3, <2>2 DEF Maps
    <3> QED BY <1>0, <1>1, <1>2, <2>2, <3>1 DEF One
  <2> QED BY <1>0, <2>1, <2>2
<1>10. \A g \in w : r2[g] <= 1
  <2>1. f \notin w
    BY <1>0, <1>1, <1>5 DEF RefMaps
  <2> QED BY <1>0, <1>1, <1>2, <2>1
<1>11. Used(r2) = Used(r)
  BY <1>0, <1>2, <1>5 DEF Used, RefMaps
<1> QED BY <1>0, <1>1, <1>2, <1>3, <1>7, <1>8, <1>9, <1>10, <1>11 DEF FitMap

\* The entries of las go, and with them the pages that nobody else maps.
Unmapped(q, las) == [la \in Addrs |-> IF la \in las THEN None ELSE q[la]]
GoneOf(q, las) == {q[la].frame : la \in las}
LastOf(r, q, las) == {f \in GoneOf(q, las) : r[f] = 1}
Fewer(r, q, las) == [f \in Frames |-> IF f \in GoneOf(q, las) THEN r[f] - 1 ELSE r[f]]

LEMMA UnmapKeeps ==
  ASSUME NEW b \in RefMaps, NEW w, w \subseteq Frames, NEW F, NEW K, NEW r, NEW q,
         FitMap(F, K, r, q, b, w), NEW las, las \subseteq Addrs, \A la \in las : q[la] # None
  PROVE  FitMap(F + Cardinality(LastOf(r, q, las)), K, Fewer(r, q, las), Unmapped(q, las), b, w)
<1>0. PICK r2, q2, gone, last : /\ r2 = Fewer(r, q, las) /\ q2 = Unmapped(q, las)
                                /\ gone = GoneOf(q, las) /\ last = LastOf(r, q, las)
  OBVIOUS
<1>1. /\ F \in Nat /\ K \in Nat /\ r \in RefMaps /\ q \in PteMaps /\ Apart(q) /\ Private(r, q)
      /\ \A g \in Frames : r[g] = b[g] + One(q, g)
      /\ \A g \in w : r[g] <= 1
      /\ F + K + Cardinality(Used(r)) <= NPage
  BY DEF FitMap
<1>2. /\ \A f : f \in gone <=> \E la \in las : f = q[la].frame
      /\ \A f : f \in last <=> f \in gone /\ r[f] = 1
  BY <1>0 DEF GoneOf, LastOf
<1>3. \A f \in gone : f \in Frames /\ Maps(q, f) /\ r[f] >= 1
  <2> SUFFICES ASSUME NEW f \in gone PROVE f \in Frames /\ Maps(q, f) /\ r[f] >= 1
    OBVIOUS
  <2>1. PICK la \in las : f = q[la].frame
    BY <1>2
  <2>2. f \in Frames /\ Maps(q, f)
    BY <1>1, <2>1, PteFacts
  <2> QED BY <1>1, <2>2 DEF One, RefMaps
<1>4. r2 \in RefMaps /\ \A f \in Frames : r2[f] = IF f \in gone THEN r[f] - 1 ELSE r[f]
  <2>1. \A f \in Frames : r2[f] = IF f \in gone THEN r[f] - 1 ELSE r[f]
    BY <1>0 DEF Fewer
  <2>2. \A f \in Frames : r[f] \in Nat
    BY <1>1 DEF RefMaps
  <2>3. \A f \in Frames : (IF f \in gone THEN r[f] - 1 ELSE r[f]) \in Nat
    BY <1>3, <2>2
  <2> QED BY <1>0, <2>1, <2>3 DEF Fewer, RefMaps
<1>5. q2 \in PteMaps /\ \A la \in Addrs : q2[la] = IF la \in las THEN None ELSE q[la]
  BY <1>0, <1>1 DEF Unmapped, PteMaps
<1>6. Apart(q2)
  BY <1>1, <1>5 DEF Apart
<1>7. \A f \in Frames : Maps(q2, f) <=> Maps(q, f) /\ f \notin gone
  <2> SUFFICES ASSUME NEW f \in Frames PROVE Maps(q2, f) <=> Maps(q, f) /\ f \notin gone
    OBVIOUS
  <2>1. ASSUME Maps(q2, f) PROVE Maps(q, f) /\ f \notin gone
    <3>1. PICK la \in Addrs : q2[la] # None /\ q2[la].frame = f
      BY <2>1 DEF Maps
    <3>2. la \notin las /\ q[la] # None /\ q[la].frame = f
      BY <1>5, <3>1
    <3>3. \A lb \in las : q[lb].frame # f
      BY <1>1, <3>2 DEF Apart
    <3> QED BY <1>2, <3>2, <3>3 DEF Maps
  <2>2. ASSUME Maps(q, f), f \notin gone PROVE Maps(q2, f)
    <3>1. PICK la \in Addrs : q[la] # None /\ q[la].frame = f
      BY <2>2 DEF Maps
    <3>2. la \notin las
      BY <1>2, <2>2, <3>1
    <3> QED BY <1>5, <3>1, <3>2 DEF Maps
  <2> QED BY <2>1, <2>2
<1>8. Private(r2, q2)
  <2> SUFFICES ASSUME NEW la \in Addrs, q2[la] # None, q2[la].write PROVE r2[q2[la].frame] <= 1
    BY DEF Private
  <2>1. q2[la] = q[la] /\ q[la].frame \in Frames /\ r[q[la].frame] <= 1
    BY <1>1, <1>5, PteFacts DEF Private
  <2>2. r[q[la].frame] \in Nat
    BY <1>1, <2>1 DEF RefMaps
  <2> QED BY <1>4, <2>1, <2>2
<1>9. ASSUME NEW g \in Frames PROVE r2[g] = b[g] + One(q2, g)
  <2>1. r[g] = b[g] + One(q, g) /\ b[g] \in Nat
    BY <1>1 DEF RefMaps
  <2>2. g \in gone => Maps(q, g)
    BY <1>3
  <2> QED BY <1>4, <1>7, <2>1, <2>2 DEF One
<1>10. \A g \in w : r2[g] <= 1
  <2>1. \A g \in w : r[g] <= 1 /\ r[g] \in Nat
    BY <1>1 DEF RefMaps
  <2> QED BY <1>4, <2>1
<1>11. Used(r2) = Used(r) \ last /\ last \subseteq Used(r)
  <2>1. \A f \in Frames : r[f] \in Nat
    BY <1>1 DEF RefMaps
  <2>2. \A f \in Frames : r2[f] > 0 <=> r[f] > 0 /\ f \notin last
    BY <1>2, <1>3, <1>4, <2>1
  <2>3. \A f \in last : f \in Frames /\ r[f] > 0
    BY <1>2, <1>3
  <2> QED BY <2>2, <2>3 DEF Used
<1>12. /\ Cardinality(Used(r2)) = Cardinality(Used(r)) - Cardinality(last)
       /\ Cardinality(last) \in Nat /\ Cardinality(Used(r)) \in Nat
  <2>1. Used(r) \cap last = last /\ last \subseteq Frames
    BY <1>11 DEF Used
  <2>2. IsFiniteSet(Used(r)) /\ Cardinality(Used(r)) \in Nat /\ Cardinality(last) \in Nat
    BY <2>1, UsedFacts
  <2>3. Cardinality(Used(r) \ last) = Cardinality(Used(r)) - Cardinality(Used(r) \cap last)
    BY <2>2, FS_Difference
  <2> QED BY <1>11, <2>1, <2>2, <2>3
<1>13. (F + Cardinality(last)) + K + Cardinality(Used(r2)) <= NPage /\ F + Cardinality(last) \in Nat
  BY <1>1, <1>12, SizeFacts
<1>14. FitMap(F + Cardinality(last), K, r2, q2, b, w)
  BY <1>1, <1>4, <1>5, <1>6, <1>8, <1>9, <1>10, <1>13 DEF FitMap
<1> QED BY <1>0, <1>14

-----------------------------------------------------------------------------
(* Views: what an operator works on *)

DataMaps == [Frames -> Values \cup {Junk, FromFile}]
Errs == {"ok", "NO_MEM", "INVAL", "npage != NULL", "prev->vm_end <= next->vm_start",
         "pgdir_alloc_page != NULL"}
Views == [free : Nat, ref : RefMaps, data : DataMaps, mm : MmStructs, from : MmStructs, err : Errs]

\* The tables below the root of an mm.
DirsOf(m) == {i \in Dirs : m.dir[i]}
TabsOf(m) == {j \in Tabs : m.tab[j]}
TablesOf(m) == Cardinality(DirsOf(m)) + Cardinality(TabsOf(m))

\* The view is right; k pages are in use outside the mm at work, its root included.
Fit(t, k, b, w) ==
  /\ t \in Views
  /\ FitMap(t.free, k + TablesOf(t.mm), t.ref, t.mm.pte, b, w)
  /\ Private(t.ref, t.from.pte)

\* The same mm but for tables and entries.
Alike(m, n) == n.count = m.count /\ n.vmas = m.vmas

\* The same pages at the same addresses: an entry may have become read-only.
SamePages(m, n) ==
  /\ Alike(m, n) /\ n.dir = m.dir /\ n.tab = m.tab
  /\ \A la \in Addrs : /\ n.pte[la] = None <=> m.pte[la] = None
                       /\ m.pte[la] # None => n.pte[la].frame = m.pte[la].frame

\* The place of an address.
LEMMA DivBelow ==
  ASSUME NEW a \in Nat, NEW n \in Nat \ {0}, NEW m \in Nat \ {0}, a < n * m
  PROVE  a \div m \in 0 .. (n - 1)
<1>1. PICK q, r : q = a \div m /\ r = a % m
  OBVIOUS
<1>2. q \in Int /\ r \in Int /\ 0 <= r /\ r < m /\ a = m * q + r
  BY <1>1
<1>3. q >= 0
  <2>1. ASSUME q <= -1 PROVE FALSE
    <3>1. m * q <= m * (-1)
      BY <1>2, <2>1
    <3> QED BY <1>2, <3>1
  <2> QED BY <1>2, <2>1
<1>4. q <= n - 1
  <2>1. ASSUME q >= n PROVE FALSE
    <3>1. m * q >= m * n
      BY <1>2, <2>1
    <3>2. m * n = n * m
      OBVIOUS
    <3> QED BY <1>2, <3>1, <3>2
  <2> QED BY <1>2, <2>1
<1> QED BY <1>1, <1>2, <1>3, <1>4

LEMMA AddrFacts ==
  ASSUME NEW la \in Addrs
  PROVE  Dir(la) \in Dirs /\ Tab(la) \in Tabs /\ Tab(la)[1] = Dir(la)
<1>1. la \in Nat /\ la < N1 * N0 * NT
  BY SizeFacts DEF Addrs
<1>2. N0 * NT \in Nat \ {0} /\ N1 * N0 * NT = N1 * (N0 * NT)
  BY SizeFacts
<1>3. Dir(la) \in Dirs
  <2>1. la < N1 * (N0 * NT)
    BY <1>1, <1>2
  <2> QED BY <1>1, <1>2, <2>1, SizeFacts, DivBelow DEF Dir, Dirs
<1>4. (la \div NT) \in Int
  BY <1>1, SizeFacts
<1>5. (la \div NT) % N0 \in 0 .. (N0 - 1)
  BY <1>4, SizeFacts
<1> QED BY <1>3, <1>5 DEF Tab, Tabs

LEMMA MmFacts ==
  ASSUME NEW m \in MmStructs
  PROVE  /\ m.count \in Nat /\ m.vmas \in Seq(Vmas) /\ m.dir \in [Dirs -> BOOLEAN]
         /\ m.tab \in [Tabs -> BOOLEAN] /\ m.pte \in PteMaps /\ m # None
         /\ m = [count |-> m.count, vmas |-> m.vmas, dir |-> m.dir, tab |-> m.tab, pte |-> m.pte]
BY SizeFacts DEF MmStructs, PteMaps

LEMMA ViewFacts ==
  ASSUME NEW t \in Views
  PROVE  /\ t.free \in Nat /\ t.ref \in RefMaps /\ t.data \in DataMaps /\ t.err \in Errs
         /\ t.mm \in MmStructs /\ t.from \in MmStructs
         /\ t = [free |-> t.free, ref |-> t.ref, data |-> t.data, mm |-> t.mm, from |-> t.from,
                 err |-> t.err]
BY DEF Views

\* Tables are finitely many.
LEMMA TablesFinite ==
  ASSUME NEW m
  PROVE  /\ IsFiniteSet(Dirs) /\ IsFiniteSet(Tabs)
         /\ IsFiniteSet(DirsOf(m)) /\ IsFiniteSet(TabsOf(m))
         /\ Cardinality(DirsOf(m)) \in Nat /\ Cardinality(TabsOf(m)) \in Nat
         /\ TablesOf(m) \in Nat
<1>1. IsFiniteSet(Dirs) /\ IsFiniteSet(0 .. (N0 - 1))
  BY SizeFacts, FS_Interval DEF Dirs
<1>2. IsFiniteSet(Tabs)
  BY <1>1, FS_Product DEF Tabs
<1>3. DirsOf(m) \subseteq Dirs /\ TabsOf(m) \subseteq Tabs
  BY DEF DirsOf, TabsOf
<1>4. IsFiniteSet(DirsOf(m)) /\ IsFiniteSet(TabsOf(m))
  BY <1>1, <1>2, <1>3, FS_Subset
<1>5. Cardinality(DirsOf(m)) \in Nat /\ Cardinality(TabsOf(m)) \in Nat
  BY <1>4, FS_CardinalityType
<1> QED BY <1>1, <1>2, <1>4, <1>5 DEF TablesOf

\* A directory, or a table, is entered.
WithDir(m, i) == [m EXCEPT !.dir = [m.dir EXCEPT ![i] = TRUE]]
WithTab(m, j) == [m EXCEPT !.tab = [m.tab EXCEPT ![j] = TRUE]]

LEMMA DirAdded ==
  ASSUME NEW m \in MmStructs, NEW i \in Dirs, NEW n, n = WithDir(m, i)
  PROVE  /\ n \in MmStructs /\ Alike(m, n) /\ n.pte = m.pte /\ n.tab = m.tab
         /\ TablesOf(n) = TablesOf(m) + IF m.dir[i] THEN 0 ELSE 1
<1>1. PICK d : d = [m.dir EXCEPT ![i] = TRUE]
  OBVIOUS
<1>2. d \in [Dirs -> BOOLEAN] /\ d[i] = TRUE /\ \A j \in Dirs : j # i => d[j] = m.dir[j]
  BY <1>1, MmFacts
<1>3. n = [m EXCEPT !.dir = d]
  BY <1>1 DEF WithDir
<1>4. n \in MmStructs /\ n.count = m.count /\ n.vmas = m.vmas /\ n.pte = m.pte /\ n.tab = m.tab /\ n.dir = d
  BY <1>2, <1>3 DEF MmStructs
<1>5. DirsOf(n) = DirsOf(m) \cup {i} /\ TabsOf(n) = TabsOf(m)
  BY <1>2, <1>4 DEF DirsOf, TabsOf
<1>6. i \in DirsOf(m) <=> m.dir[i]
  BY DEF DirsOf
<1>7. Cardinality(DirsOf(m) \cup {i}) = IF i \in DirsOf(m) THEN Cardinality(DirsOf(m)) ELSE Cardinality(DirsOf(m)) + 1
  BY TablesFinite, FS_AddElement
<1>8. TablesOf(n) = TablesOf(m) + IF m.dir[i] THEN 0 ELSE 1
  <2>1. PICK x, y : x = Cardinality(DirsOf(m)) /\ y = Cardinality(TabsOf(m)) /\ x \in Nat /\ y \in Nat
    BY TablesFinite
  <2> QED BY <1>5, <1>6, <1>7, <2>1 DEF TablesOf
<1> QED BY <1>4, <1>8 DEF Alike

LEMMA TabAdded ==
  ASSUME NEW m \in MmStructs, NEW i \in Tabs, NEW n, n = WithTab(m, i)
  PROVE  /\ n \in MmStructs /\ Alike(m, n) /\ n.pte = m.pte
         /\ TablesOf(n) = TablesOf(m) + IF m.tab[i] THEN 0 ELSE 1
<1>1. PICK d : d = [m.tab EXCEPT ![i] = TRUE]
  OBVIOUS
<1>2. d \in [Tabs -> BOOLEAN] /\ d[i] = TRUE /\ \A j \in Tabs : j # i => d[j] = m.tab[j]
  BY <1>1, MmFacts
<1>3. n = [m EXCEPT !.tab = d]
  BY <1>1 DEF WithTab
<1>4. n \in MmStructs /\ n.count = m.count /\ n.vmas = m.vmas /\ n.pte = m.pte /\ n.dir = m.dir /\ n.tab = d
  BY <1>2, <1>3 DEF MmStructs
<1>5. TabsOf(n) = TabsOf(m) \cup {i} /\ DirsOf(n) = DirsOf(m)
  BY <1>2, <1>4 DEF DirsOf, TabsOf
<1>6. i \in TabsOf(m) <=> m.tab[i]
  BY DEF TabsOf
<1>7. Cardinality(TabsOf(m) \cup {i}) = IF i \in TabsOf(m) THEN Cardinality(TabsOf(m)) ELSE Cardinality(TabsOf(m)) + 1
  BY TablesFinite, FS_AddElement
<1>8. TablesOf(n) = TablesOf(m) + IF m.tab[i] THEN 0 ELSE 1
  <2>1. PICK x, y : x = Cardinality(DirsOf(m)) /\ y = Cardinality(TabsOf(m)) /\ x \in Nat /\ y \in Nat
    BY TablesFinite
  <2> QED BY <1>5, <1>6, <1>7, <2>1 DEF TablesOf
<1> QED BY <1>4, <1>8 DEF Alike

\* alloc_page: NULL, or a page in hand.
LEMMA AllocFacts ==
  ASSUME NEW t \in Views, NEW u, u = alloc_page(t)
  PROVE  /\ u \in Views /\ u.ref = t.ref /\ u.data = t.data /\ u.mm = t.mm /\ u.from = t.from
         /\ \/ u.err = "NO_MEM" /\ u.free = t.free /\ t.free = 0
            \/ u.err = t.err /\ u.free = t.free - 1 /\ t.free >= 1
<1>1. CASE t.free = 0
  <2>1. u = [t EXCEPT !.err = "NO_MEM"]
    BY <1>1 DEF alloc_page
  <2>2. /\ u.free = t.free /\ u.ref = t.ref /\ u.data = t.data /\ u.mm = t.mm /\ u.from = t.from
        /\ u.err = "NO_MEM" /\ u \in Views
    BY <2>1 DEF Views, Errs
  <2> QED BY <1>1, <2>2
<1>2. CASE t.free # 0
  <2>1. u = [t EXCEPT !.free = t.free - 1] /\ t.free - 1 \in Nat /\ t.free >= 1
    BY <1>2, ViewFacts DEF alloc_page
  <2>2. /\ u.free = t.free - 1 /\ u.ref = t.ref /\ u.data = t.data /\ u.mm = t.mm /\ u.from = t.from
        /\ u.err = t.err /\ u \in Views
    BY <2>1 DEF Views
  <2> QED BY <2>1, <2>2
<1> QED BY <1>1, <1>2

LEMMA FreePageFacts ==
  ASSUME NEW t \in Views, NEW u, u = free_page(t)
  PROVE  /\ u \in Views /\ u.ref = t.ref /\ u.data = t.data /\ u.mm = t.mm /\ u.from = t.from
         /\ u.err = t.err /\ u.free = t.free + 1
<1>1. u = [t EXCEPT !.free = t.free + 1] /\ t.free + 1 \in Nat
  BY ViewFacts DEF free_page
<1> QED BY <1>1 DEF Views

\* The numbers of free pages and of those in use elsewhere.
LEMMA FitMoves ==
  ASSUME NEW F \in Nat, NEW K \in Nat, NEW r, NEW q, NEW b, NEW w, FitMap(F, K, r, q, b, w),
         NEW F2 \in Nat, NEW K2 \in Nat, F2 + K2 <= F + K
  PROVE  FitMap(F2, K2, r, q, b, w)
<1>1. PICK c : c = Cardinality(Used(r)) /\ c \in Nat
  BY UsedFacts
<1>2. F + K + c <= NPage /\ NPage \in Nat
  BY <1>1, SizeFacts DEF FitMap
<1>3. F2 + K2 + c <= NPage
  BY <1>1, <1>2
<1> QED BY <1>1, <1>3 DEF FitMap

LEMMA FitFacts ==
  ASSUME NEW t, NEW k \in Nat, NEW b, NEW w, Fit(t, k, b, w)
  PROVE  /\ t \in Views /\ t.free \in Nat /\ t.mm \in MmStructs /\ t.mm.pte \in PteMaps
         /\ t.ref \in RefMaps /\ TablesOf(t.mm) \in Nat /\ k + TablesOf(t.mm) \in Nat
         /\ Apart(t.mm.pte) /\ Private(t.ref, t.mm.pte) /\ Private(t.ref, t.from.pte)
<1>1. t \in Views /\ Apart(t.mm.pte) /\ Private(t.ref, t.mm.pte) /\ Private(t.ref, t.from.pte)
  BY DEF Fit, FitMap
<1>2. t.free \in Nat /\ t.mm \in MmStructs /\ t.mm.pte \in PteMaps /\ t.ref \in RefMaps
  BY <1>1, ViewFacts, MmFacts
<1> QED BY <1>1, <1>2, TablesFinite

\* A page in hand that is still free to be mapped.
LEMMA NewFrameFacts ==
  ASSUME NEW k \in Nat, NEW b, NEW w, NEW t, Fit(t, k + 1, b, w)
  PROVE  NewFrame(t) \in Frames /\ t.ref[NewFrame(t)] = 0
<1>0. t.free \in Nat /\ TablesOf(t.mm) \in Nat /\ t.ref \in RefMaps
  <2>1. k + 1 \in Nat
    OBVIOUS
  <2> QED BY <2>1, FitFacts
<1>1. PICK F, K, c : /\ F = t.free /\ K = TablesOf(t.mm) /\ c = Cardinality(Used(t.ref))
                     /\ F \in Nat /\ K \in Nat /\ c \in Nat
  BY <1>0, UsedFacts
<1>2. F + ((k + 1) + K) + c <= NPage /\ NPage \in Nat
  BY <1>1, SizeFacts DEF Fit, FitMap
<1>3. c < NPage
  BY <1>1, <1>2
<1>4. Used(t.ref) # Frames
  BY <1>1, <1>3, UsedFacts
<1> DEFINE T == {f \in Frames : t.ref[f] = 0}
<1>6. T # {}
  <2>1. PICK f \in Frames : f \notin Used(t.ref)
    BY <1>4 DEF Used
  <2>2. t.ref[f] \in Nat
    BY <1>0 DEF RefMaps
  <2>3. f \in T
    BY <2>1, <2>2 DEF Used
  <2> QED BY <2>3
<1>7. T \subseteq Nat
  BY DEF Frames
<1>8. PICK x \in T : \A y \in T : x <= y
  <2> HIDE DEF T
  <2> QED BY <1>6, <1>7, LeastExists
<1>9. Min(T) \in T
  <2>1. Min(T) = CHOOSE y \in T : \A z \in T : y <= z
    BY DEF Min
  <2> HIDE DEF T
  <2> QED BY <1>8, <2>1
<1> QED BY <1>9 DEF NewFrame

\* Tables are entered, nothing else changes.
Entered(t, u) ==
  /\ u.ref = t.ref /\ u.data = t.data /\ u.from = t.from
  /\ Alike(t.mm, u.mm) /\ u.mm.pte = t.mm.pte

\* A table is entered in the mm at work, with a page unless it was there.
LEMMA TableFits ==
  ASSUME NEW k \in Nat, NEW b, NEW w, NEW t, Fit(t, k, b, w), Ok(t),
         NEW there \in BOOLEAN, NEW u, u = IF there THEN t ELSE alloc_page(t),
         NEW n \in MmStructs, Alike(t.mm, n), n.pte = t.mm.pte,
         TablesOf(n) = TablesOf(t.mm) + IF there THEN 0 ELSE 1,
         NEW d, d = [u EXCEPT !.mm = n]
  PROVE  /\ u.mm = t.mm
         /\ ~Ok(u) => Fit(u, k, b, w) /\ Entered(t, u) /\ u.err = "NO_MEM"
         /\ Ok(u) => Fit(d, k, b, w) /\ Entered(t, d) /\ Ok(d) /\ d.mm = n
<1>1. t \in Views /\ t.err = "ok"
  BY FitFacts DEF Ok
<1>2. /\ u \in Views /\ u.ref = t.ref /\ u.data = t.data /\ u.mm = t.mm /\ u.from = t.from
      /\ \/ u.err = "NO_MEM" /\ u.free = t.free
         \/ u.err = "ok" /\ there /\ u.free = t.free
         \/ u.err = "ok" /\ ~there /\ u.free = t.free - 1
  <2>1. CASE there
    BY <1>1, <2>1
  <2>2. CASE ~there
    <3>1. u = alloc_page(t)
      BY <2>2
    <3>2. /\ u \in Views /\ u.ref = t.ref /\ u.data = t.data /\ u.mm = t.mm /\ u.from = t.from
          /\ \/ u.err = "NO_MEM" /\ u.free = t.free /\ t.free = 0
             \/ u.err = t.err /\ u.free = t.free - 1 /\ t.free >= 1
      BY <1>1, <3>1, AllocFacts
    <3> QED BY <1>1, <2>2, <3>2
  <2> QED BY <2>1, <2>2
<1>3. /\ d \in Views /\ d.free = u.free /\ d.ref = t.ref /\ d.data = t.data /\ d.from = t.from
      /\ d.err = u.err /\ d.mm = n
  BY <1>2 DEF Views
<1>4. FitMap(t.free, k + TablesOf(t.mm), t.ref, t.mm.pte, b, w) /\ Private(t.ref, t.from.pte)
  BY DEF Fit
<1>5. ASSUME ~Ok(u) PROVE Fit(u, k, b, w) /\ Entered(t, u) /\ u.err = "NO_MEM"
  <2>1. u.free = t.free /\ u.err = "NO_MEM"
    BY <1>2, <1>5 DEF Ok
  <2>2. Fit(u, k, b, w)
    BY <1>2, <1>4, <2>1 DEF Fit
  <2> QED BY <1>2, <2>1, <2>2 DEF Entered, Alike
<1>6. ASSUME Ok(u) PROVE Fit(d, k, b, w) /\ Entered(t, d) /\ Ok(d) /\ d.mm = n
  <2>1. PICK F, T, F2, T2 : F = t.free /\ T = TablesOf(t.mm) /\ F2 = u.free /\ T2 = TablesOf(n)
    OBVIOUS
  <2>2. F \in Nat /\ T \in Nat /\ F2 \in Nat /\ T2 \in Nat /\ F2 + (k + T2) = F + (k + T)
    <3>1. F \in Nat /\ T \in Nat /\ F2 \in Nat
      BY <1>1, <1>2, <2>1, ViewFacts, FitFacts
    <3>2. T2 = T + IF there THEN 0 ELSE 1
      BY <2>1
    <3>3. F2 = F - IF there THEN 0 ELSE 1
      BY <1>2, <1>6, <2>1, <3>1 DEF Ok
    <3> QED BY <3>1, <3>2, <3>3
  <2>3. FitMap(F2, k + T2, t.ref, t.mm.pte, b, w)
    <3>1. k + T \in Nat /\ k + T2 \in Nat /\ F2 + (k + T2) <= F + (k + T)
      BY <2>2
    <3>2. FitMap(F, k + T, t.ref, t.mm.pte, b, w)
      BY <1>4, <2>1
    <3> QED BY <2>2, <3>1, <3>2, FitMoves
  <2>4. Fit(d, k, b, w)
    BY <1>3, <1>4, <2>1, <2>3 DEF Fit
  <2>5. Ok(d)
    BY <1>3, <1>6 DEF Ok
  <2> QED BY <1>3, <2>4, <2>5 DEF Entered
<1> QED BY <1>2, <1>5, <1>6

LEMMA EnteredTwice ==
  ASSUME NEW t, NEW u, NEW v, Entered(t, u), Entered(u, v)
  PROVE  Entered(t, v)
BY DEF Entered, Alike

LEMMA GetPteFacts ==
  ASSUME NEW k \in Nat, NEW b, NEW w, NEW t, Fit(t, k, b, w), Ok(t), NEW la \in Addrs,
         NEW g, g = get_pte(t, la)
  PROVE  Fit(g, k, b, w) /\ Entered(t, g) /\ g.err \in {"ok", "NO_MEM"}
<1>1. PICK i, j : i = Dir(la) /\ j = Tab(la) /\ i \in Dirs /\ j \in Tabs
  BY AddrFacts
<1>2. t.mm \in MmStructs /\ t.mm.dir[i] \in BOOLEAN
  <2>1. t.mm \in MmStructs
    BY FitFacts
  <2> QED BY <1>1, <2>1, MmFacts
<1>3. PICK u : u = IF t.mm.dir[i] THEN t ELSE alloc_page(t)
  OBVIOUS
<1>4. PICK m : m = WithDir(t.mm, i)
  OBVIOUS
<1>5. /\ m \in MmStructs /\ Alike(t.mm, m) /\ m.pte = t.mm.pte
      /\ TablesOf(m) = TablesOf(t.mm) + IF t.mm.dir[i] THEN 0 ELSE 1
  BY <1>1, <1>2, <1>4, DirAdded
<1>6. PICK d : d = [u EXCEPT !.mm = m]
  OBVIOUS
<1>7. /\ u.mm = t.mm
      /\ ~Ok(u) => Fit(u, k, b, w) /\ Entered(t, u) /\ u.err = "NO_MEM"
      /\ Ok(u) => Fit(d, k, b, w) /\ Entered(t, d) /\ Ok(d) /\ d.mm = m
  BY <1>2, <1>3, <1>5, <1>6, TableFits
<1>8. d = [u EXCEPT !.mm.dir[Dir(la)] = TRUE]
  BY <1>1, <1>4, <1>6, <1>7 DEF WithDir
<1>9. CASE ~Ok(u)
  <2>1. g = u
    BY <1>1, <1>3, <1>9 DEF get_pte
  <2> QED BY <1>7, <1>9, <2>1
<1>10. CASE Ok(u)
  <2>1. d.mm = m /\ d.mm \in MmStructs /\ d.mm.tab[j] \in BOOLEAN /\ Fit(d, k, b, w) /\ Ok(d) /\ Entered(t, d)
    BY <1>1, <1>5, <1>7, <1>10, MmFacts
  <2>2. PICK v : v = IF d.mm.tab[j] THEN d ELSE alloc_page(d)
    OBVIOUS
  <2>3. PICK n : n = WithTab(d.mm, j)
    OBVIOUS
  <2>4. /\ n \in MmStructs /\ Alike(d.mm, n) /\ n.pte = d.mm.pte
        /\ TablesOf(n) = TablesOf(d.mm) + IF d.mm.tab[j] THEN 0 ELSE 1
    BY <1>1, <2>1, <2>3, TabAdded
  <2>5. PICK e : e = [v EXCEPT !.mm = n]
    OBVIOUS
  <2>6. /\ v.mm = d.mm
        /\ ~Ok(v) => Fit(v, k, b, w) /\ Entered(d, v) /\ v.err = "NO_MEM"
        /\ Ok(v) => Fit(e, k, b, w) /\ Entered(d, e) /\ Ok(e) /\ e.mm = n
    BY <2>1, <2>2, <2>4, <2>5, TableFits
  <2>7. e = [v EXCEPT !.mm.tab[Tab(la)] = TRUE]
    BY <1>1, <2>3, <2>5, <2>6 DEF WithTab
  <2>8. g = IF ~Ok(v) THEN v ELSE e
    BY <1>1, <1>3, <1>8, <1>10, <2>2, <2>7 DEF get_pte
  <2>9. CASE Ok(v)
    <3>1. g = e
      BY <2>8, <2>9
    <3> QED BY <2>1, <2>6, <2>9, <3>1, EnteredTwice DEF Ok
  <2>10. CASE ~Ok(v)
    <3>1. g = v
      BY <2>8, <2>10
    <3> QED BY <2>1, <2>6, <2>10, <3>1, EnteredTwice
  <2> QED BY <2>9, <2>10
<1> QED BY <1>9, <1>10

-----------------------------------------------------------------------------
(* One page *)

\* A free page is mapped in place of another, which goes if nobody else maps it.
IsMapInstead(F, r, q, f, la, fo, P, F2, r2, q2) ==
  /\ f \in Frames /\ r[f] = 0 /\ la \in Addrs /\ q[la] # None /\ fo = q[la].frame
  /\ P \in Ptes /\ P.frame = f
  /\ F2 = IF r[fo] = 1 THEN F + 1 ELSE F
  /\ r2 = [[r EXCEPT ![f] = @ + 1] EXCEPT ![fo] = @ - 1]
  /\ q2 = [[q EXCEPT ![la] = None] EXCEPT ![la] = P]

LEMMA MapInstead ==
  ASSUME NEW b \in RefMaps, NEW w, w \subseteq Frames, NEW F, NEW K \in Nat, NEW r, NEW q,
         FitMap(F, K + 1, r, q, b, w), NEW f, NEW la, NEW fo, NEW P, NEW F2, NEW r2, NEW q2,
         IsMapInstead(F, r, q, f, la, fo, P, F2, r2, q2)
  PROVE  FitMap(F2, K, r2, q2, b, w) /\ q2 = [q EXCEPT ![la] = P] /\ fo \in Frames
         /\ \A g \in Frames : r2[g] <= r[g] \/ r2[g] <= 1
<1>0. /\ f \in Frames /\ r[f] = 0 /\ la \in Addrs /\ q[la] # None /\ fo = q[la].frame
      /\ P \in Ptes /\ P.frame = f
      /\ F2 = IF r[fo] = 1 THEN F + 1 ELSE F
      /\ r2 = [[r EXCEPT ![f] = @ + 1] EXCEPT ![fo] = @ - 1]
      /\ q2 = [[q EXCEPT ![la] = None] EXCEPT ![la] = P]
  BY DEF IsMapInstead
<1>1. F \in Nat /\ r \in RefMaps /\ q \in PteMaps /\ \A g \in Frames : r[g] = b[g] + One(q, g)
  BY <1>0 DEF FitMap
<1>2. fo \in Frames /\ Maps(q, fo)
  BY <1>0, <1>1, PteFacts
<1>3. r[fo] >= 1 /\ r[fo] \in Nat /\ fo # f
  BY <1>0, <1>1, <1>2 DEF One, RefMaps
<1>4. PICK las : las = {la}
  OBVIOUS
<1>5. PICK F1, r1, q1 : /\ F1 = F + Cardinality(LastOf(r, q, las))
                        /\ r1 = Fewer(r, q, las) /\ q1 = Unmapped(q, las)
  OBVIOUS
<1>6. FitMap(F1, K + 1, r1, q1, b, w)
  <2>1. las \subseteq Addrs /\ \A lb \in las : q[lb] # None
    BY <1>0, <1>4
  <2> QED BY <1>0, <1>5, <2>1, UnmapKeeps
<1>7. GoneOf(q, las) = {fo}
  BY <1>0, <1>4 DEF GoneOf
<1>8. F1 = F2
  <2>1. LastOf(r, q, las) = IF r[fo] = 1 THEN {fo} ELSE {}
    BY <1>0, <1>7 DEF LastOf
  <2>2. Cardinality({fo}) = 1 /\ Cardinality({}) = 0
    BY FS_Singleton, FS_EmptySet
  <2> QED BY <1>0, <1>1, <1>5, <2>1, <2>2
<1>9. r1 \in RefMaps /\ \A g \in Frames : r1[g] = IF g = fo THEN r[g] - 1 ELSE r[g]
  <2>1. r1 \in RefMaps
    BY <1>0, <1>6 DEF FitMap
  <2> QED BY <1>0, <1>5, <1>7, <2>1 DEF Fewer
<1>10. q1 \in PteMaps /\ \A lb \in Addrs : q1[lb] = IF lb = la THEN None ELSE q[lb]
  <2>1. q1 \in PteMaps
    BY <1>0, <1>6 DEF FitMap
  <2> QED BY <1>0, <1>4, <1>5, <2>1 DEF Unmapped
<1>11. r1[f] = 0 /\ q1[la] = None
  BY <1>0, <1>3, <1>9, <1>10
<1>12. r2 = [r1 EXCEPT ![f] = @ + 1]
  <2>1. r2 \in [Frames -> Int] /\ \A g \in Frames : r2[g] = IF g = fo THEN r[g] - 1 ELSE IF g = f THEN r[g] + 1 ELSE r[g]
    BY <1>0, <1>1, <1>2, <1>3 DEF RefMaps
  <2>2. PICK r3 : r3 = [r1 EXCEPT ![f] = @ + 1]
    OBVIOUS
  <2>3. r3 \in [Frames -> Int] /\ \A g \in Frames : r3[g] = IF g = f THEN r1[g] + 1 ELSE r1[g]
    BY <1>0, <1>9, <2>2 DEF RefMaps
  <2>4. \A g \in Frames : r3[g] = r2[g]
    BY <1>0, <1>3, <1>9, <2>1, <2>3
  <2>5. r2 = r3
    BY <1>0, <2>1, <2>3, <2>4
  <2> QED BY <1>0, <2>2, <2>5
<1>13. q2 = [q EXCEPT ![la] = P] /\ q2 = [q1 EXCEPT ![la] = P]
  BY <1>0, <1>1, <1>10 DEF PteMaps
<1>14. FitMap(F1, K, r2, q2, b, w)
  <2>1. IsMapNew(r1, q1, f, la, P, r2, q2)
    BY <1>0, <1>11, <1>12, <1>13 DEF IsMapNew
  <2> QED BY <1>6, <2>1, MapNew
<1>15. ASSUME NEW g \in Frames PROVE r2[g] <= r[g] \/ r2[g] <= 1
  <2>1. r[g] \in Nat /\ r1[g] \in Nat /\ r1[g] <= r[g]
    BY <1>0, <1>1, <1>9 DEF RefMaps
  <2>2. r2[g] = IF g = f THEN r1[g] + 1 ELSE r1[g]
    BY <1>0, <1>9, <1>12 DEF RefMaps
  <2> QED BY <1>0, <1>11, <2>1, <2>2
<1> QED BY <1>0, <1>2, <1>8, <1>13, <1>14, <1>15

\* What maps P at la leaves.
IsPut(m, n, la, P) == n = [m EXCEPT !.pte = [m.pte EXCEPT ![la] = P]]
Put(t, v, la, P) ==
  /\ v.from = t.from /\ v.err = t.err
  /\ IsPut(t.mm, v.mm, la, P)

LEMMA PutFacts ==
  ASSUME NEW m \in MmStructs, NEW la \in Addrs, NEW P \in Ptes, NEW n, IsPut(m, n, la, P)
  PROVE  /\ n \in MmStructs /\ Alike(m, n) /\ TablesOf(n) = TablesOf(m)
         /\ n.pte = [m.pte EXCEPT ![la] = P] /\ n.pte[la] = P /\ n.pte[la] # None
         /\ \A lb \in Addrs : lb # la => n.pte[lb] = m.pte[lb]
<1>1. m.pte \in PteMaps /\ P # None
  BY MmFacts, SizeFacts
<1>2. PICK q : q = [m.pte EXCEPT ![la] = P]
  OBVIOUS
<1>3. q \in PteMaps /\ q[la] = P /\ \A lb \in Addrs : lb # la => q[lb] = m.pte[lb]
  BY <1>1, <1>2 DEF PteMaps
<1>4. /\ n \in MmStructs /\ n.count = m.count /\ n.vmas = m.vmas /\ n.dir = m.dir /\ n.tab = m.tab
      /\ n.pte = q
  BY <1>2, <1>3 DEF MmStructs, PteMaps, IsPut
<1>5. TablesOf(n) = TablesOf(m)
  BY <1>4 DEF TablesOf, DirsOf, TabsOf
<1> QED BY <1>1, <1>2, <1>3, <1>4, <1>5 DEF Alike

LEMMA DataFacts ==
  ASSUME NEW d \in DataMaps, NEW x, NEW v \in Values \cup {Junk, FromFile}
  PROVE  [d EXCEPT ![x] = v] \in DataMaps
BY DEF DataMaps

\* A free page, which is in hand, is mapped at la.
LEMMA MappedFresh ==
  ASSUME NEW b \in RefMaps, NEW w, w \subseteq Frames, NEW k \in Nat, NEW t, Fit(t, k + 1, b, w), Ok(t),
         NEW f \in Frames, t.ref[f] = 0, NEW la \in Addrs,
         NEW perm, perm.write \in BOOLEAN, perm.cow \in BOOLEAN,
         NEW v, v = Mapped(t, f, la, perm)
  PROVE  Fit(v, k, b, w) /\ Put(t, v, la, [frame |-> f, write |-> perm.write, cow |-> perm.cow])
<1>1. PICK P, F, r, q, K : /\ P = [frame |-> f, write |-> perm.write, cow |-> perm.cow]
                           /\ F = t.free /\ r = t.ref /\ q = t.mm.pte /\ K = TablesOf(t.mm)
  OBVIOUS
<1>2. /\ t \in Views /\ F \in Nat /\ t.mm \in MmStructs /\ q \in PteMaps /\ r \in RefMaps /\ K \in Nat
      /\ Private(r, t.from.pte) /\ t.data \in DataMaps
  <2>1. k + 1 \in Nat
    OBVIOUS
  <2>2. /\ t \in Views /\ t.free \in Nat /\ t.mm \in MmStructs /\ t.mm.pte \in PteMaps
        /\ t.ref \in RefMaps /\ TablesOf(t.mm) \in Nat /\ Private(t.ref, t.from.pte)
    BY <2>1, FitFacts
  <2> QED BY <1>1, <2>2, ViewFacts
<1>3. P \in Ptes /\ P.frame = f
  BY <1>1 DEF Ptes
<1>4. FitMap(F, (k + K) + 1, r, q, b, w)
  <2>1. FitMap(F, (k + 1) + K, r, q, b, w)
    BY <1>1 DEF Fit
  <2>2. (k + 1) + K = (k + K) + 1
    BY <1>2
  <2> QED BY <2>1, <2>2
<1>5. PICK q2 : q2 = [q EXCEPT ![la] = P]
  OBVIOUS
<1>6. PICK n : n = [t.mm EXCEPT !.pte = q2]
  OBVIOUS
<1>7. n \in MmStructs /\ Alike(t.mm, n) /\ TablesOf(n) = K /\ n.pte = q2
  <2>1. IsPut(t.mm, n, la, P)
    BY <1>1, <1>5, <1>6 DEF IsPut
  <2> QED BY <1>1, <1>2, <1>3, <1>5, <2>1, PutFacts
<1>8. ASSUME NEW F2 \in Nat, NEW r2 \in RefMaps, NEW d2 \in DataMaps, FitMap(F2, k + K, r2, q2, b, w),
             \A g \in Frames : r2[g] <= r[g] \/ r2[g] <= 1,
             v = [free |-> F2, ref |-> r2, data |-> d2, mm |-> n, from |-> t.from, err |-> t.err]
      PROVE  Fit(v, k, b, w) /\ Put(t, v, la, P)
  <2>1. /\ v \in Views /\ v.free = F2 /\ v.ref = r2 /\ v.mm = n /\ v.from = t.from /\ v.err = t.err
    BY <1>2, <1>7, <1>8 DEF Views
  <2>2. Private(r2, t.from.pte)
    <3> SUFFICES ASSUME NEW lb \in Addrs, t.from.pte[lb] # None, t.from.pte[lb].write
                 PROVE  r2[t.from.pte[lb].frame] <= 1
      BY DEF Private
    <3>1. t.from.pte \in PteMaps
      BY <1>2, ViewFacts, MmFacts
    <3>2. PICK g : g = t.from.pte[lb].frame
      OBVIOUS
    <3>3. g \in Frames /\ r[g] <= 1
      BY <1>2, <3>1, <3>2, PteFacts DEF Private
    <3>4. r[g] \in Nat /\ r2[g] \in Nat
      BY <1>2, <3>3 DEF RefMaps
    <3> QED BY <1>8, <3>2, <3>3, <3>4
  <2>3. Fit(v, k, b, w)
    BY <1>7, <1>8, <2>1, <2>2 DEF Fit
  <2> QED BY <1>1, <1>5, <1>6, <2>1, <2>3 DEF Put, IsPut
<1>9. CASE q[la] = None
  <2>1. PICK r2 : r2 = [r EXCEPT ![f] = @ + 1]
    OBVIOUS
  <2>2. FitMap(F, k + K, r2, q2, b, w)
    <3>1. k + K \in Nat
      BY <1>2
    <3>2. IsMapNew(r, q, f, la, P, r2, q2)
      BY <1>1, <1>3, <1>5, <1>9, <2>1 DEF IsMapNew
    <3> QED BY <1>4, <3>1, <3>2, MapNew
  <2>3. v = [[t EXCEPT !.ref = r2] EXCEPT !.mm = n]
    BY <1>1, <1>5, <1>6, <1>9, <2>1 DEF Mapped
  <2>4. v = [free |-> F, ref |-> r2, data |-> t.data, mm |-> n, from |-> t.from, err |-> t.err]
    BY <1>1, <1>2, <2>3 DEF Views
  <2>5. r2 \in RefMaps /\ \A g \in Frames : r2[g] <= r[g] \/ r2[g] <= 1
    BY <1>1, <1>2, <2>1 DEF RefMaps
  <2>6. Fit(v, k, b, w) /\ Put(t, v, la, P)
    BY <1>2, <1>8, <2>2, <2>4, <2>5
  <2> QED BY <1>1, <2>6
<1>10. CASE q[la] # None
  <2>1. PICK fo, ra, rb, r2, F2 :
          /\ fo = q[la].frame /\ ra = [r EXCEPT ![f] = @ + 1] /\ rb = [ra EXCEPT ![fo] = @ - 1]
          /\ r2 = rb /\ F2 = IF r[fo] = 1 THEN F + 1 ELSE F
    OBVIOUS
  <2>2. PICK qa, qb : qa = [q EXCEPT ![la] = None] /\ qb = [qa EXCEPT ![la] = P]
    OBVIOUS
  <2>3. /\ FitMap(F2, k + K, r2, qb, b, w) /\ qb = q2 /\ fo \in Frames
        /\ \A g \in Frames : r2[g] <= r[g] \/ r2[g] <= 1
    <3>1. k + K \in Nat
      BY <1>2
    <3>2. IsMapInstead(F, r, q, f, la, fo, P, F2, r2, qb)
      BY <1>1, <1>3, <1>10, <2>1, <2>2 DEF IsMapInstead
    <3>3. /\ FitMap(F2, k + K, r2, qb, b, w) /\ qb = [q EXCEPT ![la] = P] /\ fo \in Frames
          /\ \A g \in Frames : r2[g] <= r[g] \/ r2[g] <= 1
      BY <1>4, <3>1, <3>2, MapInstead
    <3> QED BY <1>5, <3>3
  <2>4. fo # f /\ ra[fo] = r[fo]
    <3>1. r[fo] = b[fo] + One(q, fo) /\ Maps(q, fo)
      BY <1>2, <1>4, <1>10, <2>1, <2>3, PteFacts DEF FitMap
    <3>2. r[fo] >= 1
      BY <2>3, <3>1 DEF One, RefMaps
    <3>3. fo # f
      BY <1>1, <3>2
    <3> QED BY <1>2, <2>1, <2>3, <3>3 DEF RefMaps
  <2>5. PICK d2 : d2 = IF r[fo] = 1 THEN [t.data EXCEPT ![fo] = Junk] ELSE t.data
    OBVIOUS
  <2>6. d2 \in DataMaps /\ F2 \in Nat /\ r2 \in RefMaps
    BY <1>2, <2>1, <2>3, <2>5, DataFacts DEF FitMap
  <2>7. PICK x : x = [t EXCEPT !.ref = ra]
    OBVIOUS
  <2>8. x.mm = t.mm /\ x.ref = ra /\ x.data = t.data /\ x.free = F
    BY <1>1, <1>2, <2>7 DEF Views
  <2>9. PICK y : y = page_remove_pte(x, la)
    OBVIOUS
  <2>10. PICK ma : ma = [t.mm EXCEPT !.pte = qa]
    OBVIOUS
  <2>11. y = [free |-> F2, ref |-> rb, data |-> d2, mm |-> ma, from |-> t.from, err |-> t.err]
    <3>1. PICK z : z = [[x EXCEPT !.mm = ma] EXCEPT !.ref = rb]
      OBVIOUS
    <3>2. y = IF ra[fo] = 1 THEN free_page([z EXCEPT !.data[fo] = Junk]) ELSE z
      <4>1. x.mm.pte[la].frame = fo /\ x.mm.pte = q
        BY <1>1, <2>1, <2>8
      <4>2. [x.mm EXCEPT !.pte[la] = None] = ma
        BY <1>1, <2>2, <2>8, <2>10
      <4>3. z = [x EXCEPT !.mm.pte[la] = None, !.ref[fo] = @ - 1]
        BY <2>1, <2>8, <3>1, <4>2
      <4> QED BY <2>8, <2>9, <4>1, <4>3 DEF page_remove_pte
    <3>3. z = [free |-> F, ref |-> rb, data |-> t.data, mm |-> ma, from |-> t.from, err |-> t.err]
      BY <1>1, <1>2, <2>7, <3>1 DEF Views
    <3> QED BY <2>1, <2>4, <2>5, <3>2, <3>3 DEF free_page
  <2>12. [ma EXCEPT !.pte[la] = P] = n
    BY <1>2, <1>6, <2>2, <2>3, <2>10 DEF MmStructs
  <2>13. v = [y EXCEPT !.mm.pte[la] = P]
    BY <1>1, <1>10, <2>1, <2>4, <2>7, <2>9 DEF Mapped
  <2>14. v = [free |-> F2, ref |-> r2, data |-> d2, mm |-> n, from |-> t.from, err |-> t.err]
    <3>1. v = [y EXCEPT !.mm = n]
      BY <2>11, <2>12, <2>13
    <3> QED BY <2>1, <2>11, <3>1
  <2>15. Fit(v, k, b, w) /\ Put(t, v, la, P)
    BY <1>8, <2>3, <2>6, <2>14
  <2> QED BY <1>1, <2>15
<1> QED BY <1>9, <1>10

\* The views differ in what is free, in hand and wrong, and in contents.
LEMMA SameFits ==
  ASSUME NEW k \in Nat, NEW b, NEW w, NEW t, Fit(t, k, b, w), NEW u \in Views, NEW j \in Nat,
         u.free + j <= t.free + k, u.ref = t.ref, u.mm = t.mm, u.from = t.from
  PROVE  Fit(u, j, b, w)
<1>1. PICK F, T, F2 : F = t.free /\ T = TablesOf(t.mm) /\ F2 = u.free
  OBVIOUS
<1>2. F \in Nat /\ T \in Nat /\ F2 \in Nat
  BY <1>1, FitFacts, ViewFacts
<1>3. k + T \in Nat /\ j + T \in Nat /\ F2 + (j + T) <= F + (k + T)
  BY <1>1, <1>2
<1>4. FitMap(F, k + T, t.ref, t.mm.pte, b, w) /\ Private(t.ref, t.from.pte)
  BY <1>1 DEF Fit
<1>5. FitMap(F2, j + T, t.ref, t.mm.pte, b, w)
  BY <1>2, <1>3, <1>4, FitMoves
<1> QED BY <1>1, <1>4, <1>5 DEF Fit

Same(t, u) == u.ref = t.ref /\ u.mm = t.mm /\ u.from = t.from

LEMMA InHand ==
  ASSUME NEW k \in Nat, NEW b, NEW w, NEW t, Fit(t, k, b, w), Ok(t), NEW a, a = alloc_page(t)
  PROVE  /\ Same(t, a)
         /\ Ok(a) => Fit(a, k + 1, b, w)
         /\ ~Ok(a) => Fit(a, k, b, w) /\ a.err = "NO_MEM"
<1>1. t \in Views /\ t.err = "ok" /\ t.free \in Nat
  BY FitFacts DEF Ok
<1>2. /\ a \in Views /\ a.ref = t.ref /\ a.mm = t.mm /\ a.from = t.from
      /\ \/ a.err = "NO_MEM" /\ a.free = t.free /\ t.free = 0
         \/ a.err = t.err /\ a.free = t.free - 1 /\ t.free >= 1
  BY <1>1, AllocFacts
<1>3. CASE Ok(a)
  <2>1. a.free = t.free - 1 /\ k + 1 \in Nat
    BY <1>2, <1>3 DEF Ok
  <2>2. a.free + (k + 1) <= t.free + k
    BY <1>1, <2>1
  <2> QED BY <1>2, <1>3, <2>1, <2>2, SameFits DEF Same
<1>4. CASE ~Ok(a)
  <2>1. a.free = t.free /\ a.err = "NO_MEM"
    BY <1>1, <1>2, <1>4 DEF Ok
  <2>2. a.free + k <= t.free + k
    BY <1>1, <2>1
  <2> QED BY <1>2, <1>4, <2>1, <2>2, SameFits DEF Same
<1> QED BY <1>3, <1>4

LEMMA GivenBack ==
  ASSUME NEW k \in Nat, NEW b, NEW w, NEW t, Fit(t, k + 1, b, w), NEW a, a = free_page(t)
  PROVE  Fit(a, k, b, w) /\ Same(t, a) /\ a.err = t.err
<1>1. k + 1 \in Nat
  OBVIOUS
<1>2. t \in Views /\ t.free \in Nat
  BY <1>1, FitFacts
<1>3. a \in Views /\ a.ref = t.ref /\ a.mm = t.mm /\ a.from = t.from /\ a.err = t.err /\ a.free = t.free + 1
  BY <1>2, FreePageFacts
<1>4. a.free + k <= t.free + (k + 1)
  BY <1>2, <1>3
<1>5. Fit(a, k, b, w)
  BY <1>1, <1>3, <1>4, SameFits
<1> QED BY <1>3, <1>5 DEF Same

\* Nothing of the mm at work changes but tables and the entry of la.
Touched(t, u, la) ==
  /\ u.from = t.from /\ Alike(t.mm, u.mm)
  /\ \A lb \in Addrs : lb # la => u.mm.pte[lb] = t.mm.pte[lb]

\* page_insert of a free page: it is mapped, or still in hand.
InsertLeaves(t, v, la, k, b, w) ==
  /\ Touched(t, v, la)
  /\ Ok(v) => Fit(v, k, b, w)
  /\ ~Ok(v) => Fit(v, k + 1, b, w) /\ v.err = "NO_MEM"

LEMMA InsertFresh ==
  ASSUME NEW b \in RefMaps, NEW w, w \subseteq Frames, NEW k \in Nat, NEW t, Fit(t, k + 1, b, w), Ok(t),
         NEW f \in Frames, t.ref[f] = 0, NEW la \in Addrs,
         NEW perm, perm.write \in BOOLEAN, perm.cow \in BOOLEAN
  PROVE  InsertLeaves(t, page_insert(t, f, la, perm), la, k, b, w)
<1> SUFFICES ASSUME NEW v, v = page_insert(t, f, la, perm)
             PROVE  /\ Touched(t, v, la)
                    /\ Ok(v) => Fit(v, k, b, w)
                    /\ ~Ok(v) => Fit(v, k + 1, b, w) /\ v.err = "NO_MEM"
  BY DEF InsertLeaves
<1>1. PICK g : g = get_pte(t, la)
  OBVIOUS
<1>2. Fit(g, k + 1, b, w) /\ Entered(t, g) /\ g.err \in {"ok", "NO_MEM"}
  <2>1. k + 1 \in Nat
    OBVIOUS
  <2> QED BY <1>1, <2>1, GetPteFacts
<1>3. v = Mapped(g, f, la, perm)
  BY <1>1 DEF page_insert
<1>4. CASE ~Ok(g)
  <2>1. v = g
    BY <1>3, <1>4 DEF Mapped
  <2> QED BY <1>2, <1>4, <2>1 DEF Touched, Entered, Ok
<1>5. CASE Ok(g)
  <2>1. PICK P : P = [frame |-> f, write |-> perm.write, cow |-> perm.cow]
    OBVIOUS
  <2>2. Fit(v, k, b, w) /\ Put(g, v, la, P)
    <3>1. g.ref[f] = 0
      BY <1>2 DEF Entered
    <3>2. Fit(v, k, b, w) /\ Put(g, v, la, [frame |-> f, write |-> perm.write, cow |-> perm.cow])
      BY <1>2, <1>3, <1>5, <3>1, MappedFresh
    <3> QED BY <2>1, <3>2
  <2>3. g.mm \in MmStructs /\ P \in Ptes
    <3>1. k + 1 \in Nat
      OBVIOUS
    <3>2. g.mm \in MmStructs
      BY <1>2, <3>1, FitFacts
    <3>3. P \in Ptes
      BY <2>1 DEF Ptes
    <3> QED BY <3>2, <3>3
  <2>4. Alike(g.mm, v.mm) /\ \A lb \in Addrs : lb # la => v.mm.pte[lb] = g.mm.pte[lb]
    <3>1. IsPut(g.mm, v.mm, la, P)
      BY <2>2 DEF Put
    <3>2. g.mm \in MmStructs /\ P \in Ptes
      BY <2>3
    <3>3. Alike(g.mm, v.mm)
      BY <3>1, <3>2, PutFacts
    <3>4. v.mm.pte = [g.mm.pte EXCEPT ![la] = P]
      BY <3>1, <3>2, PutFacts
    <3>5. g.mm.pte \in PteMaps
      BY <3>2, MmFacts
    <3> QED BY <3>3, <3>4, <3>5 DEF PteMaps
  <2>5. Ok(v) /\ v.from = g.from
    BY <1>5, <2>2 DEF Put, Ok
  <2> QED BY <1>2, <2>2, <2>4, <2>5 DEF Touched, Entered, Alike
<1> QED BY <1>4, <1>5

\* pgdir_alloc_page maps a page or leaves everything as it was but for tables.
LEMMA PgdirAllocFits ==
  ASSUME NEW b \in RefMaps, NEW w, w \subseteq Frames, NEW k \in Nat, NEW t, Fit(t, k, b, w), Ok(t),
         NEW la \in Addrs, NEW write \in BOOLEAN, NEW v, v = pgdir_alloc_page(t, la, write)
  PROVE  Fit(v, k, b, w) /\ Touched(t, v, la) /\ v.err \in {"ok", "NO_MEM"}
<1>1. PICK a : a = alloc_page(t)
  OBVIOUS
<1>2. /\ Same(t, a)
      /\ Ok(a) => Fit(a, k + 1, b, w)
      /\ ~Ok(a) => Fit(a, k, b, w) /\ a.err = "NO_MEM"
  BY <1>1, InHand
<1>3. CASE ~Ok(a)
  <2>1. v = a
    BY <1>1, <1>3 DEF pgdir_alloc_page
  <2> QED BY <1>2, <1>3, <2>1 DEF Touched, Same, Alike
<1>4. CASE Ok(a)
  <2>1. PICK f, perm : f = NewFrame(a) /\ perm = [write |-> write, cow |-> FALSE]
    OBVIOUS
  <2>2. f \in Frames /\ a.ref[f] = 0 /\ perm.write \in BOOLEAN /\ perm.cow \in BOOLEAN
    BY <1>2, <1>4, <2>1, NewFrameFacts
  <2>3. PICK u : u = page_insert(a, f, la, perm)
    OBVIOUS
  <2>4. /\ Touched(a, u, la)
        /\ Ok(u) => Fit(u, k, b, w)
        /\ ~Ok(u) => Fit(u, k + 1, b, w) /\ u.err = "NO_MEM"
    <3>1. InsertLeaves(a, page_insert(a, f, la, perm), la, k, b, w)
      BY <1>2, <1>4, <2>2, InsertFresh
    <3> QED BY <2>3, <3>1 DEF InsertLeaves
  <2>5. v = IF Ok(u) THEN u ELSE free_page(u)
    BY <1>1, <1>4, <2>1, <2>3 DEF pgdir_alloc_page, KeptIfMapped
  <2>6. CASE Ok(u)
    BY <1>2, <2>4, <2>5, <2>6 DEF Touched, Same, Ok
  <2>7. CASE ~Ok(u)
    <3>1. Fit(v, k, b, w) /\ Same(u, v) /\ v.err = "NO_MEM"
      BY <2>4, <2>5, <2>7, GivenBack
    <3> QED BY <1>2, <2>4, <3>1 DEF Touched, Same
  <2> QED BY <2>6, <2>7
<1> QED BY <1>3, <1>4

-----------------------------------------------------------------------------
(* The end of an mm *)

PagesOf(vma) == vma.start .. (vma.end - 1)

LEMMA VmaFacts ==
  ASSUME NEW vma \in Vmas
  PROVE  /\ PagesOf(vma) \subseteq Addrs /\ vma.start \in Nat /\ vma.end \in Nat /\ vma.start < vma.end
         /\ vma.write \in BOOLEAN
         /\ \A la \in Addrs : la \in PagesOf(vma) <=> vma.start <= la /\ la < vma.end
<1>1. PICK n : n = N1 * N0 * NT /\ n \in Nat
  BY SizeFacts
<1>2. vma.start \in 0 .. (n - 1) /\ vma.end \in 0 .. n /\ vma.start < vma.end /\ vma.write \in BOOLEAN
  BY <1>1 DEF Vmas, Addrs
<1>3. Addrs = 0 .. (n - 1)
  BY <1>1 DEF Addrs
<1>4. \A la : la \in PagesOf(vma) <=> la \in Int /\ vma.start <= la /\ la < vma.end
  BY <1>2 DEF PagesOf
<1> QED BY <1>1, <1>2, <1>3, <1>4

\* The entries of las are gone.
Cleared(t, u, las) ==
  /\ u.from = t.from /\ u.err = t.err /\ Alike(t.mm, u.mm)
  /\ \A la \in Addrs : u.mm.pte[la] = IF la \in las THEN None ELSE t.mm.pte[la]

LEMMA UnmapRangeFits ==
  ASSUME NEW b \in RefMaps, NEW w, w \subseteq Frames, NEW k \in Nat, NEW t, Fit(t, k, b, w),
         NEW vma \in Vmas, NEW u, u = unmap_range(t, vma)
  PROVE  Fit(u, k, b, w) /\ Cleared(t, u, PagesOf(vma))
<1>1. PICK las, gone, last : /\ las = {la \in vma.start .. (vma.end - 1) : t.mm.pte[la] # None}
                             /\ gone = {t.mm.pte[la].frame : la \in las}
                             /\ last = {f \in gone : t.ref[f] = 1}
  OBVIOUS
<1>2. /\ t \in Views /\ t.free \in Nat /\ t.mm \in MmStructs /\ t.mm.pte \in PteMaps
      /\ t.ref \in RefMaps /\ TablesOf(t.mm) \in Nat /\ Private(t.ref, t.from.pte) /\ t.data \in DataMaps
  BY FitFacts, ViewFacts
<1>3. las \subseteq Addrs /\ (\A la \in las : t.mm.pte[la] # None) /\ las \subseteq PagesOf(vma)
  BY <1>1, VmaFacts DEF PagesOf
<1>4. PICK F, q, r : /\ F = t.free + Cardinality(LastOf(t.ref, t.mm.pte, las))
                     /\ r = Fewer(t.ref, t.mm.pte, las) /\ q = Unmapped(t.mm.pte, las)
  OBVIOUS
<1>5. PICK K : K = k + TablesOf(t.mm)
  OBVIOUS
<1>6. FitMap(F, K, r, q, b, w)
  <2>1. FitMap(t.free, K, t.ref, t.mm.pte, b, w)
    BY <1>5 DEF Fit
  <2> QED BY <1>3, <1>4, <2>1, UnmapKeeps
<1>7. PICK n, d : n = [t.mm EXCEPT !.pte = q] /\ d = [f \in Frames |-> IF f \in last THEN Junk ELSE t.data[f]]
  OBVIOUS
<1>8. gone = GoneOf(t.mm.pte, las) /\ last = LastOf(t.ref, t.mm.pte, las)
  BY <1>1 DEF GoneOf, LastOf
<1>9. u = [t EXCEPT !.mm = n, !.ref = r, !.data = d, !.free = F]
  BY <1>1, <1>4, <1>7, <1>8 DEF unmap_range, Unmapped, Fewer
<1>10. F \in Nat /\ r \in RefMaps /\ q \in PteMaps
  BY <1>6 DEF FitMap
<1>11. d \in DataMaps
  BY <1>2, <1>7 DEF DataMaps
<1>12. /\ n \in MmStructs /\ Alike(t.mm, n) /\ n.pte = q /\ n.dir = t.mm.dir /\ n.tab = t.mm.tab
  BY <1>2, <1>7, <1>10 DEF MmStructs, PteMaps, Alike
<1>13. /\ u \in Views /\ u.free = F /\ u.ref = r /\ u.mm = n /\ u.from = t.from /\ u.err = t.err
  BY <1>2, <1>9, <1>10, <1>11, <1>12 DEF Views
<1>14. TablesOf(n) = TablesOf(t.mm)
  BY <1>12 DEF TablesOf, DirsOf, TabsOf
<1>15. Private(r, t.from.pte)
  <2> SUFFICES ASSUME NEW lb \in Addrs, t.from.pte[lb] # None, t.from.pte[lb].write
               PROVE  r[t.from.pte[lb].frame] <= 1
    BY DEF Private
  <2>1. t.from.pte \in PteMaps
    BY <1>2, ViewFacts, MmFacts
  <2>2. PICK g : g = t.from.pte[lb].frame
    OBVIOUS
  <2>3. g \in Frames /\ t.ref[g] <= 1 /\ t.ref[g] \in Nat
    BY <1>2, <2>1, <2>2, PteFacts DEF Private, RefMaps
  <2>4. r[g] = t.ref[g] \/ r[g] = t.ref[g] - 1
    BY <1>4, <2>3 DEF Fewer
  <2> QED BY <2>2, <2>3, <2>4
<1>16. Fit(u, k, b, w)
  BY <1>5, <1>6, <1>12, <1>13, <1>14, <1>15 DEF Fit
<1>17. ASSUME NEW la \in Addrs PROVE q[la] = IF la \in PagesOf(vma) THEN None ELSE t.mm.pte[la]
  <2>1. q[la] = IF la \in las THEN None ELSE t.mm.pte[la]
    BY <1>4 DEF Unmapped
  <2>2. la \in las <=> la \in PagesOf(vma) /\ t.mm.pte[la] # None
    BY <1>1 DEF PagesOf
  <2> QED BY <2>1, <2>2
<1> QED BY <1>12, <1>13, <1>16, <1>17 DEF Cleared

LEMMA ExitRangeFits ==
  ASSUME NEW b \in RefMaps, NEW w, w \subseteq Frames, NEW k \in Nat, NEW t, Fit(t, k, b, w),
         NEW vma \in Vmas, NEW u, u = exit_range(t, vma)
  PROVE  /\ Fit(u, k, b, w) /\ u.from = t.from /\ u.err = t.err
         /\ Alike(t.mm, u.mm) /\ u.mm.pte = t.mm.pte
<1>1. PICK seen, pts, pds :
        /\ seen = {Tab(la) : la \in vma.start .. (vma.end - 1)}
        /\ pts = {j \in seen : t.mm.dir[j[1]] /\ t.mm.tab[j]
                                 /\ \A la \in Addrs : Tab(la) = j => t.mm.pte[la] = None}
        /\ pds = {i \in {j[1] : j \in seen} : t.mm.dir[i] /\ \A j \in seen : j[1] = i => t.mm.tab[j]}
  OBVIOUS
<1>2. /\ t \in Views /\ t.free \in Nat /\ t.mm \in MmStructs
      /\ t.ref \in RefMaps /\ TablesOf(t.mm) \in Nat /\ t.data \in DataMaps
  BY FitFacts, ViewFacts
<1>3. seen \subseteq Tabs /\ \A j \in seen : j[1] \in Dirs
  <2>1. \A la \in PagesOf(vma) : Tab(la) \in Tabs /\ Tab(la)[1] \in Dirs
    BY VmaFacts, AddrFacts
  <2> QED BY <1>1, <2>1 DEF PagesOf
<1>4. pts \subseteq TabsOf(t.mm) /\ pds \subseteq DirsOf(t.mm)
  BY <1>1, <1>3 DEF TabsOf, DirsOf
<1>5. PICK n : n = [t.mm EXCEPT !.dir = [i \in Dirs |-> i \notin pds /\ t.mm.dir[i]],
                                !.tab = [j \in Tabs |-> j \notin pts /\ j[1] \notin pds /\ t.mm.tab[j]]]
  OBVIOUS
<1>6. /\ n \in MmStructs /\ Alike(t.mm, n) /\ n.pte = t.mm.pte
      /\ n.dir = [i \in Dirs |-> i \notin pds /\ t.mm.dir[i]]
      /\ n.tab = [j \in Tabs |-> j \notin pts /\ j[1] \notin pds /\ t.mm.tab[j]]
  BY <1>2, <1>5 DEF MmStructs, Alike
<1>7. DirsOf(n) = DirsOf(t.mm) \ pds /\ TabsOf(n) \subseteq TabsOf(t.mm) \ pts
  BY <1>6 DEF DirsOf, TabsOf
<1>8. PICK d, j, cd, cj, e, h :
        /\ d = Cardinality(DirsOf(t.mm)) /\ j = Cardinality(TabsOf(t.mm))
        /\ cd = Cardinality(pds) /\ cj = Cardinality(pts)
        /\ e = Cardinality(DirsOf(n)) /\ h = Cardinality(TabsOf(n))
  OBVIOUS
<1>9. IsFiniteSet(DirsOf(t.mm)) /\ IsFiniteSet(TabsOf(t.mm)) /\ d \in Nat /\ j \in Nat /\ e \in Nat /\ h \in Nat
  BY <1>8, TablesFinite
<1>10. IsFiniteSet(pds) /\ IsFiniteSet(pts) /\ cd \in Nat /\ cj \in Nat
  BY <1>4, <1>8, <1>9, FS_Subset, FS_CardinalityType
<1>11. e = d - cd
  <2>1. DirsOf(t.mm) \cap pds = pds
    BY <1>4
  <2>2. Cardinality(DirsOf(t.mm) \ pds) = Cardinality(DirsOf(t.mm)) - Cardinality(DirsOf(t.mm) \cap pds)
    BY <1>9, FS_Difference
  <2> QED BY <1>7, <1>8, <2>1, <2>2
<1>12. h <= j - cj
  <2>1. TabsOf(t.mm) \cap pts = pts
    BY <1>4
  <2>2. /\ IsFiniteSet(TabsOf(t.mm) \ pts)
        /\ Cardinality(TabsOf(t.mm) \ pts) = Cardinality(TabsOf(t.mm)) - Cardinality(TabsOf(t.mm) \cap pts)
    BY <1>9, FS_Difference
  <2>3. Cardinality(TabsOf(n)) <= Cardinality(TabsOf(t.mm) \ pts)
    BY <1>7, <2>2, FS_Subset
  <2> QED BY <1>8, <2>1, <2>2, <2>3
<1>13. TablesOf(t.mm) = d + j /\ TablesOf(n) = e + h
  BY <1>8 DEF TablesOf
<1>14. PICK F : F = t.free + cj + cd
  OBVIOUS
<1>15. u = [t EXCEPT !.free = F, !.mm = n]
  BY <1>1, <1>5, <1>8, <1>14 DEF exit_range
<1>16. F \in Nat
  BY <1>2, <1>10, <1>14
<1>17. /\ u \in Views /\ u.free = F /\ u.ref = t.ref /\ u.mm = n /\ u.from = t.from /\ u.err = t.err
  BY <1>2, <1>6, <1>15, <1>16 DEF Views
<1>18. F + (k + TablesOf(n)) <= t.free + (k + TablesOf(t.mm)) /\ k + TablesOf(n) \in Nat /\ k + TablesOf(t.mm) \in Nat
  BY <1>2, <1>9, <1>10, <1>11, <1>12, <1>13, <1>14
<1>19. FitMap(t.free, k + TablesOf(t.mm), t.ref, t.mm.pte, b, w) /\ Private(t.ref, t.from.pte)
  BY DEF Fit
<1>20. FitMap(F, k + TablesOf(n), t.ref, t.mm.pte, b, w)
  BY <1>2, <1>16, <1>18, <1>19, FitMoves
<1>21. Fit(u, k, b, w)
  BY <1>6, <1>17, <1>19, <1>20 DEF Fit
<1> QED BY <1>6, <1>17, <1>21

\* What holds before a loop and after each of its turns holds after it.
LEMMA LoopStays ==
  ASSUME NEW n \in Nat, NEW X, NEW g, g[0] \in X, \A k \in 1 .. n : g[k - 1] \in X => g[k] \in X
  PROVE  \A k \in 0 .. n : g[k] \in X
<1> DEFINE S == {k \in Nat : g[k] \in X}
<1>1. 0 \in S
  OBVIOUS
<1>2. ASSUME NEW k \in 1 .. n, k - 1 \in S PROVE k \in S
  BY <1>2
<1>3. 0 .. n \subseteq S
  <2> HIDE DEF S
  <2> QED BY <1>1, <1>2, LoopInduction
<1> QED BY <1>3

\* The loops of exit_mmap.
IsUnmaps(t, f) ==
  f = [k \in 0 .. Len(t.mm.vmas) |-> IF k = 0 THEN t ELSE unmap_range(f[k - 1], t.mm.vmas[k])]
Unmaps(t) == CHOOSE f : IsUnmaps(t, f)
IsExits(t, x, f) ==
  f = [k \in 0 .. Len(t.mm.vmas) |-> IF k = 0 THEN x ELSE exit_range(f[k - 1], t.mm.vmas[k])]
Exits(t, x) == CHOOSE f : IsExits(t, x, f)

LEMMA ExitMmapIs ==
  ASSUME NEW t
  PROVE  exit_mmap(t) = Exits(t, Unmaps(t)[Len(t.mm.vmas)])[Len(t.mm.vmas)]
BY DEF exit_mmap, Exits, IsExits, Unmaps, IsUnmaps

\* The mm at work lost some of its entries.
Fewers(t, k, b, w) ==
  {u \in Views : /\ Fit(u, k, b, w) /\ u.from = t.from /\ u.err = t.err /\ Alike(t.mm, u.mm)
                 /\ \A la \in Addrs : u.mm.pte[la] \in {t.mm.pte[la], None}}

UnmapsOK(t, f, k, b, w) ==
  /\ f[0] = t
  /\ \A i \in 1 .. Len(t.mm.vmas) :
       f[i - 1] \in Fewers(t, k, b, w) /\ f[i] = unmap_range(f[i - 1], t.mm.vmas[i])
  /\ f[Len(t.mm.vmas)] \in Fewers(t, k, b, w)

LEMMA UnmapsRun ==
  ASSUME NEW b \in RefMaps, NEW w, w \subseteq Frames, NEW k \in Nat, NEW t, Fit(t, k, b, w)
  PROVE  UnmapsOK(t, Unmaps(t), k, b, w)
<1> DEFINE X == Fewers(t, k, b, w)
           n == Len(t.mm.vmas)
           V == t.mm.vmas
           G == [i \in 1 .. n |-> [u \in X |-> unmap_range(u, V[i])]]
<1>0. n \in Nat /\ t \in X /\ \A i \in 1 .. n : V[i] \in Vmas
  <2>1. t \in Views /\ t.mm \in MmStructs /\ V \in Seq(Vmas)
    BY FitFacts, MmFacts
  <2>2. t \in X
    BY <2>1 DEF Fewers, Alike
  <2> QED BY <2>1, <2>2
<1>1. ASSUME NEW i \in 1 .. n, NEW u \in X PROVE unmap_range(u, V[i]) \in X
  <2>1. PICK z : z = unmap_range(u, V[i])
    OBVIOUS
  <2>2. /\ Fit(u, k, b, w) /\ u.from = t.from /\ u.err = t.err /\ Alike(t.mm, u.mm)
        /\ \A la \in Addrs : u.mm.pte[la] \in {t.mm.pte[la], None}
    BY DEF Fewers
  <2>3. Fit(z, k, b, w) /\ Cleared(u, z, PagesOf(V[i]))
    BY <1>0, <2>1, <2>2, UnmapRangeFits
  <2>4. z \in Views
    BY <2>3 DEF Fit
  <2>5. /\ z.from = u.from /\ z.err = u.err /\ Alike(u.mm, z.mm)
        /\ \A la \in Addrs : z.mm.pte[la] \in {u.mm.pte[la], None}
    BY <2>3 DEF Cleared
  <2>6. z \in X
    BY <2>2, <2>3, <2>4, <2>5 DEF Fewers, Alike
  <2> QED BY <2>1, <2>6
<1> HIDE DEF X
<1>2. G \in [1 .. n -> [X -> X]]
  BY <1>1
<1>3. PICK g \in [0 .. n -> X] : IsLoop(g, n, t, G)
  <2> HIDE DEF G, n
  <2> QED BY <1>0, <1>2, LoopRuns
<1>4. IsUnmaps(t, g)
  <2>1. ASSUME NEW i \in 0 .. n PROVE g[i] = IF i = 0 THEN t ELSE unmap_range(g[i - 1], V[i])
    <3>1. g[i] = IF i = 0 THEN t ELSE G[i][g[i - 1]]
      BY <1>3 DEF IsLoop
    <3>2. CASE i # 0
      <4>1. i \in 1 .. n /\ i - 1 \in 0 .. n
        BY <1>0, <3>2
      <4>2. g[i - 1] \in X
        BY <4>1
      <4> QED BY <3>1, <3>2, <4>1, <4>2
    <3> QED BY <3>1, <3>2
  <2> QED BY <2>1 DEF IsUnmaps
<1> SUFFICES ASSUME NEW f, f = Unmaps(t) PROVE UnmapsOK(t, f, k, b, w)
  OBVIOUS
<1>5. IsUnmaps(t, f)
  BY <1>4, Zenon DEF Unmaps
<1>6. \A i \in 0 .. n : f[i] = IF i = 0 THEN t ELSE unmap_range(f[i - 1], V[i])
  BY <1>5, Zenon DEF IsUnmaps
<1>7. f[0] = t
  BY <1>0, <1>6
<1>8. ASSUME NEW i \in 1 .. n PROVE f[i] = unmap_range(f[i - 1], V[i])
  BY <1>0, <1>6
<1>9. \A i \in 0 .. n : f[i] \in X
  <2>1. \A i \in 1 .. n : f[i - 1] \in X => f[i] \in X
    BY <1>1, <1>8
  <2> HIDE DEF n
  <2> QED BY <1>0, <1>7, <2>1, LoopStays
<1>10. \A i \in 1 .. n : i - 1 \in 0 .. n /\ n \in 0 .. n
  BY <1>0
<1>11. f[n] \in X
  BY <1>0, <1>9
<1> QED BY <1>7, <1>8, <1>9, <1>10, <1>11 DEF X, UnmapsOK

\* Nothing is mapped.
Empty(q) == \A la \in Addrs : q[la] = None

LEMMA UnmapsEmpty ==
  ASSUME NEW b \in RefMaps, NEW w, w \subseteq Frames, NEW k \in Nat, NEW t, Fit(t, k, b, w),
         Within(t.mm), NEW u, u = Unmaps(t)[Len(t.mm.vmas)]
  PROVE  /\ Fit(u, k, b, w) /\ u.from = t.from /\ u.err = t.err /\ Alike(t.mm, u.mm)
         /\ Empty(u.mm.pte)
<1>0. PICK f : f = Unmaps(t)
  OBVIOUS
<1>1. PICK n, V : f = Unmaps(t) /\ n = Len(t.mm.vmas) /\ V = t.mm.vmas
  BY <1>0
<1>2. /\ f[0] = t
      /\ \A i \in 1 .. n : f[i - 1] \in Fewers(t, k, b, w) /\ f[i] = unmap_range(f[i - 1], V[i])
      /\ f[n] \in Fewers(t, k, b, w)
  <2>1. /\ f[0] = t
        /\ \A i \in 1 .. Len(t.mm.vmas) :
             f[i - 1] \in Fewers(t, k, b, w) /\ f[i] = unmap_range(f[i - 1], t.mm.vmas[i])
        /\ f[Len(t.mm.vmas)] \in Fewers(t, k, b, w)
    <3>1. UnmapsOK(t, Unmaps(t), k, b, w)
      BY UnmapsRun
    <3> QED BY <1>0, <3>1, Zenon DEF UnmapsOK
  <2> QED BY <1>1, <2>1
<1>3. n \in Nat /\ \A i \in 1 .. n : V[i] \in Vmas
  <2>1. V \in Seq(Vmas)
    BY <1>1, FitFacts, MmFacts
  <2> QED BY <1>1, <2>1
<1>4. ASSUME NEW la \in Addrs, t.mm.pte[la] # None PROVE u.mm.pte[la] = None
  <2>1. PICK v \in 1 .. n : la \in PagesOf(V[v])
    <3>1. PICK v \in 1 .. n : V[v].start <= la /\ la < V[v].end
      BY <1>1, <1>4 DEF Within
    <3> QED BY <1>3, <3>1, VmaFacts
  <2> DEFINE S == {i \in Nat : i >= v => f[i].mm.pte[la] = None}
  <2>2. 0 \in S
    OBVIOUS
  <2>3. ASSUME NEW i \in 1 .. n, i - 1 \in S PROVE i \in S
    <3>1. PICK x, y : x = f[i - 1] /\ y = f[i]
      OBVIOUS
    <3>2. Fit(x, k, b, w) /\ y = unmap_range(x, V[i]) /\ V[i] \in Vmas
      BY <1>2, <1>3, <3>1 DEF Fewers
    <3>3. Cleared(x, y, PagesOf(V[i]))
      BY <3>2, UnmapRangeFits
    <3>4. y.mm.pte[la] = IF la \in PagesOf(V[i]) THEN None ELSE x.mm.pte[la]
      BY <3>3 DEF Cleared
    <3>5. i >= v => y.mm.pte[la] = None
      <4>1. CASE i = v
        BY <2>1, <3>4, <4>1
      <4>2. CASE i > v
        <5>1. i - 1 >= v /\ i - 1 \in Nat
          BY <4>2
        <5> QED BY <2>3, <3>1, <3>4, <5>1
      <4> QED BY <4>1, <4>2
    <3> QED BY <3>1, <3>5
  <2>4. 0 .. n \subseteq S
    <3> HIDE DEF S
    <3> QED BY <1>3, <2>2, <2>3, LoopInduction
  <2>5. n \in S /\ n >= v
    BY <1>3, <2>4
  <2> QED BY <1>1, <2>5
<1>5. u \in Fewers(t, k, b, w)
  BY <1>1, <1>2
<1>6. Empty(u.mm.pte)
  BY <1>4, <1>5 DEF Fewers, Empty
<1> QED BY <1>5, <1>6 DEF Fewers

\* A view that exit_range leaves.
Exitings(u, k, b, w) ==
  {x \in Views : /\ Fit(x, k, b, w) /\ x.from = u.from /\ x.err = u.err
                 /\ Alike(u.mm, x.mm) /\ x.mm.pte = u.mm.pte}

LEMMA ExitsFit ==
  ASSUME NEW b \in RefMaps, NEW w, w \subseteq Frames, NEW k \in Nat, NEW t, t.mm.vmas \in Seq(Vmas),
         NEW x, Fit(x, k, b, w), NEW u, u = Exits(t, x)[Len(t.mm.vmas)]
  PROVE  u \in Exitings(x, k, b, w)
<1> DEFINE X == Exitings(x, k, b, w)
           n == Len(t.mm.vmas)
           V == t.mm.vmas
           G == [i \in 1 .. n |-> [y \in X |-> exit_range(y, V[i])]]
<1>0. n \in Nat /\ x \in X /\ \A i \in 1 .. n : V[i] \in Vmas
  <2>1. x \in Views
    BY FitFacts
  <2>2. x \in X
    BY <2>1 DEF Exitings, Alike
  <2> QED BY <2>2
<1>1. ASSUME NEW i \in 1 .. n, NEW y \in X PROVE exit_range(y, V[i]) \in X
  <2>1. PICK z : z = exit_range(y, V[i])
    OBVIOUS
  <2>2. /\ Fit(y, k, b, w) /\ y.from = x.from /\ y.err = x.err /\ Alike(x.mm, y.mm) /\ y.mm.pte = x.mm.pte
    BY DEF Exitings
  <2>3. Fit(z, k, b, w) /\ z.from = y.from /\ z.err = y.err /\ Alike(y.mm, z.mm) /\ z.mm.pte = y.mm.pte
    BY <1>0, <2>1, <2>2, ExitRangeFits
  <2>4. z \in Views
    BY <2>3 DEF Fit
  <2>5. z \in X
    BY <2>2, <2>3, <2>4 DEF Exitings, Alike
  <2> QED BY <2>1, <2>5
<1> HIDE DEF X
<1>2. G \in [1 .. n -> [X -> X]]
  BY <1>1
<1>3. PICK g \in [0 .. n -> X] : IsLoop(g, n, x, G)
  <2> HIDE DEF G, n
  <2> QED BY <1>0, <1>2, LoopRuns
<1>4. IsExits(t, x, g)
  <2>1. ASSUME NEW i \in 0 .. n PROVE g[i] = IF i = 0 THEN x ELSE exit_range(g[i - 1], V[i])
    <3>1. g[i] = IF i = 0 THEN x ELSE G[i][g[i - 1]]
      BY <1>3 DEF IsLoop
    <3>2. CASE i # 0
      <4>1. i \in 1 .. n /\ i - 1 \in 0 .. n
        BY <1>0, <3>2
      <4>2. g[i - 1] \in X
        BY <4>1
      <4> QED BY <3>1, <3>2, <4>1, <4>2
    <3> QED BY <3>1, <3>2
  <2> QED BY <2>1 DEF IsExits
<1>5. PICK f : f = Exits(t, x)
  OBVIOUS
<1>6. IsExits(t, x, f)
  BY <1>4, <1>5, Zenon DEF Exits
<1>7. \A i \in 0 .. n : f[i] = IF i = 0 THEN x ELSE exit_range(f[i - 1], V[i])
  BY <1>6, Zenon DEF IsExits
<1>8. f[0] = x
  BY <1>0, <1>7
<1>9. \A i \in 1 .. n : f[i - 1] \in X => f[i] \in X
  <2>1. \A i \in 1 .. n : f[i] = exit_range(f[i - 1], V[i])
    BY <1>0, <1>7
  <2> QED BY <1>1, <2>1
<1>10. \A i \in 0 .. n : f[i] \in X
  <2> HIDE DEF n
  <2> QED BY <1>0, <1>8, <1>9, LoopStays
<1>11. f[n] \in X
  BY <1>0, <1>10
<1> QED BY <1>5, <1>11 DEF X

\* exit_mmap takes every entry out of an mm that maps within its VMAs.
LEMMA ExitMmapFits ==
  ASSUME NEW b \in RefMaps, NEW w, w \subseteq Frames, NEW k \in Nat, NEW t, Fit(t, k, b, w),
         Within(t.mm), NEW u, u = exit_mmap(t)
  PROVE  Fit(u, k, b, w) /\ u.from = t.from /\ u.err = t.err /\ Empty(u.mm.pte)
<1>1. PICK x : x = Unmaps(t)[Len(t.mm.vmas)]
  OBVIOUS
<1>2. /\ Fit(x, k, b, w) /\ x.from = t.from /\ x.err = t.err /\ Alike(t.mm, x.mm) /\ Empty(x.mm.pte)
  BY <1>1, UnmapsEmpty
<1>3. u = Exits(t, x)[Len(t.mm.vmas)]
  BY <1>1, ExitMmapIs, Zenon
<1>4. t.mm.vmas \in Seq(Vmas)
  BY FitFacts, MmFacts
<1>5. u \in Exitings(x, k, b, w)
  BY <1>2, <1>3, <1>4, ExitsFit
<1> QED BY <1>2, <1>5 DEF Exitings, Empty

\* put_pgdir(exit_mmap(mm)): nothing of the mm stays.
LEMMA FreedFits ==
  ASSUME NEW b \in RefMaps, NEW w, w \subseteq Frames, NEW k \in Nat, NEW t, Fit(t, k + 1, b, w),
         Within(t.mm), NEW u, u = put_pgdir(exit_mmap(t))
  PROVE  Fit(u, k, b, w) /\ u.from = t.from /\ u.err = t.err /\ Empty(u.mm.pte)
<1>1. PICK x : x = exit_mmap(t)
  OBVIOUS
<1>2. Fit(x, k + 1, b, w) /\ x.from = t.from /\ x.err = t.err /\ Empty(x.mm.pte)
  <2>1. k + 1 \in Nat
    OBVIOUS
  <2> QED BY <1>1, <2>1, ExitMmapFits
<1>3. u = free_page(x)
  BY <1>1 DEF put_pgdir
<1>4. Fit(u, k, b, w) /\ Same(x, u) /\ u.err = x.err
  BY <1>2, <1>3, GivenBack
<1> QED BY <1>2, <1>4 DEF Same, Empty

-----------------------------------------------------------------------------
(* VMAs, and what load_icode builds *)

\* The addresses of an mm's VMAs.
Covered(m) == {la \in Addrs : \E v \in 1 .. Len(m.vmas) : m.vmas[v].start <= la /\ la < m.vmas[v].end}

LEMMA WithinIs ==
  ASSUME NEW m
  PROVE  Within(m) <=> \A la \in Addrs : m.pte[la] # None => la \in Covered(m)
BY DEF Within, Covered

\* A VMA was put in its place: q became r.
Extends(q, r, vma) ==
  /\ r \in Seq(Vmas) /\ vma \in {r[v] : v \in 1 .. Len(r)}
  /\ \A v \in 1 .. Len(q) : q[v] \in {r[i] : i \in 1 .. Len(r)}

LEMMA WithExtends ==
  ASSUME NEW q \in Seq(Vmas), NEW j \in 1 .. (Len(q) + 1), NEW vma \in Vmas,
         NEW r \in Seq(Vmas), With(q, j, vma, r)
  PROVE  Extends(q, r, vma)
<1>1. PICK n : n = Len(q)
  OBVIOUS
<1>2. /\ n \in Nat /\ j \in 1 .. (n + 1) /\ DOMAIN r = 1 .. (n + 1)
      /\ \A i \in 1 .. (n + 1) : r[i] = (IF i < j THEN q[i] ELSE IF i = j THEN vma ELSE q[i - 1])
  BY <1>1 DEF With
<1>3. DOMAIN r = 1 .. Len(r)
  OBVIOUS
<1>4. r[j] = vma /\ j \in 1 .. Len(r)
  BY <1>2, <1>3
<1>5. ASSUME NEW v \in 1 .. n PROVE \E i \in 1 .. Len(r) : r[i] = q[v]
  <2>1. CASE v < j
    <3>1. v \in 1 .. (n + 1)
      BY <1>2
    <3> QED BY <1>2, <1>3, <2>1, <3>1
  <2>2. CASE v >= j
    <3>1. v + 1 \in 1 .. (n + 1) /\ ~(v + 1 < j) /\ v + 1 # j /\ (v + 1) - 1 = v
      BY <1>2, <2>2
    <3> QED BY <1>2, <1>3, <3>1
  <2> QED BY <1>2, <2>1, <2>2
<1> QED BY <1>1, <1>4, <1>5 DEF Extends

LEMMA Inserted ==
  ASSUME NEW q \in Seq(Vmas), NEW at \in 0 .. Len(q), NEW vma \in Vmas
  PROVE  Extends(q, SubSeq(q, 1, at) \o <<vma>> \o SubSeq(q, at + 1, Len(q)), vma)
<1>1. PICK j : j = at + 1
  OBVIOUS
<1>2. Len(q) \in Nat /\ j \in 1 .. (Len(q) + 1) /\ at = j - 1
  BY <1>1
<1>3. PICK r : r = SubSeq(q, 1, j - 1) \o <<vma>> \o SubSeq(q, j, Len(q))
  OBVIOUS
<1>4. r \in Seq(Vmas) /\ With(q, j, vma, r)
  BY <1>2, <1>3, InsertIs
<1>5. Extends(q, r, vma)
  BY <1>2, <1>4, WithExtends
<1> QED BY <1>1, <1>2, <1>3, <1>5

\* The mm at work maps within its VMAs, and C is covered by them.
Building(k, b, w, C) ==
  {u \in Views : Fit(u, k, b, w) /\ Within(u.mm) /\ C \subseteq Covered(u.mm)}

\* Nothing of the mm at work changed but its VMAs.
SameEntries(t, u) == u.from = t.from /\ u.mm.pte = t.mm.pte

LEMMA InsertVmaFits ==
  ASSUME NEW k \in Nat, NEW b, NEW w, NEW C, NEW t \in Building(k, b, w, C), NEW vma \in Vmas,
         NEW u, u = insert_vma_struct(t, vma)
  PROVE  /\ u \in Building(k, b, w, C) /\ SameEntries(t, u)
         /\ u.err \in {t.err, "prev->vm_end <= next->vm_start"}
         /\ Ok(u) => u \in Building(k, b, w, C \cup PagesOf(vma))
<1>1. t \in Views /\ Fit(t, k, b, w) /\ Within(t.mm) /\ C \subseteq Covered(t.mm)
  BY DEF Building
<1>2. t.mm \in MmStructs /\ t.mm.vmas \in Seq(Vmas)
  BY <1>1, ViewFacts, MmFacts
<1>3. PICK q, before, at : /\ q = t.mm.vmas
                           /\ before = {v \in 1 .. Len(q) : q[v].start <= vma.start}
                           /\ at = Cardinality(before)
  OBVIOUS
<1>4. at \in 0 .. Len(q)
  <2>1. Len(q) \in Nat /\ before \subseteq 1 .. Len(q)
    BY <1>2, <1>3
  <2>2. IsFiniteSet(1 .. Len(q)) /\ Cardinality(1 .. Len(q)) = Len(q)
    <3>1. PICK n : n = Len(q) /\ n \in Nat
      BY <2>1
    <3>2. 1 \in Int /\ n \in Int
      BY <3>1
    <3>3. IsFiniteSet(1 .. n) /\ Cardinality(1 .. n) = (IF 1 > n THEN 0 ELSE n - 1 + 1)
      BY <3>2, FS_Interval, Zenon
    <3> QED BY <3>1, <3>3
  <2>3. IsFiniteSet(before) /\ Cardinality(before) <= Len(q)
    BY <2>1, <2>2, FS_Subset
  <2>4. Cardinality(before) \in Nat
    BY <2>3, FS_CardinalityType
  <2> QED BY <1>3, <2>1, <2>3, <2>4
<1>5. PICK r : r = SubSeq(q, 1, at) \o <<vma>> \o SubSeq(q, at + 1, Len(q))
  OBVIOUS
<1>6. /\ r \in Seq(Vmas) /\ vma \in {r[v] : v \in 1 .. Len(r)}
      /\ \A v \in 1 .. Len(q) : q[v] \in {r[i] : i \in 1 .. Len(r)}
  <2>1. Extends(q, r, vma)
    BY <1>2, <1>3, <1>4, <1>5, Inserted
  <2> QED BY <2>1 DEF Extends
<1>7. \/ u = [t EXCEPT !.err = "prev->vm_end <= next->vm_start"]
      \/ u = [t EXCEPT !.mm.vmas = r]
  BY <1>3, <1>5 DEF insert_vma_struct
<1>8. CASE u = [t EXCEPT !.err = "prev->vm_end <= next->vm_start"]
  <2>1. /\ u \in Views /\ u.free = t.free /\ u.ref = t.ref /\ u.mm = t.mm /\ u.from = t.from
        /\ u.err = "prev->vm_end <= next->vm_start"
    BY <1>1, <1>8 DEF Views, Errs
  <2>2. Fit(u, k, b, w)
    BY <1>1, <2>1 DEF Fit
  <2> QED BY <1>1, <2>1, <2>2 DEF Building, SameEntries, Ok
<1>9. CASE u = [t EXCEPT !.mm.vmas = r]
  <2>1. PICK n : n = [t.mm EXCEPT !.vmas = r]
    OBVIOUS
  <2>2. /\ n \in MmStructs /\ n.pte = t.mm.pte /\ n.dir = t.mm.dir /\ n.tab = t.mm.tab /\ n.vmas = r
    BY <1>2, <1>6, <2>1 DEF MmStructs
  <2>3. /\ u \in Views /\ u.free = t.free /\ u.ref = t.ref /\ u.mm = n /\ u.from = t.from /\ u.err = t.err
    <3>1. u = [t EXCEPT !.mm = n]
      BY <1>9, <2>1
    <3> QED BY <1>1, <2>2, <3>1 DEF Views
  <2>4. TablesOf(n) = TablesOf(t.mm)
    BY <2>2 DEF TablesOf, DirsOf, TabsOf
  <2>5. Fit(u, k, b, w)
    BY <1>1, <2>2, <2>3, <2>4 DEF Fit
  <2>6. Covered(t.mm) \subseteq Covered(n)
    <3> SUFFICES ASSUME NEW la \in Covered(t.mm) PROVE la \in Covered(n)
      OBVIOUS
    <3>1. la \in Addrs /\ \E v \in 1 .. Len(q) : q[v].start <= la /\ la < q[v].end
      BY <1>3 DEF Covered
    <3>2. PICK v \in 1 .. Len(q) : q[v].start <= la /\ la < q[v].end
      BY <3>1
    <3>3. PICK i \in 1 .. Len(r) : r[i] = q[v]
      BY <1>6
    <3> QED BY <2>2, <3>1, <3>2, <3>3 DEF Covered
  <2>7. PagesOf(vma) \subseteq Covered(n)
    <3>1. PICK i \in 1 .. Len(r) : r[i] = vma
      BY <1>6
    <3>2. \A la \in PagesOf(vma) : la \in Addrs /\ vma.start <= la /\ la < vma.end
      BY VmaFacts
    <3> QED BY <2>2, <3>1, <3>2 DEF Covered
  <2>8. Within(u.mm)
    <3>1. \A la \in Addrs : t.mm.pte[la] # None => la \in Covered(t.mm)
      BY <1>1, WithinIs
    <3>2. \A la \in Addrs : n.pte[la] # None => la \in Covered(n)
      BY <2>2, <2>6, <3>1
    <3> QED BY <2>3, <3>2, WithinIs
  <2> QED BY <1>1, <2>2, <2>3, <2>5, <2>6, <2>7, <2>8 DEF Building, SameEntries
<1> QED BY <1>7, <1>8, <1>9

\* What is wrong, and what the pages hold, does not matter to it.
LEMMA ErrBuilds ==
  ASSUME NEW k \in Nat, NEW b, NEW w, NEW C, NEW t \in Building(k, b, w, C), NEW e \in Errs
  PROVE  [t EXCEPT !.err = e] \in Building(k, b, w, C)
<1>1. PICK u : u = [t EXCEPT !.err = e]
  OBVIOUS
<1>2. t \in Views /\ Fit(t, k, b, w) /\ Within(t.mm) /\ C \subseteq Covered(t.mm)
  BY DEF Building
<1>3. u \in Views /\ u.free = t.free /\ u.ref = t.ref /\ u.mm = t.mm /\ u.from = t.from
  BY <1>1, <1>2 DEF Views
<1>4. Fit(u, k, b, w)
  BY <1>2, <1>3 DEF Fit
<1> QED BY <1>1, <1>2, <1>3, <1>4 DEF Building

LEMMA DataBuilds ==
  ASSUME NEW k \in Nat, NEW b, NEW w, NEW C, NEW t \in Building(k, b, w, C), NEW d \in DataMaps
  PROVE  [t EXCEPT !.data = d] \in Building(k, b, w, C)
<1>1. PICK u : u = [t EXCEPT !.data = d]
  OBVIOUS
<1>2. t \in Views /\ Fit(t, k, b, w) /\ Within(t.mm) /\ C \subseteq Covered(t.mm)
  BY DEF Building
<1>3. u \in Views /\ u.free = t.free /\ u.ref = t.ref /\ u.mm = t.mm /\ u.from = t.from
  BY <1>1, <1>2 DEF Views
<1>4. Fit(u, k, b, w)
  BY <1>2, <1>3 DEF Fit
<1> QED BY <1>1, <1>2, <1>3, <1>4 DEF Building

\* Entries of addresses that are covered, and tables, may come and go.
LEMMA TouchBuilds ==
  ASSUME NEW k \in Nat, NEW b, NEW w, NEW C, NEW t \in Building(k, b, w, C), NEW la \in C,
         NEW u, Fit(u, k, b, w), Alike(t.mm, u.mm),
         \A lb \in Addrs : lb # la => u.mm.pte[lb] = t.mm.pte[lb]
  PROVE  u \in Building(k, b, w, C)
<1>1. t \in Views /\ Fit(t, k, b, w) /\ Within(t.mm) /\ C \subseteq Covered(t.mm)
  BY DEF Building
<1>2. u \in Views /\ u.mm.vmas = t.mm.vmas
  BY DEF Fit, Alike
<1>3. Covered(u.mm) = Covered(t.mm)
  BY <1>2 DEF Covered
<1>4. \A lb \in Addrs : t.mm.pte[lb] # None => lb \in Covered(t.mm)
  BY <1>1, WithinIs
<1>5. Within(u.mm)
  BY <1>1, <1>3, <1>4, WithinIs
<1> QED BY <1>1, <1>2, <1>3, <1>5 DEF Building

LEMMA AllocBuilds ==
  ASSUME NEW b \in RefMaps, NEW w, w \subseteq Frames, NEW k \in Nat, NEW C, C \subseteq Addrs,
         NEW t \in Building(k, b, w, C), Ok(t), NEW la \in C, NEW write \in BOOLEAN
  PROVE  pgdir_alloc_page(t, la, write) \in Building(k, b, w, C)
<1>1. PICK v : v = pgdir_alloc_page(t, la, write)
  OBVIOUS
<1>2. Fit(t, k, b, w) /\ la \in Addrs
  BY DEF Building
<1>3. Fit(v, k, b, w) /\ Touched(t, v, la)
  BY <1>1, <1>2, PgdirAllocFits
<1>4. v \in Building(k, b, w, C)
  BY <1>3, TouchBuilds DEF Touched
<1> QED BY <1>1, <1>4

LEMMA LoadPageBuilds ==
  ASSUME NEW b \in RefMaps, NEW w, w \subseteq Frames, NEW k \in Nat, NEW C, C \subseteq Addrs,
         NEW t \in Building(k, b, w, C), NEW la \in C, NEW write \in BOOLEAN
  PROVE  LoadPage(t, la, write) \in Building(k, b, w, C) /\ StackPage(t, la) \in Building(k, b, w, C)
<1>1. CASE ~Ok(t)
  BY <1>1 DEF LoadPage, StackPage
<1>2. CASE Ok(t)
  <2>1. PICK u : u = pgdir_alloc_page(t, la, write)
    OBVIOUS
  <2>2. u \in Building(k, b, w, C) /\ u \in Views
    BY <1>2, <2>1, AllocBuilds DEF Building
  <2>3. Filled(u, la) \in Building(k, b, w, C)
    <3>1. PICK d, x : x = u.mm.pte[la].frame /\ d = [u.data EXCEPT ![x] = FromFile]
      OBVIOUS
    <3>2. d \in DataMaps
      BY <2>2, <3>1, ViewFacts, DataFacts
    <3>3. Filled(u, la) = IF Ok(u) THEN [u EXCEPT !.data = d] ELSE u
      BY <3>1 DEF Filled
    <3> QED BY <2>2, <3>2, <3>3, DataBuilds
  <2>4. LoadPage(t, la, write) = Filled(u, la)
    BY <1>2, <2>1 DEF LoadPage
  <2>5. PICK v : v = pgdir_alloc_page(t, la, TRUE)
    OBVIOUS
  <2>6. v \in Building(k, b, w, C)
    BY <1>2, <2>5, AllocBuilds
  <2>7. StackPage(t, la) = Asserted(v)
    BY <1>2, <2>5 DEF StackPage
  <2>8. Asserted(v) \in Building(k, b, w, C)
    <3>1. "pgdir_alloc_page != NULL" \in Errs
      BY DEF Errs
    <3> QED BY <2>6, <3>1, ErrBuilds DEF Asserted
  <2> QED BY <2>3, <2>4, <2>7, <2>8
<1> QED BY <1>1, <1>2

\* The loop over the pages of a segment.
IsSegLoads(t, seg, f) ==
  f = [k \in 0 .. (seg.end - seg.start) |->
         IF k = 0 THEN t ELSE LoadPage(f[k - 1], seg.start + k - 1, seg.write)]
SegLoads(t, seg) == CHOOSE f : IsSegLoads(t, seg, f)

LEMMA LoadSegmentBuilds ==
  ASSUME NEW b \in RefMaps, NEW w, w \subseteq Frames, NEW k \in Nat, NEW C, C \subseteq Addrs,
         NEW t \in Building(k, b, w, C), NEW seg \in Vmas, PagesOf(seg) \subseteq C
  PROVE  LoadSegment(t, seg) \in Building(k, b, w, C)
<1> DEFINE X == Building(k, b, w, C)
           n == seg.end - seg.start
           G == [i \in 1 .. n |-> [u \in X |-> LoadPage(u, seg.start + i - 1, seg.write)]]
<1>0. n \in Nat /\ t \in X /\ seg.write \in BOOLEAN /\ \A i \in 1 .. n : seg.start + i - 1 \in C
  <2>1. /\ seg.start \in Nat /\ seg.end \in Nat /\ seg.start < seg.end /\ seg.write \in BOOLEAN
    BY VmaFacts
  <2>2. ASSUME NEW i \in 1 .. n PROVE seg.start + i - 1 \in C
    <3>1. seg.start + i - 1 \in seg.start .. (seg.end - 1)
      BY <2>1
    <3> QED BY <3>1 DEF PagesOf
  <2> QED BY <2>1, <2>2
<1>1. ASSUME NEW i \in 1 .. n, NEW u \in X PROVE LoadPage(u, seg.start + i - 1, seg.write) \in X
  BY <1>0, LoadPageBuilds
<1> HIDE DEF X
<1>2. G \in [1 .. n -> [X -> X]]
  BY <1>1
<1>3. PICK g \in [0 .. n -> X] : IsLoop(g, n, t, G)
  <2> HIDE DEF G, n
  <2> QED BY <1>0, <1>2, LoopRuns
<1>4. IsSegLoads(t, seg, g)
  <2>1. ASSUME NEW i \in 0 .. n PROVE g[i] = IF i = 0 THEN t ELSE LoadPage(g[i - 1], seg.start + i - 1, seg.write)
    <3>1. g[i] = IF i = 0 THEN t ELSE G[i][g[i - 1]]
      BY <1>3 DEF IsLoop
    <3>2. CASE i # 0
      <4>1. i \in 1 .. n /\ i - 1 \in 0 .. n
        BY <1>0, <3>2
      <4>2. g[i - 1] \in X
        BY <4>1
      <4> QED BY <3>1, <3>2, <4>1, <4>2
    <3> QED BY <3>1, <3>2
  <2> QED BY <2>1 DEF IsSegLoads
<1>5. PICK f : f = SegLoads(t, seg)
  OBVIOUS
<1>6. IsSegLoads(t, seg, f)
  BY <1>4, <1>5, Zenon DEF SegLoads
<1>7. \A i \in 0 .. n : f[i] = IF i = 0 THEN t ELSE LoadPage(f[i - 1], seg.start + i - 1, seg.write)
  BY <1>6, Zenon DEF IsSegLoads
<1>8. f[0] = t
  BY <1>0, <1>7
<1>9. \A i \in 1 .. n : f[i - 1] \in X => f[i] \in X
  <2>1. \A i \in 1 .. n : f[i] = LoadPage(f[i - 1], seg.start + i - 1, seg.write)
    BY <1>0, <1>7
  <2> QED BY <1>1, <2>1
<1>10. \A i \in 0 .. n : f[i] \in X
  <2> HIDE DEF n
  <2> QED BY <1>0, <1>8, <1>9, LoopStays
<1>11. f[n] \in X
  BY <1>0, <1>10
<1>12. LoadSegment(t, seg) = f[n]
  BY <1>5 DEF LoadSegment, SegLoads, IsSegLoads
<1> QED BY <1>11, <1>12 DEF X

LEMMA BuildsLess ==
  ASSUME NEW k, NEW b, NEW w, NEW C, NEW D, D \subseteq C
  PROVE  Building(k, b, w, C) \subseteq Building(k, b, w, D)
BY DEF Building

\* The loop over the pages of the stack.
IsStackLoads(t, f) ==
  f = [k \in 0 .. StackPages |-> IF k = 0 THEN t ELSE StackPage(f[k - 1], Stack.end - k)]
StackLoads(t) == CHOOSE f : IsStackLoads(t, f)

\* C is covered unless something is wrong.
Mapping(k, b, w, C) == {u \in Building(k, b, w, {}) : Ok(u) => u \in Building(k, b, w, C)}

LEMMA LoadStackBuilds ==
  ASSUME NEW b \in RefMaps, NEW w, w \subseteq Frames, NEW k \in Nat, NEW C, C \subseteq Addrs,
         NEW t \in Mapping(k, b, w, C), PagesOf(Stack) \subseteq C
  PROVE  LoadStack(t) \in Building(k, b, w, {})
<1> DEFINE X == Mapping(k, b, w, C)
           n == StackPages
           G == [i \in 1 .. n |-> [u \in X |-> StackPage(u, Stack.end - i)]]
<1>0. n \in Nat /\ t \in X /\ \A i \in 1 .. n : Stack.end - i \in C
  <2>1. Stack \in Vmas /\ n \in 0 .. (Stack.end - Stack.start)
    BY SizeFacts
  <2>2. Stack.start \in Nat /\ Stack.end \in Nat /\ Stack.start < Stack.end
    BY <2>1, VmaFacts
  <2>3. ASSUME NEW i \in 1 .. n PROVE Stack.end - i \in C
    <3>1. Stack.end - i \in Stack.start .. (Stack.end - 1)
      BY <2>1, <2>2
    <3> QED BY <3>1 DEF PagesOf
  <2> QED BY <2>1, <2>2, <2>3
<1>1. ASSUME NEW i \in 1 .. n, NEW u \in X PROVE StackPage(u, Stack.end - i) \in X
  <2>1. CASE ~Ok(u)
    BY <2>1 DEF StackPage
  <2>2. CASE Ok(u)
    <3>1. u \in Building(k, b, w, C) /\ TRUE \in BOOLEAN /\ Stack.end - i \in C
      BY <1>0, <2>2 DEF Mapping
    <3>2. StackPage(u, Stack.end - i) \in Building(k, b, w, C)
      BY <3>1, LoadPageBuilds
    <3>3. Building(k, b, w, C) \subseteq Building(k, b, w, {})
      BY BuildsLess
    <3> QED BY <3>2, <3>3 DEF Mapping
  <2> QED BY <2>1, <2>2
<1> HIDE DEF X
<1>2. G \in [1 .. n -> [X -> X]]
  BY <1>1
<1>3. PICK g \in [0 .. n -> X] : IsLoop(g, n, t, G)
  <2> HIDE DEF G, n
  <2> QED BY <1>0, <1>2, LoopRuns
<1>4. IsStackLoads(t, g)
  <2>1. ASSUME NEW i \in 0 .. n PROVE g[i] = IF i = 0 THEN t ELSE StackPage(g[i - 1], Stack.end - i)
    <3>1. g[i] = IF i = 0 THEN t ELSE G[i][g[i - 1]]
      BY <1>3 DEF IsLoop
    <3>2. CASE i # 0
      <4>1. i \in 1 .. n /\ i - 1 \in 0 .. n
        BY <1>0, <3>2
      <4>2. g[i - 1] \in X
        BY <4>1
      <4> QED BY <3>1, <3>2, <4>1, <4>2
    <3> QED BY <3>1, <3>2
  <2> QED BY <2>1 DEF IsStackLoads
<1>5. PICK f : f = StackLoads(t)
  OBVIOUS
<1>6. IsStackLoads(t, f)
  BY <1>4, <1>5, Zenon DEF StackLoads
<1>7. \A i \in 0 .. n : f[i] = IF i = 0 THEN t ELSE StackPage(f[i - 1], Stack.end - i)
  BY <1>6, Zenon DEF IsStackLoads
<1>8. f[0] = t
  BY <1>0, <1>7
<1>9. \A i \in 1 .. n : f[i - 1] \in X => f[i] \in X
  <2>1. \A i \in 1 .. n : f[i] = StackPage(f[i - 1], Stack.end - i)
    BY <1>0, <1>7
  <2> QED BY <1>1, <2>1
<1>10. \A i \in 0 .. n : f[i] \in X
  <2> HIDE DEF n
  <2> QED BY <1>0, <1>8, <1>9, LoopStays
<1>11. f[n] \in X
  BY <1>0, <1>10
<1>12. LoadStack(t) = f[n]
  BY <1>5 DEF LoadStack, StackLoads, IsStackLoads
<1> QED BY <1>11, <1>12 DEF X, Mapping

LEMMA MmMapBuilds ==
  ASSUME NEW k \in Nat, NEW b, NEW w, NEW t \in Building(k, b, w, {}), NEW vma \in Vmas,
         NEW u, u = mm_map(t, vma)
  PROVE  /\ u \in Building(k, b, w, {})
         /\ Ok(u) => u \in Building(k, b, w, PagesOf(vma))
<1>1. CASE u = [t EXCEPT !.err = "INVAL"]
  <2>1. "INVAL" \in Errs /\ t \in Views
    BY DEF Errs, Building
  <2>2. u \in Building(k, b, w, {})
    BY <1>1, <2>1, ErrBuilds
  <2>3. ~Ok(u)
    BY <1>1, <2>1 DEF Ok, Views
  <2> QED BY <2>2, <2>3
<1>2. CASE u = insert_vma_struct(t, vma)
  <2>1. u \in Building(k, b, w, {}) /\ (Ok(u) => u \in Building(k, b, w, {} \cup PagesOf(vma)))
    BY <1>2, InsertVmaFits
  <2>2. {} \cup PagesOf(vma) = PagesOf(vma)
    OBVIOUS
  <2> QED BY <2>1, <2>2
<1> QED BY <1>1, <1>2 DEF mm_map

LEMMA MapSegmentBuilds ==
  ASSUME NEW b \in RefMaps, NEW w, w \subseteq Frames, NEW k \in Nat,
         NEW t \in Building(k, b, w, {}), NEW seg \in Vmas, NEW bad
  PROVE  MapSegment(t, seg, bad) \in Building(k, b, w, {})
<1>1. PICK u : u = mm_map(t, seg)
  OBVIOUS
<1>2. u \in Building(k, b, w, {}) /\ (Ok(u) => u \in Building(k, b, w, PagesOf(seg)))
  BY <1>1, MmMapBuilds
<1>3. WithSegment(u, seg) \in Building(k, b, w, {})
  <2>1. CASE Ok(u)
    <3>1. PagesOf(seg) \subseteq Addrs
      BY VmaFacts
    <3>2. LoadSegment(u, seg) \in Building(k, b, w, PagesOf(seg))
      BY <1>2, <2>1, <3>1, LoadSegmentBuilds
    <3>3. LoadSegment(u, seg) \in Building(k, b, w, {})
      BY <3>2, BuildsLess
    <3> QED BY <2>1, <3>3 DEF WithSegment
  <2> QED BY <1>2, <2>1 DEF WithSegment
<1>4. "INVAL" \in Errs
  BY DEF Errs
<1>5. FailedIf(WithSegment(u, seg), bad) \in Building(k, b, w, {})
  BY <1>3, <1>4, ErrBuilds DEF FailedIf
<1> QED BY <1>1, <1>5 DEF MapSegment

\* The loop over the segments of a program.
IsSegs(d, prog, readFail, f) ==
  f = [k \in 0 .. Len(prog) |->
         IF k = 0 THEN FailedIf(d, readFail = 0) ELSE MapSegment(f[k - 1], prog[k], readFail = k)]
Segs(d, prog, readFail) == CHOOSE f : IsSegs(d, prog, readFail, f)

LEMMA SegsBuild ==
  ASSUME NEW b \in RefMaps, NEW w, w \subseteq Frames, NEW k \in Nat,
         NEW t \in Building(k, b, w, {}), NEW prog \in Seq(Vmas), NEW readFail
  PROVE  Segs(t, prog, readFail)[Len(prog)] \in Building(k, b, w, {})
<1> DEFINE X == Building(k, b, w, {})
           n == Len(prog)
           x == FailedIf(t, readFail = 0)
           G == [i \in 1 .. n |-> [u \in X |-> MapSegment(u, prog[i], readFail = i)]]
<1>0. n \in Nat /\ x \in X /\ \A i \in 1 .. n : prog[i] \in Vmas
  <2>1. "INVAL" \in Errs
    BY DEF Errs
  <2>2. x \in X
    BY <2>1, ErrBuilds DEF FailedIf
  <2> QED BY <2>2
<1>1. ASSUME NEW i \in 1 .. n, NEW u \in X PROVE MapSegment(u, prog[i], readFail = i) \in X
  BY <1>0, MapSegmentBuilds
<1> HIDE DEF X, x
<1>2. G \in [1 .. n -> [X -> X]]
  BY <1>1
<1>3. PICK g \in [0 .. n -> X] : IsLoop(g, n, x, G)
  <2> HIDE DEF G, n
  <2> QED BY <1>0, <1>2, LoopRuns
<1>4. IsSegs(t, prog, readFail, g)
  <2>1. ASSUME NEW i \in 0 .. n PROVE g[i] = IF i = 0 THEN x ELSE MapSegment(g[i - 1], prog[i], readFail = i)
    <3>1. g[i] = IF i = 0 THEN x ELSE G[i][g[i - 1]]
      BY <1>3 DEF IsLoop
    <3>2. CASE i # 0
      <4>1. i \in 1 .. n /\ i - 1 \in 0 .. n
        BY <1>0, <3>2
      <4>2. g[i - 1] \in X
        BY <4>1
      <4> QED BY <3>1, <3>2, <4>1, <4>2
    <3> QED BY <3>1, <3>2
  <2> QED BY <2>1 DEF IsSegs, x
<1>5. PICK f : f = Segs(t, prog, readFail)
  OBVIOUS
<1>6. IsSegs(t, prog, readFail, f)
  BY <1>4, <1>5, Zenon DEF Segs
<1>7. \A i \in 0 .. n : f[i] = IF i = 0 THEN x ELSE MapSegment(f[i - 1], prog[i], readFail = i)
  BY <1>6, Zenon DEF IsSegs, x
<1>8. f[0] = x
  BY <1>0, <1>7
<1>9. \A i \in 1 .. n : f[i - 1] \in X => f[i] \in X
  <2>1. \A i \in 1 .. n : f[i] = MapSegment(f[i - 1], prog[i], readFail = i)
    BY <1>0, <1>7
  <2> QED BY <1>1, <2>1
<1>10. \A i \in 0 .. n : f[i] \in X
  <2> HIDE DEF n
  <2> QED BY <1>0, <1>8, <1>9, LoopStays
<1>11. f[n] \in X
  BY <1>0, <1>10
<1> QED BY <1>5, <1>11 DEF X

\* An mm that maps nothing.
LEMMA EmptyBuilds ==
  ASSUME NEW k \in Nat, NEW b, NEW w, NEW t, Fit(t, k, b, w), Empty(t.mm.pte)
  PROVE  t \in Building(k, b, w, {})
BY DEF Building, Fit, Empty, Within

\* load_icode builds an mm, or gives everything back, unless the machine stops.
LEMMA LoadIcodeFits ==
  ASSUME NEW b \in RefMaps, NEW w, w \subseteq Frames, NEW k \in Nat, NEW t, Fit(t, k, b, w), Ok(t),
         Empty(t.mm.pte), NEW prog \in Seq(Vmas), NEW readFail, NEW u, u = load_icode(t, prog, readFail)
  PROVE  /\ Ok(u) => Fit(u, k + 1, b, w) /\ Within(u.mm)
         /\ ~Ok(u) /\ ~Fails(u) => Fit(u, k, b, w) /\ Empty(u.mm.pte)
<1>1. PICK d : d = setup_pgdir(t)
  OBVIOUS
<1>2. /\ Same(t, d)
      /\ Ok(d) => Fit(d, k + 1, b, w)
      /\ ~Ok(d) => Fit(d, k, b, w) /\ d.err = "NO_MEM"
  BY <1>1, InHand DEF setup_pgdir
<1>3. CASE ~Ok(d)
  <2>1. u = d
    BY <1>1, <1>3 DEF load_icode
  <2> QED BY <1>2, <1>3, <2>1 DEF Same
<1>4. CASE Ok(d)
  <2>0. k + 1 \in Nat
    OBVIOUS
  <2>1. d \in Building(k + 1, b, w, {})
    BY <1>2, <1>4, <2>0, EmptyBuilds DEF Same
  <2>2. PICK s : s = Segs(d, prog, readFail)[Len(prog)]
    OBVIOUS
  <2>3. s \in Building(k + 1, b, w, {})
    BY <2>0, <2>1, <2>2, SegsBuild
  <2>4. PICK m : m = mm_map(s, Stack)
    OBVIOUS
  <2>5. m \in Building(k + 1, b, w, {}) /\ (Ok(m) => m \in Building(k + 1, b, w, PagesOf(Stack)))
    BY <2>0, <2>3, <2>4, SizeFacts, MmMapBuilds
  <2>6. LoadStack(m) \in Building(k + 1, b, w, {})
    <3>1. m \in Mapping(k + 1, b, w, PagesOf(Stack))
      BY <2>5 DEF Mapping
    <3>2. PagesOf(Stack) \subseteq Addrs
      BY SizeFacts, VmaFacts
    <3> QED BY <2>0, <3>1, <3>2, LoadStackBuilds
  <2>7. WithStack(s) \in Building(k + 1, b, w, {})
    BY <2>3, <2>4, <2>6 DEF WithStack
  <2>8. PICK x : x = FailedIf(WithStack(s), readFail = Len(prog) + 1)
    OBVIOUS
  <2>9. x \in Building(k + 1, b, w, {})
    <3>1. "INVAL" \in Errs
      BY DEF Errs
    <3> QED BY <2>0, <2>7, <2>8, <3>1, ErrBuilds DEF FailedIf
  <2>10. u = bad_cleanup_mmap(x)
    BY <1>1, <1>4, <2>2, <2>8 DEF load_icode, Segs, IsSegs
  <2>11. Fit(x, k + 1, b, w) /\ Within(x.mm)
    BY <2>9 DEF Building
  <2>12. CASE Ok(x) \/ Fails(x)
    <3>1. u = x
      BY <2>10, <2>12 DEF bad_cleanup_mmap
    <3> QED BY <2>11, <2>12, <3>1
  <2>13. CASE ~(Ok(x) \/ Fails(x))
    <3>1. u = put_pgdir(exit_mmap(x))
      BY <2>10, <2>13 DEF bad_cleanup_mmap
    <3>2. Fit(u, k, b, w) /\ u.err = x.err /\ Empty(u.mm.pte)
      BY <2>11, <3>1, FreedFits
    <3> QED BY <2>13, <3>2 DEF Ok
  <2> QED BY <2>12, <2>13
<1> QED BY <1>3, <1>4

-----------------------------------------------------------------------------
(* Copies for a fork *)

\* A new mm has at most the pages of the one it is copied from.
Mirror(q, p) == \A la \in Addrs : q[la] # None => p[la] # None /\ q[la].frame = p[la].frame

\* The mm that is copied is one of the others: nobody else may write its pages.
Source(fr, b, w) ==
  /\ fr \in MmStructs /\ Apart(fr.pte)
  /\ \A la \in Addrs : fr.pte[la] # None =>
       b[fr.pte[la].frame] >= 1 /\ (fr.pte[la].frame \in w => b[fr.pte[la].frame] >= 2)

Forking(k, b, w, fr, C) ==
  {u \in Building(k, b, w, C) :
     SamePages(fr, u.from) /\ (COW => Mirror(u.mm.pte, fr.pte)) /\ u.err # "INVAL"}

LEMMA ForkingFacts ==
  ASSUME NEW k, NEW b, NEW w, NEW fr, NEW C, NEW t \in Forking(k, b, w, fr, C)
  PROVE  /\ t \in Building(k, b, w, C) /\ t \in Views /\ Fit(t, k, b, w) /\ Within(t.mm)
         /\ SamePages(fr, t.from) /\ (COW => Mirror(t.mm.pte, fr.pte)) /\ t.err # "INVAL"
BY DEF Forking, Building

\* The tables of la, or another error.
LEMMA EnteredForks ==
  ASSUME NEW k \in Nat, NEW b, NEW w, NEW fr, NEW C, C \subseteq Addrs,
         NEW t \in Forking(k, b, w, fr, C), NEW la \in C, NEW u, Fit(u, k, b, w),
         Alike(t.mm, u.mm), u.mm.pte = t.mm.pte, SamePages(fr, u.from), u.err # "INVAL"
  PROVE  u \in Forking(k, b, w, fr, C)
<1>1. t \in Building(k, b, w, C) /\ (COW => Mirror(t.mm.pte, fr.pte))
  BY ForkingFacts
<1>2. \A lb \in Addrs : lb # la => u.mm.pte[lb] = t.mm.pte[lb]
  OBVIOUS
<1>3. u \in Building(k, b, w, C)
  BY <1>1, <1>2, TouchBuilds
<1> QED BY <1>1, <1>3 DEF Forking

\* copy_range of lab 8: a page of its own.
LEMMA CopyDupForks ==
  ASSUME NEW b \in RefMaps, NEW w, w \subseteq Frames, NEW k \in Nat, NEW fr, Source(fr, b, w),
         NEW C, C \subseteq Addrs, NEW t \in Forking(k, b, w, fr, C), NEW la \in C,
         Ok(t), t.from.pte[la] # None, ~COW, NEW u, u = copy_page_dup(t, la)
  PROVE  u \in Forking(k, b, w, fr, C)
<1>0. la \in Addrs /\ t \in Views /\ Fit(t, k, b, w) /\ SamePages(fr, t.from)
  BY ForkingFacts
<1>1. PICK g : g = get_pte(t, la)
  OBVIOUS
<1>2. Fit(g, k, b, w) /\ Entered(t, g) /\ g.err \in {"ok", "NO_MEM"}
  BY <1>0, <1>1, GetPteFacts
<1>3. CASE ~Ok(g)
  <2>1. u = g
    BY <1>1, <1>3 DEF copy_page_dup
  <2>2. Alike(t.mm, u.mm) /\ u.mm.pte = t.mm.pte /\ SamePages(fr, u.from) /\ u.err # "INVAL"
    BY <1>0, <1>2, <2>1 DEF Entered
  <2> QED BY <1>2, <2>1, <2>2, EnteredForks
<1>4. CASE Ok(g)
  <2>1. PICK a : a = alloc_page(g)
    OBVIOUS
  <2>2. /\ Same(g, a)
        /\ Ok(a) => Fit(a, k + 1, b, w)
        /\ ~Ok(a) => Fit(a, k, b, w) /\ a.err = "NO_MEM"
    BY <1>2, <1>4, <2>1, InHand
  <2>3. CASE ~Ok(a)
    <3>1. u = [a EXCEPT !.err = "npage != NULL"]
      BY <1>1, <1>4, <2>1, <2>3 DEF copy_page_dup
    <3>2. a \in Views
      BY <2>2, <2>3 DEF Fit
    <3>3. /\ u \in Views /\ u.free = a.free /\ u.ref = a.ref /\ u.mm = a.mm /\ u.from = a.from
          /\ u.err # "INVAL"
      BY <3>1, <3>2 DEF Views, Errs
    <3>4. Fit(u, k, b, w)
      BY <2>2, <2>3, <3>3 DEF Fit
    <3>5. Alike(t.mm, u.mm) /\ u.mm.pte = t.mm.pte /\ SamePages(fr, u.from)
      BY <1>0, <1>2, <2>2, <3>3 DEF Entered, Same
    <3> QED BY <3>3, <3>4, <3>5, EnteredForks
  <2>4. CASE Ok(a)
    <3>1. PICK f, v, d, perm : /\ f = NewFrame(a) /\ v = t.data[t.from.pte[la].frame]
                               /\ d = [a.data EXCEPT ![f] = v]
                               /\ perm = [write |-> t.from.pte[la].write, cow |-> FALSE]
      OBVIOUS
    <3>2. PICK c : c = [a EXCEPT !.data = d]
      OBVIOUS
    <3>3. k + 1 \in Nat /\ Fit(a, k + 1, b, w) /\ a \in Views
      BY <2>2, <2>4 DEF Fit
    <3>4. f \in Frames /\ a.ref[f] = 0
      BY <3>1, <3>3, NewFrameFacts
    <3>5. t.from.pte \in PteMaps
      BY <1>0, ViewFacts, MmFacts
    <3>6. t.from.pte[la].write \in BOOLEAN /\ t.from.pte[la].frame \in Frames
      BY <1>0, <3>5, PteFacts
    <3>7. d \in DataMaps
      <4>1. a.data \in DataMaps /\ t.data \in DataMaps
        BY <1>0, <3>3, ViewFacts
      <4>2. v \in Values \cup {Junk, FromFile}
        BY <3>1, <3>6, <4>1 DEF DataMaps
      <4> QED BY <3>1, <4>1, <4>2, DataFacts
    <3>8. /\ c \in Views /\ c.free = a.free /\ c.ref = a.ref /\ c.mm = a.mm /\ c.from = a.from
          /\ c.err = a.err
      BY <3>2, <3>3, <3>7 DEF Views
    <3>9. Fit(c, k + 1, b, w) /\ Ok(c) /\ c.ref[f] = 0
      BY <2>4, <3>3, <3>4, <3>8 DEF Fit, Ok
    <3>10. perm.write \in BOOLEAN /\ perm.cow \in BOOLEAN
      BY <3>1, <3>6
    <3>11. u = page_insert(c, f, la, perm)
      BY <1>1, <1>4, <2>1, <2>4, <3>1, <3>2 DEF copy_page_dup
    <3>12. /\ Touched(c, u, la)
           /\ Ok(u) => Fit(u, k, b, w)
           /\ ~Ok(u) => Fit(u, k + 1, b, w) /\ u.err = "NO_MEM"
      <4>1. InsertLeaves(c, page_insert(c, f, la, perm), la, k, b, w)
        BY <1>0, <3>4, <3>9, <3>10, InsertFresh
      <4> QED BY <3>11, <4>1 DEF InsertLeaves
    <3>13. Fit(u, k, b, w)
      <4>1. CASE ~Ok(u)
        <5>1. Fit(u, k + 1, b, w) /\ u \in Views /\ u.free \in Nat
          BY <3>3, <3>12, <4>1, FitFacts
        <5>2. u.free + k <= u.free + (k + 1)
          BY <5>1
        <5> QED BY <3>3, <5>1, <5>2, SameFits
      <4> QED BY <3>12, <4>1
    <3>14. /\ Alike(t.mm, u.mm) /\ SamePages(fr, u.from)
           /\ \A lb \in Addrs : lb # la => u.mm.pte[lb] = t.mm.pte[lb]
      <4>1. u.from = t.from /\ Alike(c.mm, u.mm) /\ \A lb \in Addrs : lb # la => u.mm.pte[lb] = c.mm.pte[lb]
        BY <1>2, <2>2, <3>8, <3>12 DEF Entered, Same, Touched
      <4>2. Alike(t.mm, c.mm) /\ c.mm.pte = t.mm.pte
        BY <1>2, <2>2, <3>8 DEF Entered, Same
      <4> QED BY <1>0, <4>1, <4>2 DEF Alike
    <3>15. u \in Building(k, b, w, C)
      BY <3>13, <3>14, ForkingFacts, TouchBuilds
    <3>16. u.err # "INVAL"
      BY <3>12 DEF Ok
    <3> QED BY <3>14, <3>15, <3>16 DEF Forking
  <2> QED BY <2>3, <2>4
<1> QED BY <1>3, <1>4

\* A page of the source is mapped at la, where nothing or the same page was.
LEMMA MappedShared ==
  ASSUME NEW b \in RefMaps, NEW w, w \subseteq Frames, NEW k \in Nat, NEW fr, Source(fr, b, w),
         NEW t, Fit(t, k, b, w), Ok(t), SamePages(fr, t.from), Mirror(t.mm.pte, fr.pte),
         NEW la \in Addrs, fr.pte[la] # None, NEW f, f = fr.pte[la].frame, ~t.from.pte[la].write,
         NEW P \in Ptes, P.frame = f, ~P.write
  PROVE  LET v == Mapped(t, f, la, P)
         IN  Fit(v, k, b, w) /\ Put(t, v, la, P)
<1>1. PICK F, r, q, K, p : /\ F = t.free /\ r = t.ref /\ q = t.mm.pte /\ K = k + TablesOf(t.mm)
                           /\ p = t.from.pte
  OBVIOUS
<1>2. PICK v : v = Mapped(t, f, la, P)
  OBVIOUS
<1>3. /\ t \in Views /\ F \in Nat /\ t.mm \in MmStructs /\ q \in PteMaps /\ r \in RefMaps
      /\ Private(r, p) /\ FitMap(F, K, r, q, b, w) /\ K \in Nat
  BY <1>1, FitFacts DEF Fit
<1>4. /\ fr \in MmStructs /\ Apart(fr.pte) /\ b[f] >= 1 /\ (f \in w => b[f] >= 2) /\ f \in Frames
  <2>1. fr.pte \in PteMaps
    BY MmFacts DEF Source
  <2>2. f \in Frames
    BY <2>1, PteFacts
  <2> QED BY <2>2 DEF Source
<1>5. p \in PteMaps /\ \A lb \in Addrs : (p[lb] = None <=> fr.pte[lb] = None) /\ (fr.pte[lb] # None => p[lb].frame = fr.pte[lb].frame)
  BY <1>1, <1>3, ViewFacts, MmFacts DEF SamePages
<1>6. PICK q2 : q2 = [q EXCEPT ![la] = P]
  OBVIOUS
<1>7. PICK n : n = [t.mm EXCEPT !.pte = q2]
  OBVIOUS
<1>8. /\ n \in MmStructs /\ TablesOf(n) = TablesOf(t.mm) /\ n.pte = q2
  <2>1. IsPut(t.mm, n, la, P)
    BY <1>1, <1>6, <1>7 DEF IsPut
  <2> QED BY <1>1, <1>3, <1>6, <2>1, PutFacts
<1>9. ASSUME NEW r2 \in RefMaps, FitMap(F, K, r2, q2, b, w), Private(r2, p),
             v = [t EXCEPT !.ref = r2, !.mm = n]
      PROVE  Fit(v, k, b, w) /\ Put(t, v, la, P)
  <2>1. /\ v \in Views /\ v.free = F /\ v.ref = r2 /\ v.mm = n /\ v.from = t.from /\ v.err = t.err
    BY <1>1, <1>3, <1>8, <1>9 DEF Views
  <2>2. Fit(v, k, b, w)
    BY <1>1, <1>8, <1>9, <2>1 DEF Fit
  <2> QED BY <1>1, <1>6, <1>7, <2>1, <2>2 DEF Put, IsPut
<1>10. P = [frame |-> f, write |-> P.write, cow |-> P.cow]
  BY DEF Ptes
<1>11. CASE q[la] = None
  <2>1. PICK r2 : r2 = [r EXCEPT ![f] = @ + 1]
    OBVIOUS
  <2>2. ~Maps(q, f)
    <3>1. ASSUME NEW lb \in Addrs, q[lb] # None, q[lb].frame = f PROVE FALSE
      <4>1. fr.pte[lb] # None /\ fr.pte[lb].frame = f
        BY <1>1, <3>1 DEF Mirror
      <4>2. lb = la
        BY <1>4, <4>1 DEF Apart
      <4> QED BY <1>11, <3>1, <4>2
    <3> QED BY <3>1 DEF Maps
  <2>3. FitMap(F, K, r2, q2, b, w)
    <3>1. IsMapShared(b, w, r, q, f, la, P, r2, q2)
      BY <1>4, <1>6, <1>11, <2>1, <2>2 DEF IsMapShared
    <3> QED BY <1>3, <3>1, MapShared
  <2>4. r2 \in RefMaps /\ \A g \in Frames : g # f => r2[g] = r[g]
    BY <1>3, <1>4, <2>1 DEF RefMaps
  <2>5. Private(r2, p)
    <3> SUFFICES ASSUME NEW lb \in Addrs, p[lb] # None, p[lb].write PROVE r2[p[lb].frame] <= 1
      BY DEF Private
    <3>1. lb # la
      BY <1>1
    <3>2. p[lb].frame # f
      <4>1. fr.pte[lb] # None /\ p[lb].frame = fr.pte[lb].frame
        BY <1>5
      <4> QED BY <1>4, <3>1, <4>1 DEF Apart
    <3>3. p[lb].frame \in Frames /\ r[p[lb].frame] <= 1
      BY <1>3, <1>5, PteFacts DEF Private
    <3> QED BY <2>4, <3>2, <3>3
  <2>6. v = [t EXCEPT !.ref = r2, !.mm = n]
    BY <1>1, <1>2, <1>6, <1>7, <1>10, <1>11, <2>1 DEF Mapped
  <2>7. Fit(v, k, b, w) /\ Put(t, v, la, P)
    BY <1>9, <2>3, <2>4, <2>5, <2>6
  <2> QED BY <1>2, <2>7
<1>12. CASE q[la] # None
  <2>1. q[la].frame = f
    BY <1>1, <1>12 DEF Mirror
  <2>2. FitMap(F, K, r, q2, b, w)
    BY <1>3, <1>6, <1>12, <2>1, MapSame
  <2>3. v = [t EXCEPT !.mm = n]
    BY <1>1, <1>2, <1>6, <1>7, <1>10, <1>12, <2>1 DEF Mapped
  <2>4. v = [t EXCEPT !.ref = r, !.mm = n]
    BY <1>1, <1>3, <2>3 DEF Views
  <2>5. Fit(v, k, b, w) /\ Put(t, v, la, P)
    BY <1>3, <1>9, <2>2, <2>4
  <2> QED BY <1>2, <2>5
<1> QED BY <1>11, <1>12

\* copy_range of lab 5: the page is shared, and read-only from now on.
LEMMA CopyCowForks ==
  ASSUME NEW b \in RefMaps, NEW w, w \subseteq Frames, NEW k \in Nat, NEW fr, Source(fr, b, w),
         NEW C, C \subseteq Addrs, NEW t \in Forking(k, b, w, fr, C), NEW la \in C,
         Ok(t), t.from.pte[la] # None, COW, NEW u, u = copy_page_cow(t, la)
  PROVE  u \in Forking(k, b, w, fr, C)
<1>0. la \in Addrs /\ t \in Views /\ Fit(t, k, b, w) /\ SamePages(fr, t.from) /\ Mirror(t.mm.pte, fr.pte)
  BY ForkingFacts
<1>1. PICK g : g = get_pte(t, la)
  OBVIOUS
<1>2. Fit(g, k, b, w) /\ Entered(t, g) /\ g.err \in {"ok", "NO_MEM"}
  BY <1>0, <1>1, GetPteFacts
<1>3. CASE ~Ok(g)
  <2>1. u = g
    BY <1>1, <1>3 DEF copy_page_cow
  <2>2. Alike(t.mm, u.mm) /\ u.mm.pte = t.mm.pte /\ SamePages(fr, u.from) /\ u.err # "INVAL"
    BY <1>0, <1>2, <2>1 DEF Entered
  <2> QED BY <1>2, <2>1, <2>2, EnteredForks
<1>4. CASE Ok(g)
  <2>1. PICK old, f, P, p, n, h :
          /\ old = t.from.pte[la] /\ f = old.frame
          /\ P = IF old.write THEN [old EXCEPT !.write = FALSE, !.cow = TRUE] ELSE old
          /\ p = [t.from.pte EXCEPT ![la] = P] /\ n = [t.from EXCEPT !.pte = p]
          /\ h = [g EXCEPT !.from = n]
    OBVIOUS
  <2>2. t.from \in MmStructs /\ t.from.pte \in PteMaps /\ g \in Views /\ g.from = t.from
    BY <1>0, <1>2, ViewFacts, MmFacts DEF Fit, Entered
  <2>3. old \in Ptes /\ f \in Frames /\ old # None
    BY <2>1, <2>2, <1>0, PteFacts
  <2>4. P \in Ptes /\ P.frame = f /\ ~P.write /\ P # None
    <3>1. P \in Ptes /\ P.frame = f /\ ~P.write
      BY <2>1, <2>3 DEF Ptes
    <3> QED BY <3>1, SizeFacts
  <2>5. p \in PteMaps /\ p[la] = P /\ \A lb \in Addrs : lb # la => p[lb] = t.from.pte[lb]
    BY <1>0, <2>1, <2>2, <2>4 DEF PteMaps
  <2>6. /\ n \in MmStructs /\ n.pte = p /\ n.count = t.from.count /\ n.vmas = t.from.vmas
        /\ n.dir = t.from.dir /\ n.tab = t.from.tab
    BY <2>1, <2>2, <2>5 DEF MmStructs, PteMaps
  <2>7. /\ h \in Views /\ h.free = g.free /\ h.ref = g.ref /\ h.mm = g.mm /\ h.from = n /\ h.err = g.err
    BY <2>1, <2>2, <2>6 DEF Views
  <2>8. SamePages(fr, n)
    <3>1. \A lb \in Addrs : /\ p[lb] = None <=> t.from.pte[lb] = None
                            /\ t.from.pte[lb] # None => p[lb].frame = t.from.pte[lb].frame
      BY <2>1, <2>3, <2>4, <2>5
    <3> QED BY <1>0, <2>6, <3>1 DEF SamePages, Alike
  <2>9. Private(h.ref, n.pte)
    <3>1. Private(g.ref, t.from.pte)
      BY <1>2, <2>2 DEF Fit
    <3>2. \A lb \in Addrs : n.pte[lb] # None /\ n.pte[lb].write => t.from.pte[lb] # None /\ n.pte[lb] = t.from.pte[lb]
      BY <2>4, <2>5, <2>6
    <3>3. \A lb \in Addrs : n.pte[lb] # None /\ n.pte[lb].write => g.ref[n.pte[lb].frame] <= 1
      BY <3>1, <3>2 DEF Private
    <3> QED BY <2>7, <3>3 DEF Private
  <2>10. Fit(h, k, b, w) /\ Ok(h)
    BY <1>2, <1>4, <2>7, <2>9 DEF Fit, Ok
  <2>11. PICK v : v = get_pte(h, la)
    OBVIOUS
  <2>12. Fit(v, k, b, w) /\ Entered(h, v) /\ v.err \in {"ok", "NO_MEM"}
    BY <1>0, <2>10, <2>11, GetPteFacts
  <2>13. h = [g EXCEPT !.from.pte[la] = P]
    BY <2>1, <2>2
  <2>14. u = page_insert(h, f, la, P)
    BY <1>1, <1>4, <2>1, <2>13 DEF copy_page_cow
  <2>15. u = Mapped(v, f, la, P)
    BY <2>11, <2>14 DEF page_insert
  <2>16. v.mm.pte = t.mm.pte /\ Alike(t.mm, v.mm) /\ v.from = n
    BY <1>2, <2>7, <2>12 DEF Entered, Alike
  <2>17. CASE ~Ok(v)
    <3>1. u = v
      BY <2>15, <2>17 DEF Mapped
    <3>2. u.err # "INVAL"
      BY <2>12, <3>1
    <3> QED BY <2>8, <2>12, <2>16, <3>1, <3>2, EnteredForks
  <2>18. CASE Ok(v)
    <3>1. fr.pte[la] # None /\ fr.pte[la].frame = f
      BY <1>0, <2>1 DEF SamePages
    <3>2. Fit(u, k, b, w) /\ Put(v, u, la, P)
      <4>1. SamePages(fr, v.from) /\ Mirror(v.mm.pte, fr.pte) /\ ~v.from.pte[la].write
        BY <1>0, <2>4, <2>5, <2>6, <2>8, <2>16
      <4>2. Fit(Mapped(v, f, la, P), k, b, w) /\ Put(v, Mapped(v, f, la, P), la, P)
        BY <1>0, <2>4, <2>12, <2>18, <3>1, <4>1, MappedShared
      <4> QED BY <2>15, <4>2
    <3>3. v.mm \in MmStructs
      BY <2>12, FitFacts
    <3>4. Alike(v.mm, u.mm) /\ u.mm.pte = [v.mm.pte EXCEPT ![la] = P] /\ u.from = v.from /\ u.err = v.err
      <4>1. IsPut(v.mm, u.mm, la, P) /\ u.from = v.from /\ u.err = v.err
        BY <3>2 DEF Put
      <4>2. Alike(v.mm, u.mm)
        BY <1>0, <2>4, <3>3, <4>1, PutFacts
      <4>3. u.mm.pte = [v.mm.pte EXCEPT ![la] = P]
        BY <1>0, <2>4, <3>3, <4>1, PutFacts
      <4> QED BY <4>1, <4>2, <4>3
    <3>5. t.mm.pte \in PteMaps
      BY <1>0, FitFacts
    <3>6. Alike(t.mm, u.mm) /\ u.mm.pte[la] = P /\ \A lb \in Addrs : lb # la => u.mm.pte[lb] = t.mm.pte[lb]
      BY <1>0, <2>16, <3>4, <3>5 DEF Alike, PteMaps
    <3>7. u \in Building(k, b, w, C)
      BY <3>2, <3>6, ForkingFacts, TouchBuilds
    <3>8. Mirror(u.mm.pte, fr.pte)
      BY <1>0, <2>4, <3>1, <3>6 DEF Mirror
    <3>9. SamePages(fr, u.from) /\ u.err # "INVAL"
      BY <2>8, <2>12, <2>16, <3>4
    <3> QED BY <3>7, <3>8, <3>9 DEF Forking
  <2> QED BY <2>17, <2>18
<1> QED BY <1>3, <1>4

LEMMA CopyPageForks ==
  ASSUME NEW b \in RefMaps, NEW w, w \subseteq Frames, NEW k \in Nat, NEW fr, Source(fr, b, w),
         NEW C, C \subseteq Addrs, NEW t \in Forking(k, b, w, fr, C), NEW la \in C
  PROVE  copy_page(t, la) \in Forking(k, b, w, fr, C)
BY SizeFacts, CopyDupForks, CopyCowForks DEF copy_page

LEMMA ForkingLess ==
  ASSUME NEW k, NEW b, NEW w, NEW fr, NEW C, NEW D, D \subseteq C
  PROVE  Forking(k, b, w, fr, C) \subseteq Forking(k, b, w, fr, D)
BY BuildsLess DEF Forking

\* C is covered unless something is wrong.
ForkMapping(k, b, w, fr, C) ==
  {u \in Forking(k, b, w, fr, {}) : Ok(u) => u \in Forking(k, b, w, fr, C)}

\* The loop over the pages of a VMA.
IsCopies(t, vma, f) ==
  f = [k \in 0 .. (vma.end - vma.start) |->
         IF k = 0 THEN t ELSE copy_page(f[k - 1], vma.start + k - 1)]
Copies(t, vma) == CHOOSE f : IsCopies(t, vma, f)

LEMMA CopyRangeForks ==
  ASSUME NEW b \in RefMaps, NEW w, w \subseteq Frames, NEW k \in Nat, NEW fr, Source(fr, b, w),
         NEW C, C \subseteq Addrs, NEW vma \in Vmas, PagesOf(vma) \subseteq C,
         NEW t \in ForkMapping(k, b, w, fr, C)
  PROVE  copy_range(t, vma) \in Forking(k, b, w, fr, {})
<1> DEFINE X == ForkMapping(k, b, w, fr, C)
           n == vma.end - vma.start
           G == [i \in 1 .. n |-> [u \in X |-> copy_page(u, vma.start + i - 1)]]
<1>0. n \in Nat /\ t \in X /\ \A i \in 1 .. n : vma.start + i - 1 \in C
  <2>1. /\ vma.start \in Nat /\ vma.end \in Nat /\ vma.start < vma.end
    BY VmaFacts
  <2>2. ASSUME NEW i \in 1 .. n PROVE vma.start + i - 1 \in C
    <3>1. vma.start + i - 1 \in vma.start .. (vma.end - 1)
      BY <2>1
    <3> QED BY <3>1 DEF PagesOf
  <2> QED BY <2>1, <2>2
<1>1. ASSUME NEW i \in 1 .. n, NEW u \in X PROVE copy_page(u, vma.start + i - 1) \in X
  <2>1. CASE ~Ok(u)
    BY <2>1 DEF copy_page
  <2>2. CASE Ok(u)
    <3>1. copy_page(u, vma.start + i - 1) \in Forking(k, b, w, fr, C)
      BY <1>0, <2>2, CopyPageForks DEF ForkMapping
    <3> QED BY <3>1, ForkingLess DEF ForkMapping
  <2> QED BY <2>1, <2>2
<1> HIDE DEF X
<1>2. G \in [1 .. n -> [X -> X]]
  BY <1>1
<1>3. PICK g \in [0 .. n -> X] : IsLoop(g, n, t, G)
  <2> HIDE DEF G, n
  <2> QED BY <1>0, <1>2, LoopRuns
<1>4. IsCopies(t, vma, g)
  <2>1. ASSUME NEW i \in 0 .. n PROVE g[i] = IF i = 0 THEN t ELSE copy_page(g[i - 1], vma.start + i - 1)
    <3>1. g[i] = IF i = 0 THEN t ELSE G[i][g[i - 1]]
      BY <1>3 DEF IsLoop
    <3>2. CASE i # 0
      <4>1. i \in 1 .. n /\ i - 1 \in 0 .. n
        BY <1>0, <3>2
      <4>2. g[i - 1] \in X
        BY <4>1
      <4> QED BY <3>1, <3>2, <4>1, <4>2
    <3> QED BY <3>1, <3>2
  <2> QED BY <2>1 DEF IsCopies
<1>5. PICK f : f = Copies(t, vma)
  OBVIOUS
<1>6. IsCopies(t, vma, f)
  BY <1>4, <1>5, Zenon DEF Copies
<1>7. \A i \in 0 .. n : f[i] = IF i = 0 THEN t ELSE copy_page(f[i - 1], vma.start + i - 1)
  BY <1>6, Zenon DEF IsCopies
<1>8. f[0] = t
  BY <1>0, <1>7
<1>9. \A i \in 1 .. n : f[i - 1] \in X => f[i] \in X
  <2>1. \A i \in 1 .. n : f[i] = copy_page(f[i - 1], vma.start + i - 1)
    BY <1>0, <1>7
  <2> QED BY <1>1, <2>1
<1>10. \A i \in 0 .. n : f[i] \in X
  <2> HIDE DEF n
  <2> QED BY <1>0, <1>8, <1>9, LoopStays
<1>11. f[n] \in X
  BY <1>0, <1>10
<1>12. copy_range(t, vma) = f[n]
  BY <1>5 DEF copy_range, Copies, IsCopies
<1> QED BY <1>11, <1>12 DEF X, ForkMapping

\* A VMA and its pages.
LEMMA DupVmaForks ==
  ASSUME NEW b \in RefMaps, NEW w, w \subseteq Frames, NEW k \in Nat, NEW fr, Source(fr, b, w),
         NEW t \in Forking(k, b, w, fr, {}), NEW v \in 1 .. Len(fr.vmas), NEW vmaFail
  PROVE  DupVma(t, v, vmaFail) \in Forking(k, b, w, fr, {})
<1>0. /\ t \in Building(k, b, w, {}) /\ SamePages(fr, t.from) /\ (COW => Mirror(t.mm.pte, fr.pte))
      /\ t.err # "INVAL" /\ t \in Views
  BY ForkingFacts
<1>1. CASE ~Ok(t)
  BY <1>1 DEF DupVma
<1>2. CASE Ok(t) /\ v = vmaFail
  <2>1. PICK u : u = [t EXCEPT !.err = "NO_MEM"]
    OBVIOUS
  <2>2. u \in Building(k, b, w, {})
    <3>1. "NO_MEM" \in Errs
      BY DEF Errs
    <3> QED BY <1>0, <2>1, <3>1, ErrBuilds
  <2>3. u.mm = t.mm /\ u.from = t.from /\ u.err = "NO_MEM"
    BY <1>0, <2>1, ViewFacts
  <2>4. u \in Forking(k, b, w, fr, {})
    BY <1>0, <2>2, <2>3 DEF Forking
  <2> QED BY <1>2, <2>1, <2>4 DEF DupVma
<1>3. CASE Ok(t) /\ v # vmaFail
  <2>1. PICK vma, u : vma = t.from.vmas[v] /\ u = insert_vma_struct(t, vma)
    OBVIOUS
  <2>2. vma \in Vmas
    <3>1. t.from.vmas = fr.vmas
      BY <1>0 DEF SamePages, Alike
    <3>2. fr.vmas \in Seq(Vmas)
      BY MmFacts DEF Source
    <3>3. fr.vmas[v] \in Vmas
      BY <3>2
    <3> QED BY <2>1, <3>1, <3>3
  <2>3. /\ u \in Building(k, b, w, {}) /\ u.from = t.from /\ u.mm.pte = t.mm.pte
        /\ u.err \in {t.err, "prev->vm_end <= next->vm_start"}
        /\ Ok(u) => u \in Building(k, b, w, {} \cup PagesOf(vma))
    <3>1. u = insert_vma_struct(t, vma)
      BY <2>1
    <3>2. u \in Building(k, b, w, {})
      BY <1>0, <2>2, <3>1, InsertVmaFits, Zenon
    <3>5. SameEntries(t, u)
      BY <1>0, <2>2, <3>1, InsertVmaFits, Zenon
    <3>3. u.err \in {t.err, "prev->vm_end <= next->vm_start"}
      BY <1>0, <2>2, <3>1, InsertVmaFits, Zenon
    <3>4. Ok(u) => u \in Building(k, b, w, {} \cup PagesOf(vma))
      BY <1>0, <2>2, <3>1, InsertVmaFits, Zenon
    <3> QED BY <3>2, <3>3, <3>4, <3>5 DEF SameEntries
  <2>4. u.err # "INVAL"
    BY <1>0, <2>3
  <2>5. {} \cup PagesOf(vma) = PagesOf(vma)
    OBVIOUS
  <2>6. u \in ForkMapping(k, b, w, fr, PagesOf(vma))
    BY <1>0, <2>3, <2>4, <2>5 DEF ForkMapping, Forking
  <2>7. PagesOf(vma) \subseteq Addrs
    BY <2>2, VmaFacts
  <2>8. copy_range(u, vma) \in Forking(k, b, w, fr, {})
    BY <2>2, <2>6, <2>7, CopyRangeForks
  <2> QED BY <1>3, <2>1, <2>8 DEF DupVma
<1> QED BY <1>1, <1>2, <1>3

\* The loop over the VMAs.
IsDups(t, vmaFail, f) ==
  f = [k \in 0 .. Len(t.from.vmas) |->
         IF k = 0 THEN t ELSE DupVma(f[k - 1], Len(t.from.vmas) + 1 - k, vmaFail)]
Dups(t, vmaFail) == CHOOSE f : IsDups(t, vmaFail, f)

LEMMA DupMmapForks ==
  ASSUME NEW b \in RefMaps, NEW w, w \subseteq Frames, NEW k \in Nat, NEW fr, Source(fr, b, w),
         NEW t \in Forking(k, b, w, fr, {}), NEW vmaFail
  PROVE  dup_mmap(t, vmaFail) \in Forking(k, b, w, fr, {})
<1> DEFINE X == Forking(k, b, w, fr, {})
           n == Len(t.from.vmas)
           G == [i \in 1 .. n |-> [u \in X |-> DupVma(u, n + 1 - i, vmaFail)]]
<1>0. n \in Nat /\ t \in X /\ \A i \in 1 .. n : n + 1 - i \in 1 .. Len(fr.vmas)
  <2>1. t.from.vmas = fr.vmas
    BY ForkingFacts DEF SamePages, Alike
  <2>2. fr.vmas \in Seq(Vmas)
    BY MmFacts DEF Source
  <2> QED BY <2>1, <2>2
<1>1. ASSUME NEW i \in 1 .. n, NEW u \in X PROVE DupVma(u, n + 1 - i, vmaFail) \in X
  BY <1>0, DupVmaForks
<1> HIDE DEF X
<1>2. G \in [1 .. n -> [X -> X]]
  BY <1>1
<1>3. PICK g \in [0 .. n -> X] : IsLoop(g, n, t, G)
  <2> HIDE DEF G, n
  <2> QED BY <1>0, <1>2, LoopRuns
<1>4. IsDups(t, vmaFail, g)
  <2>1. ASSUME NEW i \in 0 .. n PROVE g[i] = IF i = 0 THEN t ELSE DupVma(g[i - 1], n + 1 - i, vmaFail)
    <3>1. g[i] = IF i = 0 THEN t ELSE G[i][g[i - 1]]
      BY <1>3 DEF IsLoop
    <3>2. CASE i # 0
      <4>1. i \in 1 .. n /\ i - 1 \in 0 .. n
        BY <1>0, <3>2
      <4>2. g[i - 1] \in X
        BY <4>1
      <4> QED BY <3>1, <3>2, <4>1, <4>2
    <3> QED BY <3>1, <3>2
  <2> QED BY <2>1 DEF IsDups
<1>5. PICK f : f = Dups(t, vmaFail)
  OBVIOUS
<1>6. IsDups(t, vmaFail, f)
  BY <1>4, <1>5, Zenon DEF Dups
<1>7. \A i \in 0 .. n : f[i] = IF i = 0 THEN t ELSE DupVma(f[i - 1], n + 1 - i, vmaFail)
  BY <1>6, Zenon DEF IsDups
<1>8. f[0] = t
  BY <1>0, <1>7
<1>9. \A i \in 1 .. n : f[i - 1] \in X => f[i] \in X
  <2>1. \A i \in 1 .. n : f[i] = DupVma(f[i - 1], n + 1 - i, vmaFail)
    BY <1>0, <1>7
  <2> QED BY <1>1, <2>1
<1>10. \A i \in 0 .. n : f[i] \in X
  <2> HIDE DEF n
  <2> QED BY <1>0, <1>8, <1>9, LoopStays
<1>11. f[n] \in X
  BY <1>0, <1>10
<1>12. dup_mmap(t, vmaFail) = f[n]
  BY <1>5 DEF dup_mmap, Dups, IsDups
<1> QED BY <1>11, <1>12 DEF X

\* copy_mm builds a copy, or gives everything back, unless the machine stops.
LEMMA CopyMmFits ==
  ASSUME NEW b \in RefMaps, NEW w, w \subseteq Frames, NEW k \in Nat, NEW t, Fit(t, k, b, w), Ok(t),
         Empty(t.mm.pte), Source(t.from, b, w), NEW vmaFail, NEW u, u = copy_mm(t, vmaFail)
  PROVE  /\ SamePages(t.from, u.from) /\ u \in Views
         /\ Ok(u) => Fit(u, k + 1, b, w) /\ Within(u.mm)
         /\ ~Ok(u) /\ ~Fails(u) => Fit(u, k, b, w) /\ Empty(u.mm.pte)
<1>1. PICK d, fr : d = setup_pgdir(t) /\ fr = t.from
  OBVIOUS
<1>2. /\ Same(t, d)
      /\ Ok(d) => Fit(d, k + 1, b, w)
      /\ ~Ok(d) => Fit(d, k, b, w) /\ d.err = "NO_MEM"
  BY <1>1, InHand DEF setup_pgdir
<1>3. SamePages(fr, fr)
  BY DEF SamePages, Alike
<1>4. CASE ~Ok(d)
  <2>1. u = d
    BY <1>1, <1>4 DEF copy_mm
  <2>2. u \in Views
    BY <1>2, <1>4, <2>1 DEF Fit
  <2> QED BY <1>1, <1>2, <1>3, <1>4, <2>1, <2>2 DEF Same
<1>5. CASE Ok(d)
  <2>0. k + 1 \in Nat
    OBVIOUS
  <2>1. d \in Building(k + 1, b, w, {})
    BY <1>2, <1>5, <2>0, EmptyBuilds DEF Same
  <2>2. d.from = fr /\ d.mm = t.mm
    BY <1>1, <1>2 DEF Same
  <2>3. d \in Forking(k + 1, b, w, fr, {})
    BY <1>3, <1>5, <2>1, <2>2 DEF Forking, Mirror, Empty, Ok
  <2>4. PICK x : x = dup_mmap(d, vmaFail)
    OBVIOUS
  <2>5. x \in Forking(k + 1, b, w, fr, {})
    BY <1>1, <2>0, <2>3, <2>4, DupMmapForks
  <2>6. Fit(x, k + 1, b, w) /\ Within(x.mm) /\ SamePages(fr, x.from) /\ x.err # "INVAL" /\ x \in Views
    BY <2>5, ForkingFacts
  <2>7. u = bad_dup_cleanup_mmap(x)
    BY <1>1, <1>5, <2>4 DEF copy_mm
  <2>8. CASE x.err = "NO_MEM"
    <3>1. u = put_pgdir(exit_mmap(x))
      BY <2>7, <2>8 DEF bad_dup_cleanup_mmap
    <3>2. Fit(u, k, b, w) /\ u.err = x.err /\ u.from = x.from /\ Empty(u.mm.pte)
      BY <2>6, <3>1, FreedFits
    <3>3. u \in Views
      BY <3>2 DEF Fit
    <3> QED BY <1>1, <2>6, <2>8, <3>2, <3>3 DEF Ok
  <2>9. CASE x.err # "NO_MEM"
    <3>1. u = x
      BY <2>7, <2>9 DEF bad_dup_cleanup_mmap
    <3> QED BY <1>1, <2>6, <2>9, <3>1 DEF Ok, Fails
  <2> QED BY <2>8, <2>9
<1> QED BY <1>4, <1>5

-----------------------------------------------------------------------------
(* Page faults *)

\* An entry changes, for the same page.
LEMMA MappedAgain ==
  ASSUME NEW k \in Nat, NEW b \in RefMaps, NEW w, NEW t, Fit(t, k, b, w), Ok(t), NEW la \in Addrs,
         t.mm.pte[la] # None, NEW f, f = t.mm.pte[la].frame, t.ref[f] <= 1,
         NEW perm, perm.write \in BOOLEAN, perm.cow \in BOOLEAN
  PROVE  Fit(Mapped(t, f, la, perm), k, b, w) /\ Touched(t, Mapped(t, f, la, perm), la)
<1>1. PICK P, q, n, u : /\ P = [frame |-> f, write |-> perm.write, cow |-> perm.cow]
                        /\ q = [t.mm.pte EXCEPT ![la] = P] /\ n = [t.mm EXCEPT !.pte = q]
                        /\ u = Mapped(t, f, la, perm)
  OBVIOUS
<1>2. /\ t \in Views /\ t.mm \in MmStructs /\ t.mm.pte \in PteMaps /\ t.ref \in RefMaps
      /\ FitMap(t.free, k + TablesOf(t.mm), t.ref, t.mm.pte, b, w) /\ Private(t.ref, t.from.pte)
  BY FitFacts DEF Fit
<1>3. P \in Ptes /\ P.frame = f
  BY <1>1, <1>2, PteFacts DEF Ptes
<1>4. u = [t EXCEPT !.mm = n]
  <2>1. u = [t EXCEPT !.mm.pte[la] = P]
    BY <1>1 DEF Mapped
  <2> QED BY <1>1, <1>2, <2>1
<1>5. IsPut(t.mm, n, la, P)
  BY <1>1 DEF IsPut
<1>6. n \in MmStructs /\ Alike(t.mm, n) /\ TablesOf(n) = TablesOf(t.mm) /\ n.pte = q
  BY <1>1, <1>2, <1>3, <1>5, PutFacts
<1>7. \A lb \in Addrs : lb # la => n.pte[lb] = t.mm.pte[lb]
  BY <1>1, <1>2, <1>6 DEF PteMaps
<1>8. FitMap(t.free, k + TablesOf(t.mm), t.ref, q, b, w)
  BY <1>1, <1>2, <1>3, MapSame
<1>9. u \in Views /\ u.free = t.free /\ u.ref = t.ref /\ u.mm = n /\ u.from = t.from
  BY <1>2, <1>4, <1>6 DEF Views
<1>10. Fit(u, k, b, w)
  BY <1>2, <1>6, <1>8, <1>9 DEF Fit
<1>11. Touched(t, u, la)
  BY <1>6, <1>7, <1>9 DEF Touched
<1> QED BY <1>1, <1>10, <1>11

\* lab 5: a page of its own for la, or the one it has.
LEMMA CowFaultFits ==
  ASSUME NEW b \in RefMaps, NEW w, w \subseteq Frames, NEW k \in Nat, NEW t, Fit(t, k, b, w), Ok(t),
         NEW la \in Addrs, t.mm.pte[la] # None, NEW u, u = cow_fault(t, la)
  PROVE  Fit(u, k, b, w) /\ Touched(t, u, la)
<1>1. PICK f, perm, a, n, d, c :
        /\ f = t.mm.pte[la].frame /\ perm = [write |-> TRUE, cow |-> FALSE] /\ a = alloc_page(t)
        /\ n = NewFrame(a) /\ d = [a.data EXCEPT ![n] = t.data[f]] /\ c = [a EXCEPT !.data = d]
  OBVIOUS
<1>2. t \in Views /\ t.mm.pte \in PteMaps /\ t.ref \in RefMaps
  BY FitFacts
<1>3. f \in Frames
  BY <1>1, <1>2, PteFacts
<1>4. CASE t.ref[f] > 1 /\ ~Ok(a)
  <2>1. u = a
    BY <1>1, <1>4 DEF cow_fault
  <2>2. Fit(a, k, b, w) /\ Same(t, a)
    BY <1>1, <1>4, InHand
  <2> QED BY <2>1, <2>2 DEF Same, Touched, Alike
<1>5. CASE t.ref[f] > 1 /\ Ok(a)
  <2>0. k + 1 \in Nat
    OBVIOUS
  <2>1. Fit(a, k + 1, b, w) /\ Same(t, a)
    BY <1>1, <1>5, InHand
  <2>2. a \in Views /\ n \in Frames /\ a.ref[n] = 0
    BY <1>1, <2>0, <2>1, FitFacts, NewFrameFacts
  <2>3. d \in DataMaps
    <3>1. t.data[f] \in Values \cup {Junk, FromFile} /\ a.data \in DataMaps
      BY <1>2, <1>3, <2>2, ViewFacts DEF DataMaps
    <3> QED BY <1>1, <3>1, DataFacts
  <2>4. /\ c \in Views /\ c.free = a.free /\ c.ref = a.ref /\ c.mm = a.mm /\ c.from = a.from
        /\ c.err = a.err
    BY <1>1, <2>2, <2>3 DEF Views
  <2>5. Fit(c, k + 1, b, w) /\ Ok(c)
    BY <1>5, <2>1, <2>4 DEF Fit, Ok
  <2>6. u = page_insert(c, n, la, perm)
    BY <1>1, <1>5, <2>2 DEF cow_fault
  <2>7. InsertLeaves(c, u, la, k, b, w)
    <3>1. perm.write \in BOOLEAN /\ perm.cow \in BOOLEAN /\ c.ref[n] = 0
      BY <1>1, <2>2, <2>4
    <3>2. InsertLeaves(c, page_insert(c, n, la, perm), la, k, b, w)
      BY <2>2, <2>5, <3>1, InsertFresh
    <3> QED BY <2>6, <3>2
  <2>8. Touched(t, u, la)
    BY <2>1, <2>4, <2>7 DEF InsertLeaves, Touched, Same
  <2>9. CASE ~Ok(u)
    <3>1. Fit(u, k + 1, b, w)
      BY <2>7, <2>9 DEF InsertLeaves
    <3>2. u \in Views /\ u.free \in Nat /\ u.free + k <= u.free + (k + 1)
      BY <2>0, <3>1, FitFacts
    <3>3. Fit(u, k, b, w)
      BY <2>0, <3>1, <3>2, SameFits
    <3> QED BY <2>8, <3>3
  <2> QED BY <2>7, <2>8, <2>9 DEF InsertLeaves
<1>6. CASE ~(t.ref[f] > 1)
  <2>1. PICK h : h = get_pte(t, la)
    OBVIOUS
  <2>2. Fit(h, k, b, w) /\ Entered(t, h)
    BY <2>1, GetPteFacts
  <2>3. u = Mapped(h, f, la, perm)
    BY <1>1, <1>6, <2>1 DEF cow_fault, page_insert
  <2>4. CASE ~Ok(h)
    <3>1. u = h
      BY <2>3, <2>4 DEF Mapped
    <3> QED BY <2>2, <3>1 DEF Entered, Touched
  <2>5. CASE Ok(h)
    <3>1. h.mm.pte[la] # None /\ f = h.mm.pte[la].frame /\ h.ref[f] <= 1
      BY <1>1, <1>2, <1>3, <1>6, <2>2 DEF Entered, RefMaps
    <3>2. perm.write \in BOOLEAN /\ perm.cow \in BOOLEAN
      BY <1>1
    <3>3. Fit(Mapped(h, f, la, perm), k, b, w) /\ Touched(h, Mapped(h, f, la, perm), la)
      BY <2>2, <2>5, <3>1, <3>2, MappedAgain
    <3> QED BY <2>2, <2>3, <3>3 DEF Entered, Touched, Alike
  <2> QED BY <2>4, <2>5
<1> QED BY <1>4, <1>5, <1>6

\* A page fault leaves the mm in order, whether it is served or not.
LEMMA FaultedFits ==
  ASSUME NEW b \in RefMaps, NEW w, w \subseteq Frames, NEW k \in Nat, NEW t, Fit(t, k, b, w), Ok(t),
         Within(t.mm), NEW la \in Addrs, NEW write \in BOOLEAN, NEW u, u = Faulted(t, la, write)
  PROVE  Fit(u, k, b, w) /\ Within(u.mm) /\ Alike(t.mm, u.mm)
<1>1. PICK vma, may, g, wr :
        /\ vma = find_vma(t.mm, la) /\ may = \E v \in vma : write => t.mm.vmas[v].write
        /\ g = get_pte(t, la) /\ wr = \E v \in vma : t.mm.vmas[v].write
  OBVIOUS
<1>2. u = IF ~may THEN [t EXCEPT !.err = "INVAL"]
          ELSE IF ~Ok(g) THEN g
          ELSE IF g.mm.pte[la] = None THEN pgdir_alloc_page(g, la, wr)
          ELSE IF COW /\ write /\ g.mm.pte[la].cow THEN cow_fault(g, la)
          ELSE [g EXCEPT !.err = "INVAL"]
  BY <1>1 DEF Faulted
<1>3. t \in Building(k, b, w, {})
  BY FitFacts DEF Building
<1>4. Fit(g, k, b, w) /\ Entered(t, g)
  BY <1>1, GetPteFacts
<1>5. "INVAL" \in Errs
  BY DEF Errs
<1>6. CASE ~may
  <2>1. u = [t EXCEPT !.err = "INVAL"]
    BY <1>2, <1>6
  <2>2. u \in Building(k, b, w, {})
    BY <1>3, <1>5, <2>1, ErrBuilds
  <2>3. u.mm = t.mm
    BY <1>3, <2>1, ViewFacts DEF Building
  <2> QED BY <2>2, <2>3 DEF Building, Alike
<1>7. CASE may
  <2>1. la \in Covered(t.mm)
    BY <1>1, <1>7 DEF find_vma, Covered
  <2>2. t \in Building(k, b, w, {la})
    BY <1>3, <2>1 DEF Building
  <2>3. Alike(t.mm, g.mm) /\ \A lb \in Addrs : lb # la => g.mm.pte[lb] = t.mm.pte[lb]
    BY <1>4 DEF Entered
  <2>4. g \in Building(k, b, w, {la})
    BY <1>4, <2>2, <2>3, TouchBuilds
  <2>5. SUFFICES u \in Building(k, b, w, {la}) /\ Alike(g.mm, u.mm)
    BY <2>3 DEF Building, Alike
  <2>6. CASE ~Ok(g)
    BY <1>2, <1>7, <2>4, <2>6 DEF Alike
  <2>7. CASE Ok(g) /\ g.mm.pte[la] = None
    <3>1. u = pgdir_alloc_page(g, la, wr) /\ wr \in BOOLEAN
      BY <1>1, <1>2, <1>7, <2>7
    <3>2. Touched(g, u, la)
      BY <1>4, <2>7, <3>1, PgdirAllocFits
    <3>3. {la} \subseteq Addrs /\ la \in {la}
      OBVIOUS
    <3>4. u \in Building(k, b, w, {la})
      BY <2>4, <2>7, <3>1, <3>3, AllocBuilds
    <3> QED BY <3>2, <3>4 DEF Touched
  <2>8. CASE Ok(g) /\ g.mm.pte[la] # None /\ COW /\ write /\ g.mm.pte[la].cow
    <3>1. u = cow_fault(g, la)
      BY <1>2, <1>7, <2>8
    <3>2. Fit(u, k, b, w) /\ Touched(g, u, la)
      BY <1>4, <2>8, <3>1, CowFaultFits
    <3>3. la \in {la} /\ Alike(g.mm, u.mm) /\ \A lb \in Addrs : lb # la => u.mm.pte[lb] = g.mm.pte[lb]
      BY <3>2 DEF Touched
    <3>4. u \in Building(k, b, w, {la})
      BY <2>4, <3>2, <3>3, TouchBuilds
    <3> QED BY <3>3, <3>4
  <2>9. CASE Ok(g) /\ g.mm.pte[la] # None /\ ~(COW /\ write /\ g.mm.pte[la].cow)
    <3>1. u = [g EXCEPT !.err = "INVAL"]
      BY <1>2, <1>7, <2>9
    <3>2. u \in Building(k, b, w, {la})
      BY <1>5, <2>4, <3>1, ErrBuilds
    <3>3. u.mm = g.mm
      BY <2>4, <3>1, ViewFacts DEF Building
    <3> QED BY <3>2, <3>3 DEF Alike
  <2> QED BY <2>6, <2>7, <2>8, <2>9
<1>8. may \in BOOLEAN
  BY <1>1
<1> QED BY <1>6, <1>7

-----------------------------------------------------------------------------
(* All the mm_structs *)

MmMaps == [Mms -> MmStructs \cup {None}]
LiveIn(ms) == {x \in Mms : ms[x] # None}
Owners(ms, f) == {x \in LiveIn(ms) : Maps(ms[x].pte, f)}
Owned(ms) == [f \in Frames |-> Cardinality(Owners(ms, f))]
Writes(q) == {f \in Frames : \E la \in Addrs : q[la] # None /\ q[la].write /\ q[la].frame = f}
Writers(ms) == UNION {Writes(ms[x].pte) : x \in LiveIn(ms)}
DirsIn(ms) == {xi \in LiveIn(ms) \X Dirs : ms[xi[1]].dir[xi[2]]}
TabsIn(ms) == {xj \in LiveIn(ms) \X Tabs : ms[xj[1]].tab[xj[2]]}

\* The pages of roots, directories and tables.
Base(ms) == Cardinality(LiveIn(ms)) + Cardinality(DirsIn(ms)) + Cardinality(TabsIn(ms))

Tidy(ms) == ms \in MmMaps /\ \A x \in LiveIn(ms) : Apart(ms[x].pte) /\ Within(ms[x])

\* F pages are free, s are kernel stacks, and a page is mapped r[f] times.
Good(F, s, r, ms) ==
  /\ Tidy(ms) /\ F \in Nat /\ s \in Nat /\ r \in RefMaps
  /\ \A x \in LiveIn(ms) : Private(r, ms[x].pte)
  /\ \A f \in Frames : r[f] = Owned(ms)[f]
  /\ F + s + Base(ms) + Cardinality(Used(r)) <= NPage

LEMMA WorldFinite ==
  ASSUME NEW ms
  PROVE  /\ IsFiniteSet(LiveIn(ms)) /\ IsFiniteSet(DirsIn(ms)) /\ IsFiniteSet(TabsIn(ms))
         /\ Cardinality(LiveIn(ms)) \in Nat /\ Cardinality(DirsIn(ms)) \in Nat
         /\ Cardinality(TabsIn(ms)) \in Nat /\ Base(ms) \in Nat
         /\ Owned(ms) \in RefMaps /\ Writers(ms) \subseteq Frames
         /\ \A f : IsFiniteSet(Owners(ms, f)) /\ Cardinality(Owners(ms, f)) \in Nat
<1>1. IsFiniteSet(LiveIn(ms))
  <2>1. LiveIn(ms) \subseteq Mms
    BY DEF LiveIn
  <2> QED BY <2>1, SizeFacts, FS_Subset
<1>2. IsFiniteSet(DirsIn(ms)) /\ IsFiniteSet(TabsIn(ms))
  <2>1. IsFiniteSet(LiveIn(ms) \X Dirs) /\ IsFiniteSet(LiveIn(ms) \X Tabs)
    BY <1>1, TablesFinite, FS_Product
  <2>2. DirsIn(ms) \subseteq LiveIn(ms) \X Dirs /\ TabsIn(ms) \subseteq LiveIn(ms) \X Tabs
    BY DEF DirsIn, TabsIn
  <2> QED BY <2>1, <2>2, FS_Subset
<1>3. /\ Cardinality(LiveIn(ms)) \in Nat /\ Cardinality(DirsIn(ms)) \in Nat
      /\ Cardinality(TabsIn(ms)) \in Nat
  BY <1>1, <1>2, FS_CardinalityType
<1>4. ASSUME NEW f PROVE IsFiniteSet(Owners(ms, f)) /\ Cardinality(Owners(ms, f)) \in Nat
  <2>1. Owners(ms, f) \subseteq LiveIn(ms)
    BY DEF Owners
  <2> QED BY <1>1, <2>1, FS_Subset, FS_CardinalityType
<1>5. Owned(ms) \in RefMaps
  BY <1>4 DEF Owned, RefMaps
<1>6. Writers(ms) \subseteq Frames
  BY DEF Writers, Writes
<1>7. Base(ms) \in Nat
  BY <1>3 DEF Base
<1> QED BY <1>1, <1>2, <1>3, <1>4, <1>5, <1>6, <1>7

\* An mm m at x, where none was: ms0 became ms.
IsPlus(ms0, x, m, ms) ==
  x \in Mms /\ ms0[x] = None /\ m \in MmStructs /\ ms = [ms0 EXCEPT ![x] = m]

LEMMA PlusFacts ==
  ASSUME NEW ms0 \in MmMaps, NEW x, NEW m, NEW ms, IsPlus(ms0, x, m, ms)
  PROVE  /\ x \in Mms /\ m \in MmStructs /\ ms \in MmMaps /\ ms[x] = m /\ m # None /\ ms0[x] = None
         /\ x \notin LiveIn(ms0) /\ LiveIn(ms) = LiveIn(ms0) \cup {x}
         /\ \A y \in LiveIn(ms0) : ms[y] = ms0[y]
<1>1. x \in Mms /\ m \in MmStructs /\ ms0[x] = None /\ ms = [ms0 EXCEPT ![x] = m] /\ m # None
  BY SizeFacts DEF IsPlus
<1>2. ms \in MmMaps /\ ms[x] = m /\ \A y \in Mms : y # x => ms[y] = ms0[y]
  BY <1>1 DEF MmMaps
<1> QED BY <1>1, <1>2 DEF LiveIn

LEMMA PlusOwners ==
  ASSUME NEW ms0 \in MmMaps, NEW x, NEW m, NEW ms, IsPlus(ms0, x, m, ms), NEW f \in Frames
  PROVE  Owned(ms)[f] = Owned(ms0)[f] + One(m.pte, f)
<1>1. /\ x \in Mms /\ ms[x] = m /\ x \notin LiveIn(ms0) /\ LiveIn(ms) = LiveIn(ms0) \cup {x}
      /\ \A y \in LiveIn(ms0) : ms[y] = ms0[y]
  BY PlusFacts
<1>2. /\ IsFiniteSet(Owners(ms0, f)) /\ Cardinality(Owners(ms0, f)) \in Nat
      /\ Owned(ms)[f] = Cardinality(Owners(ms, f)) /\ Owned(ms0)[f] = Cardinality(Owners(ms0, f))
  BY WorldFinite DEF Owned
<1>3. x \notin Owners(ms0, f)
  BY <1>1 DEF Owners
<1>4. CASE Maps(m.pte, f)
  <2>1. Owners(ms, f) = Owners(ms0, f) \cup {x}
    BY <1>1, <1>4 DEF Owners
  <2> QED BY <1>2, <1>3, <1>4, <2>1, FS_AddElement DEF One
<1>5. CASE ~Maps(m.pte, f)
  <2>1. Owners(ms, f) = Owners(ms0, f)
    BY <1>1, <1>5 DEF Owners
  <2> QED BY <1>2, <1>5, <2>1 DEF One
<1> QED BY <1>4, <1>5

LEMMA PlusBase ==
  ASSUME NEW ms0 \in MmMaps, NEW x, NEW m, NEW ms, IsPlus(ms0, x, m, ms)
  PROVE  Base(ms) = Base(ms0) + 1 + TablesOf(m)
<1>1. /\ x \in Mms /\ ms[x] = m /\ x \notin LiveIn(ms0) /\ LiveIn(ms) = LiveIn(ms0) \cup {x}
      /\ \A y \in LiveIn(ms0) : ms[y] = ms0[y]
  BY PlusFacts
<1>2. Cardinality(LiveIn(ms)) = Cardinality(LiveIn(ms0)) + 1
  BY <1>1, WorldFinite, FS_AddElement
<1>3. Cardinality(DirsIn(ms)) = Cardinality(DirsIn(ms0)) + Cardinality(DirsOf(m))
  <2> DEFINE N == {x} \X DirsOf(m)
  <2>1. IsFiniteSet(N) /\ Cardinality(N) = Cardinality(DirsOf(m))
    <3>1. IsFiniteSet({x}) /\ Cardinality({x}) = 1
      BY FS_Singleton
    <3>2. IsFiniteSet(DirsOf(m)) /\ Cardinality(DirsOf(m)) \in Nat
      BY TablesFinite
    <3>3. IsFiniteSet(N) /\ Cardinality(N) = Cardinality({x}) * Cardinality(DirsOf(m))
      BY <3>1, <3>2, FS_Product
    <3> QED BY <3>1, <3>2, <3>3
  <2>2. DirsIn(ms) = DirsIn(ms0) \cup N
    BY <1>1 DEF DirsIn, DirsOf
  <2>3. DirsIn(ms0) \cap N = {}
    BY <1>1 DEF DirsIn
  <2>4. IsFiniteSet(DirsIn(ms0)) /\ Cardinality(DirsIn(ms0)) \in Nat /\ Cardinality({}) = 0
    BY WorldFinite, FS_EmptySet
  <2>5. Cardinality(DirsOf(m)) \in Nat
    BY TablesFinite
  <2> HIDE DEF N
  <2>6. Cardinality(DirsIn(ms)) = Cardinality(DirsIn(ms0)) + Cardinality(N) - Cardinality({})
    BY <2>1, <2>2, <2>3, <2>4, FS_Union
  <2> QED BY <2>1, <2>4, <2>5, <2>6
<1>4. Cardinality(TabsIn(ms)) = Cardinality(TabsIn(ms0)) + Cardinality(TabsOf(m))
  <2> DEFINE N == {x} \X TabsOf(m)
  <2>1. IsFiniteSet(N) /\ Cardinality(N) = Cardinality(TabsOf(m))
    <3>1. IsFiniteSet({x}) /\ Cardinality({x}) = 1
      BY FS_Singleton
    <3>2. IsFiniteSet(TabsOf(m)) /\ Cardinality(TabsOf(m)) \in Nat
      BY TablesFinite
    <3>3. IsFiniteSet(N) /\ Cardinality(N) = Cardinality({x}) * Cardinality(TabsOf(m))
      BY <3>1, <3>2, FS_Product
    <3> QED BY <3>1, <3>2, <3>3
  <2>2. TabsIn(ms) = TabsIn(ms0) \cup N
    BY <1>1 DEF TabsIn, TabsOf
  <2>3. TabsIn(ms0) \cap N = {}
    BY <1>1 DEF TabsIn
  <2>4. IsFiniteSet(TabsIn(ms0)) /\ Cardinality(TabsIn(ms0)) \in Nat /\ Cardinality({}) = 0
    BY WorldFinite, FS_EmptySet
  <2>5. Cardinality(TabsOf(m)) \in Nat
    BY TablesFinite
  <2> HIDE DEF N
  <2>6. Cardinality(TabsIn(ms)) = Cardinality(TabsIn(ms0)) + Cardinality(N) - Cardinality({})
    BY <2>1, <2>2, <2>3, <2>4, FS_Union
  <2> QED BY <2>1, <2>4, <2>5, <2>6
<1>5. /\ Cardinality(LiveIn(ms0)) \in Nat /\ Cardinality(DirsIn(ms0)) \in Nat
      /\ Cardinality(TabsIn(ms0)) \in Nat
      /\ Cardinality(DirsOf(m)) \in Nat /\ Cardinality(TabsOf(m)) \in Nat
  BY WorldFinite, TablesFinite
<1> QED BY <1>2, <1>3, <1>4, <1>5 DEF Base, TablesOf

LEMMA PlusGood ==
  ASSUME NEW ms0, Tidy(ms0), NEW x, NEW m, NEW ms, IsPlus(ms0, x, m, ms), NEW F, NEW s \in Nat, NEW r,
         NEW K, K = s + Base(ms0) + 1 + TablesOf(m),
         FitMap(F, K, r, m.pte, Owned(ms0), Writers(ms0)), Within(m)
  PROVE  Good(F, s, r, ms)
<1>1. /\ x \in Mms /\ m \in MmStructs /\ ms \in MmMaps /\ ms[x] = m
      /\ LiveIn(ms) = LiveIn(ms0) \cup {x} /\ \A y \in LiveIn(ms0) : ms[y] = ms0[y]
  BY PlusFacts DEF Tidy
<1>2. /\ F \in Nat /\ r \in RefMaps /\ Apart(m.pte) /\ Private(r, m.pte)
      /\ \A f \in Frames : r[f] = Owned(ms0)[f] + One(m.pte, f)
      /\ \A f \in Writers(ms0) : r[f] <= 1
      /\ F + K + Cardinality(Used(r)) <= NPage
  BY DEF FitMap
<1>3. Tidy(ms)
  BY <1>1, <1>2 DEF Tidy
<1>4. ASSUME NEW y \in LiveIn(ms) PROVE Private(r, ms[y].pte)
  <2>1. CASE y = x
    BY <1>1, <1>2, <2>1
  <2>2. CASE y # x
    <3>1. y \in LiveIn(ms0) /\ ms[y] = ms0[y]
      BY <1>1, <1>4, <2>2
    <3>2. ms0[y] \in MmStructs
      BY <3>1 DEF Tidy, MmMaps, LiveIn
    <3>3. ASSUME NEW la \in Addrs, ms0[y].pte[la] # None, ms0[y].pte[la].write
          PROVE r[ms0[y].pte[la].frame] <= 1
      <4>1. ms0[y].pte[la].frame \in Frames
        BY <3>2, <3>3, MmFacts, PteFacts
      <4>2. ms0[y].pte[la].frame \in Writes(ms0[y].pte)
        BY <3>3, <4>1 DEF Writes
      <4>3. ms0[y].pte[la].frame \in Writers(ms0)
        BY <3>1, <4>2 DEF Writers
      <4> QED BY <1>2, <4>3
    <3> QED BY <3>1, <3>3 DEF Private
  <2> QED BY <2>1, <2>2
<1>5. \A f \in Frames : r[f] = Owned(ms)[f]
  BY <1>2, PlusOwners DEF Tidy
<1>6. F + s + Base(ms) + Cardinality(Used(r)) <= NPage
  <2>1. PICK B0, B, T, c : /\ B0 = Base(ms0) /\ B = Base(ms) /\ T = TablesOf(m)
                           /\ c = Cardinality(Used(r))
    OBVIOUS
  <2>2. B0 \in Nat /\ B \in Nat /\ T \in Nat /\ c \in Nat /\ B = B0 + 1 + T
    BY <2>1, WorldFinite, TablesFinite, UsedFacts, PlusBase DEF Tidy
  <2>3. K = s + B0 + 1 + T /\ F + K + c <= NPage
    BY <1>2, <2>1
  <2>4. F + s + B + c <= NPage
    BY <1>2, <2>2, <2>3, SizeFacts
  <2> QED BY <2>1, <2>4
<1> QED BY <1>2, <1>3, <1>4, <1>5, <1>6 DEF Good

LEMMA Minus ==
  ASSUME NEW ms \in MmMaps, NEW x \in LiveIn(ms)
  PROVE  [ms EXCEPT ![x] = None] \in MmMaps /\ IsPlus([ms EXCEPT ![x] = None], x, ms[x], ms)
<1>1. x \in Mms /\ ms[x] \in MmStructs
  BY DEF MmMaps, LiveIn
<1>2. PICK n : n = [ms EXCEPT ![x] = None]
  OBVIOUS
<1>3. n \in MmMaps /\ n[x] = None /\ ms = [n EXCEPT ![x] = ms[x]]
  BY <1>1, <1>2 DEF MmMaps
<1> QED BY <1>1, <1>2, <1>3 DEF IsPlus

LEMMA GoodTake ==
  ASSUME NEW F, NEW s, NEW r, NEW ms, Good(F, s, r, ms), NEW ms0 \in MmMaps, NEW x, NEW m,
         IsPlus(ms0, x, m, ms), NEW K, K = s + Base(ms0) + 1 + TablesOf(m)
  PROVE  Tidy(ms0) /\ Within(m) /\ FitMap(F, K, r, m.pte, Owned(ms0), Writers(ms0))
<1>1. /\ x \in Mms /\ m \in MmStructs /\ ms \in MmMaps /\ ms[x] = m
      /\ LiveIn(ms) = LiveIn(ms0) \cup {x} /\ \A y \in LiveIn(ms0) : ms[y] = ms0[y]
  BY PlusFacts
<1>2. Apart(m.pte) /\ Within(m) /\ Private(r, m.pte)
  BY <1>1 DEF Good, Tidy
<1>3. Tidy(ms0)
  BY <1>1 DEF Good, Tidy
<1>4. F \in Nat /\ s \in Nat /\ r \in RefMaps /\ \A f \in Frames : r[f] = Owned(ms)[f]
  BY DEF Good
<1>5. \A f \in Frames : r[f] = Owned(ms0)[f] + One(m.pte, f)
  BY <1>4, PlusOwners
<1>6. ASSUME NEW f \in Writers(ms0) PROVE r[f] <= 1
  <2>1. PICK y \in LiveIn(ms0) : f \in Writes(ms0[y].pte)
    BY <1>6 DEF Writers
  <2>2. PICK la \in Addrs : ms0[y].pte[la] # None /\ ms0[y].pte[la].write /\ ms0[y].pte[la].frame = f
    BY <2>1 DEF Writes
  <2>3. ms[y] = ms0[y] /\ Private(r, ms[y].pte)
    BY <1>1, <2>1 DEF Good
  <2> QED BY <2>2, <2>3 DEF Private
<1>7. K \in Nat /\ F + K + Cardinality(Used(r)) <= NPage
  <2>1. PICK B0, B, T, c : /\ B0 = Base(ms0) /\ B = Base(ms) /\ T = TablesOf(m)
                           /\ c = Cardinality(Used(r))
    OBVIOUS
  <2>2. B0 \in Nat /\ B \in Nat /\ T \in Nat /\ c \in Nat /\ B = B0 + 1 + T
    BY <2>1, WorldFinite, TablesFinite, UsedFacts, PlusBase
  <2>3. K = s + B0 + 1 + T /\ F + s + B + c <= NPage
    BY <2>1 DEF Good
  <2>4. F \in Nat /\ s \in Nat /\ NPage \in Nat
    BY <1>4, SizeFacts
  <2>5. K \in Nat /\ F + K + c <= NPage
    BY <2>2, <2>3, <2>4
  <2> QED BY <2>1, <2>5
<1>8. m.pte \in PteMaps
  BY <1>1, MmFacts
<1>9. FitMap(F, K, r, m.pte, Owned(ms0), Writers(ms0))
  BY <1>2, <1>4, <1>5, <1>6, <1>7, <1>8 DEF FitMap
<1> QED BY <1>2, <1>3, <1>9

\* No mm is at work.
LEMMA GoodNone ==
  ASSUME NEW F, NEW s, NEW r, NEW ms, Good(F, s, r, ms), NEW q \in PteMaps, Empty(q),
         NEW K, K = s + Base(ms)
  PROVE  FitMap(F, K, r, q, Owned(ms), Writers(ms))
<1>1. F \in Nat /\ s \in Nat /\ r \in RefMaps /\ \A f \in Frames : r[f] = Owned(ms)[f]
  BY DEF Good
<1>2. Apart(q) /\ Private(r, q) /\ \A f \in Frames : One(q, f) = 0
  BY DEF Apart, Private, One, Maps, Empty
<1>3. Owned(ms) \in RefMaps
  BY WorldFinite
<1>4. \A f \in Frames : r[f] = Owned(ms)[f] + One(q, f)
  BY <1>1, <1>2, <1>3 DEF RefMaps
<1>5. ASSUME NEW f \in Writers(ms) PROVE r[f] <= 1
  <2>1. PICK y \in LiveIn(ms) : f \in Writes(ms[y].pte)
    BY <1>5 DEF Writers
  <2>2. PICK la \in Addrs : ms[y].pte[la] # None /\ ms[y].pte[la].write /\ ms[y].pte[la].frame = f
    BY <2>1 DEF Writes
  <2>3. Private(r, ms[y].pte)
    BY <2>1 DEF Good
  <2> QED BY <2>2, <2>3 DEF Private
<1>6. K \in Nat /\ F + K + Cardinality(Used(r)) <= NPage
  <2>1. PICK B, c : B = Base(ms) /\ c = Cardinality(Used(r))
    OBVIOUS
  <2>2. B \in Nat /\ c \in Nat
    BY <2>1, WorldFinite, UsedFacts
  <2>3. K = s + B /\ F + s + B + c <= NPage
    BY <2>1 DEF Good
  <2>4. K \in Nat /\ F + K + c <= NPage
    BY <1>1, <2>2, <2>3, SizeFacts
  <2> QED BY <2>1, <2>4
<1> QED BY <1>1, <1>2, <1>4, <1>5, <1>6 DEF FitMap

LEMMA NoneGood ==
  ASSUME NEW F, NEW s \in Nat, NEW r, NEW ms, Tidy(ms), NEW q, Empty(q), NEW K, K >= s + Base(ms),
         FitMap(F, K, r, q, Owned(ms), Writers(ms))
  PROVE  Good(F, s, r, ms)
<1>1. /\ F \in Nat /\ r \in RefMaps /\ K \in Nat
      /\ \A f \in Frames : r[f] = Owned(ms)[f] + One(q, f)
      /\ \A f \in Writers(ms) : r[f] <= 1
      /\ F + K + Cardinality(Used(r)) <= NPage
  BY DEF FitMap
<1>2. \A f \in Frames : One(q, f) = 0
  BY DEF One, Maps, Empty
<1>3. Owned(ms) \in RefMaps
  BY WorldFinite
<1>4. \A f \in Frames : r[f] = Owned(ms)[f]
  BY <1>1, <1>2, <1>3 DEF RefMaps
<1>5. ASSUME NEW y \in LiveIn(ms) PROVE Private(r, ms[y].pte)
  <2>1. ms[y] \in MmStructs
    BY <1>5 DEF Tidy, MmMaps, LiveIn
  <2>2. ASSUME NEW la \in Addrs, ms[y].pte[la] # None, ms[y].pte[la].write
        PROVE r[ms[y].pte[la].frame] <= 1
    <3>1. ms[y].pte[la].frame \in Frames
      BY <2>1, <2>2, MmFacts, PteFacts
    <3>2. ms[y].pte[la].frame \in Writes(ms[y].pte)
      BY <2>2, <3>1 DEF Writes
    <3>3. ms[y].pte[la].frame \in Writers(ms)
      BY <1>5, <3>2 DEF Writers
    <3> QED BY <1>1, <3>3
  <2> QED BY <2>2 DEF Private
<1>6. F + s + Base(ms) + Cardinality(Used(r)) <= NPage
  <2>1. PICK B, c : B = Base(ms) /\ c = Cardinality(Used(r))
    OBVIOUS
  <2>2. B \in Nat /\ c \in Nat
    BY <2>1, WorldFinite, UsedFacts
  <2>3. K >= s + B /\ F + K + c <= NPage
    BY <1>1, <2>1
  <2>4. F + s + B + c <= NPage
    BY <1>1, <2>2, <2>3, SizeFacts
  <2> QED BY <2>1, <2>4
<1> QED BY <1>1, <1>4, <1>5, <1>6 DEF Good

\* Pages move between the free ones and the stacks.
LEMMA GoodMoves ==
  ASSUME NEW F, NEW s, NEW r, NEW ms, Good(F, s, r, ms), NEW F2 \in Nat, NEW s2 \in Nat,
         F2 + s2 <= F + s
  PROVE  Good(F2, s2, r, ms)
<1>1. PICK B, c : B = Base(ms) /\ c = Cardinality(Used(r))
  OBVIOUS
<1>2. B \in Nat /\ c \in Nat
  BY <1>1, WorldFinite, UsedFacts
<1>3. F \in Nat /\ s \in Nat /\ F + s + B + c <= NPage
  BY <1>1 DEF Good
<1>4. F2 + s2 + B + c <= NPage
  BY <1>2, <1>3, SizeFacts
<1> QED BY <1>1, <1>4 DEF Good

\* The same pages and tables, whatever the count and the rights.
SamePlaces(m, n) ==
  /\ n.vmas = m.vmas /\ n.dir = m.dir /\ n.tab = m.tab
  /\ \A la \in Addrs : /\ n.pte[la] = None <=> m.pte[la] = None
                       /\ m.pte[la] # None => n.pte[la].frame = m.pte[la].frame

LEMMA PlacesFacts ==
  ASSUME NEW m, NEW n, SamePlaces(m, n)
  PROVE  /\ Apart(m.pte) => Apart(n.pte)
         /\ Within(m) => Within(n)
         /\ TablesOf(n) = TablesOf(m)
         /\ \A f : One(n.pte, f) = One(m.pte, f)
<1>1. Apart(m.pte) => Apart(n.pte)
  BY DEF SamePlaces, Apart
<1>2. Within(m) => Within(n)
  BY DEF SamePlaces, Within
<1>3. TablesOf(n) = TablesOf(m)
  BY DEF SamePlaces, TablesOf, DirsOf, TabsOf
<1>4. ASSUME NEW f PROVE One(n.pte, f) = One(m.pte, f)
  <2>1. Maps(n.pte, f) <=> Maps(m.pte, f)
    BY DEF SamePlaces, Maps
  <2> QED BY <2>1 DEF One
<1> QED BY <1>1, <1>2, <1>3, <1>4

\* n is at x in place of m: ms became ms2.
IsSwap(ms0, x, m, n, ms, ms2) ==
  IsPlus(ms0, x, m, ms) /\ IsPlus(ms0, x, n, ms2) /\ SamePlaces(m, n)

LEMMA SwapFacts ==
  ASSUME NEW ms0 \in MmMaps, NEW x, NEW m, NEW n, NEW ms, NEW ms2, IsSwap(ms0, x, m, n, ms, ms2)
  PROVE  Base(ms2) = Base(ms) /\ Owned(ms2) = Owned(ms) /\ (Tidy(ms) => Tidy(ms2))
<1>1. IsPlus(ms0, x, m, ms) /\ IsPlus(ms0, x, n, ms2) /\ SamePlaces(m, n)
  BY DEF IsSwap
<1>2. TablesOf(n) = TablesOf(m) /\ \A f : One(n.pte, f) = One(m.pte, f)
  BY <1>1, PlacesFacts
<1>3. Base(ms2) = Base(ms)
  <2>1. Base(ms) = Base(ms0) + 1 + TablesOf(m) /\ Base(ms2) = Base(ms0) + 1 + TablesOf(n)
    BY <1>1, PlusBase
  <2> QED BY <1>2, <2>1
<1>4. \A f \in Frames : Owned(ms2)[f] = Owned(ms)[f]
  <2> TAKE f \in Frames
  <2>1. Owned(ms)[f] = Owned(ms0)[f] + One(m.pte, f)
    BY <1>1, PlusOwners
  <2>2. Owned(ms2)[f] = Owned(ms0)[f] + One(n.pte, f)
    BY <1>1, PlusOwners
  <2> QED BY <1>2, <2>1, <2>2
<1>5. Owned(ms2) = Owned(ms)
  BY <1>4 DEF Owned
<1>6. ASSUME Tidy(ms) PROVE Tidy(ms2)
  <2>1. /\ ms[x] = m /\ x \in LiveIn(ms) /\ LiveIn(ms) = LiveIn(ms0) \cup {x}
        /\ \A y \in LiveIn(ms0) : ms[y] = ms0[y]
    BY <1>1, PlusFacts
  <2>2. /\ ms2[x] = n /\ ms2 \in MmMaps /\ LiveIn(ms2) = LiveIn(ms0) \cup {x}
        /\ \A y \in LiveIn(ms0) : ms2[y] = ms0[y]
    BY <1>1, PlusFacts
  <2>3. Apart(n.pte) /\ Within(n)
    BY <1>1, <1>6, <2>1, PlacesFacts DEF Tidy
  <2> QED BY <1>6, <2>1, <2>2, <2>3 DEF Tidy
<1> QED BY <1>3, <1>5, <1>6

\* The count of an mm changes.
LEMMA CountGood ==
  ASSUME NEW F, NEW s, NEW r, NEW ms, Good(F, s, r, ms), NEW ms0 \in MmMaps, NEW x, NEW m,
         IsPlus(ms0, x, m, ms), NEW n, NEW ms2, IsPlus(ms0, x, n, ms2), n = [m EXCEPT !.count = n.count]
  PROVE  Good(F, s, r, ms2)
<1>1. m \in MmStructs
  BY PlusFacts
<1>2. n.vmas = m.vmas /\ n.dir = m.dir /\ n.tab = m.tab /\ n.pte = m.pte
  BY <1>1 DEF MmStructs
<1>3. SamePlaces(m, n)
  BY <1>2 DEF SamePlaces
<1>4. PICK K : K = s + Base(ms0) + 1 + TablesOf(m)
  OBVIOUS
<1>5. Tidy(ms0) /\ Within(m) /\ FitMap(F, K, r, m.pte, Owned(ms0), Writers(ms0))
  BY <1>4, GoodTake
<1>6. Within(n) /\ TablesOf(n) = TablesOf(m)
  BY <1>3, <1>5, PlacesFacts
<1>7. FitMap(F, K, r, n.pte, Owned(ms0), Writers(ms0)) /\ K = s + Base(ms0) + 1 + TablesOf(n)
  BY <1>2, <1>4, <1>5, <1>6
<1>8. s \in Nat
  BY DEF Good
<1> QED BY <1>5, <1>6, <1>7, <1>8, PlusGood

\* A view with m at work, F free pages and r[f] references to a page.
At(t, F, r, m) ==
  /\ t \in Views /\ t.free = F /\ t.ref = r /\ t.mm = m /\ Ok(t)
  /\ Private(r, t.from.pte)

LEMMA CreateFacts == mm_create \in MmStructs /\ Empty(mm_create.pte) /\ TablesOf(mm_create) = 0
<1>1. mm_create \in MmStructs
  <2>1. <<>> \in Seq(Vmas) /\ 0 \in Nat
    OBVIOUS
  <2> QED BY <2>1 DEF mm_create, MmStructs
<1>2. Empty(mm_create.pte)
  BY DEF mm_create, Empty
<1>3. DirsOf(mm_create) = {} /\ TabsOf(mm_create) = {}
  BY DEF mm_create, DirsOf, TabsOf
<1>4. TablesOf(mm_create) = 0
  BY <1>3, FS_EmptySet DEF TablesOf
<1> QED BY <1>1, <1>2, <1>4

\* An mm is taken up, and put back.
LEMMA TakeFits ==
  ASSUME NEW F, NEW s, NEW r, NEW ms, Good(F, s, r, ms), NEW ms0 \in MmMaps, NEW x, NEW m,
         IsPlus(ms0, x, m, ms), NEW t, At(t, F, r, m), NEW k, k = s + Base(ms0)
  PROVE  Fit(t, k + 1, Owned(ms0), Writers(ms0)) /\ Within(t.mm) /\ Tidy(ms0) /\ k \in Nat
<1>1. t \in Views /\ t.free = F /\ t.ref = r /\ t.mm = m /\ Private(t.ref, t.from.pte)
  BY DEF At
<1>2. k \in Nat /\ TablesOf(m) \in Nat
  BY WorldFinite, TablesFinite DEF Good
<1>3. PICK K : K = s + Base(ms0) + 1 + TablesOf(m)
  OBVIOUS
<1>4. Tidy(ms0) /\ Within(m) /\ FitMap(F, K, r, m.pte, Owned(ms0), Writers(ms0))
  BY <1>3, GoodTake
<1>5. K = (k + 1) + TablesOf(m)
  BY <1>2, <1>3
<1> QED BY <1>1, <1>2, <1>4, <1>5 DEF Fit

LEMMA PutGood ==
  ASSUME NEW ms0, Tidy(ms0), NEW x, NEW n, NEW ms, IsPlus(ms0, x, n, ms), NEW s \in Nat,
         NEW k, k = s + Base(ms0), NEW u, Fit(u, k + 1, Owned(ms0), Writers(ms0)), Within(u.mm),
         n = [u.mm EXCEPT !.count = n.count]
  PROVE  Good(u.free, s, u.ref, ms)
<1>1. k \in Nat /\ k + 1 \in Nat
  BY WorldFinite
<1>2. u.mm \in MmStructs /\ TablesOf(u.mm) \in Nat
  BY <1>1, FitFacts
<1>3. n.vmas = u.mm.vmas /\ n.dir = u.mm.dir /\ n.tab = u.mm.tab /\ n.pte = u.mm.pte
  BY <1>2 DEF MmStructs
<1>4. SamePlaces(u.mm, n)
  BY <1>3 DEF SamePlaces
<1>5. Within(n) /\ TablesOf(n) = TablesOf(u.mm)
  BY <1>4, PlacesFacts
<1>6. PICK K : K = (k + 1) + TablesOf(u.mm)
  OBVIOUS
<1>7. FitMap(u.free, K, u.ref, n.pte, Owned(ms0), Writers(ms0))
  BY <1>3, <1>6 DEF Fit
<1>8. K = s + Base(ms0) + 1 + TablesOf(n)
  BY <1>1, <1>2, <1>5, <1>6
<1> QED BY <1>5, <1>7, <1>8, PlusGood

\* A new one is begun, and all of it is given back.
LEMMA NewFits ==
  ASSUME NEW F, NEW s, NEW r, NEW ms, Good(F, s, r, ms), NEW t, At(t, F, r, mm_create),
         NEW k, k = s + Base(ms)
  PROVE  Fit(t, k, Owned(ms), Writers(ms)) /\ Empty(t.mm.pte) /\ k \in Nat
<1>1. t \in Views /\ t.free = F /\ t.ref = r /\ t.mm = mm_create /\ Private(t.ref, t.from.pte)
  BY DEF At
<1>2. k \in Nat
  BY WorldFinite DEF Good
<1>3. Empty(t.mm.pte) /\ t.mm.pte \in PteMaps /\ TablesOf(t.mm) = 0
  BY <1>1, CreateFacts, MmFacts
<1>4. FitMap(F, k, r, t.mm.pte, Owned(ms), Writers(ms))
  BY <1>3, GoodNone
<1>5. k + TablesOf(t.mm) = k
  BY <1>2, <1>3
<1> QED BY <1>1, <1>2, <1>3, <1>4, <1>5 DEF Fit

LEMMA BackGood ==
  ASSUME NEW ms, Tidy(ms), NEW s \in Nat, NEW k, k = s + Base(ms), NEW u, NEW b, b = Owned(ms),
         Fit(u, k, b, Writers(ms)), Empty(u.mm.pte)
  PROVE  Good(u.free, s, u.ref, ms)
<1>1. k \in Nat /\ TablesOf(u.mm) \in Nat
  BY WorldFinite, TablesFinite
<1>2. PICK K : K = k + TablesOf(u.mm)
  OBVIOUS
<1>3. FitMap(u.free, K, u.ref, u.mm.pte, Owned(ms), Writers(ms)) /\ K >= s + Base(ms)
  BY <1>1, <1>2 DEF Fit
<1> QED BY <1>3, NoneGood

\* The mm that is copied is among those of others.
LEMMA SourceIs ==
  ASSUME NEW ms, Tidy(ms), NEW ms0 \in MmMaps, NEW x, NEW m, IsPlus(ms0, x, m, ms)
  PROVE  Source(m, Owned(ms), Writers(ms0)) /\ Writers(ms0) \subseteq Writers(ms)
<1>1. /\ m \in MmStructs /\ ms[x] = m /\ x \in LiveIn(ms) /\ LiveIn(ms) = LiveIn(ms0) \cup {x}
      /\ \A y \in LiveIn(ms0) : ms[y] = ms0[y]
  BY PlusFacts
<1>2. Apart(m.pte)
  BY <1>1 DEF Tidy
<1>3. ASSUME NEW la \in Addrs, m.pte[la] # None
      PROVE /\ Owned(ms)[m.pte[la].frame] >= 1
            /\ m.pte[la].frame \in Writers(ms0) => Owned(ms)[m.pte[la].frame] >= 2
  <2>1. PICK f : f = m.pte[la].frame
    OBVIOUS
  <2>2. f \in Frames /\ One(m.pte, f) = 1
    BY <1>1, <1>3, <2>1, MmFacts, PteFacts DEF One
  <2>3. Owned(ms)[f] = Owned(ms0)[f] + 1
    BY <2>2, PlusOwners
  <2>4. Owned(ms0)[f] \in Nat
    BY <2>2, WorldFinite DEF RefMaps
  <2>5. ASSUME f \in Writers(ms0) PROVE Owned(ms0)[f] >= 1
    <3>1. PICK y \in LiveIn(ms0) : f \in Writes(ms0[y].pte)
      BY <2>5 DEF Writers
    <3>2. y \in Owners(ms0, f)
      BY <3>1 DEF Owners, Writes, Maps
    <3>3. Cardinality(Owners(ms0, f)) # 0
      BY <3>2, WorldFinite, FS_EmptySet
    <3> QED BY <2>2, <2>4, <3>3 DEF Owned
  <2> QED BY <2>1, <2>3, <2>4, <2>5
<1>4. Writers(ms0) \subseteq Writers(ms)
  BY <1>1 DEF Writers
<1> QED BY <1>1, <1>2, <1>3, <1>4 DEF Source

LEMMA PlusWriters ==
  ASSUME NEW ms0 \in MmMaps, NEW x, NEW m, NEW ms, IsPlus(ms0, x, m, ms)
  PROVE  Writers(ms) = Writers(ms0) \cup Writes(m.pte)
<1>1. /\ ms[x] = m /\ LiveIn(ms) = LiveIn(ms0) \cup {x}
      /\ \A y \in LiveIn(ms0) : ms[y] = ms0[y]
  BY PlusFacts
<1>2. ASSUME NEW f \in Writers(ms) PROVE f \in Writers(ms0) \cup Writes(m.pte)
  BY <1>1, <1>2 DEF Writers
<1>3. Writers(ms0) \subseteq Writers(ms) /\ Writes(m.pte) \subseteq Writers(ms)
  BY <1>1 DEF Writers
<1> QED BY <1>2, <1>3

LEMMA FitLess ==
  ASSUME NEW t, NEW k, NEW b, NEW w, Fit(t, k, b, w), NEW v, v \subseteq w
  PROVE  Fit(t, k, b, v)
BY DEF Fit, FitMap

\* A copy: what is mapped stays, and is not written where it is shared.
IsCopied(u, m, s, ms0, x, kept) ==
  /\ SamePages(m, u.from) /\ u \in Views /\ Tidy(kept) /\ IsPlus(ms0, x, u.from, kept)
  /\ Ok(u) => \A y, n, made : IsPlus(kept, y, n, made) /\ n = [u.mm EXCEPT !.count = n.count]
                => Good(u.free, s, u.ref, made)
  /\ ~Ok(u) /\ ~Fails(u) => Good(u.free, s, u.ref, kept)

LEMMA CopyWorld ==
  ASSUME NEW F, NEW s, NEW r, NEW ms, Good(F, s, r, ms), NEW ms0 \in MmMaps, NEW x, NEW m,
         IsPlus(ms0, x, m, ms), NEW t, At(t, F, r, mm_create), m = t.from,
         NEW vmaFail, NEW u, u = copy_mm(t, vmaFail), NEW kept, kept = [ms EXCEPT ![x] = u.from]
  PROVE  IsCopied(u, m, s, ms0, x, kept)
<1>1. PICK k, b, w : k = s + Base(ms) /\ b = Owned(ms) /\ w = Writers(ms0)
  OBVIOUS
<1>2. k \in Nat /\ s \in Nat /\ Tidy(ms) /\ b \in RefMaps /\ w \subseteq Frames /\ k + 1 \in Nat
  BY <1>1, WorldFinite DEF Good
<1>3. Source(m, b, w) /\ w \subseteq Writers(ms)
  BY <1>1, <1>2, SourceIs
<1>4. Fit(t, k, b, w) /\ Empty(t.mm.pte) /\ Ok(t)
  <2>1. Fit(t, k, b, Writers(ms)) /\ Empty(t.mm.pte)
    BY <1>1, NewFits
  <2> QED BY <1>3, <2>1, FitLess DEF At
<1>5. /\ SamePages(t.from, u.from) /\ u \in Views
      /\ Ok(u) => Fit(u, k + 1, b, w) /\ Within(u.mm)
      /\ ~Ok(u) /\ ~Fails(u) => Fit(u, k, b, w) /\ Empty(u.mm.pte)
  BY <1>2, <1>3, <1>4, CopyMmFits
<1>6. SamePages(m, u.from) /\ u.from \in MmStructs
  BY <1>5, ViewFacts
<1>7. IsPlus(ms0, x, u.from, kept)
  <2>1. x \in Mms /\ ms0[x] = None /\ ms = [ms0 EXCEPT ![x] = m]
    BY DEF IsPlus
  <2>2. kept = [ms0 EXCEPT ![x] = u.from]
    BY <2>1 DEF MmMaps
  <2> QED BY <1>6, <2>1, <2>2 DEF IsPlus
<1>8. IsSwap(ms0, x, m, u.from, ms, kept)
  BY <1>6, <1>7 DEF IsSwap, SamePages, SamePlaces, Alike
<1>9. Base(kept) = Base(ms) /\ Owned(kept) = b /\ Tidy(kept)
  BY <1>1, <1>2, <1>8, SwapFacts
<1>10. Writers(kept) = w \cup Writes(u.from.pte)
  BY <1>1, <1>7, PlusWriters, Zenon
<1>11. ASSUME NEW j, Fit(u, j, b, w) PROVE Fit(u, j, Owned(kept), Writers(kept))
  <2>1. FitMap(u.free, j + TablesOf(u.mm), u.ref, u.mm.pte, b, w) /\ Private(u.ref, u.from.pte)
    BY <1>11 DEF Fit
  <2>2. ASSUME NEW f \in Writers(kept) PROVE u.ref[f] <= 1
    BY <1>10, <2>1, <2>2 DEF FitMap, Private, Writes
  <2> QED BY <1>5, <1>9, <2>1, <2>2 DEF Fit, FitMap
<1>12. ASSUME Ok(u), NEW y, NEW n, NEW made, IsPlus(kept, y, n, made), n = [u.mm EXCEPT !.count = n.count]
       PROVE  Good(u.free, s, u.ref, made)
  <2>1. Fit(u, k + 1, Owned(kept), Writers(kept)) /\ Within(u.mm) /\ k = s + Base(kept)
    BY <1>1, <1>5, <1>9, <1>11, <1>12
  <2> QED BY <1>2, <1>9, <1>12, <2>1, PutGood
<1>13. ASSUME ~Ok(u), ~Fails(u) PROVE Good(u.free, s, u.ref, kept)
  <2>1. Fit(u, k, Owned(kept), Writers(kept)) /\ Empty(u.mm.pte) /\ k = s + Base(kept)
    BY <1>1, <1>5, <1>9, <1>11, <1>13
  <2> QED BY <1>2, <1>9, <2>1, BackGood
<1> QED BY <1>5, <1>6, <1>7, <1>9, <1>12, <1>13 DEF IsCopied

-----------------------------------------------------------------------------
(* Processes *)

ProcRecs == [st : {"none", "alive", "zombie"}, mm : Mms \cup {None}]
PageRecs == [free : Nat, ref : RefMaps, data : DataMaps]

UsersOf(pr, x) == {q \in Procs : pr[q].mm = x}
StacksIn(pr) == {p \in Procs \ {Init0} : pr[p].st # "none"}
StacksOf(pr) == Cardinality(StacksIn(pr))

\* An mm stays while a process has it.
Held(pr, ms, x) ==
  UsersOf(pr, x) # {} => ms[x] # None /\ ms[x].count >= Cardinality(UsersOf(pr, x))
UsersOK(pr, ms) == \A x \in Mms : Held(pr, ms, x)

ProcsOK(pr) ==
  /\ pr \in [Procs -> ProcRecs] /\ pr[Init0].st = "alive" /\ pr[Init0].mm = None
  /\ \A p \in Procs : pr[p].st # "alive" => pr[p].mm = None

\* The invariant, of the pages, the mm_structs and the processes.
World(P, ms, pr) ==
  /\ P \in PageRecs /\ ProcsOK(pr)
  /\ Good(P.free, StacksOf(pr), P.ref, ms) /\ UsersOK(pr, ms)

\* The process p became e.
IsProc(pr, p, e, pr2) == p \in Procs /\ e \in ProcRecs /\ pr2 = [pr EXCEPT ![p] = e]

LEMMA ProcFacts ==
  ASSUME NEW pr, ProcsOK(pr), NEW p, NEW e, NEW pr2, IsProc(pr, p, e, pr2)
  PROVE  /\ p \in Procs /\ e \in ProcRecs /\ pr2 \in [Procs -> ProcRecs] /\ pr2[p] = e
         /\ \A q \in Procs : q # p => pr2[q] = pr[q]
         /\ p # Init0 /\ (e.st # "alive" => e.mm = None) => ProcsOK(pr2)
<1>1. p \in Procs /\ e \in ProcRecs /\ pr2 = [pr EXCEPT ![p] = e] /\ pr \in [Procs -> ProcRecs]
  BY DEF IsProc, ProcsOK
<1>2. pr2 \in [Procs -> ProcRecs] /\ pr2[p] = e /\ \A q \in Procs : q # p => pr2[q] = pr[q]
  BY <1>1
<1>3. ASSUME p # Init0, e.st # "alive" => e.mm = None PROVE ProcsOK(pr2)
  BY <1>2, <1>3, SizeFacts DEF ProcsOK
<1> QED BY <1>1, <1>2, <1>3

LEMMA StackFacts ==
  ASSUME NEW pr, ProcsOK(pr)
  PROVE  StacksOf(pr) \in Nat /\ IsFiniteSet(StacksIn(pr))
<1>1. StacksIn(pr) \subseteq Procs
  BY DEF StacksIn
<1>2. IsFiniteSet(StacksIn(pr))
  BY <1>1, SizeFacts, FS_Subset
<1> QED BY <1>2, FS_CardinalityType DEF StacksOf

LEMMA StackSteps ==
  ASSUME NEW pr, ProcsOK(pr), NEW p, NEW e, NEW pr2, IsProc(pr, p, e, pr2), p # Init0
  PROVE  /\ pr[p].st # "none" /\ e.st # "none" => StacksOf(pr2) = StacksOf(pr)
         /\ pr[p].st = "none" /\ e.st # "none" => StacksOf(pr2) = StacksOf(pr) + 1
         /\ pr[p].st # "none" /\ e.st = "none" => StacksOf(pr2) = StacksOf(pr) - 1
<1>1. p \in Procs /\ pr2[p] = e /\ \A q \in Procs : q # p => pr2[q] = pr[q]
  BY ProcFacts
<1>2. IsFiniteSet(StacksIn(pr))
  BY StackFacts
<1>3. ASSUME pr[p].st # "none", e.st # "none" PROVE StacksOf(pr2) = StacksOf(pr)
  <2>1. StacksIn(pr2) = StacksIn(pr)
    BY <1>1, <1>3 DEF StacksIn
  <2> QED BY <2>1 DEF StacksOf
<1>4. ASSUME pr[p].st = "none", e.st # "none" PROVE StacksOf(pr2) = StacksOf(pr) + 1
  <2>1. StacksIn(pr2) = StacksIn(pr) \cup {p} /\ p \notin StacksIn(pr)
    BY <1>1, <1>4 DEF StacksIn
  <2> QED BY <1>2, <2>1, FS_AddElement DEF StacksOf
<1>5. ASSUME pr[p].st # "none", e.st = "none" PROVE StacksOf(pr2) = StacksOf(pr) - 1
  <2>1. StacksIn(pr2) = StacksIn(pr) \ {p} /\ p \in StacksIn(pr)
    BY <1>1, <1>5 DEF StacksIn
  <2> QED BY <1>2, <2>1, FS_RemoveElement DEF StacksOf
<1> QED BY <1>3, <1>4, <1>5

LEMMA UserFacts ==
  ASSUME NEW pr, NEW x
  PROVE  IsFiniteSet(UsersOf(pr, x)) /\ Cardinality(UsersOf(pr, x)) \in Nat
<1>1. UsersOf(pr, x) \subseteq Procs
  BY DEF UsersOf
<1> QED BY <1>1, SizeFacts, FS_Subset, FS_CardinalityType

LEMMA UserSteps ==
  ASSUME NEW pr, ProcsOK(pr), NEW p, NEW e, NEW pr2, IsProc(pr, p, e, pr2), NEW x
  PROVE  /\ x # pr[p].mm /\ x # e.mm => UsersOf(pr2, x) = UsersOf(pr, x)
         /\ x = pr[p].mm /\ x # e.mm =>
              /\ UsersOf(pr, x) # {}
              /\ Cardinality(UsersOf(pr2, x)) = Cardinality(UsersOf(pr, x)) - 1
         /\ x # pr[p].mm /\ x = e.mm =>
              Cardinality(UsersOf(pr2, x)) = Cardinality(UsersOf(pr, x)) + 1
<1>1. p \in Procs /\ pr2[p] = e /\ \A q \in Procs : q # p => pr2[q] = pr[q]
  BY ProcFacts
<1>2. IsFiniteSet(UsersOf(pr, x))
  BY UserFacts
<1>3. ASSUME x # pr[p].mm, x # e.mm PROVE UsersOf(pr2, x) = UsersOf(pr, x)
  BY <1>1, <1>3 DEF UsersOf
<1>4. ASSUME x = pr[p].mm, x # e.mm
      PROVE  UsersOf(pr, x) # {} /\ Cardinality(UsersOf(pr2, x)) = Cardinality(UsersOf(pr, x)) - 1
  <2>1. UsersOf(pr2, x) = UsersOf(pr, x) \ {p} /\ p \in UsersOf(pr, x)
    BY <1>1, <1>4 DEF UsersOf
  <2>2. Cardinality(UsersOf(pr, x) \ {p}) = Cardinality(UsersOf(pr, x)) - 1
    BY <1>2, <2>1, FS_RemoveElement
  <2> QED BY <2>1, <2>2
<1>5. ASSUME x # pr[p].mm, x = e.mm
      PROVE  Cardinality(UsersOf(pr2, x)) = Cardinality(UsersOf(pr, x)) + 1
  <2>1. UsersOf(pr2, x) = UsersOf(pr, x) \cup {p} /\ p \notin UsersOf(pr, x)
    BY <1>1, <1>5 DEF UsersOf
  <2>2. Cardinality(UsersOf(pr, x) \cup {p}) = Cardinality(UsersOf(pr, x)) + 1
    BY <1>2, <2>1, FS_AddElement
  <2> QED BY <2>1, <2>2
<1> QED BY <1>3, <1>4, <1>5

\* What a process has is there.
LEMMA HasMm ==
  ASSUME NEW ms, NEW pr, UsersOK(pr, ms), NEW p \in Procs, pr[p].mm \in Mms
  PROVE  pr[p].mm \in LiveIn(ms) /\ ms[pr[p].mm].count >= Cardinality(UsersOf(pr, pr[p].mm))
<1>1. PICK x \in Mms : x = pr[p].mm
  OBVIOUS
<1>2. p \in UsersOf(pr, x)
  BY <1>1 DEF UsersOf
<1>3. Held(pr, ms, x)
  BY DEF UsersOK
<1> QED BY <1>1, <1>2, <1>3 DEF Held, LiveIn

-----------------------------------------------------------------------------
(* An mm that is dropped *)

LEMMA ContextFacts ==
  ASSUME pm \in PageRecs
  PROVE  /\ At(Context, pm.free, pm.ref, mm_create)
         /\ \A m \in MmStructs : At([Context EXCEPT !.mm = m], pm.free, pm.ref, m)
         /\ \A m \in MmStructs : Private(pm.ref, m.pte) =>
              /\ At([Context EXCEPT !.from = m], pm.free, pm.ref, mm_create)
              /\ [Context EXCEPT !.from = m].from = m
<1>1. mm_create \in MmStructs /\ Empty(mm_create.pte)
  BY CreateFacts
<1>2. \A r : Private(r, mm_create.pte)
  BY <1>1 DEF Empty, Private
<1>3. "ok" \in Errs
  BY DEF Errs
<1>4. Context \in Views
  BY <1>1, <1>3 DEF Views, Context, PageRecs
<1>5. /\ Context.free = pm.free /\ Context.ref = pm.ref /\ Context.mm = mm_create
      /\ Context.from = mm_create /\ Context.err = "ok"
  BY DEF Context
<1>6. At(Context, pm.free, pm.ref, mm_create)
  BY <1>2, <1>4, <1>5 DEF At, Ok
<1>7. ASSUME NEW m \in MmStructs PROVE At([Context EXCEPT !.mm = m], pm.free, pm.ref, m)
  <2>1. PICK t : t = [Context EXCEPT !.mm = m]
    OBVIOUS
  <2>2. /\ t.free = Context.free /\ t.ref = Context.ref /\ t.mm = m /\ t.from = Context.from
        /\ t.err = Context.err /\ t \in Views
    BY <1>4, <2>1 DEF Views
  <2> QED BY <1>2, <1>5, <2>1, <2>2 DEF At, Ok
<1>8. ASSUME NEW m \in MmStructs, Private(pm.ref, m.pte)
      PROVE  /\ At([Context EXCEPT !.from = m], pm.free, pm.ref, mm_create)
             /\ [Context EXCEPT !.from = m].from = m
  <2>1. PICK t : t = [Context EXCEPT !.from = m]
    OBVIOUS
  <2>2. /\ t.free = Context.free /\ t.ref = Context.ref /\ t.from = m /\ t.mm = Context.mm
        /\ t.err = Context.err /\ t \in Views
    BY <1>4, <2>1 DEF Views
  <2> QED BY <1>5, <1>8, <2>1, <2>2 DEF At, Ok
<1> QED BY <1>6, <1>7, <1>8

\* put_pgdir(exit_mmap(mm)): the others are left.
IsFreed(u, t, s, ms) ==
  /\ Good(u.free, s, u.ref, ms) /\ u \in Views /\ u.err = t.err
  /\ Private(u.ref, u.from.pte)

LEMMA FreedGood ==
  ASSUME NEW ms, Tidy(ms), NEW s \in Nat, NEW k, k = s + Base(ms), NEW t,
         Fit(t, k + 1, Owned(ms), Writers(ms)), Within(t.mm), NEW u, u = put_pgdir(exit_mmap(t))
  PROVE  IsFreed(u, t, s, ms)
<1>1. k \in Nat /\ Owned(ms) \in RefMaps /\ Writers(ms) \subseteq Frames
  BY WorldFinite
<1>2. Fit(u, k, Owned(ms), Writers(ms)) /\ u.err = t.err /\ Empty(u.mm.pte)
  BY <1>1, FreedFits
<1>3. u \in Views /\ Private(u.ref, u.from.pte)
  BY <1>2 DEF Fit
<1>4. Good(u.free, s, u.ref, ms)
  BY <1>2, BackGood
<1> QED BY <1>2, <1>3, <1>4 DEF IsFreed

LEMMA HeldSteps ==
  ASSUME NEW pr, NEW ms, UsersOK(pr, ms), NEW pr2, NEW ms2, NEW x, Held(pr2, ms2, x),
         \A y \in Mms : y # x => ms2[y] = ms[y] /\ UsersOf(pr2, y) = UsersOf(pr, y)
  PROVE  UsersOK(pr2, ms2)
BY DEF UsersOK, Held

\* The process that drops an mm is its last, or it is not.
LEMMA LastUser ==
  ASSUME NEW pr, ProcsOK(pr), NEW ms \in MmMaps, UsersOK(pr, ms), NEW p, NEW e, NEW pr2,
         IsProc(pr, p, e, pr2), e.mm = None, pr[p].mm \in Mms, ms[pr[p].mm].count = 1
  PROVE  UsersOK(pr2, [ms EXCEPT ![pr[p].mm] = None])
<1>1. PICK x \in Mms : x = pr[p].mm
  OBVIOUS
<1>2. PICK ms2 : ms2 = [ms EXCEPT ![x] = None]
  OBVIOUS
<1>3. p \in Procs /\ x # None
  BY ProcFacts, SizeFacts
<1>4. ms[x].count >= Cardinality(UsersOf(pr, x))
  BY <1>1, <1>3, HasMm
<1>5. /\ UsersOf(pr, x) # {}
      /\ Cardinality(UsersOf(pr2, x)) = Cardinality(UsersOf(pr, x)) - 1
  BY <1>1, <1>3, UserSteps
<1>6. UsersOf(pr2, x) = {}
  <2>1. Cardinality(UsersOf(pr, x)) \in Nat /\ Cardinality(UsersOf(pr2, x)) \in Nat /\ IsFiniteSet(UsersOf(pr2, x))
    BY UserFacts
  <2>2. Cardinality(UsersOf(pr2, x)) = 0
    BY <1>1, <1>4, <1>5, <2>1
  <2> QED BY <2>1, <2>2, FS_EmptySet
<1>7. Held(pr2, ms2, x)
  BY <1>6 DEF Held
<1>8. ASSUME NEW y \in Mms, y # x PROVE ms2[y] = ms[y] /\ UsersOf(pr2, y) = UsersOf(pr, y)
  <2>1. y # None
    BY SizeFacts
  <2>2. UsersOf(pr2, y) = UsersOf(pr, y)
    BY <1>1, <1>8, <2>1, UserSteps
  <2> QED BY <1>2, <1>8, <2>2 DEF MmMaps
<1>9. UsersOK(pr2, ms2)
  BY <1>7, <1>8, HeldSteps
<1> QED BY <1>1, <1>2, <1>9

LEMMA OneUserLess ==
  ASSUME NEW pr, ProcsOK(pr), NEW ms, UsersOK(pr, ms), NEW p, NEW e, NEW pr2,
         IsProc(pr, p, e, pr2), e.mm = None, NEW x, x = pr[p].mm, NEW ms0 \in MmMaps, NEW m,
         IsPlus(ms0, x, m, ms), m.count # 1, NEW n, NEW ms2, IsPlus(ms0, x, n, ms2),
         n.count = m.count - 1
  PROVE  UsersOK(pr2, ms2)
<1>0. /\ x \in Mms /\ ms[x] = m /\ m \in MmStructs /\ ms2[x] = n /\ n # None
      /\ ms = [ms0 EXCEPT ![x] = m] /\ ms2 = [ms0 EXCEPT ![x] = n]
  <2>1. PICK z : z = pr[p].mm
    OBVIOUS
  <2>2. IsPlus(ms0, z, m, ms) /\ IsPlus(ms0, z, n, ms2)
    BY <2>1
  <2>3. z \in Mms /\ ms[z] = m /\ m \in MmStructs
    BY <2>2, PlusFacts
  <2>4. ms2[z] = n /\ n # None
    BY <2>2, PlusFacts
  <2>5. ms = [ms0 EXCEPT ![z] = m] /\ ms2 = [ms0 EXCEPT ![z] = n]
    BY <2>2 DEF IsPlus
  <2> QED BY <2>1, <2>3, <2>4, <2>5
<1>1. p \in Procs /\ x # None
  BY <1>0, ProcFacts, SizeFacts
<1>2. ms[x].count >= Cardinality(UsersOf(pr, x)) /\ x \in LiveIn(ms)
  BY <1>0, <1>1, HasMm
<1>3. Cardinality(UsersOf(pr2, x)) = Cardinality(UsersOf(pr, x)) - 1
  BY <1>1, UserSteps
<1>4. Cardinality(UsersOf(pr, x)) \in Nat /\ ms[x].count \in Nat
  BY <1>0, UserFacts, MmFacts
<1>5. n.count >= Cardinality(UsersOf(pr2, x))
  BY <1>0, <1>2, <1>3, <1>4
<1>6. Held(pr2, ms2, x)
  BY <1>0, <1>5 DEF Held
<1>7. ASSUME NEW y \in Mms, y # x PROVE ms2[y] = ms[y] /\ UsersOf(pr2, y) = UsersOf(pr, y)
  <2>1. y # None
    BY SizeFacts
  <2>2. UsersOf(pr2, y) = UsersOf(pr, y)
    BY <1>7, <2>1, UserSteps
  <2> QED BY <1>0, <1>7, <2>2 DEF MmMaps
<1> QED BY <1>6, <1>7, HeldSteps

\* No mm is concerned.
LEMMA NoUser ==
  ASSUME NEW pr, ProcsOK(pr), NEW ms, UsersOK(pr, ms), NEW p, NEW e, NEW pr2,
         IsProc(pr, p, e, pr2), e.mm = None, pr[p].mm = None
  PROVE  UsersOK(pr2, ms)
<1>1. ASSUME NEW y \in Mms PROVE UsersOf(pr2, y) = UsersOf(pr, y)
  <2>1. y # None
    BY SizeFacts
  <2> QED BY <2>1, UserSteps
<1> QED BY <1>1 DEF UsersOK, Held

\* An mm with another count.
LEMMA Recounted ==
  ASSUME NEW ms0 \in MmMaps, NEW x, NEW m, NEW ms, IsPlus(ms0, x, m, ms), NEW c \in Nat
  PROVE  /\ IsPlus(ms0, x, [m EXCEPT !.count = c], [ms EXCEPT ![x].count = c])
         /\ [m EXCEPT !.count = c].count = c
<1>1. /\ x \in Mms /\ m \in MmStructs /\ ms0[x] = None /\ ms = [ms0 EXCEPT ![x] = m] /\ ms[x] = m
      /\ ms \in MmMaps
  BY PlusFacts DEF IsPlus
<1>2. [m EXCEPT !.count = c] \in MmStructs /\ [m EXCEPT !.count = c].count = c
  BY <1>1 DEF MmStructs
<1>3. [ms EXCEPT ![x].count = c] = [ms0 EXCEPT ![x] = [m EXCEPT !.count = c]]
  BY <1>1 DEF MmMaps
<1> QED BY <1>1, <1>2, <1>3 DEF IsPlus

\* The mm of a process is dropped: what is left is in order.
IsDropped(d, s, pr) ==
  /\ At(d.t, d.t.free, d.t.ref, mm_create)
  /\ Good(d.t.free, s, d.t.ref, d.mms) /\ UsersOK(pr, d.mms)

LEMMA DroppedFacts ==
  ASSUME World(pm, mms, proc), NEW p, NEW e, NEW pr2, IsProc(proc, p, e, pr2), e.mm = None
  PROVE  IsDropped(Dropped(p), StacksOf(proc), pr2)
<1>1. PICK x, d, s : x = proc[p].mm /\ d = Dropped(p) /\ s = StacksOf(proc)
  OBVIOUS
<1>2. /\ pm \in PageRecs /\ ProcsOK(proc) /\ Good(pm.free, s, pm.ref, mms) /\ UsersOK(proc, mms)
  BY <1>1 DEF World
<1>3. p \in Procs /\ x \in Mms \cup {None} /\ s \in Nat
  BY <1>1, <1>2, ProcFacts, StackFacts DEF ProcsOK, ProcRecs
<1>4. CASE x = None
  <2>1. d = [t |-> Context, mms |-> mms]
    BY <1>1, <1>4 DEF Dropped
  <2>2. d.t = Context /\ d.mms = mms
    BY <2>1
  <2>3. At(Context, Context.free, Context.ref, mm_create) /\ Context.free = pm.free /\ Context.ref = pm.ref
    BY <1>2, ContextFacts DEF At
  <2>4. UsersOK(pr2, mms)
    BY <1>1, <1>2, <1>4, NoUser
  <2> QED BY <1>1, <1>2, <2>2, <2>3, <2>4 DEF IsDropped
<1>5. CASE x # None
  <2>1. PICK ms0, m : ms0 = [mms EXCEPT ![x] = None] /\ m = mms[x]
    OBVIOUS
  <2>2. mms \in MmMaps /\ x \in LiveIn(mms) /\ x \in Mms /\ m.count >= Cardinality(UsersOf(proc, x))
    BY <1>1, <1>2, <1>3, <1>5, <2>1, HasMm DEF Good, Tidy
  <2>3. ms0 \in MmMaps /\ IsPlus(ms0, x, m, mms)
    BY <2>1, <2>2, Minus
  <2>4. m \in MmStructs
    BY <2>3, PlusFacts
  <2>5. CASE m.count = 1
    <3>1. PICK t, u, v : /\ t = [Context EXCEPT !.mm = m] /\ u = put_pgdir(exit_mmap(t))
                         /\ v = [u EXCEPT !.mm = mm_create]
      OBVIOUS
    <3>2. d = [t |-> v, mms |-> ms0]
      BY <1>1, <1>5, <2>1, <2>5, <3>1 DEF Dropped
    <3>3. At(t, pm.free, pm.ref, m)
      BY <1>2, <2>4, <3>1, ContextFacts
    <3>4. PICK k : k = s + Base(ms0)
      OBVIOUS
    <3>5. Fit(t, k + 1, Owned(ms0), Writers(ms0)) /\ Within(t.mm) /\ Tidy(ms0)
      BY <1>2, <2>3, <3>3, <3>4, TakeFits
    <3>6. /\ Good(u.free, s, u.ref, ms0) /\ u \in Views /\ u.err = t.err
          /\ Private(u.ref, u.from.pte)
      <4>1. IsFreed(u, t, s, ms0)
        BY <1>3, <3>1, <3>4, <3>5, FreedGood
      <4> QED BY <4>1 DEF IsFreed
    <3>7. /\ v \in Views /\ v.free = u.free /\ v.ref = u.ref /\ v.err = u.err /\ v.from = u.from
          /\ v.mm = mm_create
      BY <3>1, <3>6, CreateFacts DEF Views
    <3>8. At(v, v.free, v.ref, mm_create)
      BY <3>3, <3>6, <3>7 DEF At, Ok
    <3>9. UsersOK(pr2, ms0)
      BY <1>1, <1>2, <2>1, <2>2, <2>5, LastUser
    <3>10. d.t = v /\ d.mms = ms0
      BY <3>2
    <3>11. Good(v.free, s, v.ref, ms0)
      BY <3>6, <3>7
    <3> QED BY <1>1, <3>8, <3>9, <3>10, <3>11 DEF IsDropped
  <2>6. CASE m.count # 1
    <3>1. PICK c, n, ms2 : c = m.count - 1 /\ n = [m EXCEPT !.count = c] /\ ms2 = [mms EXCEPT ![x].count = c]
      OBVIOUS
    <3>2. c \in Nat
      <4>1. Cardinality(UsersOf(proc, x)) \in Nat /\ IsFiniteSet(UsersOf(proc, x)) /\ m.count \in Nat
        BY <2>4, UserFacts, MmFacts
      <4>2. p \in UsersOf(proc, x)
        BY <1>1, <1>3 DEF UsersOf
      <4>3. Cardinality(UsersOf(proc, x)) # 0
        BY <4>1, <4>2, FS_EmptySet
      <4> QED BY <2>2, <3>1, <4>1, <4>3
    <3>3. IsPlus(ms0, x, n, ms2) /\ n.count = c
      <4>1. IsPlus(ms0, x, [m EXCEPT !.count = c], [mms EXCEPT ![x].count = c])
        BY <2>3, <3>2, Recounted
      <4>2. [m EXCEPT !.count = c].count = c
        BY <2>3, <3>2, Recounted
      <4> QED BY <3>1, <4>1, <4>2
    <3>4. Good(pm.free, s, pm.ref, ms2)
      BY <1>2, <2>3, <3>1, <3>3, CountGood
    <3>5. UsersOK(pr2, ms2)
      BY <1>1, <1>2, <2>3, <2>6, <3>1, <3>3, OneUserLess
    <3>6. d = [t |-> Context, mms |-> ms2]
      BY <1>1, <1>5, <2>1, <2>6, <3>1 DEF Dropped
    <3>7. d.t = Context /\ d.mms = ms2
      BY <3>6
    <3>8. At(Context, Context.free, Context.ref, mm_create) /\ Context.free = pm.free /\ Context.ref = pm.ref
      BY <1>2, ContextFacts DEF At
    <3> QED BY <1>1, <3>4, <3>5, <3>7, <3>8 DEF IsDropped
  <2> QED BY <2>5, <2>6
<1> QED BY <1>4, <1>5

-----------------------------------------------------------------------------
(* The steps *)

LEMMA WorldFacts ==
  ASSUME NEW P, NEW ms, NEW pr, World(P, ms, pr)
  PROVE  /\ P \in PageRecs /\ ProcsOK(pr) /\ Good(P.free, StacksOf(pr), P.ref, ms) /\ UsersOK(pr, ms)
         /\ ms \in MmMaps /\ StacksOf(pr) \in Nat /\ P.free \in Nat
         /\ \A p \in Procs : pr[p] \in ProcRecs /\ pr[p].mm \in Mms \cup {None}
<1>1. P \in PageRecs /\ ProcsOK(pr) /\ Good(P.free, StacksOf(pr), P.ref, ms) /\ UsersOK(pr, ms)
  BY DEF World
<1>2. ms \in MmMaps /\ P.free \in Nat
  BY <1>1 DEF Good, Tidy
<1>3. \A p \in Procs : pr[p] \in ProcRecs /\ pr[p].mm \in Mms \cup {None}
  BY <1>1 DEF ProcsOK, ProcRecs
<1> QED BY <1>1, <1>2, <1>3, StackFacts

\* The pages of a view, with the world around it.
LEMMA PagesWorld ==
  ASSUME NEW t \in Views, NEW pr, ProcsOK(pr), NEW ms, NEW s, s = StacksOf(pr),
         Good(t.free, s, t.ref, ms), UsersOK(pr, ms)
  PROVE  World(Pages(t), ms, pr)
<1>1. Pages(t) \in PageRecs /\ Pages(t).free = t.free /\ Pages(t).ref = t.ref
  BY ViewFacts DEF Pages, PageRecs
<1> QED BY <1>1 DEF World

\* A kernel stack is allocated, or given back.
IsTaken(u, t, s, r, ms, m) ==
  \E G : Good(G, s + 1, r, ms) /\ At(u, G, r, m) /\ u.from = t.from

LEMMA StackTaken ==
  ASSUME NEW F, NEW s, NEW r, NEW ms, Good(F, s, r, ms), NEW t, NEW m, At(t, F, r, m),
         Ok(alloc_page(t))
  PROVE  IsTaken(alloc_page(t), t, s, r, ms, m)
<1>1. PICK u : u = alloc_page(t)
  OBVIOUS
<1>2. t \in Views /\ t.free = F /\ t.ref = r /\ t.mm = m /\ Ok(t) /\ Private(r, t.from.pte)
  BY DEF At
<1>3. u \in Views /\ u.ref = t.ref /\ u.mm = t.mm /\ u.from = t.from
  BY <1>1, <1>2, AllocFacts
<1>4. u.free = t.free - 1 /\ t.free >= 1
  <2>1. u.err # "NO_MEM"
    BY <1>1 DEF Ok
  <2> QED BY <1>1, <1>2, <2>1, AllocFacts
<1>5. s \in Nat /\ s + 1 \in Nat /\ F \in Nat /\ u.free \in Nat /\ u.free + (s + 1) <= F + s
  BY <1>2, <1>4 DEF Good
<1>6. Good(u.free, s + 1, r, ms)
  BY <1>5, GoodMoves
<1>7. At(u, u.free, r, m)
  BY <1>1, <1>2, <1>3 DEF At
<1> QED BY <1>1, <1>3, <1>6, <1>7 DEF IsTaken

LEMMA StackBack ==
  ASSUME NEW t \in Views, NEW s \in Nat, NEW ms, Good(t.free, s + 1, t.ref, ms)
  PROVE  free_page(t) \in Views /\ Good(free_page(t).free, s, free_page(t).ref, ms)
<1>1. PICK u : u = free_page(t)
  OBVIOUS
<1>2. u \in Views /\ u.ref = t.ref /\ u.free = t.free + 1
  BY <1>1, FreePageFacts
<1>3. t.free \in Nat /\ u.free \in Nat /\ u.free + s <= t.free + (s + 1)
  BY <1>2 DEF Good
<1>4. Good(u.free, s, t.ref, ms)
  BY <1>3, GoodMoves
<1> QED BY <1>1, <1>2, <1>4

LEMMA ForkShareStep ==
  ASSUME World(pm, mms, proc), NEW p \in Procs, NEW q \in Procs, NEW filesFail \in BOOLEAN,
         fork_share(p, q, filesFail)
  PROVE  World(pm', mms', proc')
<1>1. PICK t, x, s : t = alloc_page(Context) /\ x = proc[p].mm /\ s = StacksOf(proc)
  OBVIOUS
<1>2. /\ pm \in PageRecs /\ ProcsOK(proc) /\ Good(pm.free, s, pm.ref, mms) /\ UsersOK(proc, mms)
      /\ mms \in MmMaps /\ s \in Nat /\ x \in Mms \cup {None}
  BY <1>1, WorldFacts
<1>3. /\ proc[q].st = "none" /\ Ok(t)
      /\ mms' = IF x = None THEN mms ELSE [mms EXCEPT ![x].count = @ + 1]
      /\ \/ filesFail /\ pm' = Pages(free_page(t)) /\ proc' = proc
         \/ ~filesFail /\ pm' = Pages(t) /\ proc' = [proc EXCEPT ![q] = [st |-> "alive", mm |-> x]]
  BY <1>1 DEF fork_share
<1>4. PICK F : Good(F, s + 1, pm.ref, mms) /\ At(t, F, pm.ref, mm_create)
  <2>1. At(Context, pm.free, pm.ref, mm_create)
    BY <1>2, ContextFacts
  <2>2. IsTaken(t, Context, s, pm.ref, mms, mm_create)
    BY <1>1, <1>2, <1>3, <2>1, StackTaken
  <2> QED BY <2>2 DEF IsTaken
<1>5. PICK e : e = [st |-> "alive", mm |-> x]
  OBVIOUS
<1>6. e \in ProcRecs /\ e.st = "alive" /\ e.mm = x
  BY <1>2, <1>5 DEF ProcRecs
<1>7. q # Init0 /\ proc[q].mm = None
  BY <1>2, <1>3 DEF ProcsOK
<1>8. PICK made : made = [proc EXCEPT ![q] = e]
  OBVIOUS
<1>9. IsProc(proc, q, e, made)
  BY <1>6, <1>8 DEF IsProc
<1>10. ProcsOK(made) /\ StacksOf(made) = s + 1
  BY <1>1, <1>2, <1>3, <1>6, <1>7, <1>9, ProcFacts, StackSteps
<1>11. Good(F, s + 1, pm.ref, mms') /\ UsersOK(proc, mms') /\ UsersOK(made, mms')
  <2>1. CASE x = None
    <3>1. UsersOK(made, mms)
      BY <1>2, <1>6, <1>7, <1>9, <2>1, NoUser
    <3>2. mms' = mms
      BY <1>3, <2>1
    <3> QED BY <1>2, <1>4, <3>1, <3>2
  <2>2. CASE x # None
    <3>1. x \in LiveIn(mms) /\ x \in Mms /\ mms[x].count >= Cardinality(UsersOf(proc, x))
      BY <1>1, <1>2, <2>2, HasMm
    <3>2. PICK m, ms0, c : m = mms[x] /\ ms0 = [mms EXCEPT ![x] = None] /\ c = m.count + 1
      OBVIOUS
    <3>3. ms0 \in MmMaps /\ IsPlus(ms0, x, m, mms)
      BY <1>2, <3>1, <3>2, Minus
    <3>4. m.count \in Nat /\ c \in Nat
      BY <3>2, <3>3, PlusFacts, MmFacts
    <3>5. PICK n, ms2 : n = [m EXCEPT !.count = c] /\ ms2 = [mms EXCEPT ![x].count = c]
      OBVIOUS
    <3>6. IsPlus(ms0, x, n, ms2) /\ n.count = c
      <4>1. IsPlus(ms0, x, [m EXCEPT !.count = c], [mms EXCEPT ![x].count = c])
        BY <3>3, <3>4, Recounted
      <4>2. [m EXCEPT !.count = c].count = c
        BY <3>3, <3>4, Recounted
      <4> QED BY <3>5, <4>1, <4>2
    <3>7. Good(F, s + 1, pm.ref, ms2)
      BY <1>4, <3>3, <3>5, <3>6, CountGood
    <3>8. mms' = ms2
      BY <1>3, <2>2, <3>2, <3>5
    <3>9. ms2[x] = n /\ n # None /\ \A y \in Mms : y # x => ms2[y] = mms[y]
      <4>1. ms2[x] = n /\ n # None
        BY <3>3, <3>6, PlusFacts
      <4> QED BY <1>2, <3>5, <4>1 DEF MmMaps
    <3>10. Cardinality(UsersOf(proc, x)) \in Nat
      BY UserFacts
    <3>11. UsersOK(proc, ms2)
      <4>1. Held(proc, ms2, x)
        BY <3>1, <3>2, <3>4, <3>6, <3>9, <3>10 DEF Held
      <4> QED BY <1>2, <3>9, <4>1, HeldSteps
    <3>12. UsersOK(made, ms2)
      <4>1. Cardinality(UsersOf(made, x)) = Cardinality(UsersOf(proc, x)) + 1
        BY <1>2, <1>6, <1>7, <1>9, <2>2, UserSteps
      <4>2. Held(made, ms2, x)
        BY <3>1, <3>2, <3>4, <3>6, <3>9, <3>10, <4>1 DEF Held
      <4>3. \A y \in Mms : y # x => UsersOf(made, y) = UsersOf(proc, y)
        BY <1>2, <1>6, <1>7, <1>9, SizeFacts, UserSteps
      <4> QED BY <1>2, <3>9, <4>2, <4>3, HeldSteps
    <3> QED BY <3>7, <3>8, <3>11, <3>12
  <2> QED BY <2>1, <2>2
<1>12. t \in Views /\ Good(t.free, s + 1, t.ref, mms')
  BY <1>4, <1>11 DEF At
<1>13. CASE filesFail
  <2>1. free_page(t) \in Views /\ Good(free_page(t).free, s, free_page(t).ref, mms')
    BY <1>2, <1>12, StackBack
  <2>2. World(Pages(free_page(t)), mms', proc)
    BY <1>1, <1>2, <1>11, <2>1, PagesWorld
  <2> QED BY <1>3, <1>13, <2>2
<1>14. CASE ~filesFail
  <2>1. World(Pages(t), mms', made)
    BY <1>10, <1>11, <1>12, PagesWorld
  <2> QED BY <1>3, <1>5, <1>8, <1>14, <2>1
<1> QED BY <1>13, <1>14

LEMMA ZombieIs ==
  ASSUME NEW pr \in [Procs -> ProcRecs], NEW p \in Procs
  PROVE  [pr EXCEPT ![p].st = "zombie", ![p].mm = None] = [pr EXCEPT ![p] = [st |-> "zombie", mm |-> None]]
<1>1. PICK a, b : a = [pr EXCEPT ![p].st = "zombie", ![p].mm = None] /\ b = [pr EXCEPT ![p] = [st |-> "zombie", mm |-> None]]
  OBVIOUS
<1>2. pr[p] \in ProcRecs
  OBVIOUS
<1>3. [[pr[p] EXCEPT !.st = "zombie"] EXCEPT !.mm = None] = [st |-> "zombie", mm |-> None]
  <2>1. PICK e : e = pr[p]
    OBVIOUS
  <2>2. e = [st |-> e.st, mm |-> e.mm]
    BY <1>2, <2>1 DEF ProcRecs
  <2>3. [e EXCEPT !.st = "zombie"] = [st |-> "zombie", mm |-> e.mm]
    BY <2>2
  <2>4. [[st |-> "zombie", mm |-> e.mm] EXCEPT !.mm = None] = [st |-> "zombie", mm |-> None]
    OBVIOUS
  <2> QED BY <2>1, <2>3, <2>4, Zenon
<1>4. a[p] = b[p]
  BY <1>1, <1>3
<1>5. \A q \in Procs : q # p => a[q] = b[q]
  BY <1>1
<1>6. a = [q \in Procs |-> a[q]] /\ b = [q \in Procs |-> b[q]]
  BY <1>1
<1> QED BY <1>1, <1>4, <1>5, <1>6

LEMMA ExitStep ==
  ASSUME World(pm, mms, proc), NEW p \in Procs, do_exit(p)
  PROVE  World(pm', mms', proc')
<1>1. PICK d, s, e : d = Dropped(p) /\ s = StacksOf(proc) /\ e = [st |-> "zombie", mm |-> None]
  OBVIOUS
<1>2. ProcsOK(proc) /\ proc \in [Procs -> ProcRecs] /\ s \in Nat
  BY <1>1, WorldFacts DEF ProcsOK
<1>3. /\ proc[p].st = "alive" /\ p # Init0
      /\ pm' = Pages(d.t) /\ mms' = d.mms
      /\ proc' = [proc EXCEPT ![p].st = "zombie", ![p].mm = None]
  BY <1>1 DEF do_exit, Alive
<1>4. e \in ProcRecs /\ e.st = "zombie" /\ e.mm = None
  BY <1>1 DEF ProcRecs
<1>5. PICK pr2 : pr2 = [proc EXCEPT ![p] = e]
  OBVIOUS
<1>6. IsProc(proc, p, e, pr2)
  BY <1>4, <1>5 DEF IsProc
<1>7. proc' = pr2
  BY <1>1, <1>2, <1>3, <1>5, ZombieIs
<1>8. ProcsOK(pr2) /\ StacksOf(pr2) = s
  BY <1>1, <1>2, <1>3, <1>4, <1>6, ProcFacts, StackSteps
<1>9. IsDropped(d, s, pr2)
  BY <1>1, <1>4, <1>6, DroppedFacts
<1>10. d.t \in Views /\ Good(d.t.free, s, d.t.ref, d.mms) /\ UsersOK(pr2, d.mms)
  BY <1>9 DEF IsDropped, At
<1>11. World(Pages(d.t), d.mms, pr2)
  BY <1>8, <1>10, PagesWorld
<1> QED BY <1>3, <1>7, <1>11

LEMMA WaitStep ==
  ASSUME World(pm, mms, proc), NEW p \in Procs, do_wait(p)
  PROVE  World(pm', mms', proc')
<1>1. PICK s, pr2 : s = StacksOf(proc) /\ pr2 = [proc EXCEPT ![p] = Gone]
  OBVIOUS
<1>2. /\ pm \in PageRecs /\ ProcsOK(proc) /\ Good(pm.free, s, pm.ref, mms) /\ UsersOK(proc, mms)
      /\ mms \in MmMaps /\ s \in Nat
  BY <1>1, WorldFacts
<1>3. /\ proc[p].st = "zombie" /\ pm' = Pages(free_page(Context)) /\ proc' = pr2 /\ mms' = mms
  BY <1>1 DEF do_wait
<1>4. p # Init0 /\ proc[p].mm = None /\ Gone.st = "none" /\ Gone.mm = None /\ Gone \in ProcRecs
  BY <1>2, <1>3 DEF ProcsOK, Gone, ProcRecs
<1>5. IsProc(proc, p, Gone, pr2)
  BY <1>1, <1>4 DEF IsProc
<1>6. ProcsOK(pr2) /\ StacksOf(pr2) = s - 1 /\ StacksOf(pr2) \in Nat
  <2>1. ProcsOK(pr2)
    BY <1>2, <1>4, <1>5, ProcFacts
  <2>2. StacksOf(pr2) = s - 1
    BY <1>1, <1>2, <1>3, <1>4, <1>5, StackSteps
  <2> QED BY <2>1, <2>2, StackFacts
<1>7. UsersOK(pr2, mms)
  BY <1>2, <1>4, <1>5, NoUser
<1>8. At(Context, pm.free, pm.ref, mm_create)
  BY <1>2, ContextFacts
<1>9. PICK z : z = StacksOf(pr2)
  OBVIOUS
<1>10. z \in Nat /\ s = z + 1
  BY <1>2, <1>6, <1>9
<1>11. Context \in Views /\ Good(Context.free, z + 1, Context.ref, mms)
  BY <1>2, <1>8, <1>10 DEF At
<1>12. free_page(Context) \in Views /\ Good(free_page(Context).free, z, free_page(Context).ref, mms)
  BY <1>10, <1>11, StackBack
<1>13. World(Pages(free_page(Context)), mms, pr2)
  BY <1>6, <1>7, <1>9, <1>12, PagesWorld
<1> QED BY <1>3, <1>13

LEMMA StoreStep ==
  ASSUME World(pm, mms, proc), NEW p \in Procs, NEW la \in Addrs, NEW v \in Values, store(p, la, v)
  PROVE  World(pm', mms', proc')
<1>1. PICK f : f = Pte(p, la).frame
  OBVIOUS
<1>2. /\ pm \in PageRecs /\ ProcsOK(proc) /\ Good(pm.free, StacksOf(proc), pm.ref, mms)
      /\ UsersOK(proc, mms)
  BY WorldFacts
<1>3. pm' = [pm EXCEPT !.data[f] = v] /\ mms' = mms /\ proc' = proc
  BY <1>1 DEF store
<1>4. pm'.free = pm.free /\ pm'.ref = pm.ref /\ pm' \in PageRecs
  BY <1>2, <1>3 DEF PageRecs, DataMaps
<1> QED BY <1>2, <1>3, <1>4 DEF World

\* A name for a new mm, and the mm there.
LEMMA NewUser ==
  ASSUME NEW pr, ProcsOK(pr), NEW ms \in MmMaps, UsersOK(pr, ms), NEW y, NEW n, NEW made,
         IsPlus(ms, y, n, made)
  PROVE  /\ UsersOf(pr, y) = {} /\ UsersOK(pr, made)
         /\ n.count = 1 => \A p, e, pr2 : IsProc(pr, p, e, pr2) /\ pr[p].mm = None /\ e.mm = y
                             => UsersOK(pr2, made)
<1>1. y \in Mms /\ ms[y] = None /\ made[y] = n /\ n # None /\ made = [ms EXCEPT ![y] = n]
  BY PlusFacts DEF IsPlus
<1>2. UsersOf(pr, y) = {}
  BY <1>1 DEF UsersOK, Held
<1>3. \A z \in Mms : z # y => made[z] = ms[z]
  BY <1>1 DEF MmMaps
<1>4. UsersOK(pr, made)
  <2>1. Held(pr, made, y)
    BY <1>2 DEF Held
  <2> QED BY <1>3, <2>1, HeldSteps
<1>5. ASSUME n.count = 1, NEW p, NEW e, NEW pr2, IsProc(pr, p, e, pr2), pr[p].mm = None, e.mm = y
      PROVE UsersOK(pr2, made)
  <2>1. y # None
    BY <1>1, SizeFacts
  <2>2. Cardinality(UsersOf(pr2, y)) = Cardinality(UsersOf(pr, y)) + 1
    BY <1>5, <2>1, UserSteps
  <2>3. Cardinality(UsersOf(pr2, y)) = 1
    BY <1>2, <2>2, FS_EmptySet
  <2>4. Held(pr2, made, y)
    BY <1>1, <1>5, <2>3 DEF Held
  <2>5. ASSUME NEW z \in Mms, z # y PROVE UsersOf(pr2, z) = UsersOf(pr, z)
    <3>1. z # None
      BY SizeFacts
    <3> QED BY <1>5, <2>5, <3>1, UserSteps
  <2> QED BY <1>3, <2>4, <2>5, HeldSteps
<1> QED BY <1>2, <1>4, <1>5

LEMMA ForkCopyStep ==
  ASSUME World(pm, mms, proc), NEW p \in Procs, NEW q \in Procs, NEW vmaFail,
         NEW filesFail \in BOOLEAN, fork_copy(p, q, vmaFail, filesFail)
  PROVE  World(pm', mms', proc')
<1>1. PICK x, s, m, ms0 : /\ x = proc[p].mm /\ s = StacksOf(proc)
                          /\ m = mms[x] /\ ms0 = [mms EXCEPT ![x] = None]
  OBVIOUS
<1>2. /\ pm \in PageRecs /\ ProcsOK(proc) /\ Good(pm.free, s, pm.ref, mms) /\ UsersOK(proc, mms)
      /\ mms \in MmMaps /\ s \in Nat /\ x \in Mms \cup {None}
  BY <1>1, WorldFacts
<1>3. PICK k0, k, t : /\ k0 = [Context EXCEPT !.from = m] /\ k = alloc_page(k0)
                      /\ t = copy_mm(k, vmaFail)
  OBVIOUS
<1>4. PICK y, kept, n, made : /\ y = SpareMm /\ kept = [mms EXCEPT ![x] = t.from]
                              /\ n = [t.mm EXCEPT !.count = 1] /\ made = [kept EXCEPT ![y] = n]
  OBVIOUS
<1>5. /\ x # None /\ proc[q].st = "none" /\ y \in Mms /\ mms[y] = None /\ Ok(k)
      /\ \/ Fails(t) /\ pm' = pm /\ mms' = mms /\ proc' = proc
         \/ ~Fails(t) /\ ~Ok(t) /\ pm' = Pages(free_page(t)) /\ mms' = kept /\ proc' = proc
         \/ Ok(t) /\ pm' = Pages(free_page(t)) /\ mms' = made /\ proc' = proc
         \/ /\ Ok(t) /\ pm' = Pages(t) /\ mms' = made
            /\ proc' = [proc EXCEPT ![q] = [st |-> "alive", mm |-> y]]
  <2>1. x # None /\ proc[q].st = "none" /\ \E z \in Mms : mms[z] = None
    BY <1>1 DEF fork_copy, User
  <2>2. y \in Mms /\ mms[y] = None
    BY <1>4, <2>1 DEF SpareMm
  <2>3. /\ Ok(k)
        /\ \/ Fails(t) /\ Panic(t)
           \/ ~Fails(t) /\ ~Ok(t) /\ pm' = Pages(free_page(t)) /\ mms' = kept
                        /\ UNCHANGED <<proc, fault>>
           \/ Ok(t) /\ filesFail /\ pm' = Pages(free_page(t)) /\ mms' = made
                    /\ UNCHANGED <<proc, fault>>
           \/ /\ Ok(t) /\ ~filesFail /\ pm' = Pages(t) /\ mms' = made
              /\ proc' = [proc EXCEPT ![q] = [st |-> "alive", mm |-> y]]
              /\ UNCHANGED fault
    BY <1>1, <1>3, <1>4 DEF fork_copy
  <2> QED BY <2>1, <2>2, <2>3 DEF Panic
<1>6. x \in Mms /\ x \in LiveIn(mms)
  BY <1>1, <1>2, <1>5, HasMm
<1>7. ms0 \in MmMaps /\ IsPlus(ms0, x, m, mms) /\ m \in MmStructs
  <2>1. ms0 \in MmMaps /\ IsPlus(ms0, x, m, mms)
    BY <1>1, <1>2, <1>6, Minus
  <2> QED BY <2>1, PlusFacts
<1>8. At(k0, pm.free, pm.ref, mm_create) /\ k0.from = m
  <2>1. Private(pm.ref, m.pte)
    BY <1>1, <1>2, <1>6 DEF Good
  <2> QED BY <1>2, <1>3, <1>7, <2>1, ContextFacts
<1>9. PICK F : Good(F, s + 1, pm.ref, mms) /\ At(k, F, pm.ref, mm_create) /\ k.from = m
  <2>1. IsTaken(k, k0, s, pm.ref, mms, mm_create)
    BY <1>2, <1>3, <1>5, <1>8, StackTaken
  <2> QED BY <1>8, <2>1 DEF IsTaken
<1>10. /\ SamePages(m, t.from) /\ t \in Views /\ Tidy(kept) /\ IsPlus(ms0, x, t.from, kept)
       /\ Ok(t) => \A z, h, full : IsPlus(kept, z, h, full) /\ h = [t.mm EXCEPT !.count = h.count]
                     => Good(t.free, s + 1, t.ref, full)
       /\ ~Ok(t) /\ ~Fails(t) => Good(t.free, s + 1, t.ref, kept)
  <2>1. IsCopied(t, m, s + 1, ms0, x, kept)
    BY <1>3, <1>4, <1>7, <1>9, CopyWorld
  <2> QED BY <2>1 DEF IsCopied
<1>11. UsersOK(proc, kept) /\ kept \in MmMaps /\ kept[y] = None
  <2>1. kept[x] = t.from /\ t.from # None
    BY <1>7, <1>10, PlusFacts
  <2>2. \A z \in Mms : z # x => kept[z] = mms[z]
    BY <1>2, <1>4 DEF MmMaps
  <2>3. t.from.count = m.count
    BY <1>10 DEF SamePages, Alike
  <2>4. Held(proc, mms, x)
    BY <1>2, <1>6 DEF UsersOK
  <2>5. Held(proc, kept, x)
    BY <1>1, <2>1, <2>3, <2>4 DEF Held
  <2>6. UsersOK(proc, kept)
    BY <1>2, <2>2, <2>5, HeldSteps
  <2>7. y # x
    BY <1>5, <1>6 DEF LiveIn
  <2> QED BY <1>5, <1>10, <2>2, <2>6, <2>7 DEF Tidy
<1>12. n \in MmStructs /\ n.count = 1
  BY <1>4, <1>10, ViewFacts DEF MmStructs
<1>13. IsPlus(kept, y, n, made)
  BY <1>4, <1>5, <1>11, <1>12 DEF IsPlus
<1>14. ASSUME Ok(t) PROVE Good(t.free, s + 1, t.ref, made)
  <2>1. n = [t.mm EXCEPT !.count = n.count]
    BY <1>4, <1>12
  <2> QED BY <1>10, <1>13, <1>14, <2>1
<1>15. PICK e, pr2 : e = [st |-> "alive", mm |-> y] /\ pr2 = [proc EXCEPT ![q] = e]
  OBVIOUS
<1>16. e \in ProcRecs /\ e.st = "alive" /\ e.mm = y
  BY <1>5, <1>15 DEF ProcRecs
<1>17. q # Init0 /\ proc[q].mm = None
  BY <1>2, <1>5 DEF ProcsOK
<1>18. IsProc(proc, q, e, pr2)
  BY <1>15, <1>16 DEF IsProc
<1>19. ProcsOK(pr2) /\ StacksOf(pr2) = s + 1
  BY <1>1, <1>2, <1>5, <1>16, <1>17, <1>18, ProcFacts, StackSteps
<1>20. UsersOK(proc, made) /\ UsersOK(pr2, made)
  BY <1>2, <1>11, <1>12, <1>13, <1>16, <1>17, <1>18, NewUser
<1>21. CASE Fails(t) /\ pm' = pm /\ mms' = mms /\ proc' = proc
  BY <1>21
<1>22. CASE ~Fails(t) /\ ~Ok(t) /\ pm' = Pages(free_page(t)) /\ mms' = kept /\ proc' = proc
  <2>1. free_page(t) \in Views /\ Good(free_page(t).free, s, free_page(t).ref, kept)
    BY <1>2, <1>10, <1>22, StackBack
  <2>2. World(Pages(free_page(t)), kept, proc)
    BY <1>1, <1>2, <1>11, <2>1, PagesWorld
  <2> QED BY <1>22, <2>2
<1>23. CASE Ok(t) /\ pm' = Pages(free_page(t)) /\ mms' = made /\ proc' = proc
  <2>1. free_page(t) \in Views /\ Good(free_page(t).free, s, free_page(t).ref, made)
    BY <1>2, <1>10, <1>14, <1>23, StackBack
  <2>2. World(Pages(free_page(t)), made, proc)
    BY <1>1, <1>2, <1>20, <2>1, PagesWorld
  <2> QED BY <1>23, <2>2
<1>24. CASE /\ Ok(t) /\ pm' = Pages(t) /\ mms' = made
            /\ proc' = [proc EXCEPT ![q] = [st |-> "alive", mm |-> y]]
  <2>1. World(Pages(t), made, pr2)
    BY <1>10, <1>14, <1>19, <1>20, <1>24, PagesWorld
  <2> QED BY <1>15, <1>24, <2>1
<1> QED BY <1>5, <1>21, <1>22, <1>23, <1>24

\* What load_icode makes of a world in which nothing is at work.
IsLoaded(u, t, s, ms) ==
  /\ Ok(u) => /\ u \in Views
              /\ \A x, n, made : IsPlus(ms, x, n, made) /\ n = [u.mm EXCEPT !.count = n.count]
                   => Good(u.free, s, u.ref, made)
  /\ ~Ok(u) /\ ~Fails(u) => u \in Views /\ Good(u.free, s, u.ref, ms)

LEMMA LoadWorld ==
  ASSUME NEW F, NEW s, NEW r, NEW ms, Good(F, s, r, ms), NEW t, At(t, F, r, mm_create),
         NEW prog \in Seq(Vmas), NEW readFail, NEW u, u = load_icode(t, prog, readFail)
  PROVE  IsLoaded(u, t, s, ms)
<1>1. PICK k, b, w : k = s + Base(ms) /\ b = Owned(ms) /\ w = Writers(ms)
  OBVIOUS
<1>2. k \in Nat /\ b \in RefMaps /\ w \subseteq Frames /\ s \in Nat /\ Tidy(ms) /\ k + 1 \in Nat
  BY <1>1, WorldFinite DEF Good
<1>3. Fit(t, k, b, w) /\ Empty(t.mm.pte) /\ Ok(t)
  BY <1>1, NewFits DEF At
<1>4. /\ Ok(u) => Fit(u, k + 1, b, w) /\ Within(u.mm)
      /\ ~Ok(u) /\ ~Fails(u) => Fit(u, k, b, w) /\ Empty(u.mm.pte)
  BY <1>2, <1>3, LoadIcodeFits
<1>5. ASSUME Ok(u), NEW x, NEW n, NEW made, IsPlus(ms, x, n, made), n = [u.mm EXCEPT !.count = n.count]
      PROVE  Good(u.free, s, u.ref, made)
  BY <1>1, <1>2, <1>4, <1>5, PutGood
<1>6. ASSUME ~Ok(u), ~Fails(u) PROVE Good(u.free, s, u.ref, ms)
  BY <1>1, <1>2, <1>4, <1>6, BackGood
<1>7. Ok(u) \/ ~Fails(u) => u \in Views
  BY <1>4 DEF Fit
<1> QED BY <1>5, <1>6, <1>7 DEF IsLoaded

LEMMA ExecveStep ==
  ASSUME World(pm, mms, proc), NEW p \in Procs, NEW prog \in Programs, NEW readFail,
         do_execve(p, prog, readFail)
  PROVE  World(pm', mms', proc')
<1>1. PICK old, s, e, pr2 : /\ old = Dropped(p) /\ s = StacksOf(proc)
                            /\ e = [st |-> "zombie", mm |-> None] /\ pr2 = [proc EXCEPT ![p] = e]
  OBVIOUS
<1>2. PICK x, t, n, made : /\ x = CHOOSE y \in Mms : old.mms[y] = None
                           /\ t = load_icode(old.t, prog, readFail)
                           /\ n = [t.mm EXCEPT !.count = 1] /\ made = [old.mms EXCEPT ![x] = n]
  OBVIOUS
<1>3. ProcsOK(proc) /\ proc \in [Procs -> ProcRecs] /\ s \in Nat
  BY <1>1, WorldFacts DEF ProcsOK
<1>4. /\ proc[p].st = "alive" /\ p # Init0 /\ x \in Mms /\ old.mms[x] = None
      /\ \/ pm' = pm /\ mms' = mms /\ proc' = proc
         \/ /\ ~Fails(t) /\ ~Ok(t) /\ pm' = Pages(t) /\ mms' = old.mms
            /\ proc' = [proc EXCEPT ![p].st = "zombie", ![p].mm = None]
         \/ Ok(t) /\ pm' = Pages(t) /\ mms' = made /\ proc' = [proc EXCEPT ![p].mm = x]
  <2>1. proc[p].st = "alive" /\ p # Init0 /\ \E y \in Mms : old.mms[y] = None
    BY <1>1 DEF do_execve, Alive
  <2>2. x \in Mms /\ old.mms[x] = None
    BY <1>2, <2>1
  <2>3. \/ Fails(t) /\ Panic(t)
        \/ /\ ~Fails(t) /\ ~Ok(t)
           /\ pm' = Pages(t) /\ mms' = old.mms
           /\ proc' = [proc EXCEPT ![p].st = "zombie", ![p].mm = None]
           /\ UNCHANGED fault
        \/ /\ Ok(t)
           /\ pm' = Pages(t) /\ mms' = made
           /\ proc' = [proc EXCEPT ![p].mm = x]
           /\ UNCHANGED fault
    BY <1>1, <1>2 DEF do_execve
  <2> QED BY <2>1, <2>2, <2>3 DEF Panic
<1>5. e \in ProcRecs /\ e.st = "zombie" /\ e.mm = None
  BY <1>1 DEF ProcRecs
<1>6. IsProc(proc, p, e, pr2)
  BY <1>1, <1>5 DEF IsProc
<1>7. ProcsOK(pr2) /\ StacksOf(pr2) = s /\ pr2[p] = e
  BY <1>1, <1>3, <1>4, <1>5, <1>6, ProcFacts, StackSteps
<1>8. IsDropped(old, s, pr2)
  BY <1>1, <1>5, <1>6, DroppedFacts
<1>9. /\ At(old.t, old.t.free, old.t.ref, mm_create)
      /\ Good(old.t.free, s, old.t.ref, old.mms) /\ UsersOK(pr2, old.mms) /\ old.mms \in MmMaps
  BY <1>8 DEF IsDropped, Good, Tidy
<1>10. IsLoaded(t, old.t, s, old.mms)
  BY <1>2, <1>9, SizeFacts, LoadWorld
<1>11. CASE pm' = pm /\ mms' = mms /\ proc' = proc
  BY <1>11
<1>12. CASE /\ ~Fails(t) /\ ~Ok(t) /\ pm' = Pages(t) /\ mms' = old.mms
            /\ proc' = [proc EXCEPT ![p].st = "zombie", ![p].mm = None]
  <2>1. t \in Views /\ Good(t.free, s, t.ref, old.mms)
    BY <1>10, <1>12 DEF IsLoaded
  <2>2. World(Pages(t), old.mms, pr2)
    BY <1>7, <1>9, <2>1, PagesWorld
  <2>3. proc' = pr2
    BY <1>1, <1>3, <1>12, ZombieIs
  <2> QED BY <1>12, <2>2, <2>3
<1>13. CASE Ok(t) /\ pm' = Pages(t) /\ mms' = made /\ proc' = [proc EXCEPT ![p].mm = x]
  <2>1. t \in Views
    BY <1>10, <1>13 DEF IsLoaded
  <2>2. n \in MmStructs /\ n.count = 1 /\ n = [t.mm EXCEPT !.count = n.count]
    BY <1>2, <2>1, ViewFacts DEF MmStructs
  <2>3. IsPlus(old.mms, x, n, made)
    BY <1>2, <1>4, <2>2 DEF IsPlus
  <2>4. Good(t.free, s, t.ref, made)
    BY <1>10, <1>13, <2>2, <2>3 DEF IsLoaded
  <2>5. PICK g, pr3 : g = [st |-> "alive", mm |-> x] /\ pr3 = [pr2 EXCEPT ![p] = g]
    OBVIOUS
  <2>6. g \in ProcRecs /\ g.st = "alive" /\ g.mm = x
    BY <1>4, <2>5 DEF ProcRecs
  <2>7. IsProc(pr2, p, g, pr3)
    BY <2>5, <2>6 DEF IsProc
  <2>8. ProcsOK(pr3) /\ StacksOf(pr3) = s
    BY <1>4, <1>5, <1>7, <2>6, <2>7, ProcFacts, StackSteps
  <2>9. UsersOK(pr3, made)
    BY <1>5, <1>7, <1>9, <2>2, <2>3, <2>6, <2>7, NewUser
  <2>10. World(Pages(t), made, pr3)
    BY <2>1, <2>4, <2>8, <2>9, PagesWorld
  <2>11. proc' = pr3
    <3>1. PICK a : a = proc[p]
      OBVIOUS
    <3>2. a = [st |-> a.st, mm |-> a.mm]
      BY <1>3, <3>1 DEF ProcRecs
    <3>3. [a EXCEPT !.mm = x] = g
      BY <1>4, <2>5, <3>1, <3>2
    <3>4. proc' = [proc EXCEPT ![p] = g]
      BY <1>13, <3>1, <3>3
    <3> QED BY <1>1, <1>3, <2>5, <3>4
  <2> QED BY <1>13, <2>10, <2>11
<1> QED BY <1>4, <1>11, <1>12, <1>13

\* An mm that a page fault worked on.
IsFaulted(u, t, k, ms0, m) ==
  /\ Fit(u, k + 1, Owned(ms0), Writers(ms0)) /\ Within(u.mm) /\ Tidy(ms0)
  /\ u \in Views /\ u.mm \in MmStructs /\ u.mm.count = m.count

LEMMA FaultWorld ==
  ASSUME pm \in PageRecs, NEW s, Good(pm.free, s, pm.ref, mms), NEW ms0 \in MmMaps, NEW x, NEW m,
         IsPlus(ms0, x, m, mms), NEW k, k = s + Base(ms0), NEW la \in Addrs, NEW write \in BOOLEAN,
         NEW t, t = [Context EXCEPT !.mm = m], NEW u, u = Faulted(t, la, write)
  PROVE  IsFaulted(u, t, k, ms0, m)
<1>1. m \in MmStructs
  BY PlusFacts
<1>2. At(t, pm.free, pm.ref, m)
  BY <1>1, ContextFacts
<1>3. Fit(t, k + 1, Owned(ms0), Writers(ms0)) /\ Within(t.mm) /\ Tidy(ms0) /\ k \in Nat
  BY <1>2, TakeFits
<1>4. Ok(t) /\ t.mm = m
  BY <1>2 DEF At
<1>5. Owned(ms0) \in RefMaps /\ Writers(ms0) \subseteq Frames /\ k + 1 \in Nat
  BY <1>3, WorldFinite
<1>6. Fit(u, k + 1, Owned(ms0), Writers(ms0)) /\ Within(u.mm) /\ Alike(t.mm, u.mm)
  BY <1>3, <1>4, <1>5, FaultedFits
<1>7. u \in Views
  BY <1>6 DEF Fit
<1> QED BY <1>3, <1>4, <1>6, <1>7, ViewFacts DEF IsFaulted, Alike

LEMMA PgfaultStep ==
  ASSUME World(pm, mms, proc), NEW p \in Procs, NEW la \in Addrs, NEW write \in BOOLEAN,
         do_pgfault(p, la, write) \/ do_pgfault_killed(p, la, write)
  PROVE  World(pm', mms', proc')
<1>1. PICK x, s, m, ms0, t : /\ x = proc[p].mm /\ s = StacksOf(proc)
                             /\ m = mms[x] /\ ms0 = [mms EXCEPT ![x] = None]
                             /\ t = [Context EXCEPT !.mm = m]
  OBVIOUS
<1>2. PICK u, k : u = Faulted(t, la, write) /\ k = s + Base(ms0)
  OBVIOUS
<1>3. /\ pm \in PageRecs /\ ProcsOK(proc) /\ Good(pm.free, s, pm.ref, mms) /\ UsersOK(proc, mms)
      /\ mms \in MmMaps /\ s \in Nat /\ x \in Mms \cup {None} /\ proc \in [Procs -> ProcRecs]
  BY <1>1, WorldFacts DEF ProcsOK
<1>4. x # None /\ proc[p].st = "alive" /\ p # Init0
  BY <1>1, <1>3 DEF do_pgfault, do_pgfault_killed, User, Alive, ProcsOK
<1>5. x \in Mms /\ x \in LiveIn(mms) /\ m.count >= Cardinality(UsersOf(proc, x))
  BY <1>1, <1>3, <1>4, HasMm
<1>6. ms0 \in MmMaps /\ IsPlus(ms0, x, m, mms) /\ ms0[x] = None
  <2>1. ms0 \in MmMaps /\ IsPlus(ms0, x, m, mms)
    BY <1>1, <1>3, <1>5, Minus
  <2> QED BY <2>1 DEF IsPlus
<1>7. m \in MmStructs /\ m.count \in Nat
  BY <1>6, PlusFacts, MmFacts
<1>8. /\ Fit(u, k + 1, Owned(ms0), Writers(ms0)) /\ Within(u.mm) /\ Tidy(ms0)
      /\ u \in Views /\ u.mm \in MmStructs /\ u.mm.count = m.count
  <2>1. IsFaulted(u, t, k, ms0, m)
    BY <1>1, <1>2, <1>3, <1>6, FaultWorld
  <2> QED BY <2>1 DEF IsFaulted
<1>9. ASSUME NEW n, NEW ms2, n \in MmStructs, n = [u.mm EXCEPT !.count = n.count], ms2 = [mms EXCEPT ![x] = n]
      PROVE  IsPlus(ms0, x, n, ms2) /\ Good(u.free, s, u.ref, ms2)
  <2>1. ms2 = [ms0 EXCEPT ![x] = n]
    BY <1>1, <1>3, <1>5, <1>9 DEF MmMaps
  <2>2. IsPlus(ms0, x, n, ms2)
    BY <1>5, <1>6, <1>9, <2>1 DEF IsPlus
  <2>3. Good(u.free, s, u.ref, ms2)
    BY <1>2, <1>3, <1>8, <1>9, <2>2, PutGood
  <2> QED BY <2>2, <2>3
<1>10. CASE do_pgfault(p, la, write)
  <2>1. PICK n, ms2 : n = u.mm /\ ms2 = [mms EXCEPT ![x] = n]
    OBVIOUS
  <2>2. pm' = Pages(u) /\ mms' = ms2 /\ proc' = proc
    BY <1>1, <1>2, <1>10, <2>1 DEF do_pgfault
  <2>3. n \in MmStructs /\ n = [u.mm EXCEPT !.count = n.count] /\ n # None
    <3>1. n \in MmStructs /\ n # None
      BY <1>8, <2>1, SizeFacts
    <3>2. n = [n EXCEPT !.count = n.count]
      BY <3>1 DEF MmStructs
    <3> QED BY <2>1, <3>1, <3>2
  <2>4. Good(u.free, s, u.ref, ms2)
    BY <1>9, <2>1, <2>3
  <2>5. ms2[x] = n /\ \A y \in Mms : y # x => ms2[y] = mms[y]
    BY <1>3, <1>5, <2>1 DEF MmMaps
  <2>6. Held(proc, ms2, x)
    BY <1>5, <1>8, <2>1, <2>3, <2>5 DEF Held
  <2>7. UsersOK(proc, ms2)
    BY <1>3, <2>5, <2>6, HeldSteps
  <2>8. World(Pages(u), ms2, proc)
    BY <1>1, <1>3, <1>8, <2>4, <2>7, PagesWorld
  <2> QED BY <2>2, <2>8
<1>11. CASE do_pgfault_killed(p, la, write)
  <2>1. PICK e, pr2, v : /\ e = [st |-> "zombie", mm |-> None] /\ pr2 = [proc EXCEPT ![p] = e]
                         /\ v = put_pgdir(exit_mmap(u))
    OBVIOUS
  <2>2. /\ pm' = Pages(IF m.count = 1 THEN v ELSE u)
        /\ mms' = [mms EXCEPT ![x] = IF m.count = 1 THEN None ELSE [u.mm EXCEPT !.count = @ - 1]]
        /\ proc' = [proc EXCEPT ![p].st = "zombie", ![p].mm = None]
    BY <1>1, <1>2, <1>11, <2>1 DEF do_pgfault_killed
  <2>3. e \in ProcRecs /\ e.st = "zombie" /\ e.mm = None
    BY <2>1 DEF ProcRecs
  <2>4. IsProc(proc, p, e, pr2)
    BY <2>1, <2>3 DEF IsProc
  <2>5. ProcsOK(pr2) /\ StacksOf(pr2) = s
    BY <1>1, <1>3, <1>4, <2>3, <2>4, ProcFacts, StackSteps
  <2>6. proc' = pr2
    BY <1>3, <2>1, <2>2, ZombieIs
  <2>7. CASE m.count = 1
    <3>1. Good(v.free, s, v.ref, ms0) /\ v \in Views
      <4>1. IsFreed(v, u, s, ms0)
        BY <1>2, <1>3, <1>8, <2>1, FreedGood
      <4> QED BY <4>1 DEF IsFreed
    <3>2. UsersOK(pr2, ms0)
      BY <1>1, <1>3, <1>5, <2>3, <2>4, <2>7, LastUser
    <3>3. World(Pages(v), ms0, pr2)
      BY <2>5, <3>1, <3>2, PagesWorld
    <3>4. pm' = Pages(v) /\ mms' = ms0
      BY <1>1, <2>2, <2>7
    <3> QED BY <2>6, <3>3, <3>4
  <2>8. CASE m.count # 1
    <3>1. PICK c, n, ms2 : /\ c = m.count - 1 /\ n = [u.mm EXCEPT !.count = c]
                           /\ ms2 = [mms EXCEPT ![x] = n]
      OBVIOUS
    <3>2. c \in Nat
      <4>1. Cardinality(UsersOf(proc, x)) \in Nat /\ IsFiniteSet(UsersOf(proc, x))
        BY UserFacts
      <4>2. p \in UsersOf(proc, x)
        BY <1>1 DEF UsersOf
      <4>3. Cardinality(UsersOf(proc, x)) # 0
        BY <4>1, <4>2, FS_EmptySet
      <4> QED BY <1>5, <1>7, <3>1, <4>1, <4>3
    <3>3. n \in MmStructs /\ n.count = c
      BY <1>8, <3>1, <3>2 DEF MmStructs
    <3>4. n = [u.mm EXCEPT !.count = n.count]
      BY <3>1, <3>3
    <3>5. IsPlus(ms0, x, n, ms2) /\ Good(u.free, s, u.ref, ms2)
      BY <1>9, <3>1, <3>3, <3>4
    <3>6. UsersOK(pr2, ms2)
      <4>1. n.count = m.count - 1
        BY <3>1, <3>3
      <4> QED BY <1>1, <1>3, <1>6, <2>3, <2>4, <2>8, <3>5, <4>1, OneUserLess
    <3>7. World(Pages(u), ms2, pr2)
      BY <1>8, <2>5, <3>5, <3>6, PagesWorld
    <3>8. [u.mm EXCEPT !.count = @ - 1] = n
      BY <1>8, <3>1
    <3>9. pm' = Pages(u) /\ mms' = ms2
      BY <2>2, <2>8, <3>1, <3>8
    <3> QED BY <2>6, <3>7, <3>9
  <2> QED BY <2>7, <2>8
<1> QED BY <1>10, <1>11

LEMMA InitWorld ==
  ASSUME SpaceInit
  PROVE  World(pm, mms, proc)
<1>1. /\ pm = [free |-> NPage, ref |-> [f \in Frames |-> 0], data |-> [f \in Frames |-> Junk]]
      /\ mms = [x \in Mms |-> None]
      /\ proc = [p \in Procs |-> IF p = Init0 THEN [Gone EXCEPT !.st = "alive"] ELSE Gone]
  BY DEF SpaceInit
<1>2. pm \in PageRecs /\ pm.free = NPage /\ \A f \in Frames : pm.ref[f] = 0
  BY <1>1, SizeFacts DEF PageRecs, RefMaps, DataMaps
<1>3. LiveIn(mms) = {} /\ mms \in MmMaps
  BY <1>1 DEF LiveIn, MmMaps
<1>4. \A p \in Procs : proc[p] \in ProcRecs /\ proc[p].mm = None /\ (p # Init0 => proc[p].st = "none")
  BY <1>1 DEF Gone, ProcRecs
<1>5. ProcsOK(proc)
  <2>1. proc \in [Procs -> ProcRecs]
    BY <1>1, <1>4
  <2>2. proc[Init0].st = "alive"
    BY <1>1, SizeFacts DEF Gone
  <2> QED BY <1>4, <2>1, <2>2, SizeFacts DEF ProcsOK
<1>6. StacksOf(proc) = 0
  <2>1. StacksIn(proc) = {}
    BY <1>4 DEF StacksIn
  <2> QED BY <2>1, FS_EmptySet DEF StacksOf
<1>7. Base(mms) = 0
  <2>1. DirsIn(mms) = {} /\ TabsIn(mms) = {}
    BY <1>3 DEF DirsIn, TabsIn
  <2> QED BY <1>3, <2>1, FS_EmptySet DEF Base
<1>8. ASSUME NEW f \in Frames PROVE pm.ref[f] = Owned(mms)[f]
  <2>1. Owners(mms, f) = {}
    BY <1>3 DEF Owners
  <2> QED BY <1>2, <2>1, FS_EmptySet DEF Owned
<1>9. Cardinality(Used(pm.ref)) = 0
  <2>1. Used(pm.ref) = {}
    BY <1>2 DEF Used
  <2> QED BY <2>1, FS_EmptySet
<1>10. pm.ref \in RefMaps
  BY <1>2 DEF PageRecs
<1>11. Good(pm.free, 0, pm.ref, mms)
  <2>1. Tidy(mms)
    BY <1>3 DEF Tidy
  <2>2. pm.free + 0 + Base(mms) + Cardinality(Used(pm.ref)) <= NPage
    BY <1>2, <1>7, <1>9, SizeFacts
  <2> QED BY <1>2, <1>3, <1>8, <1>10, <2>1, <2>2, SizeFacts DEF Good
<1>12. UsersOK(proc, mms)
  <2>1. ASSUME NEW x \in Mms PROVE UsersOf(proc, x) = {}
    BY <1>4, SizeFacts DEF UsersOf
  <2> QED BY <2>1 DEF UsersOK, Held
<1> QED BY <1>2, <1>5, <1>6, <1>11, <1>12 DEF World

\* The mappings of a page are as many as the mms that map it.
LEMMA MappingsCount ==
  ASSUME Tidy(mms), NEW f \in Frames
  PROVE  /\ Cardinality(Mappings(f)) = Owned(mms)[f]
         /\ Mappings(f) # {} <=> Owners(mms, f) # {}
<1>1. PICK S, O : S = Mappings(f) /\ O = Owners(mms, f)
  OBVIOUS
<1>2. IsFiniteSet(O) /\ Owned(mms)[f] = Cardinality(O)
  BY <1>1, WorldFinite DEF Owned
<1>3. \A x, la : <<x, la>> \in S <=> /\ x \in LiveIn(mms) /\ la \in Addrs
                                     /\ mms[x].pte[la] # None /\ mms[x].pte[la].frame = f
  BY <1>1 DEF Mappings, Live, LiveIn
<1>4. \A z \in S : z = <<z[1], z[2]>>
  BY <1>1 DEF Mappings
<1>5. \A x : x \in O <=> x \in LiveIn(mms) /\ \E la \in Addrs : mms[x].pte[la] # None /\ mms[x].pte[la].frame = f
  BY <1>1 DEF Owners, Maps
<1>6. \A x, la, lb : <<x, la>> \in S /\ <<x, lb>> \in S => la = lb
  BY <1>3 DEF Tidy, Apart
<1>7. PICK g : g = [x \in O |-> CHOOSE z \in S : z[1] = x]
  OBVIOUS
<1>8. ASSUME NEW x \in O PROVE g[x] \in S /\ g[x][1] = x
  <2>1. PICK la : <<x, la>> \in S
    BY <1>3, <1>5, <1>8
  <2>2. <<x, la>>[1] = x
    OBVIOUS
  <2>3. \E z \in S : z[1] = x
    BY <2>1, <2>2
  <2> QED BY <1>7, <2>3
<1>9. g \in Injection(O, S)
  <2>1. g \in [O -> S] /\ DOMAIN g = O
    BY <1>7, <1>8
  <2>2. \A x, y \in O : g[x] = g[y] => x = y
    BY <1>8
  <2>3. IsInjective(g)
    BY <2>1, <2>2 DEF IsInjective
  <2> QED BY <2>1, <2>3 DEF Injection
<1>10. ASSUME NEW z \in S PROVE \E x \in O : g[x] = z
  <2>1. z = <<z[1], z[2]>>
    BY <1>4
  <2>2. z[1] \in O
    BY <1>3, <1>5, <2>1
  <2>3. PICK h : h = g[z[1]]
    OBVIOUS
  <2>4. h \in S /\ h[1] = z[1] /\ h = <<h[1], h[2]>>
    BY <1>4, <1>8, <2>2, <2>3
  <2>5. h[2] = z[2]
    BY <1>6, <2>1, <2>4
  <2> QED BY <2>1, <2>2, <2>3, <2>4, <2>5
<1>11. ExistsBijection(O, S)
  <2>1. g \in Surjection(O, S)
    BY <1>7, <1>8, <1>10 DEF Surjection
  <2> QED BY <1>9, <2>1 DEF ExistsBijection, Bijection
<1>12. Cardinality(S) = Cardinality(O)
  BY <1>2, <1>11, FS_Bijection
<1>13. S # {} <=> O # {}
  BY <1>8, <1>10
<1> QED BY <1>1, <1>2, <1>12, <1>13

LEMMA WorldSafe ==
  ASSUME World(pm, mms, proc)
  PROVE  FramesSafe /\ SpaceInv
<1>1. /\ pm \in PageRecs /\ ProcsOK(proc) /\ Good(pm.free, StacksOf(proc), pm.ref, mms)
      /\ UsersOK(proc, mms)
  BY DEF World
<1>2. /\ Tidy(mms) /\ pm.ref \in RefMaps /\ \A f \in Frames : pm.ref[f] = Owned(mms)[f]
      /\ \A x \in LiveIn(mms) : Private(pm.ref, mms[x].pte)
      /\ pm.free + StacksOf(proc) + Base(mms) + Cardinality(Used(pm.ref)) <= NPage
  BY <1>1 DEF Good
<1>3. {f \in Frames : Mappings(f) # {}} = Used(pm.ref)
  <2>1. ASSUME NEW f \in Frames PROVE Mappings(f) # {} <=> pm.ref[f] > 0
    <3>1. /\ IsFiniteSet(Owners(mms, f)) /\ Cardinality(Owners(mms, f)) \in Nat
          /\ pm.ref[f] = Cardinality(Owners(mms, f))
      BY <1>2, WorldFinite DEF Owned
    <3>2. Owners(mms, f) # {} <=> Cardinality(Owners(mms, f)) # 0
      BY <3>1, FS_EmptySet
    <3> QED BY <1>2, <3>1, <3>2, MappingsCount
  <2> QED BY <2>1 DEF Used
<1>4. pm.free + InUse <= NPage
  <2>1. /\ Stacks = StacksIn(proc) /\ Live = LiveIn(mms) /\ Directories = DirsIn(mms)
        /\ PageTables = TabsIn(mms)
    BY DEF Stacks, StacksIn, Live, LiveIn, Directories, DirsIn, PageTables, TabsIn
  <2>2. PICK a, b, c, d, e : /\ a = Cardinality(StacksIn(proc)) /\ b = Cardinality(LiveIn(mms))
                             /\ c = Cardinality(DirsIn(mms)) /\ d = Cardinality(TabsIn(mms))
                             /\ e = Cardinality(Used(pm.ref))
    OBVIOUS
  <2>3. a \in Nat /\ b \in Nat /\ c \in Nat /\ d \in Nat /\ e \in Nat /\ pm.free \in Nat
    BY <1>1, <2>2, WorldFinite, StackFacts, UsedFacts DEF StacksOf, Good
  <2>4. InUse = a + b + c + d + e
    BY <1>3, <2>1, <2>2 DEF InUse
  <2>5. pm.free + a + (b + c + d) + e <= NPage
    BY <1>2, <2>2 DEF StacksOf, Base
  <2> QED BY <2>3, <2>4, <2>5, SizeFacts
<1>5. ASSUME NEW f \in Frames PROVE pm.ref[f] = Cardinality(Mappings(f))
  BY <1>2, MappingsCount
<1>6. ASSUME NEW f \in Frames, pm.ref[f] > 1, NEW xa \in Mappings(f) PROVE ~mms[xa[1]].pte[xa[2]].write
  <2>1. /\ xa[1] \in LiveIn(mms) /\ xa[2] \in Addrs /\ mms[xa[1]].pte[xa[2]] # None
        /\ mms[xa[1]].pte[xa[2]].frame = f
    BY <1>6 DEF Mappings, Live, LiveIn
  <2>2. pm.ref[f] \in Nat
    BY <1>2 DEF RefMaps
  <2> QED BY <1>2, <1>6, <2>1, <2>2 DEF Private
<1>7. ASSUME NEW x \in Mms, {q \in Procs : proc[q].mm = x} # {}
      PROVE  x \in Live /\ mms[x].count >= Cardinality({q \in Procs : proc[q].mm = x})
  <2>1. Held(proc, mms, x)
    BY <1>1 DEF UsersOK
  <2> QED BY <1>7, <2>1 DEF Held, UsersOf, Live
<1>8. FramesSafe
  BY <1>4, <1>5, <1>6, <1>7 DEF FramesSafe
<1>9. SpaceTypeOK
  BY <1>1, <1>2 DEF SpaceTypeOK, PageRecs, RefMaps, DataMaps, Tidy, MmMaps, ProcsOK, ProcRecs
<1>10. proc[Init0] = [st |-> "alive", mm |-> None]
  BY <1>1, SizeFacts DEF ProcsOK, ProcRecs
<1> QED BY <1>1, <1>2, <1>8, <1>9, <1>10 DEF SpaceInv, Live, LiveIn, Tidy, ProcsOK

-----------------------------------------------------------------------------
(* The theorems *)

WorldInv == World(pm, mms, proc)

LEMMA WorldStep ==
  ASSUME WorldInv, [SpaceNext]_spaces
  PROVE  WorldInv'
<1>1. CASE UNCHANGED spaces
  BY <1>1 DEF WorldInv, spaces
<1>2. CASE SpaceNext
  <2>0. FilesFail \subseteq BOOLEAN
    BY DEF FilesFail
  <2>1. ASSUME NEW p \in Procs, NEW q \in Procs, NEW ff \in FilesFail, fork_share(p, q, ff)
        PROVE  WorldInv'
    BY <2>0, <2>1, ForkShareStep DEF WorldInv
  <2>2. ASSUME NEW p \in Procs, NEW q \in Procs, NEW ff \in FilesFail, NEW vf, fork_copy(p, q, vf, ff)
        PROVE  WorldInv'
    BY <2>0, <2>2, ForkCopyStep DEF WorldInv
  <2>3. ASSUME NEW p \in Procs, do_exit(p)
        PROVE  WorldInv'
    BY <2>3, ExitStep DEF WorldInv
  <2>4. ASSUME NEW p \in Procs, do_wait(p)
        PROVE  WorldInv'
    BY <2>4, WaitStep DEF WorldInv
  <2>5. ASSUME NEW p \in Procs, NEW prog \in Programs, NEW rf, do_execve(p, prog, rf)
        PROVE  WorldInv'
    BY <2>5, ExecveStep DEF WorldInv
  <2>6. ASSUME NEW p \in Procs, NEW la \in Addrs, NEW w \in BOOLEAN,
               do_pgfault(p, la, w) \/ do_pgfault_killed(p, la, w)
        PROVE  WorldInv'
    BY <2>6, PgfaultStep DEF WorldInv
  <2>7. ASSUME NEW p \in Procs, NEW la \in Addrs, NEW v \in Values, store(p, la, v)
        PROVE  WorldInv'
    BY <2>7, StoreStep DEF WorldInv
  <2> QED BY <1>2, <2>1, <2>2, <2>3, <2>4, <2>5, <2>6, <2>7 DEF SpaceNext
<1> QED BY <1>1, <1>2

\* SpaceInv: the entries of a page table map pages apart and within the VMAs, and
\* FramesSafe, whatever fork, exec, exit, wait and page fault do, and whenever
\* memory runs out under them.
THEOREM SpaceInvariant == SpaceSpec => []SpaceInv
<1>1. SpaceInit => WorldInv
  BY InitWorld DEF WorldInv
<1>2. WorldInv /\ [SpaceNext]_spaces => WorldInv'
  BY WorldStep
<1>3. WorldInv => SpaceInv
  BY WorldSafe DEF WorldInv
<1> QED BY <1>1, <1>2, <1>3, PTL DEF SpaceSpec

\* FramesSafe: no page is free while it is in use, a page's reference count is the
\* number of its mappings, a page that copy_range shared is writable nowhere, and
\* an mm stays while a process has it; for any number of processes, mm_structs and
\* pages, any programs and page tables of any size, in lab 8 and in lab 5.
THEOREM FramesAreSafe == SpaceSpec => []FramesSafe
<1>1. SpaceInv => FramesSafe
  BY DEF SpaceInv
<1> QED BY <1>1, SpaceInvariant, PTL
=============================================================================
