------------------------------ MODULE PhilProofs ------------------------------
(***************************************************************************)
(* The dining philosophers, for any number of philosophers and of meals:   *)
(* OneToken, NeighboursNeverEat and SomebodyRuns of PhilMonitor, then      *)
(* SemaNeverEat and SemaSomebodyRuns of PhilSema.  The first invariant     *)
(* says where a thread may sleep, that the right to be active is in one    *)
(* place, what next_count counts, and that a philosopher's state, the      *)
(* count and the semaphore of its condition variable and the place where   *)
(* it is agree; the second (SemaIInv) that a sleeper is behind a call of   *)
(* down, who holds the mutex, and whom a hungry philosopher waits for.     *)
(***************************************************************************)
EXTENDS PhilMonitor, PhilSema, QueueLemmas, FiniteSetTheorems

\* The threads that sleep on s.
Waiters(s) == Range(queue[s])

\* Where a thread that runs is active.
Inside == {"take_test", "take_check", "wait_woken", "take_leave",
           "put_left", "put_right", "put_leave", "signal_back"}

\* The places behind the call of down(s) by i.
Behind(s, i) == IF s = mutex THEN {"take_test", "put_left"}
                ELSE IF s = next THEN {"signal_back"}
                ELSE IF s = i THEN {"wait_woken"} ELSE {}

\* A thread sleeps behind the call that put it to sleep.
WaitersPlaced == \A s \in Sems : \A i \in Waiters(s) : pc[i] \in Behind(s, i)

\* next_count is the number of threads that wait for one they have signalled.
Signallers == {i \in Phils : pc[i] \in {"signal_down", "signal_back"}}
SignalsCounted ==
  /\ next_count = Cardinality(Signallers)
  /\ \A i \in Signallers : ret[i] \in {"put_right", "put_leave"}

\* state_condvar[i] is EATING from the moment when i may eat to the moment when
\* it lays down its forks; cv[i].count is one while i waits on its condition,
\* and cv[i].sem remembers a signal that comes before i sleeps.
StateExact ==
  \A i \in Phils :
    /\ pc[i] \in {"think", "take", "take_test", "put_right", "put_leave", "signal_down", "signal_back", "quit"}
         => state_condvar[i] = "THINKING" /\ count[i] = 0 /\ value[i] = 0
    /\ pc[i] = "take_check" => state_condvar[i] \in {"HUNGRY", "EATING"} /\ count[i] = 0 /\ value[i] = 0
    /\ pc[i] = "wait_down"
         => /\ count[i] = 1
            /\ \/ state_condvar[i] = "HUNGRY" /\ value[i] = 0
               \/ state_condvar[i] = "EATING" /\ value[i] = 1
    /\ pc[i] = "wait_woken" => /\ count[i] = 1 /\ value[i] = 0
                               /\ i \in Waiters(i) => state_condvar[i] = "HUNGRY"
                               /\ i \notin Waiters(i) => state_condvar[i] = "EATING"
    /\ pc[i] \in {"take_leave", "eat", "put", "put_left"}
         => state_condvar[i] = "EATING" /\ count[i] = 0 /\ value[i] = 0

NoTwoEat == \A i \in Phils : state_condvar[i] = "EATING" => state_condvar[RIGHT(i)] # "EATING"

\* A hungry philosopher waits for a neighbour that eats, or its left one is on
\* its way to test whether it may eat.
ComesToTestRight(i) == pc[i] = "put_right" \/ (pc[i] \in {"signal_down", "signal_back"} /\ ret[i] = "put_right")
HungryBlocked ==
  \A i \in Phils : state_condvar[i] = "HUNGRY" => \/ state_condvar[LEFT(i)] = "EATING"
                                                  \/ state_condvar[RIGHT(i)] = "EATING"
                                                  \/ ComesToTestRight(LEFT(i))

\* The mutex opens only when no signaller is left inside, and the semaphore
\* next keeps the right only for a signaller that is still to call down().
DoorRight ==
  /\ value[mutex] > 0 => next_count = 0
  /\ value[next] > 0 => \E i \in Phils : pc[i] = "signal_down"

IInv ==
  /\ OneToken
  /\ QueuesOK(Sems, Phils, value, queue)
  /\ WaitersPlaced
  /\ SignalsCounted
  /\ StateExact
  /\ NoTwoEat
  /\ HungryBlocked
  /\ DoorRight
-----------------------------------------------------------------------------
(* The table and the semaphores *)

\* The neighbours of philosopher i, who is not his own.
LEMMA NextDoor ==
  ASSUME PhilAssumption, NEW i \in Phils
  PROVE  /\ LEFT(i) \in Phils /\ RIGHT(i) \in Phils
         /\ LEFT(i) # i /\ RIGHT(i) # i
         /\ RIGHT(LEFT(i)) = i
         /\ LEFT(RIGHT(i)) = i
<1>1. N \in Nat /\ N > 1 /\ i \in Nat /\ i < N /\ Phils = 0 .. N - 1
  BY DEF PhilAssumption, Phils
<1>2. ASSUME NEW k \in Phils
      PROVE  /\ RIGHT(k) = (IF k = N - 1 THEN 0 ELSE k + 1)
             /\ LEFT(k) = (IF k = 0 THEN N - 1 ELSE k - 1)
  <2>1. \A j \in 0 .. N - 1 : j % N = j /\ (j + N) % N = j
    BY <1>1
  <2>2. N % N = 0
    BY <1>1
  <2> QED BY <1>1, <1>2, <2>1, <2>2 DEF RIGHT, LEFT
<1> QED BY <1>1, <1>2

LEMMA SemaphoresApart ==
  ASSUME PhilAssumption
  PROVE  /\ mutex \in Sems /\ next \in Sems /\ Phils \subseteq Sems
         /\ mutex \notin Phils /\ next \notin Phils /\ mutex # next
         /\ Sems = Phils \cup {mutex, next}
BY DEF PhilAssumption, mutex, next, Phils, Sems

LEMMA RunsFacts ==
  \A i \in Phils : /\ S!Runs(i) <=> \A s \in Sems : i \notin Waiters(s)
                   /\ S!Runs(i)' <=> \A s \in Sems : i \notin Waiters(s)'
BY DEF S!Runs, S!Range, Waiters, Range

\* down() and up() in terms of the sets of waiters.
LEMMA DownStep ==
  ASSUME PhilAssumption, IInv, NEW i \in Phils, NEW s \in Sems, S!Runs(i), S!down(i, s)
  PROVE  /\ S!SemTypeOK' /\ QueuesOK(Sems, Phils, value', queue')
         /\ \A r \in Sems : r # s => value'[r] = value[r] /\ Waiters(r)' = Waiters(r)
         /\ IF value[s] > 0
            THEN value'[s] = value[s] - 1 /\ Waiters(s) = {} /\ Waiters(s)' = {}
            ELSE value'[s] = value[s] /\ Waiters(s)' = Waiters(s) \cup {i}
<1>1. QueuesOK(Sems, Phils, value, queue)
  BY DEF IInv
<1>2. \A r \in Sems : i \notin Range(queue[r])
  BY RunsFacts DEF Waiters
<1>3. Down(value, queue, value', queue', i, s)
  BY DEF S!down, Down
<1>4. QueuesOK(Sems, Phils, value', queue') /\ AfterDown(Sems, value, queue, value', queue', i, s)
  BY <1>1, <1>2, <1>3, DownFacts
<1> QED BY <1>4 DEF S!SemTypeOK, Waiters, QueuesOK, AfterDown

LEMMA UpStep ==
  ASSUME PhilAssumption, IInv, NEW s \in Sems, S!up(s)
  PROVE  /\ S!SemTypeOK' /\ QueuesOK(Sems, Phils, value', queue')
         /\ \A r \in Sems : r # s => value'[r] = value[r] /\ Waiters(r)' = Waiters(r)
         /\ \/ Waiters(s) = {} /\ Waiters(s)' = {} /\ value'[s] = value[s] + 1
            \/ /\ value[s] = 0 /\ value'[s] = 0
               /\ \E t \in Waiters(s) : Waiters(s)' = Waiters(s) \ {t}
<1>1. QueuesOK(Sems, Phils, value, queue) /\ Up(value, queue, value', queue', s)
  BY DEF IInv, S!up, S!Raised, Up
<1>2. QueuesOK(Sems, Phils, value', queue') /\ AfterUp(Sems, value, queue, value', queue', s)
  BY <1>1, UpFacts
<1> QED BY <1>2 DEF S!SemTypeOK, Waiters, QueuesOK, AfterUp

LEMMA WaitersArePhils == ASSUME IInv PROVE \A s \in Sems : Waiters(s) \subseteq Phils
<1>1. queue \in [Sems -> Seq(Phils)]
  BY DEF IInv, QueuesOK
<1>2. \A q \in Seq(Phils) : Range(q) \subseteq Phils
  BY DEF Range
<1> QED BY <1>1, <1>2 DEF Waiters
LEMMA ActiveFacts ==
  \A i \in Phils : /\ Active(i) <=> S!Runs(i) /\ pc[i] \in Inside
                   /\ Active(i)' <=> S!Runs(i)' /\ pc'[i] \in Inside
BY DEF Active, Inside

\* Who sleeps where, as the steps need it.
LEMMA SleepFacts ==
  ASSUME PhilAssumption, IInv, NEW i \in Phils
  PROVE  /\ Waiters(i) \subseteq {i}
         /\ i \in Waiters(i) => pc[i] = "wait_woken"
         /\ \A s \in Sems : i \in Waiters(s) => pc[i] \in Inside /\ ~Active(i)
<1>1. \A s \in Sems : \A j \in Waiters(s) : j \in Phils /\ pc[j] \in Behind(s, j)
  BY WaitersArePhils DEF IInv, WaitersPlaced
<1>2. Waiters(i) \subseteq {i} /\ (i \in Waiters(i) => pc[i] = "wait_woken")
  BY <1>1, SemaphoresApart DEF Behind
<1>3. \A s \in Sems : i \in Waiters(s) => pc[i] \in Inside
  BY <1>1 DEF Behind, Inside
<1> QED BY <1>2, <1>3, RunsFacts, ActiveFacts

\* A step of i to m, which leaves the other threads where they are.
LEMMA GotoFacts ==
  ASSUME IInv, NEW i \in Phils, NEW m \in PCs, Goto(i, m)
  PROVE  /\ pc' \in [Phils -> PCs] /\ pc'[i] = m
         /\ \A j \in Phils : j # i => pc'[j] = pc[j]
BY DEF IInv, OneToken, TypeOK, Goto
-----------------------------------------------------------------------------
(* The right to be active *)

\* down() either takes the right that lies with s, or waits for it.
LEMMA DownToken ==
  ASSUME PhilAssumption, IInv, NEW i \in Phils, NEW s \in Sems, NEW m \in PCs,
         S!Runs(i), pc[i] \notin Inside, Goto(i, m), m \in Behind(s, i), S!down(i, s)
  PROVE  /\ (\E r \in Sems : LiesWith(r)') \/ \E j \in Phils : HeldBy(j)'
         /\ WaitersPlaced'
<1> USE SemaphoresApart
<1>1. m \in Inside
  BY DEF Behind, Inside
<1>2. pc'[i] = m /\ \A j \in Phils : j # i => pc'[j] = pc[j]
  BY GotoFacts
<1>3. /\ \A r \in Sems : r # s => value'[r] = value[r] /\ Waiters(r)' = Waiters(r)
      /\ IF value[s] > 0
         THEN value'[s] = value[s] - 1 /\ Waiters(s) = {} /\ Waiters(s)' = {}
         ELSE value'[s] = value[s] /\ Waiters(s)' = Waiters(s) \cup {i}
  BY DownStep
<1>4. \A j \in Phils : j # i => (Active(j)' <=> Active(j))
  <2>1. \A j \in Phils : j # i => (S!Runs(j)' <=> S!Runs(j))
    BY <1>3, RunsFacts
  <2> QED BY <1>2, <2>1, ActiveFacts
<1>5. ~Active(i)
  BY ActiveFacts
<1>6. WaitersPlaced'
  BY <1>2, <1>3, RunsFacts, WaitersArePhils DEF IInv, WaitersPlaced
<1>7. CASE value[s] > 0
  <2>1. LiesWith(s)
    BY <1>7 DEF IInv, OneToken, LiesWith, HeldBy
  <2>2. S!Runs(i)'
    BY <1>3, <1>7, RunsFacts
  <2>3. Active(i)' /\ \A j \in Phils : j # i => ~Active(j)'
    BY <1>1, <1>2, <1>4, <2>1, <2>2, ActiveFacts DEF LiesWith
  <2>4. \A r \in Sems : value'[r] = 0
    BY <1>3, <1>7, <2>1 DEF LiesWith
  <2>5. HeldBy(i)'
    BY <2>3, <2>4 DEF HeldBy
  <2> QED BY <1>6, <2>5
<1>8. CASE ~(value[s] > 0)
  <2>1. ~Active(i)' /\ \A r \in Sems : value'[r] = value[r]
    BY <1>3, <1>8, RunsFacts, ActiveFacts
  <2>2. \A r \in Sems : LiesWith(r) => LiesWith(r)'
    BY <1>4, <2>1 DEF LiesWith
  <2>3. \A j \in Phils : HeldBy(j) => HeldBy(j)'
    BY <1>4, <1>5, <2>1 DEF HeldBy
  <2> QED BY <1>6, <2>2, <2>3 DEF IInv, OneToken
<1> QED BY <1>7, <1>8

\* up() by the active thread, which is not active any more, leaves the right
\* with s or hands it to a thread that sleeps there.
LEMMA UpToken ==
  ASSUME PhilAssumption, IInv, NEW i \in Phils, NEW s \in Sems, NEW m \in PCs,
         Active(i), Goto(i, m), m \notin Inside, S!up(s)
  PROVE  /\ (\E r \in Sems : LiesWith(r)') \/ \E j \in Phils : HeldBy(j)'
         /\ WaitersPlaced'
<1> USE SemaphoresApart
<1>1. pc'[i] = m /\ \A j \in Phils : j # i => pc'[j] = pc[j]
  BY GotoFacts
<1>2. HeldBy(i)
  BY DEF IInv, OneToken, LiesWith, HeldBy
<1>3. /\ \A r \in Sems : r # s => value'[r] = value[r] /\ Waiters(r)' = Waiters(r)
      /\ \/ Waiters(s) = {} /\ Waiters(s)' = {} /\ value'[s] = value[s] + 1
         \/ /\ value[s] = 0 /\ value'[s] = 0
            /\ \E t \in Waiters(s) : Waiters(s)' = Waiters(s) \ {t}
  BY UpStep
<1>4. WaitersPlaced'
  BY <1>1, <1>3, RunsFacts, ActiveFacts, WaitersArePhils DEF IInv, WaitersPlaced
<1>5. ~Active(i)'
  BY <1>1, ActiveFacts
<1>6. CASE Waiters(s) = {} /\ Waiters(s)' = {} /\ value'[s] = value[s] + 1
  <2>1. \A j \in Phils : j # i => (S!Runs(j)' <=> S!Runs(j))
    BY <1>3, <1>6, RunsFacts
  <2>2. \A j \in Phils : ~Active(j)'
    BY <1>1, <1>2, <1>5, <2>1, ActiveFacts DEF HeldBy
  <2>3. \A r \in Sems : value'[r] = IF r = s THEN 1 ELSE 0
    BY <1>2, <1>3, <1>6 DEF HeldBy
  <2>4. LiesWith(s)'
    BY <2>2, <2>3 DEF LiesWith
  <2> QED BY <1>4, <2>4
<1>7. ASSUME NEW t \in Waiters(s), value'[s] = 0, Waiters(s)' = Waiters(s) \ {t}
      PROVE  \E j \in Phils : HeldBy(j)'
  <2>1. t \in Phils /\ pc[t] \in Inside /\ t # i
    BY WaitersArePhils, SleepFacts, <1>7
  <2>2. \A j \in Phils : j # i /\ j # t => (S!Runs(j)' <=> S!Runs(j))
    BY <1>3, <1>7, RunsFacts
  <2>3. S!Runs(t)'
    <3>1. \A r \in Sems : r # s => t \notin Waiters(r)
      BY <1>7 DEF IInv, QueuesOK, Waiters
    <3> QED BY <1>3, <1>7, <2>1, <3>1, RunsFacts
  <2>4. Active(t)' /\ \A j \in Phils : j # t => ~Active(j)'
    BY <1>1, <1>2, <1>5, <2>1, <2>2, <2>3, ActiveFacts DEF HeldBy
  <2>5. \A r \in Sems : value'[r] = 0
    BY <1>2, <1>3, <1>7 DEF HeldBy
  <2>6. HeldBy(t)'
    BY <2>1, <2>4, <2>5 DEF HeldBy
  <2> QED BY <2>1, <2>6
<1> QED BY <1>3, <1>4, <1>6, <1>7

\* A step inside the monitor, or outside, that touches no semaphore.
LEMMA QuietToken ==
  ASSUME PhilAssumption, IInv, NEW i \in Phils, NEW m \in PCs,
         S!Runs(i), Goto(i, m), pc[i] \in Inside <=> m \in Inside, UNCHANGED <<value, queue>>
  PROVE  /\ (\E r \in Sems : LiesWith(r)') \/ \E j \in Phils : HeldBy(j)'
         /\ WaitersPlaced'
<1> USE SemaphoresApart
<1>1. pc'[i] = m /\ \A j \in Phils : j # i => pc'[j] = pc[j]
  BY GotoFacts
<1>2. \A r \in Sems : Waiters(r)' = Waiters(r) /\ value'[r] = value[r]
  BY DEF Waiters
<1>3. \A j \in Phils : Active(j)' <=> Active(j)
  BY <1>1, <1>2, RunsFacts, ActiveFacts
<1>4. WaitersPlaced'
  BY <1>1, <1>2, RunsFacts, WaitersArePhils DEF IInv, WaitersPlaced
<1>5. (\A r \in Sems : LiesWith(r) => LiesWith(r)') /\ \A j \in Phils : HeldBy(j) => HeldBy(j)'
  BY <1>2, <1>3 DEF LiesWith, HeldBy
<1> QED BY <1>4, <1>5 DEF IInv, OneToken
-----------------------------------------------------------------------------
(* What next_count counts *)

SignalPCs == {"signal_down", "signal_back"}

LEMMA PhilsFinite ==
  ASSUME PhilAssumption, NEW T \in SUBSET Phils
  PROVE  IsFiniteSet(T) /\ Cardinality(T) \in 0 .. N
<1>1. N \in Nat /\ N > 1 /\ Phils = 0 .. N - 1
  BY DEF PhilAssumption, Phils
<1>2. IsFiniteSet(Phils) /\ Cardinality(Phils) = N
  BY <1>1, FS_Interval
<1>3. IsFiniteSet(T) /\ Cardinality(T) <= Cardinality(Phils)
  BY <1>2, FS_Subset
<1> QED BY <1>1, <1>2, <1>3, FS_CardinalityType

\* cond_signal counts its caller before it waits and no longer when it is back;
\* every other step leaves the count as it is.
LEMMA CountStep ==
  ASSUME PhilAssumption, IInv, NEW i \in Phils, NEW m \in PCs, Goto(i, m), ret' \in [Phils -> PCs],
         \A j \in Phils : j # i => ret'[j] = ret[j],
         m \in SignalPCs => ret'[i] \in {"put_right", "put_leave"},
         \/ (pc[i] \in SignalPCs <=> m \in SignalPCs) /\ next_count' = next_count
         \/ pc[i] \notin SignalPCs /\ m \in SignalPCs /\ next_count' = next_count + 1
         \/ pc[i] \in SignalPCs /\ m \notin SignalPCs /\ next_count' = next_count - 1
  PROVE  SignalsCounted' /\ next_count' \in 0 .. N
<1>1. pc'[i] = m /\ \A j \in Phils : j # i => pc'[j] = pc[j]
  BY GotoFacts
<1>2. /\ next_count = Cardinality(Signallers) /\ \A j \in Signallers : ret[j] \in {"put_right", "put_leave"}
      /\ Signallers = {j \in Phils : pc[j] \in SignalPCs}
      /\ Signallers' = {j \in Phils : pc'[j] \in SignalPCs}
  BY DEF IInv, SignalsCounted, Signallers, SignalPCs
<1>3. \A j \in Signallers' : ret'[j] \in {"put_right", "put_leave"}
  BY <1>1, <1>2
<1>4. IsFiniteSet(Signallers) /\ Cardinality(Signallers) \in Nat
  BY <1>2, PhilsFinite
<1>5. next_count' = Cardinality(Signallers')
  <2>1. CASE (pc[i] \in SignalPCs <=> m \in SignalPCs) /\ next_count' = next_count
    <3>1. Signallers' = Signallers
      BY <1>1, <1>2, <2>1
    <3> QED BY <1>2, <2>1, <3>1
  <2>2. CASE pc[i] \notin SignalPCs /\ m \in SignalPCs /\ next_count' = next_count + 1
    <3>1. Signallers' = Signallers \cup {i} /\ i \notin Signallers
      BY <1>1, <1>2, <2>2
    <3>2. Cardinality(Signallers \cup {i}) = Cardinality(Signallers) + 1
      BY <1>4, <3>1, FS_AddElement
    <3> QED BY <1>2, <2>2, <3>1, <3>2
  <2>3. CASE pc[i] \in SignalPCs /\ m \notin SignalPCs /\ next_count' = next_count - 1
    <3>1. Signallers' = Signallers \ {i} /\ i \in Signallers
      BY <1>1, <1>2, <2>3
    <3>2. Cardinality(Signallers \ {i}) = Cardinality(Signallers) - 1
      BY <1>4, <3>1, FS_RemoveElement
    <3> QED BY <1>2, <2>3, <3>1, <3>2
  <2> QED BY <2>1, <2>2, <2>3
<1>6. Cardinality(Signallers') \in 0 .. N
  BY <1>2, PhilsFinite
<1> QED BY <1>3, <1>5, <1>6 DEF SignalsCounted
-----------------------------------------------------------------------------
(* The steps *)

LEMMA InitStep == PhilAssumption /\ Init => IInv
<1> SUFFICES ASSUME PhilAssumption, Init PROVE IInv
  OBVIOUS
<1> USE SemaphoresApart
<1>1. /\ value = [s \in Sems |-> IF s = mutex THEN 1 ELSE 0]
      /\ queue = [s \in Sems |-> <<>>]
  BY DEF Init, S!sem_init
<1>2. Range(<<>>) = {} /\ IsInjective(<<>>) /\ <<>> \in Seq(Phils)
  BY DEF Range, IsInjective
<1>3. TypeOK
  BY <1>1, <1>2 DEF Init, TypeOK, S!SemTypeOK, PCs, PhilAssumption
<1>4. QueuesOK(Sems, Phils, value, queue)
  BY <1>1, <1>2 DEF QueuesOK
<1>5. \A s \in Sems : Waiters(s) = {}
  BY <1>1, <1>2 DEF Waiters
<1>6. LiesWith(mutex)
  BY <1>1 DEF LiesWith, Active, Init
<1>7. SignalsCounted
  <2>1. Signallers = {}
    BY DEF Signallers, Init
  <2> QED BY <2>1, FS_EmptySet DEF SignalsCounted, Init
<1>8. StateExact /\ NoTwoEat /\ HungryBlocked
  BY <1>1, <1>5, NextDoor DEF StateExact, NoTwoEat, HungryBlocked, Init
<1>9. DoorRight
  BY <1>1 DEF DoorRight, Init
<1> QED BY <1>3, <1>4, <1>5, <1>6, <1>7, <1>8, <1>9 DEF IInv, OneToken, WaitersPlaced

\* The parts of a step, put together.
LEMMA Together ==
  ASSUME (\E r \in Sems : LiesWith(r)') \/ \E j \in Phils : HeldBy(j)', WaitersPlaced',
         SignalsCounted' /\ next_count' \in 0 .. N, QueuesOK(Sems, Phils, value', queue'),
         pc' \in [Phils -> PCs], ret' \in [Phils -> PCs], iter' \in [Phils -> 0 .. TIMES],
         count' \in [Phils -> 0 .. N], state_condvar' \in [Phils -> {"THINKING", "HUNGRY", "EATING"}],
         StateExact', NoTwoEat', HungryBlocked', DoorRight'
  PROVE  IInv'
BY DEF IInv, OneToken, TypeOK, S!SemTypeOK, QueuesOK

LEMMA Types ==
  ASSUME IInv
  PROVE  /\ pc \in [Phils -> PCs] /\ ret \in [Phils -> PCs] /\ iter \in [Phils -> 0 .. TIMES]
         /\ count \in [Phils -> 0 .. N] /\ state_condvar \in [Phils -> {"THINKING", "HUNGRY", "EATING"}]
         /\ QueuesOK(Sems, Phils, value, queue) /\ next_count \in 0 .. N
BY DEF IInv, OneToken, TypeOK

\* A step of i that changes no philosopher's state.
LEMMA SameStates ==
  ASSUME PhilAssumption, IInv, NEW i \in Phils, state_condvar' = state_condvar, ret' = ret,
         \A k \in Phils : k # i => pc'[k] = pc[k],
         ComesToTestRight(i) => ComesToTestRight(i)'
  PROVE  NoTwoEat' /\ HungryBlocked'
<1>1. \A k \in Phils : ComesToTestRight(k) => ComesToTestRight(k)'
  BY DEF ComesToTestRight
<1>2. NoTwoEat'
  BY DEF IInv, NoTwoEat
<1>3. HungryBlocked'
  BY <1>1, NextDoor DEF IInv, HungryBlocked
<1> QED BY <1>2, <1>3

\* Steps that touch no semaphore.
LEMMA QuietStep ==
  ASSUME PhilAssumption, IInv, NEW i \in Phils,
         \/ think(i) \/ eat(i) \/ wait_woken(i) \/ signal_back(i)
         \/ take_check(i) /\ state_condvar[i] # "HUNGRY"
  PROVE  IInv'
<1> USE SemaphoresApart, Types
<1> DEFINE m == pc'[i]
<1>1. /\ S!Runs(i) /\ Goto(i, m) /\ m \in PCs /\ UNCHANGED <<value, queue, state_condvar, ret>>
      /\ \/ pc[i] = "think" /\ m \in {"take", "quit"} /\ UNCHANGED <<count, next_count>>
         \/ pc[i] = "eat" /\ m = "put" /\ UNCHANGED <<count, next_count>>
         \/ pc[i] = "take_check" /\ m = "take_leave" /\ state_condvar[i] # "HUNGRY" /\ UNCHANGED <<count, next_count>>
         \/ pc[i] = "wait_woken" /\ m = "take_leave" /\ next_count' = next_count
            /\ count' = [count EXCEPT ![i] = @ - 1]
         \/ pc[i] = "signal_back" /\ m = ret[i] /\ count' = count /\ next_count' = next_count - 1
      /\ iter' \in [Phils -> 0 .. TIMES]
  BY DEF think, eat, wait_woken, signal_back, take_check, Step, Goto, Again, PCs, PhilAssumption
<1> HIDE DEF m
<1>2. pc' \in [Phils -> PCs] /\ pc'[i] = m /\ \A j \in Phils : j # i => pc'[j] = pc[j]
  BY <1>1, GotoFacts
<1>3. pc[i] = "signal_back" => ret[i] \in {"put_right", "put_leave"}
  BY DEF IInv, SignalsCounted, Signallers
<1>4. pc[i] \in Inside <=> m \in Inside
  BY <1>1, <1>3 DEF Inside
<1>5. ((\E r \in Sems : LiesWith(r)') \/ \E j \in Phils : HeldBy(j)') /\ WaitersPlaced'
  BY <1>1, <1>4, QuietToken
<1>6. SignalsCounted' /\ next_count' \in 0 .. N
  <2>1. \/ (pc[i] \in SignalPCs <=> m \in SignalPCs) /\ next_count' = next_count
        \/ pc[i] \in SignalPCs /\ m \notin SignalPCs /\ next_count' = next_count - 1
    BY <1>1, <1>3 DEF SignalPCs
  <2>2. m \notin SignalPCs
    BY <1>1, <1>3 DEF SignalPCs
  <2> QED BY <1>1, <2>1, <2>2, CountStep
<1>7. /\ count' \in [Phils -> 0 .. N] /\ \A j \in Phils : j # i => count'[j] = count[j]
      /\ m = "take_leave" => count'[i] = 0
      /\ pc[i] # "wait_woken" => count'[i] = count[i]
  BY <1>1 DEF IInv, StateExact, PhilAssumption
<1>8. \A j \in Phils : value'[j] = value[j] /\ Waiters(j)' = Waiters(j) /\ state_condvar'[j] = state_condvar[j]
  BY <1>1 DEF Waiters
<1>9. StateExact'
  <2>1. i \notin Waiters(i)
    BY <1>1, RunsFacts
  <2>2. ASSUME NEW j \in Phils, j # i
        PROVE  pc'[j] = pc[j] /\ count'[j] = count[j]
    BY <1>2, <1>7, <2>2
  <2>3. m \in {"take", "quit"} => state_condvar[i] = "THINKING" /\ count'[i] = 0 /\ value[i] = 0
    BY <1>1, <1>3, <1>7 DEF IInv, StateExact
  <2>4. m \in {"put", "take_leave"} => state_condvar[i] = "EATING" /\ count'[i] = 0 /\ value[i] = 0
    BY <1>1, <1>3, <1>7, <2>1 DEF IInv, StateExact
  <2>5. m \in {"put_right", "put_leave"} => state_condvar[i] = "THINKING" /\ count'[i] = 0 /\ value[i] = 0
    BY <1>1, <1>3, <1>7 DEF IInv, StateExact
  <2>6. m \in {"take", "quit", "put", "take_leave", "put_right", "put_leave"}
    BY <1>1, <1>3
  <2> QED BY <1>2, <1>8, <2>2, <2>3, <2>4, <2>5, <2>6 DEF IInv, StateExact
<1>10. NoTwoEat' /\ HungryBlocked'
  <2>1. ComesToTestRight(i) => ComesToTestRight(i)'
    BY <1>1, <1>2 DEF ComesToTestRight
  <2> QED BY <1>1, <1>2, <2>1, SameStates
<1>11. DoorRight'
  <2>1. pc[i] = "signal_back" => value[mutex] = 0
    <3>1. pc[i] = "signal_back" => Active(i)
      BY <1>1, ActiveFacts DEF Inside
    <3> QED BY <3>1 DEF IInv, OneToken, LiesWith, HeldBy
  <2> QED BY <1>1, <1>2, <2>1 DEF IInv, DoorRight
<1> QED BY <1>1, <1>2, <1>5, <1>6, <1>7, <1>9, <1>10, <1>11, Together

\* down() on the mutex by a thread that enters, on next by a signaller.
LEMMA EnterStep ==
  ASSUME PhilAssumption, IInv, NEW i \in Phils,
         enter(i, "take", "take_test") \/ enter(i, "put", "put_left") \/ signal_down(i)
  PROVE  IInv'
<1> USE SemaphoresApart, Types
<1> DEFINE m == pc'[i]
           s == IF pc[i] = "signal_down" THEN next ELSE mutex
<1>1. /\ S!Runs(i) /\ Goto(i, m) /\ m \in PCs /\ S!down(i, s) /\ s \in {mutex, next}
      /\ UNCHANGED <<next_count, count, state_condvar, ret, iter>>
      /\ \/ pc[i] = "take" /\ m = "take_test"
         \/ pc[i] = "put" /\ m = "put_left"
         \/ pc[i] = "signal_down" /\ m = "signal_back"
      /\ m \in Behind(s, i)
  BY DEF enter, signal_down, Step, Goto, PCs, Behind
<1> HIDE DEF m, s
<1>2. pc' \in [Phils -> PCs] /\ pc'[i] = m /\ \A j \in Phils : j # i => pc'[j] = pc[j]
  BY <1>1, GotoFacts
<1>3. /\ QueuesOK(Sems, Phils, value', queue')
      /\ \A j \in Phils : value'[j] = value[j] /\ Waiters(j)' = Waiters(j)
  BY <1>1, DownStep
<1>4. ((\E r \in Sems : LiesWith(r)') \/ \E j \in Phils : HeldBy(j)') /\ WaitersPlaced'
  <2>1. pc[i] \notin Inside
    BY <1>1 DEF Inside
  <2> QED BY <1>1, <2>1, DownToken
<1>5. SignalsCounted' /\ next_count' \in 0 .. N
  <2>1. (pc[i] \in SignalPCs <=> m \in SignalPCs) /\ next_count' = next_count
    BY <1>1 DEF SignalPCs
  <2>2. m \in SignalPCs => ret'[i] \in {"put_right", "put_leave"}
    BY <1>1, <2>1 DEF IInv, SignalsCounted, Signallers, SignalPCs
  <2> QED BY <1>1, <2>1, <2>2, CountStep
<1>6. StateExact'
  <2>1. m \in {"take_test", "signal_back"} => state_condvar[i] = "THINKING" /\ count[i] = 0 /\ value[i] = 0
    BY <1>1 DEF IInv, StateExact
  <2>2. m = "put_left" => state_condvar[i] = "EATING" /\ count[i] = 0 /\ value[i] = 0
    BY <1>1 DEF IInv, StateExact
  <2> QED BY <1>1, <1>2, <1>3, <2>1, <2>2 DEF IInv, StateExact
<1>7. NoTwoEat' /\ HungryBlocked'
  <2>1. ComesToTestRight(i) => ComesToTestRight(i)'
    BY <1>1, <1>2 DEF ComesToTestRight
  <2> QED BY <1>1, <1>2, <2>1, SameStates
<1>8. DoorRight'
  <2>1. /\ \A r \in Sems : value[r] \in {0, 1}
        /\ \A r \in Sems : r # s => value'[r] = value[r]
        /\ value'[s] = 0
    <3>1. \A r \in Sems : value[r] \in {0, 1}
      BY DEF IInv, OneToken, LiesWith, HeldBy
    <3> QED BY <1>1, <3>1, DownStep
  <2>2. value'[mutex] > 0 => next_count' = 0
    BY <1>1, <2>1 DEF IInv, DoorRight
  <2>3. value'[next] > 0 => \E k \in Phils : pc'[k] = "signal_down"
    <3>1. value'[next] > 0 => value[next] > 0 /\ pc[i] # "signal_down"
      BY <2>1 DEF s
    <3> QED BY <1>2, <3>1 DEF IInv, DoorRight
  <2> QED BY <2>2, <2>3 DEF DoorRight
<1> QED BY <1>1, <1>2, <1>3, <1>4, <1>5, <1>6, <1>7, <1>8, Together

\* up() at the door, by a thread that leaves or waits on its condition.
LEMMA LeaveStep ==
  ASSUME PhilAssumption, IInv, NEW i \in Phils,
         \/ leave(i, "take_leave", "eat") \/ leave(i, "put_leave", "think")
         \/ take_check(i) /\ state_condvar[i] = "HUNGRY"
  PROVE  IInv'
<1> USE SemaphoresApart, Types
<1> DEFINE m == pc'[i]
<1>1. /\ S!Runs(i) /\ Goto(i, m) /\ m \in PCs /\ S!up(Door) /\ Door \in {mutex, next}
      /\ UNCHANGED <<next_count, state_condvar, ret, iter>>
      /\ \/ pc[i] = "take_leave" /\ m = "eat" /\ count' = count
         \/ pc[i] = "put_leave" /\ m = "think" /\ count' = count
         \/ pc[i] = "take_check" /\ m = "wait_down" /\ state_condvar[i] = "HUNGRY"
            /\ count' = [count EXCEPT ![i] = @ + 1]
  BY DEF leave, take_check, cond_wait, Step, Goto, PCs, Door
<1> HIDE DEF m
<1>2. pc' \in [Phils -> PCs] /\ pc'[i] = m /\ \A j \in Phils : j # i => pc'[j] = pc[j]
  BY <1>1, GotoFacts
<1>3. /\ QueuesOK(Sems, Phils, value', queue')
      /\ \A j \in Phils : value'[j] = value[j] /\ Waiters(j)' = Waiters(j)
  BY <1>1, UpStep
<1>4. ((\E r \in Sems : LiesWith(r)') \/ \E j \in Phils : HeldBy(j)') /\ WaitersPlaced'
  <2>1. Active(i) /\ m \notin Inside
    BY <1>1, ActiveFacts DEF Inside
  <2> QED BY <1>1, <2>1, UpToken
<1>5. SignalsCounted' /\ next_count' \in 0 .. N
  <2>1. (pc[i] \in SignalPCs <=> m \in SignalPCs) /\ m \notin SignalPCs
    BY <1>1 DEF SignalPCs
  <2> QED BY <1>1, <2>1, CountStep
<1>6. /\ m = "eat" => state_condvar[i] = "EATING" /\ count'[i] = 0 /\ value[i] = 0
      /\ m = "think" => state_condvar[i] = "THINKING" /\ count'[i] = 0 /\ value[i] = 0
      /\ m = "wait_down" => state_condvar[i] = "HUNGRY" /\ count'[i] = 1 /\ value[i] = 0
      /\ count' \in [Phils -> 0 .. N] /\ \A j \in Phils : j # i => count'[j] = count[j]
  BY <1>1 DEF IInv, StateExact, PhilAssumption
<1>7. StateExact'
  BY <1>1, <1>2, <1>3, <1>6 DEF IInv, StateExact
<1>8. NoTwoEat' /\ HungryBlocked'
  <2>1. ~ComesToTestRight(i)
    BY <1>1 DEF ComesToTestRight
  <2> QED BY <1>1, <1>2, <2>1, SameStates
<1>9. DoorRight'
  <2>1. /\ Active(i) /\ HeldBy(i)
    <3>1. Active(i)
      BY <1>1, ActiveFacts DEF Inside
    <3> QED BY <3>1 DEF IInv, OneToken, LiesWith, HeldBy
  <2>2. /\ \A r \in Sems : value[r] = 0
        /\ \A r \in Sems : r # Door => value'[r] = value[r]
        /\ value'[Door] > 0 => Waiters(Door) = {}
    BY <1>1, <2>1, UpStep DEF HeldBy
  <2>3. value'[mutex] > 0 => next_count' = 0
    BY <1>1, <2>2 DEF Door
  <2>4. ASSUME value'[next] > 0 PROVE \E k \in Phils : pc'[k] = "signal_down"
    <3>1. next_count > 0 /\ Waiters(next) = {}
      BY <2>2, <2>4 DEF Door
    <3>2. PICK k \in Signallers : TRUE
      BY <3>1, FS_EmptySet DEF IInv, SignalsCounted
    <3>3. k \in Phils /\ pc[k] \in {"signal_down", "signal_back"} /\ k # i
      BY <1>1, <3>2 DEF Signallers
    <3>4. pc[k] # "signal_back"
      <4> SUFFICES ASSUME pc[k] = "signal_back" PROVE FALSE
        OBVIOUS
      <4>1. \A r \in Sems : k \notin Waiters(r)
        BY <3>1 DEF IInv, WaitersPlaced, Behind
      <4>2. Active(k)
        BY <3>3, <4>1, RunsFacts, ActiveFacts DEF Inside
      <4> QED BY <2>1, <3>3, <4>2 DEF HeldBy
    <3> QED BY <1>2, <3>3, <3>4
  <2> QED BY <2>3, <2>4 DEF DoorRight
<1> QED BY <1>1, <1>2, <1>3, <1>4, <1>5, <1>6, <1>7, <1>8, <1>9, Together

\* down(&(cvp->sem)) of cond_wait: i has been signalled already, or sleeps.
LEMMA WaitStep ==
  ASSUME PhilAssumption, IInv, NEW i \in Phils, wait_down(i)
  PROVE  IInv'
<1> USE SemaphoresApart, Types
<1>1. /\ S!Runs(i) /\ pc[i] = "wait_down" /\ Goto(i, "wait_woken") /\ S!down(i, i) /\ "wait_woken" \in PCs
      /\ UNCHANGED <<next_count, count, state_condvar, ret, iter>>
  BY DEF wait_down, Step, PCs
<1>2. pc' \in [Phils -> PCs] /\ pc'[i] = "wait_woken" /\ \A j \in Phils : j # i => pc'[j] = pc[j]
  BY <1>1, GotoFacts
<1>3. /\ QueuesOK(Sems, Phils, value', queue')
      /\ \A r \in Sems : r # i => value'[r] = value[r] /\ Waiters(r)' = Waiters(r)
      /\ IF value[i] > 0
         THEN value'[i] = value[i] - 1 /\ Waiters(i) = {} /\ Waiters(i)' = {}
         ELSE value'[i] = value[i] /\ Waiters(i)' = Waiters(i) \cup {i}
  BY <1>1, DownStep
<1>4. ((\E r \in Sems : LiesWith(r)') \/ \E j \in Phils : HeldBy(j)') /\ WaitersPlaced'
  <2>1. pc[i] \notin Inside /\ "wait_woken" \in Behind(i, i)
    BY <1>1 DEF Inside, Behind
  <2> QED BY <1>1, <2>1, DownToken
<1>5. SignalsCounted' /\ next_count' \in 0 .. N
  <2>1. pc[i] \notin SignalPCs /\ "wait_woken" \notin SignalPCs
    BY <1>1 DEF SignalPCs
  <2> QED BY <1>1, <2>1, CountStep
<1>6. /\ count[i] = 1 /\ value'[i] = 0
      /\ i \in Waiters(i)' => state_condvar[i] = "HUNGRY"
      /\ i \notin Waiters(i)' => state_condvar[i] = "EATING"
  BY <1>1, <1>3 DEF IInv, StateExact
<1>7. StateExact'
  BY <1>1, <1>2, <1>3, <1>6 DEF IInv, StateExact
<1>8. NoTwoEat' /\ HungryBlocked'
  <2>1. ~ComesToTestRight(i)
    BY <1>1 DEF ComesToTestRight
  <2> QED BY <1>1, <1>2, <2>1, SameStates
<1>9. DoorRight'
  <2>1. value'[mutex] = value[mutex] /\ value'[next] = value[next]
    BY <1>3
  <2> QED BY <1>1, <1>2, <2>1 DEF IInv, DoorRight
<1> QED BY <1>1, <1>2, <1>3, <1>4, <1>5, <1>7, <1>8, <1>9, Together

\* phi_test_condvar(j) by i on the states st that i has left: j may eat only if
\* its neighbours do not, and is signalled if it waits for that.
LEMMA TestStep ==
  ASSUME PhilAssumption, IInv, NEW i \in Phils, NEW j \in Phils, NEW m \in PCs,
         NEW st \in [Phils -> {"THINKING", "HUNGRY", "EATING"}],
         S!Runs(i), phi_test_condvar(i, st, j, m), UNCHANGED <<count, iter>>,
         \A k \in Phils : k # i => st[k] = state_condvar[k],
         \/ pc[i] = "take_test" /\ m = "take_check" /\ st[i] = "HUNGRY" /\ j = i
         \/ pc[i] = "put_left" /\ m = "put_right" /\ st[i] = "THINKING" /\ j = LEFT(i)
         \/ pc[i] = "put_right" /\ m = "put_leave" /\ st[i] = "THINKING" /\ j = RIGHT(i)
  PROVE  IInv'
<1> USE SemaphoresApart, Types
<1>1. Active(i) /\ HeldBy(i) /\ count[i] = 0 /\ value[i] = 0 /\ i \notin Waiters(i)
  <2>1. Active(i) /\ i \notin Waiters(i)
    BY ActiveFacts, RunsFacts DEF Inside
  <2>2. HeldBy(i)
    BY <2>1 DEF IInv, OneToken, LiesWith, HeldBy
  <2> QED BY <2>1, <2>2 DEF IInv, StateExact, HeldBy
<1>2. \A k \in Phils : st[k] = "EATING" => st[RIGHT(k)] # "EATING"
  BY NextDoor DEF IInv, NoTwoEat
<1>3. MayEat(st, j) => /\ \A k \in Phils : [st EXCEPT ![j] = "EATING"][k] = "EATING"
                            => [st EXCEPT ![j] = "EATING"][RIGHT(k)] # "EATING"
                       /\ st[j] = "HUNGRY"
  BY <1>2, NextDoor DEF MayEat
<1>4. /\ j # i => st[i] = "THINKING" /\ m \in {"put_right", "put_leave"}
      /\ j = i => pc[i] = "take_test" /\ m = "take_check"
      /\ value[mutex] = 0 /\ value[next] = 0
  BY <1>1, NextDoor DEF HeldBy
<1>5. ASSUME NEW k \in Phils, st[k] = "HUNGRY", k # j \/ ~MayEat(st, j)
      PROVE  \/ st[LEFT(k)] = "EATING" \/ st[RIGHT(k)] = "EATING"
             \/ LEFT(k) # i /\ ComesToTestRight(LEFT(k))
             \/ LEFT(k) = i /\ m = "put_right"
  <2>1. CASE k = j
    BY <1>5, <2>1 DEF MayEat
  <2>2. CASE k # j
    <3>1. k # i /\ state_condvar[k] = "HUNGRY"
      BY <1>5, <2>2, NextDoor
    <3>2. \/ state_condvar[LEFT(k)] = "EATING" \/ state_condvar[RIGHT(k)] = "EATING"
          \/ ComesToTestRight(LEFT(k))
      BY <3>1 DEF IInv, HungryBlocked
    <3>3. CASE pc[i] = "take_test"
      BY <3>1, <3>2, <3>3, NextDoor DEF IInv, StateExact, ComesToTestRight
    <3>4. CASE pc[i] = "put_left"
      BY <2>2, <3>1, <3>2, <3>4, NextDoor
    <3>5. CASE pc[i] = "put_right"
      BY <2>2, <3>1, <3>2, <3>5, NextDoor DEF IInv, StateExact
    <3> QED BY <3>3, <3>4, <3>5
  <2> QED BY <2>1, <2>2
<1>6. ASSUME MayEat(st, j), count[j] > 0 PROVE IInv'
  <2>1. /\ j # i /\ st[i] = "THINKING" /\ m \in {"put_right", "put_leave"}
        /\ state_condvar' = [st EXCEPT ![j] = "EATING"] /\ next_count' = next_count + 1
        /\ S!up(j) /\ Goto(i, "signal_down") /\ ret' = [ret EXCEPT ![i] = m] /\ "signal_down" \in PCs
    BY <1>1, <1>4, <1>6 DEF phi_test_condvar, cond_signal, PCs
  <2>2. pc' \in [Phils -> PCs] /\ pc'[i] = "signal_down" /\ \A k \in Phils : k # i => pc'[k] = pc[k]
    BY <2>1, GotoFacts
  <2>3. /\ QueuesOK(Sems, Phils, value', queue')
        /\ \A r \in Sems : r # j => value'[r] = value[r] /\ Waiters(r)' = Waiters(r)
        /\ \/ Waiters(j) = {} /\ Waiters(j)' = {} /\ value'[j] = value[j] + 1
           \/ /\ value[j] = 0 /\ value'[j] = 0
              /\ \E t \in Waiters(j) : Waiters(j)' = Waiters(j) \ {t}
    BY <2>1, UpStep
  <2>4. ((\E r \in Sems : LiesWith(r)') \/ \E k \in Phils : HeldBy(k)') /\ WaitersPlaced'
    <3>1. "signal_down" \notin Inside
      BY DEF Inside
    <3> QED BY <1>1, <2>1, <3>1, UpToken
  <2>5. ret' \in [Phils -> PCs] /\ ret'[i] = m /\ \A k \in Phils : k # i => ret'[k] = ret[k]
    BY <2>1
  <2>6. SignalsCounted' /\ next_count' \in 0 .. N
    <3>1. pc[i] \notin SignalPCs /\ "signal_down" \in SignalPCs
      BY DEF SignalPCs
    <3> QED BY <2>1, <2>5, <3>1, CountStep
  <2>7. /\ state_condvar' \in [Phils -> {"THINKING", "HUNGRY", "EATING"}]
        /\ state_condvar'[j] = "EATING" /\ \A k \in Phils : k # j => state_condvar'[k] = st[k]
    BY <2>1
  <2>8. StateExact'
    <3>1. ASSUME NEW k \in Phils, k # j, k # i
          PROVE  /\ pc'[k] = pc[k] /\ value'[k] = value[k] /\ Waiters(k)' = Waiters(k)
                 /\ state_condvar'[k] = state_condvar[k] /\ count'[k] = count[k]
      BY <2>2, <2>3, <2>7, <3>1
    <3>2. value'[i] = 0 /\ state_condvar'[i] = "THINKING" /\ count'[i] = 0
      BY <1>1, <2>1, <2>3, <2>7
    <3>3. /\ pc'[j] = pc[j] /\ count'[j] = 1
          /\ \/ pc[j] = "wait_down" /\ value'[j] = 1
             \/ pc[j] = "wait_woken" /\ value'[j] = 0 /\ j \notin Waiters(j)'
      <4>1. /\ pc[j] \in {"wait_down", "wait_woken"} /\ count[j] = 1 /\ pc'[j] = pc[j]
            /\ state_condvar[j] = "HUNGRY" /\ pc[j] \in PCs
        BY <1>3, <1>6, <2>1, <2>2 DEF IInv, StateExact, PCs
      <4>2. CASE pc[j] = "wait_down"
        <5>1. Waiters(j) = {} /\ value[j] = 0
          BY <4>1, <4>2, SleepFacts DEF IInv, StateExact
        <5> QED BY <2>3, <4>1, <4>2, <5>1
      <4>3. CASE pc[j] = "wait_woken"
        <5>1. Waiters(j) = {j} /\ value[j] = 0
          BY <4>1, <4>3, SleepFacts DEF IInv, StateExact
        <5>2. value'[j] = 0 /\ j \notin Waiters(j)'
          BY <2>3, <5>1
        <5> QED BY <4>1, <4>3, <5>2
      <4> QED BY <4>1, <4>2, <4>3
    <3> QED BY <2>2, <2>7, <3>1, <3>2, <3>3 DEF IInv, StateExact
  <2>9. NoTwoEat'
    BY <1>3, <1>6, <2>1 DEF NoTwoEat
  <2>10. HungryBlocked'
    <3>1. \A k \in Phils : state_condvar'[k] = "HUNGRY" => k # j /\ st[k] = "HUNGRY"
      BY <2>7
    <3>2. \A k \in Phils : st[k] = "EATING" => state_condvar'[k] = "EATING"
      BY <2>7
    <3>3. \A k \in Phils : k # i /\ ComesToTestRight(k) => ComesToTestRight(k)'
      BY <2>2, <2>5 DEF ComesToTestRight
    <3>4. m = "put_right" => ComesToTestRight(i)'
      BY <2>2, <2>5 DEF ComesToTestRight
    <3> QED BY <1>5, <3>1, <3>2, <3>3, <3>4, NextDoor DEF HungryBlocked
  <2>11. DoorRight'
    BY <1>4, <2>3 DEF DoorRight
  <2> QED BY <2>2, <2>3, <2>4, <2>5, <2>6, <2>7, <2>8, <2>9, <2>10, <2>11, Together
<1>7. ASSUME MayEat(st, j) => count[j] = 0 PROVE IInv'
  <2>1. /\ Goto(i, m) /\ UNCHANGED <<value, queue, next_count, ret>>
        /\ state_condvar' = IF MayEat(st, j) THEN [st EXCEPT ![j] = "EATING"] ELSE st
    BY <1>7 DEF phi_test_condvar, cond_signal
  <2>2. MayEat(st, j) => j = i
    <3> SUFFICES ASSUME MayEat(st, j), j # i PROVE FALSE
      OBVIOUS
    <3>1. state_condvar[j] = "HUNGRY" /\ count[j] = 0 /\ pc[j] \in PCs
      BY <1>3, <1>7
    <3>2. pc[j] = "take_check"
      BY <3>1 DEF IInv, StateExact, PCs
    <3>3. \A s \in Sems : j \notin Waiters(s)
      BY <3>2 DEF IInv, WaitersPlaced, Behind
    <3>4. Active(j)
      BY <3>2, <3>3, RunsFacts, ActiveFacts DEF Inside
    <3> QED BY <1>1, <3>4 DEF HeldBy
  <2>3. pc' \in [Phils -> PCs] /\ pc'[i] = m /\ \A k \in Phils : k # i => pc'[k] = pc[k]
    BY <2>1, GotoFacts
  <2>4. ((\E r \in Sems : LiesWith(r)') \/ \E k \in Phils : HeldBy(k)') /\ WaitersPlaced'
    <3>1. pc[i] \in Inside /\ m \in Inside
      BY DEF Inside
    <3> QED BY <2>1, <3>1, QuietToken
  <2>5. SignalsCounted' /\ next_count' \in 0 .. N
    <3>1. pc[i] \notin SignalPCs /\ m \notin SignalPCs
      BY DEF SignalPCs
    <3> QED BY <2>1, <3>1, CountStep
  <2>6. /\ state_condvar' \in [Phils -> {"THINKING", "HUNGRY", "EATING"}]
        /\ \A k \in Phils : k # i => state_condvar'[k] = state_condvar[k]
        /\ m = "take_check" => state_condvar'[i] \in {"HUNGRY", "EATING"}
        /\ m # "take_check" => state_condvar'[i] = "THINKING"
    BY <1>4, <2>1, <2>2
  <2>7. \A k \in Phils : value'[k] = value[k] /\ Waiters(k)' = Waiters(k) /\ count'[k] = count[k]
    BY <2>1 DEF Waiters
  <2>8. StateExact'
    BY <1>1, <2>3, <2>6, <2>7 DEF IInv, StateExact
  <2>9. NoTwoEat'
    BY <1>2, <1>3, <2>1 DEF NoTwoEat
  <2>10. HungryBlocked'
    <3>1. \A k \in Phils : state_condvar'[k] = "HUNGRY" => st[k] = "HUNGRY" /\ (k # j \/ ~MayEat(st, j))
      BY <2>1
    <3>2. \A k \in Phils : st[k] = "EATING" => state_condvar'[k] = "EATING"
      BY <2>1
    <3>3. \A k \in Phils : k # i /\ ComesToTestRight(k) => ComesToTestRight(k)'
      BY <2>1, <2>3 DEF ComesToTestRight
    <3>4. m = "put_right" => ComesToTestRight(i)'
      BY <2>3 DEF ComesToTestRight
    <3> QED BY <1>5, <3>1, <3>2, <3>3, <3>4, NextDoor DEF HungryBlocked
  <2>11. DoorRight'
    BY <1>4, <2>1 DEF DoorRight
  <2> QED BY <2>1, <2>3, <2>4, <2>5, <2>6, <2>8, <2>9, <2>10, <2>11, Together
<1> QED BY <1>6, <1>7

LEMMA NextStep == PhilAssumption /\ IInv /\ [Next]_vars => IInv'
<1> SUFFICES ASSUME PhilAssumption, IInv, [Next]_vars PROVE IInv'
  OBVIOUS
<1> DEFINE States == {"THINKING", "HUNGRY", "EATING"}
<1>0. {"take_check", "put_right", "put_leave"} \subseteq PCs /\ state_condvar \in [Phils -> States]
  BY Types DEF PCs
<1>1. ASSUME NEW i \in Phils, take_test(i) PROVE IInv'
  <2> DEFINE st == [state_condvar EXCEPT ![i] = "HUNGRY"]
  <2>1. st \in [Phils -> States] /\ st[i] = "HUNGRY" /\ \A k \in Phils : k # i => st[k] = state_condvar[k]
    BY <1>0
  <2>2. /\ S!Runs(i) /\ pc[i] = "take_test" /\ phi_test_condvar(i, st, i, "take_check")
        /\ UNCHANGED <<count, iter>>
    BY <1>1 DEF take_test
  <2> HIDE DEF st
  <2> QED BY <1>0, <2>1, <2>2, TestStep
<1>2. ASSUME NEW i \in Phils, put_left(i) PROVE IInv'
  <2> DEFINE st == [state_condvar EXCEPT ![i] = "THINKING"]
  <2>1. st \in [Phils -> States] /\ st[i] = "THINKING" /\ \A k \in Phils : k # i => st[k] = state_condvar[k]
    BY <1>0
  <2>2. /\ S!Runs(i) /\ pc[i] = "put_left" /\ phi_test_condvar(i, st, LEFT(i), "put_right")
        /\ UNCHANGED <<count, iter>>
    BY <1>2 DEF put_left
  <2>3. LEFT(i) \in Phils /\ LEFT(i) # i
    BY NextDoor
  <2> HIDE DEF st
  <2> QED BY <1>0, <2>1, <2>2, <2>3, TestStep
<1>3. ASSUME NEW i \in Phils, put_right(i) PROVE IInv'
  <2>1. pc[i] = "put_right" => state_condvar[i] = "THINKING"
    BY DEF IInv, StateExact
  <2>2. /\ S!Runs(i) /\ pc[i] = "put_right" /\ phi_test_condvar(i, state_condvar, RIGHT(i), "put_leave")
        /\ UNCHANGED <<count, iter>>
    BY <1>3 DEF put_right
  <2>3. RIGHT(i) \in Phils /\ RIGHT(i) # i
    BY NextDoor
  <2> QED BY <1>0, <2>1, <2>2, <2>3, TestStep
<1>4. ASSUME UNCHANGED vars PROVE IInv'
  BY <1>4 DEF vars, IInv, OneToken, LiesWith, HeldBy, Active, TypeOK, S!SemTypeOK, QueuesOK, WaitersPlaced,
              Waiters, SignalsCounted, Signallers, S!Runs, StateExact, NoTwoEat, HungryBlocked,
              ComesToTestRight, DoorRight
<1>5. ASSUME NEW i \in Phils, take_check(i) PROVE IInv'
  BY <1>5, QuietStep, LeaveStep
<1> QED BY <1>1, <1>2, <1>3, <1>4, <1>5, QuietStep, EnterStep, LeaveStep, WaitStep
        DEF Next, philosopher_using_condvar, cpu_idle

\* What IInv is for.
LEMMA Exclusion == PhilAssumption /\ IInv => NeighboursNeverEat
<1> SUFFICES ASSUME PhilAssumption, IInv PROVE NeighboursNeverEat
  OBVIOUS
<1>1. \A i \in Phils : S!Runs(i) => i \notin Waiters(i)
  BY RunsFacts, SemaphoresApart
<1>2. WokenMayEat /\ \A i \in Phils : HasForks(i) => state_condvar[i] = "EATING"
  BY <1>1 DEF IInv, HasForks, StateExact, WokenMayEat
<1> QED BY <1>2, NextDoor DEF IInv, NoTwoEat, NeighboursNeverEat

LEMMA NoneForgotten == PhilAssumption /\ IInv => SomebodyRuns
<1> SUFFICES ASSUME PhilAssumption, IInv, NEW i \in Phils, pc[i] # "quit",
                    \A j \in Phils : pc[j] # "quit" => ~S!Runs(j)
             PROVE  FALSE
  BY DEF SomebodyRuns
<1> USE SemaphoresApart, Types
<1>0. \A j \in Phils : pc[j] # "quit" => \E s \in Sems : j \in Waiters(s) /\ pc[j] \in Behind(s, j)
  BY RunsFacts DEF IInv, WaitersPlaced
<1>1. PICK s \in Sems : LiesWith(s)
  <2>1. \A j \in Phils : ~Active(j)
    BY ActiveFacts DEF Inside
  <2> QED BY <2>1 DEF IInv, OneToken, HeldBy
<1>2. s \notin Phils
  <2> SUFFICES ASSUME s \in Phils PROVE FALSE
    OBVIOUS
  <2>1. value[s] = 1 /\ pc[s] \in PCs
    BY <1>1 DEF LiesWith
  <2>2. pc[s] = "wait_down"
    BY <2>1 DEF IInv, StateExact, PCs
  <2> QED BY <1>0, <2>2 DEF Behind
<1>3. s # next
  <2> SUFFICES ASSUME s = next PROVE FALSE
    OBVIOUS
  <2>1. PICK k \in Phils : pc[k] = "signal_down"
    BY <1>1 DEF LiesWith, IInv, DoorRight
  <2> QED BY <1>0, <2>1 DEF Behind
<1>4. value[mutex] = 1
  BY <1>1, <1>2, <1>3 DEF LiesWith
<1>5. Waiters(mutex) = {} /\ next_count = 0
  BY <1>4 DEF IInv, QueuesOK, Waiters, Range, DoorRight
<1>6. Signallers = {}
  BY <1>5, PhilsFinite, FS_EmptySet DEF IInv, SignalsCounted, Signallers
<1>7. \A j \in Phils : pc[j] # "signal_down" /\ pc[j] # "signal_back"
  BY <1>6 DEF Signallers
<1>8. \A j \in Phils : pc[j] # "quit" => pc[j] = "wait_woken" /\ j \in Waiters(j)
  BY <1>0, <1>5, <1>7 DEF Behind
<1>9. \A j \in Phils : /\ pc[j] # "quit" => state_condvar[j] = "HUNGRY"
                       /\ pc[j] = "quit" => state_condvar[j] = "THINKING"
                       /\ ~ComesToTestRight(j)
  BY <1>7, <1>8 DEF IInv, StateExact, ComesToTestRight
<1> QED BY <1>9, NextDoor DEF IInv, HungryBlocked

\* IInv holds in every state.
LEMMA Invariance == ASSUME PhilAssumption PROVE Spec => []IInv
<1>1. Init => IInv
  BY InitStep
<1>2. IInv /\ [Next]_vars => IInv'
  BY NextStep
<1> QED BY <1>1, <1>2, PTL DEF Spec

\* cond_signal and cond_wait pass the right to be active in the monitor from
\* hand to hand: in every state it is in exactly one place, so that never two
\* threads are active.
THEOREM TokenKept == ASSUME PhilAssumption PROVE Spec => []OneToken
<1>1. IInv => OneToken
  BY DEF IInv
<1> QED BY <1>1, Invariance, PTL

\* phi_take_forks_condvar and phi_put_forks_condvar: a philosopher woken by
\* cond_signal finds that it may eat without a second test, and no two
\* neighbours have their forks at the same time.
THEOREM NeverEatTogether == ASSUME PhilAssumption PROVE Spec => []NeighboursNeverEat
<1>1. IInv => NeighboursNeverEat
  BY Exclusion
<1> QED BY <1>1, Invariance, PTL

\* cond_signal, cond_wait and the way out of the monitor lose no wakeup: the
\* philosophers never all sleep with a meal still to come.
THEOREM NeverAllAsleep == ASSUME PhilAssumption PROVE Spec => []SomebodyRuns
<1>1. IInv => SomebodyRuns
  BY NoneForgotten
<1> QED BY <1>1, Invariance, PTL

-----------------------------------------------------------------------------
(* The semaphores *)

\* The threads that sleep on s.
SemaWaiters(s) == Range(sem_queue[s])

\* A thread sleeps on the mutex on its way into a critical section, or on its
\* own semaphore on its way to eat.
SemaWaitersPlaced ==
  \A s \in Semaphores : \A i \in SemaWaiters(s) :
    \/ s = mutex /\ sem_pc[i] \in {"take_test", "put_left"}
    \/ s = i /\ sem_pc[i] = "eat"

\* The mutex is free and nobody inside, or exactly one thread is.
SemaMutexFree == sem_value[mutex] = 1 /\ \A i \in Phils : ~InCritical(i)
SemaMutexTakenBy(i) == sem_value[mutex] = 0 /\ \A j \in Phils : InCritical(j) <=> j = i
SemaMutexExact == SemaMutexFree \/ \E i \in Phils : SemaMutexTakenBy(i)

\* state_sema[i] is EATING from the moment when somebody lets i through, which
\* s[i] remembers until i comes to it, to the moment when i lays down its
\* forks.
SemaStateExact ==
  \A i \in Phils :
    /\ sem_pc[i] \in {"think", "take", "take_test", "put_right", "put_up", "quit"}
         => state_sema[i] = "THINKING" /\ sem_value[i] = 0
    /\ sem_pc[i] \in {"take_up", "take_down"}
         => \/ state_sema[i] = "HUNGRY" /\ sem_value[i] = 0
            \/ state_sema[i] = "EATING" /\ sem_value[i] = 1
    /\ sem_pc[i] = "eat" => /\ sem_value[i] = 0
                        /\ state_sema[i] = IF i \in SemaWaiters(i) THEN "HUNGRY" ELSE "EATING"
    /\ sem_pc[i] \in {"put", "put_left"} => state_sema[i] = "EATING" /\ sem_value[i] = 0

SemaNoTwoEat == \A i \in Phils : state_sema[i] = "EATING" => state_sema[RIGHT(i)] # "EATING"

\* A hungry philosopher waits for a neighbour that eats, or its left one is
\* about to test whether it may eat.
SemaHungryBlocked ==
  \A i \in Phils : state_sema[i] = "HUNGRY" => \/ state_sema[LEFT(i)] = "EATING"
                                               \/ state_sema[RIGHT(i)] = "EATING"
                                               \/ sem_pc[LEFT(i)] = "put_right"

SemaIInv ==
  /\ SemaTypeOK
  /\ QueuesOK(Semaphores, Phils, sem_value, sem_queue)
  /\ SemaWaitersPlaced
  /\ SemaMutexExact
  /\ SemaStateExact
  /\ SemaNoTwoEat
  /\ SemaHungryBlocked
-----------------------------------------------------------------------------
(* The table and the semaphores *)

LEMMA SemaSemsApart ==
  ASSUME PhilAssumption
  PROVE  mutex \in Semaphores /\ Phils \subseteq Semaphores /\ mutex \notin Phils /\ Semaphores = Phils \cup {mutex}
BY DEF PhilAssumption, mutex, Phils, Semaphores

LEMMA SemaRunsFacts ==
  \A i \in Phils : /\ Q!Runs(i) <=> \A s \in Semaphores : i \notin SemaWaiters(s)
                   /\ Q!Runs(i)' <=> \A s \in Semaphores : i \notin SemaWaiters(s)'
BY DEF Q!Runs, Q!Range, SemaWaiters, Range

\* down() and up() in terms of the sets of waiters.
LEMMA SemaDownStep ==
  ASSUME PhilAssumption, SemaIInv, NEW i \in Phils, NEW s \in Semaphores, Q!Runs(i), Q!down(i, s)
  PROVE  /\ Q!SemTypeOK' /\ QueuesOK(Semaphores, Phils, sem_value', sem_queue')
         /\ \A r \in Semaphores : r # s => sem_value'[r] = sem_value[r] /\ SemaWaiters(r)' = SemaWaiters(r)
         /\ IF sem_value[s] > 0
            THEN sem_value'[s] = sem_value[s] - 1 /\ SemaWaiters(s) = {} /\ SemaWaiters(s)' = {}
            ELSE sem_value'[s] = sem_value[s] /\ SemaWaiters(s)' = SemaWaiters(s) \cup {i}
<1>1. QueuesOK(Semaphores, Phils, sem_value, sem_queue)
  BY DEF SemaIInv
<1>2. \A r \in Semaphores : i \notin Range(sem_queue[r])
  BY SemaRunsFacts DEF SemaWaiters
<1>3. Down(sem_value, sem_queue, sem_value', sem_queue', i, s)
  BY DEF Q!down, Down
<1>4. QueuesOK(Semaphores, Phils, sem_value', sem_queue') /\ AfterDown(Semaphores, sem_value, sem_queue, sem_value', sem_queue', i, s)
  BY <1>1, <1>2, <1>3, DownFacts
<1> QED BY <1>4 DEF Q!SemTypeOK, SemaWaiters, QueuesOK, AfterDown

LEMMA SemaUpStep ==
  ASSUME PhilAssumption, SemaIInv, NEW s \in Semaphores, Q!up(s)
  PROVE  /\ Q!SemTypeOK' /\ QueuesOK(Semaphores, Phils, sem_value', sem_queue')
         /\ \A r \in Semaphores : r # s => sem_value'[r] = sem_value[r] /\ SemaWaiters(r)' = SemaWaiters(r)
         /\ \/ SemaWaiters(s) = {} /\ SemaWaiters(s)' = {} /\ sem_value'[s] = sem_value[s] + 1
            \/ /\ sem_value[s] = 0 /\ sem_value'[s] = 0
               /\ \E t \in SemaWaiters(s) : SemaWaiters(s)' = SemaWaiters(s) \ {t}
<1>1. QueuesOK(Semaphores, Phils, sem_value, sem_queue) /\ Up(sem_value, sem_queue, sem_value', sem_queue', s)
  BY DEF SemaIInv, Q!up, Q!Raised, Up
<1>2. QueuesOK(Semaphores, Phils, sem_value', sem_queue') /\ AfterUp(Semaphores, sem_value, sem_queue, sem_value', sem_queue', s)
  BY <1>1, UpFacts
<1> QED BY <1>2 DEF Q!SemTypeOK, SemaWaiters, QueuesOK, AfterUp

LEMMA SemaWaitersArePhils == ASSUME SemaIInv PROVE \A s \in Semaphores : SemaWaiters(s) \subseteq Phils
<1>1. sem_queue \in [Semaphores -> Seq(Phils)]
  BY DEF SemaIInv, SemaTypeOK, Q!SemTypeOK
<1>2. \A q \in Seq(Phils) : Range(q) \subseteq Phils
  BY DEF Range
<1> QED BY <1>1, <1>2 DEF SemaWaiters
-----------------------------------------------------------------------------
(* The steps *)

LEMMA SemaInitStep == PhilAssumption /\ SemaInit => SemaIInv
<1> SUFFICES ASSUME PhilAssumption, SemaInit PROVE SemaIInv
  OBVIOUS
<1> USE SemaSemsApart
<1>1. /\ sem_value = [s \in Semaphores |-> IF s = mutex THEN 1 ELSE 0]
      /\ sem_queue = [s \in Semaphores |-> <<>>]
  BY DEF SemaInit, Q!sem_init
<1>2. Range(<<>>) = {} /\ IsInjective(<<>>) /\ <<>> \in Seq(Phils)
  BY DEF Range, IsInjective
<1>3. SemaTypeOK
  BY <1>1, <1>2 DEF SemaInit, SemaTypeOK, Q!SemTypeOK, SemaPCs, PhilAssumption
<1>4. QueuesOK(Semaphores, Phils, sem_value, sem_queue)
  BY <1>1, <1>2 DEF QueuesOK
<1>5. \A s \in Semaphores : SemaWaiters(s) = {}
  BY <1>1, <1>2 DEF SemaWaiters
<1>6. SemaMutexExact
  BY <1>1 DEF SemaMutexExact, SemaMutexFree, InCritical, SemaInit
<1>7. SemaStateExact /\ SemaNoTwoEat /\ SemaHungryBlocked
  BY <1>1, <1>5, NextDoor DEF SemaStateExact, SemaNoTwoEat, SemaHungryBlocked, SemaInit
<1> QED BY <1>3, <1>4, <1>5, <1>6, <1>7 DEF SemaIInv, SemaWaitersPlaced

\* A step that leaves the semaphores alone.
LEMMA SemaQuietStep ==
  ASSUME PhilAssumption, SemaIInv, NEW i \in Phils, think_sema(i) \/ eat_sema(i)
  PROVE  SemaIInv'
<1> USE SemaSemsApart
<1>1. /\ UNCHANGED <<sem_value, sem_queue, state_sema>> /\ Q!Runs(i)
      /\ \/ sem_pc[i] = "think" /\ (sem_pc' = [sem_pc EXCEPT ![i] = "take"] \/ sem_pc' = [sem_pc EXCEPT ![i] = "quit"])
         \/ sem_pc[i] = "eat" /\ sem_pc' = [sem_pc EXCEPT ![i] = "put"]
  BY DEF think_sema, eat_sema, SemaStep
<1>2. sem_iter' \in [Phils -> 0 .. TIMES]
  BY DEF think_sema, eat_sema, SemaStep, SemaAgain, SemaIInv, SemaTypeOK, PhilAssumption
<1>3. sem_pc' \in [Phils -> SemaPCs] /\ \A j \in Phils : j # i => sem_pc'[j] = sem_pc[j]
  BY <1>1 DEF SemaIInv, SemaTypeOK, SemaPCs
<1>4. SemaTypeOK'
  BY <1>1, <1>2, <1>3 DEF SemaIInv, SemaTypeOK, Q!SemTypeOK
<1>5. QueuesOK(Semaphores, Phils, sem_value', sem_queue') /\ \A s \in Semaphores : SemaWaiters(s)' = SemaWaiters(s)
  BY <1>1 DEF SemaIInv, SemaWaiters
<1>6. sem_pc'[i] \in {"take", "quit", "put"} /\ \A j \in Phils : Q!Runs(j)' <=> Q!Runs(j)
  BY <1>1, <1>3 DEF SemaIInv, SemaTypeOK, Q!Runs
<1>7. SemaWaitersPlaced'
  BY <1>1, <1>3, <1>5, SemaRunsFacts, SemaWaitersArePhils DEF SemaIInv, SemaWaitersPlaced
<1>8. SemaMutexExact'
  <2>1. \A j \in Phils : InCritical(j)' <=> InCritical(j)
    BY <1>1, <1>3, <1>6 DEF InCritical
  <2> QED BY <1>1, <2>1 DEF SemaIInv, SemaMutexExact, SemaMutexFree, SemaMutexTakenBy
<1>9. SemaStateExact' /\ SemaNoTwoEat'
  BY <1>1, <1>3, <1>5, <1>6, SemaRunsFacts DEF SemaIInv, SemaStateExact, SemaNoTwoEat, SemaTypeOK
<1>10. SemaHungryBlocked'
  BY <1>1, <1>3, NextDoor DEF SemaIInv, SemaHungryBlocked
<1> QED BY <1>4, <1>5, <1>7, <1>8, <1>9, <1>10 DEF SemaIInv


\* Who sleeps where, as the steps need it.
LEMMA SemaSleepFacts ==
  ASSUME PhilAssumption, SemaIInv, NEW i \in Phils
  PROVE  /\ SemaWaiters(i) \subseteq {i}
         /\ i \in SemaWaiters(i) => sem_pc[i] = "eat" /\ i \notin SemaWaiters(mutex)
         /\ i \in SemaWaiters(mutex) => sem_pc[i] \in {"take_test", "put_left"}
         /\ Q!Runs(i) <=> i \notin SemaWaiters(i) /\ i \notin SemaWaiters(mutex)
BY SemaSemsApart, SemaRunsFacts, SemaWaitersArePhils DEF SemaIInv, SemaWaitersPlaced

\* down(&mutex)
LEMMA SemaEnterStep ==
  ASSUME PhilAssumption, SemaIInv, NEW i \in Phils, take_down_mutex(i) \/ put_down_mutex(i)
  PROVE  SemaIInv'
<1> USE SemaSemsApart
<1> DEFINE m == IF sem_pc[i] = "take" THEN "take_test" ELSE "put_left"
<1>1. /\ Q!Runs(i) /\ sem_pc[i] \in {"take", "put"} /\ sem_pc' = [sem_pc EXCEPT ![i] = m]
      /\ Q!down(i, mutex) /\ UNCHANGED <<state_sema, sem_iter>>
  BY DEF take_down_mutex, put_down_mutex, SemaStep
<1>2. m \in SemaPCs /\ (sem_pc[i] = "take" => m = "take_test") /\ (sem_pc[i] = "put" => m = "put_left")
  BY <1>1 DEF SemaPCs
<1>3. sem_pc' \in [Phils -> SemaPCs] /\ sem_pc'[i] = m /\ \A j \in Phils : j # i => sem_pc'[j] = sem_pc[j]
  BY <1>1, <1>2 DEF SemaIInv, SemaTypeOK
<1> HIDE DEF m
<1>4. /\ Q!SemTypeOK' /\ QueuesOK(Semaphores, Phils, sem_value', sem_queue')
      /\ \A r \in Phils : sem_value'[r] = sem_value[r] /\ SemaWaiters(r)' = SemaWaiters(r)
      /\ IF sem_value[mutex] > 0
         THEN sem_value'[mutex] = sem_value[mutex] - 1 /\ SemaWaiters(mutex) = {} /\ SemaWaiters(mutex)' = {}
         ELSE sem_value'[mutex] = sem_value[mutex] /\ SemaWaiters(mutex)' = SemaWaiters(mutex) \cup {i}
  BY <1>1, SemaDownStep
<1>5. SemaTypeOK'
  BY <1>1, <1>3, <1>4 DEF SemaIInv, SemaTypeOK
<1>6. \A j \in Phils : j # i => (Q!Runs(j)' <=> Q!Runs(j))
  BY <1>4, SemaRunsFacts
<1>7. SemaWaitersPlaced'
  BY <1>1, <1>2, <1>3, <1>4, SemaRunsFacts, SemaWaitersArePhils DEF SemaIInv, SemaWaitersPlaced
<1>8. SemaMutexExact'
  <2>1. \A j \in Phils : j # i => (InCritical(j)' <=> InCritical(j))
    BY <1>3, <1>6 DEF InCritical
  <2>2. ~InCritical(i)
    BY <1>1 DEF InCritical
  <2>3. CASE SemaMutexFree
    <3>1. InCritical(i)' /\ sem_value'[mutex] = 0
      BY <1>1, <1>2, <1>3, <1>4, <2>3, SemaRunsFacts DEF InCritical, SemaMutexFree
    <3> QED BY <2>1, <2>3, <3>1 DEF SemaMutexExact, SemaMutexFree, SemaMutexTakenBy
  <2>4. ASSUME NEW k \in Phils, SemaMutexTakenBy(k) PROVE SemaMutexTakenBy(k)'
    <3>1. ~InCritical(i)' /\ sem_value'[mutex] = 0
      BY <1>4, <2>4, SemaRunsFacts DEF InCritical, SemaMutexTakenBy
    <3> QED BY <2>1, <2>2, <2>4, <3>1 DEF SemaMutexTakenBy
  <2> QED BY <2>3, <2>4 DEF SemaIInv, SemaMutexExact
<1>9. SemaStateExact' /\ SemaNoTwoEat'
  BY <1>1, <1>2, <1>3, <1>4 DEF SemaIInv, SemaStateExact, SemaNoTwoEat
<1>10. SemaHungryBlocked'
  BY <1>1, <1>2, <1>3, NextDoor DEF SemaIInv, SemaHungryBlocked
<1> QED BY <1>4, <1>5, <1>7, <1>8, <1>9, <1>10 DEF SemaIInv

\* up(&mutex): the one inside leaves, and lets the next one in or the mutex go.
LEMMA SemaLeaveStep ==
  ASSUME PhilAssumption, SemaIInv, NEW i \in Phils, take_up_mutex(i) \/ put_up_mutex(i)
  PROVE  SemaIInv'
<1> USE SemaSemsApart
<1> DEFINE m == IF sem_pc[i] = "take_up" THEN "take_down" ELSE "think"
<1>1. /\ Q!Runs(i) /\ sem_pc[i] \in {"take_up", "put_up"} /\ sem_pc' = [sem_pc EXCEPT ![i] = m]
      /\ Q!up(mutex) /\ UNCHANGED <<state_sema, sem_iter>>
  BY DEF take_up_mutex, put_up_mutex, SemaStep
<1>2. m \in SemaPCs /\ (sem_pc[i] = "take_up" => m = "take_down") /\ (sem_pc[i] = "put_up" => m = "think")
  BY <1>1 DEF SemaPCs
<1>3. sem_pc' \in [Phils -> SemaPCs] /\ sem_pc'[i] = m /\ \A j \in Phils : j # i => sem_pc'[j] = sem_pc[j]
  BY <1>1, <1>2 DEF SemaIInv, SemaTypeOK
<1> HIDE DEF m
<1>4. /\ Q!SemTypeOK' /\ QueuesOK(Semaphores, Phils, sem_value', sem_queue')
      /\ \A r \in Phils : sem_value'[r] = sem_value[r] /\ SemaWaiters(r)' = SemaWaiters(r)
      /\ \/ SemaWaiters(mutex) = {} /\ SemaWaiters(mutex)' = {} /\ sem_value'[mutex] = sem_value[mutex] + 1
         \/ /\ sem_value[mutex] = 0 /\ sem_value'[mutex] = 0
            /\ \E t \in SemaWaiters(mutex) : SemaWaiters(mutex)' = SemaWaiters(mutex) \ {t}
  BY <1>1, SemaUpStep
<1>5. SemaTypeOK'
  BY <1>1, <1>3, <1>4 DEF SemaIInv, SemaTypeOK
<1>6. SemaMutexTakenBy(i) /\ ~InCritical(i)'
  <2>1. InCritical(i) /\ ~InCritical(i)'
    BY <1>1, <1>2, <1>3 DEF InCritical
  <2> QED BY <2>1 DEF SemaIInv, SemaMutexExact, SemaMutexFree, SemaMutexTakenBy
<1>7. SemaWaitersPlaced'
  BY <1>1, <1>3, <1>4, SemaRunsFacts, SemaWaitersArePhils DEF SemaIInv, SemaWaitersPlaced
<1>8. SemaMutexExact'
  <2>1. CASE SemaWaiters(mutex) = {} /\ SemaWaiters(mutex)' = {} /\ sem_value'[mutex] = sem_value[mutex] + 1
    <3>1. \A j \in Phils : j # i => (InCritical(j)' <=> InCritical(j))
      BY <1>3, <1>4, <2>1, SemaRunsFacts DEF InCritical
    <3>2. SemaMutexFree'
      BY <1>6, <2>1, <3>1 DEF SemaMutexFree, SemaMutexTakenBy
    <3> QED BY <3>2 DEF SemaMutexExact
  <2>2. ASSUME NEW t \in SemaWaiters(mutex), sem_value'[mutex] = 0, SemaWaiters(mutex)' = SemaWaiters(mutex) \ {t}
        PROVE  SemaMutexExact'
    <3>1. \A j \in Phils : j # i /\ j # t => (InCritical(j)' <=> InCritical(j))
      BY <1>3, <1>4, <2>2, SemaRunsFacts DEF InCritical
    <3>2. t \in Phils /\ t # i /\ InCritical(t)'
      <4>1. t \in Phils /\ t # i /\ sem_pc[t] \in {"take_test", "put_left"}
        BY <1>1, <2>2, SemaSleepFacts, SemaRunsFacts, SemaWaitersArePhils
      <4>2. \A r \in Phils : t \notin SemaWaiters(r)
        BY <4>1, <2>2, SemaSleepFacts
      <4>3. Q!Runs(t)'
        BY <1>4, <2>2, <4>1, <4>2, SemaRunsFacts
      <4> QED BY <1>3, <4>1, <4>3 DEF InCritical
    <3>3. SemaMutexTakenBy(t)'
      BY <1>6, <2>2, <3>1, <3>2 DEF SemaMutexTakenBy
    <3> QED BY <3>2, <3>3 DEF SemaMutexExact
  <2> QED BY <1>4, <2>1, <2>2
<1>9. SemaStateExact' /\ SemaNoTwoEat'
  BY <1>1, <1>2, <1>3, <1>4 DEF SemaIInv, SemaStateExact, SemaNoTwoEat
<1>10. SemaHungryBlocked'
  BY <1>1, <1>2, <1>3, NextDoor DEF SemaIInv, SemaHungryBlocked
<1> QED BY <1>4, <1>5, <1>7, <1>8, <1>9, <1>10 DEF SemaIInv

\* down(&s[i]): i goes on to eat if it has been let through, or sleeps.
LEMMA SemaSelfStep ==
  ASSUME PhilAssumption, SemaIInv, NEW i \in Phils, take_down_self(i)
  PROVE  SemaIInv'
<1> USE SemaSemsApart
<1>1. /\ Q!Runs(i) /\ sem_pc[i] = "take_down" /\ sem_pc' = [sem_pc EXCEPT ![i] = "eat"]
      /\ Q!down(i, i) /\ UNCHANGED <<state_sema, sem_iter>>
  BY DEF take_down_self, SemaStep
<1>2. sem_pc' \in [Phils -> SemaPCs] /\ sem_pc'[i] = "eat" /\ \A j \in Phils : j # i => sem_pc'[j] = sem_pc[j]
  BY <1>1 DEF SemaIInv, SemaTypeOK, SemaPCs
<1>3. /\ Q!SemTypeOK' /\ QueuesOK(Semaphores, Phils, sem_value', sem_queue')
      /\ \A r \in Semaphores : r # i => sem_value'[r] = sem_value[r] /\ SemaWaiters(r)' = SemaWaiters(r)
      /\ IF sem_value[i] > 0
         THEN sem_value'[i] = sem_value[i] - 1 /\ SemaWaiters(i) = {} /\ SemaWaiters(i)' = {}
         ELSE sem_value'[i] = sem_value[i] /\ SemaWaiters(i)' = SemaWaiters(i) \cup {i}
  BY <1>1, SemaDownStep
<1>4. SemaTypeOK'
  BY <1>1, <1>2, <1>3 DEF SemaIInv, SemaTypeOK
<1>5. /\ sem_value'[mutex] = sem_value[mutex] /\ ~InCritical(i)'
      /\ \A j \in Phils : j # i => (InCritical(j)' <=> InCritical(j))
  <2>1. \A j \in Phils : j # i => (Q!Runs(j)' <=> Q!Runs(j))
    BY <1>3, SemaRunsFacts
  <2> QED BY <1>2, <1>3, <2>1 DEF InCritical
<1>6. SemaWaitersPlaced'
  BY <1>1, <1>2, <1>3, SemaRunsFacts, SemaWaitersArePhils DEF SemaIInv, SemaWaitersPlaced
<1>7. SemaMutexExact'
  <2>1. ~InCritical(i)
    BY <1>1 DEF InCritical
  <2> QED BY <1>5, <2>1 DEF SemaIInv, SemaMutexExact, SemaMutexFree, SemaMutexTakenBy
<1>8. SemaStateExact' /\ SemaNoTwoEat'
  <2>1. ASSUME NEW j \in Phils, j # i
        PROVE  sem_pc'[j] = sem_pc[j] /\ sem_value'[j] = sem_value[j] /\ SemaWaiters(j)' = SemaWaiters(j) /\ state_sema'[j] = state_sema[j]
    BY <1>1, <1>2, <1>3, <2>1
  <2>2. /\ sem_value'[i] = 0
        /\ state_sema'[i] = IF i \in SemaWaiters(i)' THEN "HUNGRY" ELSE "EATING"
    BY <1>1, <1>3 DEF SemaIInv, SemaStateExact
  <2> QED BY <1>1, <1>2, <2>1, <2>2 DEF SemaIInv, SemaStateExact, SemaNoTwoEat
<1>9. SemaHungryBlocked'
  BY <1>1, <1>2, NextDoor DEF SemaIInv, SemaHungryBlocked
<1> QED BY <1>3, <1>4, <1>6, <1>7, <1>8, <1>9 DEF SemaIInv

\* phi_test_sema(j) by i inside the critical section, on the states st that i
\* has left: j is let through only if its neighbours do not eat.
LEMMA SemaTestStep ==
  ASSUME PhilAssumption, SemaIInv, NEW i \in Phils, NEW j \in Phils, NEW m,
         NEW st \in [Phils -> {"THINKING", "HUNGRY", "EATING"}],
         Q!Runs(i), sem_pc' = [sem_pc EXCEPT ![i] = m], phi_test_sema(st, j), sem_iter' = sem_iter,
         \A k \in Phils : k # i => st[k] = state_sema[k],
         \/ sem_pc[i] = "take_test" /\ m = "take_up" /\ st[i] = "HUNGRY" /\ j = i
         \/ sem_pc[i] = "put_left" /\ m = "put_right" /\ st[i] = "THINKING" /\ j = LEFT(i)
         \/ sem_pc[i] = "put_right" /\ m = "put_up" /\ st[i] = "THINKING" /\ j = RIGHT(i)
  PROVE  SemaIInv'
<1> USE SemaSemsApart
<1>1. /\ m \in SemaPCs /\ m \in {"take_up", "put_right", "put_up"}
      /\ sem_pc' \in [Phils -> SemaPCs] /\ sem_pc'[i] = m /\ \A k \in Phils : k # i => sem_pc'[k] = sem_pc[k]
  BY DEF SemaIInv, SemaTypeOK, SemaPCs
<1>2. /\ j # i => st[i] = "THINKING" /\ m \in {"put_right", "put_up"}
      /\ j = i => m = "take_up"
  BY NextDoor
<1>3. sem_value[i] = 0 /\ SemaWaiters(i) = {}
  BY SemaSleepFacts DEF SemaIInv, SemaStateExact
<1>4. \A k \in Phils : st[k] = "EATING" => st[RIGHT(k)] # "EATING"
  BY NextDoor DEF SemaIInv, SemaNoTwoEat
<1>5. ASSUME NEW k \in Phils, st[k] = "HUNGRY", k # j \/ ~SemaMayEat(st, j)
      PROVE  st[LEFT(k)] = "EATING" \/ st[RIGHT(k)] = "EATING" \/ sem_pc'[LEFT(k)] = "put_right"
  <2>1. CASE k = j
    BY <1>5, <2>1 DEF SemaMayEat
  <2>2. CASE k # j
    <3>1. k # i /\ state_sema[k] = "HUNGRY"
      BY <1>5, <2>2
    <3>2. state_sema[LEFT(k)] = "EATING" \/ state_sema[RIGHT(k)] = "EATING" \/ sem_pc[LEFT(k)] = "put_right"
      BY <3>1 DEF SemaIInv, SemaHungryBlocked
    <3>3. CASE sem_pc[i] = "take_test"
      BY <1>1, <3>1, <3>2, <3>3, NextDoor DEF SemaIInv, SemaStateExact
    <3>4. CASE sem_pc[i] = "put_left"
      BY <1>1, <2>2, <3>1, <3>2, <3>4, NextDoor
    <3>5. CASE sem_pc[i] = "put_right"
      BY <1>1, <2>2, <3>1, <3>2, <3>5, NextDoor DEF SemaIInv, SemaStateExact
    <3> QED BY <3>3, <3>4, <3>5
  <2> QED BY <2>1, <2>2
<1>6. CASE SemaMayEat(st, j)
  <2>1. state_sema' = [st EXCEPT ![j] = "EATING"] /\ Q!up(j)
    BY <1>6 DEF phi_test_sema
  <2>2. /\ Q!SemTypeOK' /\ QueuesOK(Semaphores, Phils, sem_value', sem_queue')
        /\ \A r \in Semaphores : r # j => sem_value'[r] = sem_value[r] /\ SemaWaiters(r)' = SemaWaiters(r)
        /\ \/ SemaWaiters(j) = {} /\ SemaWaiters(j)' = {} /\ sem_value'[j] = sem_value[j] + 1
           \/ /\ sem_value[j] = 0 /\ sem_value'[j] = 0
              /\ \E t \in SemaWaiters(j) : SemaWaiters(j)' = SemaWaiters(j) \ {t}
    BY <2>1, SemaUpStep
  <2>3. /\ state_sema' \in [Phils -> {"THINKING", "HUNGRY", "EATING"}]
        /\ state_sema'[j] = "EATING" /\ \A k \in Phils : k # j => state_sema'[k] = st[k]
    BY <2>1
  <2>4. SemaTypeOK'
    BY <1>1, <2>2, <2>3 DEF SemaIInv, SemaTypeOK
  <2>5. st[j] = "HUNGRY" /\ SemaWaiters(j)' = {} /\ SemaWaiters(j) \subseteq {j} /\ sem_value[j] = 0
    <3>1. st[j] = "HUNGRY" /\ SemaWaiters(j) \subseteq {j}
      BY <1>6, SemaSleepFacts DEF SemaMayEat
    <3>2. sem_value[j] = 0
      BY <1>3, <3>1 DEF SemaIInv, SemaStateExact, SemaTypeOK, SemaPCs
    <3> QED BY <2>2, <3>1, <3>2
  <2>6. SemaWaitersPlaced'
    BY <1>1, <2>2, <2>5, SemaRunsFacts, SemaWaitersArePhils DEF SemaIInv, SemaWaitersPlaced
  <2>7. SemaMutexExact'
    <3>1. ASSUME NEW k \in Phils PROVE InCritical(k)' <=> InCritical(k)
      <4>1. CASE k = j
        BY <1>1, <2>2, <2>5, <4>1, SemaSleepFacts, SemaRunsFacts DEF InCritical
      <4>2. CASE k # j
        BY <1>1, <2>2, <2>5, <4>2, SemaRunsFacts DEF InCritical
      <4> QED BY <4>1, <4>2
    <3>2. sem_value'[mutex] = sem_value[mutex]
      BY <2>2
    <3> QED BY <3>1, <3>2 DEF SemaIInv, SemaMutexExact, SemaMutexFree, SemaMutexTakenBy
  <2>8. SemaStateExact'
    <3>1. ASSUME NEW k \in Phils, k # j, k # i
          PROVE  sem_pc'[k] = sem_pc[k] /\ sem_value'[k] = sem_value[k] /\ SemaWaiters(k)' = SemaWaiters(k) /\ state_sema'[k] = state_sema[k]
      BY <1>1, <2>2, <2>3, <3>1
    <3>2. j # i => sem_value'[i] = 0 /\ state_sema'[i] = "THINKING" /\ sem_pc'[i] \in {"put_right", "put_up"}
      BY <1>1, <1>2, <1>3, <2>2, <2>3
    <3>3. j = i => sem_value'[i] = 1 /\ state_sema'[i] = "EATING" /\ sem_pc'[i] = "take_up"
      BY <1>1, <1>2, <1>3, <2>2, <2>3
    <3>4. j # i => /\ sem_pc'[j] = sem_pc[j] /\ state_sema'[j] = "EATING" /\ sem_pc[j] \in {"take_up", "take_down", "eat"}
                   /\ sem_pc[j] # "eat" => sem_value'[j] = 1
                   /\ sem_pc[j] = "eat" => sem_value'[j] = 0 /\ j \notin SemaWaiters(j)'
      <4>1. j # i => state_sema[j] = "HUNGRY" /\ sem_pc'[j] = sem_pc[j]
        BY <1>1, <2>5
      <4>2. j # i => sem_pc[j] \in {"take_up", "take_down"} \/ (sem_pc[j] = "eat" /\ j \in SemaWaiters(j))
        <5>1. sem_pc[j] \in SemaPCs /\ (sem_pc[j] = "eat" /\ j \notin SemaWaiters(j) => state_sema[j] = "EATING")
          BY DEF SemaIInv, SemaTypeOK, SemaStateExact
        <5>2. sem_pc[j] \notin {"take_up", "take_down", "eat"} => state_sema[j] # "HUNGRY"
          BY <5>1 DEF SemaIInv, SemaStateExact, SemaPCs
        <5> QED BY <4>1, <5>1, <5>2
      <4>3. sem_pc[j] # "eat" => SemaWaiters(j) = {}
        BY <2>5, SemaSleepFacts
      <4> QED BY <2>2, <2>3, <2>5, <4>1, <4>2, <4>3
    <3> QED BY <3>1, <3>2, <3>3, <3>4 DEF SemaIInv, SemaStateExact
  <2>9. SemaNoTwoEat'
    BY <1>4, <1>6, <2>3, NextDoor DEF SemaNoTwoEat, SemaMayEat
  <2>10. SemaHungryBlocked'
    <3>1. \A k \in Phils : state_sema'[k] = "HUNGRY" => k # j /\ st[k] = "HUNGRY"
      BY <2>3
    <3>2. \A k \in Phils : st[k] = "EATING" => state_sema'[k] = "EATING"
      BY <2>3
    <3> QED BY <1>5, <3>1, <3>2, NextDoor DEF SemaHungryBlocked
  <2> QED BY <2>2, <2>4, <2>6, <2>7, <2>8, <2>9, <2>10 DEF SemaIInv
<1>7. CASE ~SemaMayEat(st, j)
  <2>1. state_sema' = st /\ UNCHANGED <<sem_value, sem_queue>>
    BY <1>7 DEF phi_test_sema
  <2>2. /\ Q!SemTypeOK' /\ QueuesOK(Semaphores, Phils, sem_value', sem_queue')
        /\ \A r \in Semaphores : sem_value'[r] = sem_value[r] /\ SemaWaiters(r)' = SemaWaiters(r)
    BY <2>1 DEF SemaIInv, SemaTypeOK, Q!SemTypeOK, SemaWaiters
  <2>3. SemaTypeOK'
    BY <1>1, <2>1, <2>2 DEF SemaIInv, SemaTypeOK
  <2>4. SemaWaitersPlaced'
    BY <1>1, <2>2, SemaRunsFacts, SemaWaitersArePhils DEF SemaIInv, SemaWaitersPlaced
  <2>5. SemaMutexExact'
    <3>1. \A k \in Phils : InCritical(k)' <=> InCritical(k)
      BY <1>1, <2>2, SemaRunsFacts DEF InCritical
    <3> QED BY <2>2, <3>1 DEF SemaIInv, SemaMutexExact, SemaMutexFree, SemaMutexTakenBy
  <2>6. SemaStateExact'
    BY <1>1, <1>3, <2>1, <2>2 DEF SemaIInv, SemaStateExact
  <2>7. SemaNoTwoEat'
    BY <1>4, <2>1 DEF SemaNoTwoEat
  <2>8. SemaHungryBlocked'
    BY <1>7, <1>5, <2>1, NextDoor DEF SemaHungryBlocked
  <2> QED BY <2>2, <2>3, <2>4, <2>5, <2>6, <2>7, <2>8 DEF SemaIInv
<1> QED BY <1>6, <1>7

LEMMA SemaNextStep == PhilAssumption /\ SemaIInv /\ [SemaNext]_sema => SemaIInv'
<1> SUFFICES ASSUME PhilAssumption, SemaIInv, [SemaNext]_sema PROVE SemaIInv'
  OBVIOUS
<1> DEFINE States == {"THINKING", "HUNGRY", "EATING"}
<1>1. ASSUME NEW i \in Phils, take_test_sema(i) PROVE SemaIInv'
  <2> DEFINE st == [state_sema EXCEPT ![i] = "HUNGRY"]
  <2>1. st \in [Phils -> States] /\ st[i] = "HUNGRY" /\ \A k \in Phils : k # i => st[k] = state_sema[k]
    BY DEF SemaIInv, SemaTypeOK
  <2>2. /\ Q!Runs(i) /\ sem_pc[i] = "take_test" /\ sem_pc' = [sem_pc EXCEPT ![i] = "take_up"]
        /\ phi_test_sema(st, i) /\ sem_iter' = sem_iter
    BY <1>1 DEF take_test_sema, SemaStep
  <2> HIDE DEF st
  <2> QED BY <2>1, <2>2, SemaTestStep
<1>2. ASSUME NEW i \in Phils, put_left_sema(i) PROVE SemaIInv'
  <2> DEFINE st == [state_sema EXCEPT ![i] = "THINKING"]
  <2>1. st \in [Phils -> States] /\ st[i] = "THINKING" /\ \A k \in Phils : k # i => st[k] = state_sema[k]
    BY DEF SemaIInv, SemaTypeOK
  <2>2. /\ Q!Runs(i) /\ sem_pc[i] = "put_left" /\ sem_pc' = [sem_pc EXCEPT ![i] = "put_right"]
        /\ phi_test_sema(st, LEFT(i)) /\ sem_iter' = sem_iter
    BY <1>2 DEF put_left_sema, SemaStep
  <2>3. LEFT(i) \in Phils /\ LEFT(i) # i
    BY NextDoor
  <2> HIDE DEF st
  <2> QED BY <2>1, <2>2, <2>3, SemaTestStep
<1>3. ASSUME NEW i \in Phils, put_right_sema(i) PROVE SemaIInv'
  <2>1. state_sema \in [Phils -> States] /\ (sem_pc[i] = "put_right" => state_sema[i] = "THINKING")
    BY DEF SemaIInv, SemaTypeOK, SemaStateExact
  <2>2. /\ Q!Runs(i) /\ sem_pc[i] = "put_right" /\ sem_pc' = [sem_pc EXCEPT ![i] = "put_up"]
        /\ phi_test_sema(state_sema, RIGHT(i)) /\ sem_iter' = sem_iter
    BY <1>3 DEF put_right_sema, SemaStep
  <2>3. RIGHT(i) \in Phils /\ RIGHT(i) # i
    BY NextDoor
  <2> QED BY <2>1, <2>2, <2>3, SemaTestStep
<1>4. ASSUME UNCHANGED sema PROVE SemaIInv'
  BY <1>4 DEF sema, SemaIInv, SemaTypeOK, Q!SemTypeOK, QueuesOK, SemaWaitersPlaced, SemaWaiters, SemaMutexExact, SemaMutexFree, SemaMutexTakenBy, InCritical,
              Q!Runs, SemaStateExact, SemaNoTwoEat, SemaHungryBlocked
<1> QED BY <1>1, <1>2, <1>3, <1>4, SemaQuietStep, SemaEnterStep, SemaLeaveStep, SemaSelfStep
        DEF SemaNext, philosopher_using_semaphore, cpu_idle_sema

\* What SemaIInv is for.
LEMMA SemaExclusion == PhilAssumption /\ SemaIInv => SemaNeverEat
<1> SUFFICES ASSUME PhilAssumption, SemaIInv PROVE SemaNeverEat
  OBVIOUS
<1>1. Q!SemOK
  BY DEF SemaIInv, QueuesOK, Q!SemOK, Q!Range, Q!IsInjective, Range, IsInjective
<1>2. MutexWorks
  BY <1>1 DEF SemaIInv, SemaMutexExact, SemaMutexFree, SemaMutexTakenBy, MutexWorks
<1>3. \A i \in Phils : SemaHasForks(i) => state_sema[i] = "EATING"
  BY SemaSleepFacts DEF SemaIInv, SemaHasForks, SemaStateExact
<1> QED BY <1>2, <1>3, NextDoor DEF SemaIInv, SemaNoTwoEat, SemaNeverEat

LEMMA SemaNoneForgotten == PhilAssumption /\ SemaIInv => SemaSomebodyRuns
<1> SUFFICES ASSUME PhilAssumption, SemaIInv, NEW i \in Phils, sem_pc[i] # "quit",
                    \A j \in Phils : sem_pc[j] # "quit" => ~Q!Runs(j)
             PROVE  FALSE
  BY DEF SemaSomebodyRuns
<1> USE SemaSemsApart
<1>1. sem_value[mutex] = 1
  <2>1. \A j \in Phils : ~InCritical(j)
    BY DEF InCritical
  <2> QED BY <2>1 DEF SemaIInv, SemaMutexExact, SemaMutexFree, SemaMutexTakenBy
<1>2. SemaWaiters(mutex) = {}
  BY <1>1 DEF SemaIInv, QueuesOK, SemaWaiters, Range
<1>3. \A j \in Phils : sem_pc[j] # "quit" => sem_pc[j] = "eat" /\ state_sema[j] = "HUNGRY"
  BY <1>2, SemaSleepFacts DEF SemaIInv, SemaStateExact
<1>4. \A j \in Phils : sem_pc[j] = "quit" => state_sema[j] = "THINKING"
  BY DEF SemaIInv, SemaStateExact
<1> QED BY <1>3, <1>4, NextDoor DEF SemaIInv, SemaHungryBlocked

\* SemaIInv holds in every state.
LEMMA SemaInvariance == ASSUME PhilAssumption PROVE SemaSpec => []SemaIInv
<1>1. SemaInit => SemaIInv
  BY SemaInitStep
<1>2. SemaIInv /\ [SemaNext]_sema => SemaIInv'
  BY SemaNextStep
<1> QED BY <1>1, <1>2, PTL DEF SemaSpec

\* phi_take_forks_sema and phi_put_forks_sema: the mutex keeps all but one
\* thread out of the critical sections, no waiter is passed over, and no two
\* neighbours have their forks at the same time.
THEOREM SemaNeverEatTogether == ASSUME PhilAssumption PROVE SemaSpec => []SemaNeverEat
<1>1. SemaIInv => SemaNeverEat
  BY SemaExclusion
<1> QED BY <1>1, SemaInvariance, PTL

\* phi_put_forks_sema forgets nobody: the philosophers never all sleep with a
\* meal still to come.
THEOREM SemaNeverAllAsleep == ASSUME PhilAssumption PROVE SemaSpec => []SemaSomebodyRuns
<1>1. SemaIInv => SemaSomebodyRuns
  BY SemaNoneForgotten
<1> QED BY <1>1, SemaInvariance, PTL
=============================================================================
