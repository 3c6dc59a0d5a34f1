------------------------------ MODULE PidAlloc ------------------------------
(***************************************************************************)
(* get_pid of kern/process/proc.c, with the list it scans: proc_list, to   *)
(* which do_fork adds at the head (set_links) and from which do_wait       *)
(* removes (remove_links).  Only the pids of the list are kept.            *)
(*                                                                         *)
(* get_pid does not look at the list on every call: it remembers that no   *)
(* pid of the list lies strictly between last_pid and next_safe, and scans *)
(* again when last_pid gets there.  One action is one turn of the scan;    *)
(* the kernel is not preempted, so nothing else happens during it.         *)
(***************************************************************************)
EXTENDS Naturals, Sequences, SequencesExt

CONSTANTS
  MAX_PROCESS,  \* proc.h: how many processes there may be, idle included
  MAX_PID       \* proc.h: pids are below it

\* The static_assert of get_pid, and room for idle and init.
ASSUME PidAssumption ==
  /\ MAX_PROCESS \in Nat
  /\ MAX_PID \in Nat
  /\ MAX_PROCESS > 1
  /\ MAX_PID > MAX_PROCESS

VARIABLES
  proc_list,  \* the pids on proc_list, head first; idle is not on it
  last_pid,   \* the static variables of get_pid
  next_safe,
  le,         \* the place of the scan in proc_list
  pc          \* "out", or in do_fork: "scan" in get_pid, "got" after it

vars == <<proc_list, last_pid, next_safe, le, pc>>

TypeOK ==
  /\ proc_list \in Seq(1 .. MAX_PID - 1)
  /\ last_pid \in 1 .. MAX_PID
  /\ next_safe \in 1 .. MAX_PID
  /\ le \in 1 .. Len(proc_list) + 1
  /\ pc \in {"out", "scan", "got"}

Init ==
  /\ proc_list = <<>>
  /\ last_pid = MAX_PID
  /\ next_safe = MAX_PID
  /\ le = 1
  /\ pc = "out"

\* do_fork's test of nr_process, which counts the idle process too.
HasRoom_always == TRUE
HasRoom == Len(proc_list) + 1 < MAX_PROCESS

\* inside: and repeat:, the scan from the head with nothing known.
Rescan(pid) ==
  /\ last_pid' = pid
  /\ next_safe' = MAX_PID
  /\ le' = 1
  /\ pc' = "scan"
  /\ UNCHANGED proc_list

get_pid ==
  /\ pc = "out"
  /\ HasRoom
  /\ \/ last_pid + 1 >= MAX_PID /\ Rescan(1)
     \/ last_pid + 1 < MAX_PID /\ last_pid + 1 >= next_safe /\ Rescan(last_pid + 1)
     \/ /\ last_pid + 1 < MAX_PID /\ last_pid + 1 < next_safe
        /\ last_pid' = last_pid + 1
        /\ pc' = "got"
        /\ UNCHANGED <<proc_list, next_safe, le>>

\* The loop meets a process that has last_pid: it tries the next number, which
\* it knows to be free so far unless it reaches next_safe.
Wrapped(pid) == IF pid >= MAX_PID THEN 1 ELSE pid

scan_taken ==
  /\ pc = "scan"
  /\ le <= Len(proc_list)
  /\ proc_list[le] = last_pid
  /\ \/ last_pid + 1 >= next_safe /\ Rescan(Wrapped(last_pid + 1))
     \/ /\ last_pid + 1 < next_safe
        /\ last_pid' = last_pid + 1
        /\ le' = le + 1
        /\ UNCHANGED <<proc_list, next_safe, pc>>

\* The loop meets another pid, which may be a closer end of the safe range.
Lowered_never(pid) == next_safe
Lowered(pid) == IF pid > last_pid /\ next_safe > pid THEN pid ELSE next_safe

scan_other ==
  /\ pc = "scan"
  /\ le <= Len(proc_list)
  /\ proc_list[le] # last_pid
  /\ next_safe' = Lowered(proc_list[le])
  /\ le' = le + 1
  /\ UNCHANGED <<proc_list, last_pid, pc>>

scan_end ==
  /\ pc = "scan"
  /\ le = Len(proc_list) + 1
  /\ pc' = "got"
  /\ le' = 1
  /\ UNCHANGED <<proc_list, last_pid, next_safe>>

\* do_fork goes on with hash_proc and set_links, or loses the pid because
\* copy_files fails (for init that is a panic in proc_init).
set_links ==
  /\ pc = "got"
  /\ proc_list' = <<last_pid>> \o proc_list
  /\ pc' = "out"
  /\ le' = 1
  /\ UNCHANGED <<last_pid, next_safe>>

bad_fork_cleanup_fs ==
  /\ pc = "got"
  /\ proc_list # <<>>
  /\ pc' = "out"
  /\ le' = 1
  /\ UNCHANGED <<proc_list, last_pid, next_safe>>

\* do_wait reaps any process but init, the last of the list.
remove_links ==
  /\ pc = "out"
  /\ \E i \in 1 .. Len(proc_list) - 1 : proc_list' = RemoveAt(proc_list, i)
  /\ le' = 1
  /\ UNCHANGED <<last_pid, next_safe, pc>>

Scan == scan_taken \/ scan_other \/ scan_end
Next == get_pid \/ Scan \/ set_links \/ bad_fork_cleanup_fs \/ remove_links

Spec == Init /\ [][Next]_vars
FairSpec == Spec /\ WF_vars(Scan)
-----------------------------------------------------------------------------
(* Properties *)

\* "alloc a unique pid for process" (the comment on get_pid): no two
\* processes of proc_list, and so none that find_proc can meet, share a pid.
PidUnique == \A i, j \in 1 .. Len(proc_list) : proc_list[i] = proc_list[j] => i = j

\* initproc, the last of the list, has pid 1, as proc_init asserts, for ever.
InitIsOne == proc_list # <<>> => proc_list[Len(proc_list)] = 1

\* A pid comes back only after a whole cycle: the counter of get_pid grows by
\* one at a time, and falls back to 1 only from the end of its range.
PidsCycleStep ==
  last_pid' # last_pid =>
    last_pid' = last_pid + 1 \/ (last_pid' = 1 /\ last_pid >= MAX_PID - 1)
PidsCycle == [][PidsCycleStep]_vars

\* get_pid returns: with MAX_PID > MAX_PROCESS there is always a free pid.
GetPidReturns == pc = "scan" ~> pc = "got"
-----------------------------------------------------------------------------
(* The inductive invariant *)

\* What the scan knows of the i-th process of the list: it neither has
\* last_pid nor lies between last_pid and next_safe.
Clear(i) ==
  /\ proc_list[i] # last_pid
  /\ ~ (last_pid < proc_list[i] /\ proc_list[i] < next_safe)

ScanKnows ==
  /\ pc = "scan" =>
       last_pid < next_safe /\ \A i \in 1 .. Len(proc_list) : i < le => Clear(i)
  /\ pc = "got" =>
       last_pid < MAX_PID /\ \A i \in 1 .. Len(proc_list) : Clear(i)

\* Between two calls the range between last_pid and next_safe is still free.
CacheSafe ==
  pc = "out" =>
    \A i \in 1 .. Len(proc_list) : ~ (last_pid < proc_list[i] /\ proc_list[i] < next_safe)

\* With an empty list the first pid is 1.
FirstIsOne == proc_list = <<>> => IF pc = "out" THEN last_pid = MAX_PID ELSE last_pid = 1

IInv == TypeOK /\ PidUnique /\ InitIsOne /\ ScanKnows /\ CacheSafe /\ FirstIsOne
=============================================================================
