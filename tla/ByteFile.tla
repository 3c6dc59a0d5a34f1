------------------------------ MODULE ByteFile ------------------------------
(***************************************************************************)
(* What a file promises its users: a sequence of bytes, read and written   *)
(* at the position of a descriptor, which moves by what was transferred.   *)
(* A write may come short when the disk is full; the gap that a seek or a  *)
(* write beyond the end leaves reads as zeros.                             *)
(***************************************************************************)
EXTENDS Integers, Sequences

CONSTANTS Files, Descs, Values, Closed,
  Lengths,    \* how much a read or a write may transfer
  Positions   \* where a seek may go

VARIABLES
  data,   \* the bytes of each file
  fd,     \* what each descriptor names: [file, pos], or Closed
  res     \* what the last call returned, if it was a read

vars == <<data, fd, res>>

\* s with m bytes v from pos on.
Patched(s, pos, m, v) ==
  [k \in 1 .. (IF pos + m > Len(s) THEN pos + m ELSE Len(s)) |->
     IF k \in (pos + 1) .. (pos + m) THEN v ELSE IF k > Len(s) THEN 0 ELSE s[k]]

Init ==
  /\ data = [f \in Files |-> <<>>]
  /\ fd = [d \in Descs |-> Closed]
  /\ res = <<>>

Open(d, f) ==
  /\ fd[d] = Closed
  /\ \E cut \in BOOLEAN : data' = IF cut THEN [data EXCEPT ![f] = <<>>] ELSE data
  /\ \E at \in {0, Len(data'[f])} : fd' = [fd EXCEPT ![d] = [file |-> f, pos |-> at]]
  /\ res' = <<>>

Close(d) == fd[d] # Closed /\ fd' = [fd EXCEPT ![d] = Closed] /\ res' = <<>> /\ UNCHANGED data

Read(d, n) ==
  /\ fd[d] # Closed
  /\ LET s == data[fd[d].file]
         end == IF fd[d].pos + n > Len(s) THEN Len(s) ELSE fd[d].pos + n
     IN  /\ res' = SubSeq(s, fd[d].pos + 1, end)
         /\ fd' = [fd EXCEPT ![d].pos = @ + Len(res')]
  /\ UNCHANGED data

Write(d, m, v) ==
  /\ fd[d] # Closed
  /\ data' = [data EXCEPT ![fd[d].file] = Patched(@, fd[d].pos, m, v)]
  /\ fd' = [fd EXCEPT ![d].pos = @ + m]
  /\ res' = <<>>

Seek(d, pos) ==
  /\ fd[d] # Closed
  /\ fd' = [fd EXCEPT ![d].pos = pos]
  /\ data' = [data EXCEPT ![fd[d].file] =
                IF pos > Len(@) THEN Patched(@, pos, 0, 0) ELSE @]
  /\ res' = <<>>

Sync == res' = <<>> /\ UNCHANGED <<data, fd>>

Next ==
  \E d \in Descs :
     \/ \E f \in Files : Open(d, f)
     \/ Close(d)
     \/ Sync
     \/ \E n \in Lengths : Read(d, n) \/ \E v \in Values : Write(d, n, v)
     \/ \E pos \in Positions : Seek(d, pos)

Spec == Init /\ [][Next]_vars
=============================================================================
