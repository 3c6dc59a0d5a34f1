---------------------------- MODULE MCProcSched ----------------------------
(* Small instances of ProcSched for TLC. *)
EXTENDS ProcSched, TLC

\* Nothing tells the free proc_structs apart, unless Victims names some of
\* them only or a liveness property is checked.
SlotSymmetry == Permutations(Slots)
=============================================================================
