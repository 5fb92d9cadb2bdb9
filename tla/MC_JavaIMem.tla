----------------------------- MODULE MC_JavaIMem -----------------------------
(***************************************************************************)
(* Model values for JavaIMem.  Three PCs and three opcodes, so that a PC *)
(* can carry three opcodes, the vector grows twice and a search passes    *)
(* over tables that hold one PC and miss another.                         *)
(* The Java profiler keeps no local history, so the opcode kinds and the  *)
(* addresses play no part and are fixed to one value.                     *)
(***************************************************************************)
EXTENDS JavaIMem

MC_PCs == {0, 4, 8}
MC_Opcodes == {1, 2, 3}
MC_OpKind == [op \in MC_Opcodes |-> "other"]
MC_Opcode16 == {3}
MC_ThreadIds == {1, 2}

=============================================================================
