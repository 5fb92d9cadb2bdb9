-------------------------- MODULE MC_JavaIMemReport --------------------------
(***************************************************************************)
(* Model values for a whole stf_imem run on a Java trace.  PCs 0 and 4 are *)
(* contiguous behind a 32-bit opcode, not behind the 16-bit opcode 3, and  *)
(* three opcodes let PC 0 be reused so that a second table is created.    *)
(***************************************************************************)
EXTENDS JavaIMemReport

MC_PCs == {0, 4}
MC_Opcodes == {1, 2, 3}
MC_OpKind == [op \in MC_Opcodes |-> "other"]
MC_Opcode16 == {3}
MC_ThreadIds == {1, 2}

=============================================================================
