---------------------------- MODULE MC_IMemReport ----------------------------
(***************************************************************************)
(* Model values for a whole stf_imem run on a regular trace.  Three PCs,   *)
(* 0, 4 and 6, so that whether two neighbours are contiguous depends on    *)
(* the size of the first one's opcode (opcode 3 is 16 bit), and a short   *)
(* trace whose entries end up with equal and unequal counts.              *)
(***************************************************************************)
EXTENDS IMemReport

MC_PCs == {0, 4, 6}
MC_Opcodes == {1, 2, 3}
MC_OpKind == (1 :> "load") @@ (2 :> "branch") @@ (3 :> "other")
MC_Opcode16 == {3}
MC_ThreadIds == {1, 2}

=============================================================================
