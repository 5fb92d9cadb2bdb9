------------------------------- MODULE MC_IMem -------------------------------
(***************************************************************************)
(* Model values for IMem.  Two PCs, one opcode of each kind (so that a PC  *)
(* can be reused by another opcode), addresses whose differences go both  *)
(* ways and include the address 0, a history ring of two slots so that    *)
(* three executions of a PC wrap it, and windows small enough that the    *)
(* warm-up, run-length and keep-count boundaries are all crossed.         *)
(***************************************************************************)
EXTENDS IMem

MC_PCs == {0, 4}
MC_Opcodes == {1, 2, 3}
MC_OpKind == (1 :> "load") @@ (2 :> "branch") @@ (3 :> "other")
MC_Opcode16 == {3}
MC_Addrs == {0, 2, 13}
MC_ThreadIds == {1, 2}

=============================================================================
