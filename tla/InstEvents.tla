----------------------------- MODULE InstEvents -----------------------------
(***************************************************************************)
(* The instruction events the profilers read from the trace reader         *)
(* (stf::STFInst, an external collaborator).  Only the fields the          *)
(* profilers look at are kept: PC, opcode, the taken-branch flag, the      *)
(* addresses of the memory accesses of the instruction's kind, the three   *)
(* thread identifiers and the fault flag.  What an opcode is (load, store, *)
(* branch, other; 16 or 32 bit) is a property of the opcode, as the        *)
(* decoder would report it.                                                *)
(***************************************************************************)
EXTENDS Integers, Sequences

CONSTANTS
    PCs,          \* instruction addresses
    Opcodes,      \* opcodes
    OpKind,       \* [Opcodes -> {"load", "store", "branch", "other"}]
    Opcode16,     \* the opcodes that are compressed (16 bit)
    Addrs,        \* memory addresses a load/store may access
    MaxAccesses,  \* most memory accesses of one instruction in the model
    ThreadIds,    \* values of hwtid, pid and tid in the trace
    G_HW_TID,     \* STFImemConfig::g_hw_tid (0: no filter)
    G_PID,        \* STFImemConfig::g_pid (0: no filter)
    G_TID         \* STFImemConfig::g_tid (0: no filter)

ASSUME OpKind \in [Opcodes -> {"load", "store", "branch", "other"}]
ASSUME Opcode16 \subseteq Opcodes
ASSUME {G_HW_TID, G_PID, G_TID} \subseteq ThreadIds \cup {0}

IsLoadStoreOp(op) == OpKind[op] \in {"load", "store"}

\* The accesses of a load (memory reads) or store (memory writes): at least
\* one for a load/store in the model, none for anything else.
AccessSeqs(op) ==
    IF IsLoadStoreOp(op)
    THEN UNION {[1 .. n -> Addrs] : n \in 1 .. MaxAccesses}
    ELSE {<<>>}

\* isTakenBranch() can only be set on a branch.
TakenValues(op) == IF OpKind[op] = "branch" THEN BOOLEAN ELSE {FALSE}

\* An event that passes the thread filters and is not a fault, as it
\* reaches count_impl.
CountedEvents ==
    UNION {{[pc |-> pc, opcode |-> op, taken |-> t, accesses |-> acc]
            : t \in TakenValues(op), acc \in AccessSeqs(op)}
           : pc \in PCs, op \in Opcodes}

\* The filters of processTrace_: a non-zero configured id must match, and
\* faulting instructions are dropped because they are replayed.
Admitted(hwtid, pid, tid, isFault) ==
    /\ G_HW_TID = 0 \/ G_HW_TID = hwtid
    /\ G_PID = 0 \/ G_PID = pid
    /\ G_TID = 0 \/ G_TID = tid
    /\ ~isFault

\* The address count_impl takes from an event: it loops over the
\* accesses and keeps overwriting addr, so the last one wins; 0 when none.
InstAddr(e) == IF e.accesses = <<>> THEN 0 ELSE e.accesses[Len(e.accesses)]

\* The address the specification says is captured: the first access.
FirstAddr(e) == IF e.accesses = <<>> THEN 0 ELSE e.accesses[1]

=============================================================================
