CONSTANTS
    PCs <- MC_PCs
    Opcodes <- MC_Opcodes
    OpKind <- MC_OpKind
    Opcode16 <- MC_Opcode16
    ThreadIds <- MC_ThreadIds
    Addrs = {2}
    MaxAccesses = 1
    G_HW_TID = 0
    G_PID = 0
    G_TID = 1
    MaxLHist = 2
    AddrBits = 5
    WarmupCount = 1
    RunLengthCount = 3
    KeepCounts = {4}
    MaxRead = 4

SPECIFICATION ReportSpec

\* The run ends when print() returns or throws.
CHECK_DEADLOCK FALSE

INVARIANT ReportAssertionHolds
