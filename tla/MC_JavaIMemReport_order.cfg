CONSTANTS
    PCs <- MC_PCs
    Opcodes <- MC_Opcodes
    OpKind <- MC_OpKind
    Opcode16 <- MC_Opcode16
    ThreadIds <- MC_ThreadIds
    Addrs = {0}
    MaxAccesses = 1
    G_HW_TID = 0
    G_PID = 0
    G_TID = 0
    MaxLHist = 1
    AddrBits = 1
    WarmupCount = 1
    RunLengthCount = 3
    KeepCount = 5
    MaxRead = 5

SPECIFICATION ReportSpec

\* The run ends when print() returns or throws.
CHECK_DEADLOCK FALSE

INVARIANT TablesNewestFirst
