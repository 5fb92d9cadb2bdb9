CONSTANTS
    PCs <- MC_PCs
    Opcodes <- MC_Opcodes
    OpKind <- MC_OpKind
    Opcode16 <- MC_Opcode16
    Addrs <- MC_Addrs
    ThreadIds <- MC_ThreadIds
    MaxAccesses = 1
    G_HW_TID = 1
    G_PID = 0
    G_TID = 0
    MaxLHist = 2
    AddrBits = 5
    WarmupCount = 1
    RunLengthCount = 3
    KeepCounts = {4}
    MaxRead = 5

SPECIFICATION Spec

\* The profiler stops when the trace ends or keep_count is reached.
CHECK_DEADLOCK FALSE

INVARIANT RunLengthWithinWindow
