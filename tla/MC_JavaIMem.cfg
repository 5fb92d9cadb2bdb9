CONSTANTS
    PCs <- MC_PCs
    Opcodes <- MC_Opcodes
    OpKind <- MC_OpKind
    Opcode16 <- MC_Opcode16
    ThreadIds <- MC_ThreadIds
    Addrs = {0}
    MaxAccesses = 1
    G_HW_TID = 0
    G_PID = 2
    G_TID = 0
    MaxLHist = 1
    AddrBits = 1
    WarmupCount = 2
    RunLengthCount = 4
    KeepCount = 6
    MaxRead = 6

SPECIFICATION Spec

\* The profiler stops when the trace ends or keep_count is reached.
CHECK_DEADLOCK FALSE

INVARIANT TypeOK
INVARIANT CountsSumToInstCount
INVARIANT PairsRecordedOnce
INVARIANT TablesBoundedByReuse

