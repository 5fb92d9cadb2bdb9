CONSTANTS
    Insts <- MC_Insts
    TraceLen = 5
    IdMax = 7
    StartInsts = {0, 1, 2, 3, 6}
    EndInsts = {0, 1, 3, 5, 7}
SPECIFICATION Spec
\* The dumper stops for good once it is done or has rejected its options.
CHECK_DEADLOCK FALSE
INVARIANT DumpCoversWindow
INVARIANT LabelsAttributeThreads
INVARIANT UnknownWarningMatchesWindow
