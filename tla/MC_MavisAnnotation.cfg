CONSTANTS
    m1 = m1
    m2 = m2
    m3 = m3
    f1 = f1
    f2 = f2
    Absent = Absent
    Mnemonics = {m1, m2, m3}
    Forms = {f1, f2}
    Objs <- MC_Objs
    NumObjs = 4
    SpecISAs = {"RISCV", "ARM"}
    SpecIEMs = {"RV64", "INVALID"}

SPECIFICATION Spec
CHECK_DEADLOCK FALSE
INVARIANT UpdateFailsOnlyOnMalformed
INVARIANT FormsFollowFirstDefinitions
