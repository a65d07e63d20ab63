CONSTANTS
    p1 = p1
    p2 = p2
    a = a
    Procs <- MCProcs
    Init_pid = p1
    Names <- MCNames
    InitFiles <- MCNames
    NUserFds = 2
    MaxFid = 1
    MaxPinned = 1
    MaxNodes = 3
    MaxSize = 1
    StackFails = TRUE
    WriteLens = {1}
    ReadLens = {1}
    ChmodPerms <- MCChmodPerms
SPECIFICATION Spec
INVARIANTS
    TypeOK
    AtMostOneOffset
CHECK_DEADLOCK FALSE
