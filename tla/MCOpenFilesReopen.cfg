CONSTANTS
    p1 = p1
    p2 = p2
    a = a
    Procs <- MCProcs
    Init_pid = p1
    Names <- MCNames
    InitFiles <- MCNames
    NUserFds = 2
    MaxFid = 2
    MaxPinned = 1
    MaxNodes = 3
    MaxSize = 2
    StackFails = TRUE
    WriteLens = {1}
    ReadLens = {1}
    ChmodPerms <- MCChmodPerms
SPECIFICATION Spec
PROPERTIES
    UnlinkedNotReopened
CHECK_DEADLOCK FALSE
