CONSTANTS
    NPids <- MCNPids
    NicePrios <- MCNicePrios
    KillSigs <- MCKillSigs
    StackFails <- MCStackFails
    SleepTicks <- MCSleepTicks
SPECIFICATION Spec
INVARIANTS
    MemorySafe
CHECK_DEADLOCK FALSE
