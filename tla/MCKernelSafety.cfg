CONSTANTS
    NPids <- MCNPids
    NicePrios <- MCNicePrios
    KillSigs <- MCKillSigs
    StackFails <- MCStackFails
    SleepTicks <- MCSleepTicks
SPECIFICATION Spec
INVARIANTS
    TypeOK
    ParentLinksLive
    ChildrenAgree
CHECK_DEADLOCK FALSE
