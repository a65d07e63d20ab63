CONSTANTS
    NPids <- LiveNPids
    NicePrios <- LiveNicePrios
    KillSigs <- LiveKillSigs
    StackFails <- LiveStackFails
    SleepTicks <- LiveSleepTicks
SPECIFICATION Spec
PROPERTIES
    NoStarvation
    SleepReturns
CHECK_DEADLOCK FALSE
