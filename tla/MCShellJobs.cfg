CONSTANTS
    Kids <- JobKids
    MaxCtr <- JobMaxCtr
    ScriptLines <- MCScriptLines
SPECIFICATION Spec
INVARIANTS
    TypeOK
    JobListOrdered
CHECK_DEADLOCK FALSE
