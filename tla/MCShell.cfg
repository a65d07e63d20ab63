CONSTANTS
    Kids <- MCKids
    MaxCtr <- MCMaxCtr
    ScriptLines <- MCScriptLines
SPECIFICATION Spec
INVARIANT JobControlSafe
CHECK_DEADLOCK FALSE
