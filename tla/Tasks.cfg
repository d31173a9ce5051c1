SPECIFICATION LiveSpec
CONSTANTS
    Children = {c1, c2}
    Names = {a, b}
    Aborts = {FALSE}
    MaxCalls = 2
    MaxOps = 1
INVARIANTS LiveTargets NamesKept HoldersCounted NoLostWakeup
PROPERTIES QuitEnds
CHECK_DEADLOCK FALSE
