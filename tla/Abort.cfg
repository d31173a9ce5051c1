SPECIFICATION Spec
CONSTANTS
    Children = {c1, c2}
    Names = {a, b}
    Aborts = {TRUE, FALSE}
    MaxCalls = 2
    MaxOps = 1
INVARIANT AbortSuppressed
CHECK_DEADLOCK FALSE
