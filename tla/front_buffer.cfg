SPECIFICATION Spec
CONSTANTS
    Callers = {u1, u2}
    NumLogical = 2
    NumPool = 2
    NumPages = 2
    MaxRetry = 1
    None = None
    MaxOps = 2
    MaxFaults = 2
SYMMETRY Symmetry
INVARIANT CopiesOwn
CHECK_DEADLOCK FALSE
