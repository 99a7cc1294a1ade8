SPECIFICATION Spec
CONSTANTS
    Callers = {u1, u2}
    NumLogical = 2
    NumPool = 3
    NumPages = 2
    MaxRetry = 1
    None = None
    MaxOps = 2
    MaxFaults = 3
SYMMETRY Symmetry
INVARIANTS TypeOK DataKept ReadTrue PoolSpent
CHECK_DEADLOCK FALSE
