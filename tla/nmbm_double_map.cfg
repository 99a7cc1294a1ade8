SPECIFICATION Spec
CONSTANTS
    BlockCount = 11
    MgmtStart = 2
    FactoryBads <- BadsSpare
    ForceCreate = TRUE
    MaxFaults = 3
    MaxCuts = 0
INVARIANTS Injective
CHECK_DEADLOCK FALSE
