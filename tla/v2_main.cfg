SPECIFICATION SpecBoth
CONSTANTS
    TotalBlks = 10
    PoolLba = 4
    BbMax = 2
    FactoryBads <- Bads
    MaxFaults = 3
    MaxCuts = 1
INVARIANTS TypeOK MappingInjective TableApart RestartFindsData DataReachable
CHECK_DEADLOCK FALSE
