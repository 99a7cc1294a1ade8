SPECIFICATION SpecMain
CONSTANTS
    BlockCount = 11
    MgmtStart = 3
    FactoryBads <- BadsCreate
    ForceCreate = TRUE
    MaxFaults = 3
    MaxCuts = 1
INVARIANTS TypeOK MappingInjective AreaDisjoint RestartFindsData DataReachable NoOverlap
PROPERTIES StoresMap
CHECK_DEADLOCK FALSE
