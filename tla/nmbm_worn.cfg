SPECIFICATION FairWorn
CONSTANTS
    BlockCount = 10
    MgmtStart = 1
    FactoryBads = {}
    ForceCreate = FALSE
    MaxFaults = 4
    MaxCuts = 2
PROPERTIES StoresMap Settles
CHECK_DEADLOCK FALSE
