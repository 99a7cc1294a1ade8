SPECIFICATION Spec
CONSTANTS
    TotalBlks = 8
    Ranges <- OneRange
    Homes = {6}
    MaxFaults = 2
    MaxCuts = 1
INVARIANTS TypeOK MappingPermutes DataStays TableSaved
CHECK_DEADLOCK FALSE
