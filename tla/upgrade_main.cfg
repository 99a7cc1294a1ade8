SPECIFICATION Spec
CONSTANTS
    Total = 9
    ImageSizes = {2, 4}
    Boards <- AllBoards
    MaxOps = 3
    MaxFaults = 2
    MaxCuts = 2
INVARIANTS TypeOK AlwaysBoots PromiseKept OverlayThere RoomFound
CHECK_DEADLOCK FALSE
