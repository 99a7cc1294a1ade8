SPECIFICATION FairSpec
CONSTANTS
    Devs = {d1}
    MuxDevs = {d1}
    Chips = {}
    NetsysV3 = {TRUE}
    None = None
    MaxEvents = 2
PROPERTIES DebugResets
CHECK_DEADLOCK FALSE
