SPECIFICATION FairSpec
CONSTANTS
    Devs = {d1}
    MuxDevs = {d1}
    Chips = {c1, c2}
    NetsysV3 = {TRUE, FALSE}
    None = None
    MaxEvents = 2
PROPERTIES RtnlReleased ResetEnds HangIsCured
CHECK_DEADLOCK FALSE
