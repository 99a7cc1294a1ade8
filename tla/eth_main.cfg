SPECIFICATION Spec
CONSTANTS
    Devs = {d1, d2}
    MuxDevs = {d1}
    Chips = {c1, c2}
    NetsysV3 = {TRUE, FALSE}
    None = None
    MaxEvents = 3
SYMMETRY Symmetry
INVARIANTS TypeOK ChipsQuietAtReset HandshakeBalanced DmaSound PhylinkFollows
CHECK_DEADLOCK FALSE
