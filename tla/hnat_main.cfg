SPECIFICATION FairSpec
CONSTANTS
    f1 = f1
    h1 = h1
    Cpus = {u1, u2}
    Flows = {f1}
    NumSlots = 2
    SlotOf <- Hash
    HostOf <- NextHop
    Direct = {f1}
    Macs = {m1, m2}
    Budget = 1
    PendingMax = 2
    None = None
    MaxEvents = 3
INVARIANTS TypeOK NoStalePath CacheFollows
PROPERTIES BoundIsLeft EventsHandled
CHECK_DEADLOCK FALSE
