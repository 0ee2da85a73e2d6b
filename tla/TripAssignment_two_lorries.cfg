SPECIFICATION Spec
CONSTANTS
    t1 = t1
    t2 = t2
    d1 = d1
    d2 = d2
    Trips = {t1, t2}
    Drivers = {d1, d2}
    Capacity <- TwoLorries
    Loads = {2}
    LastDay = 2
    Interplant = {t1, t2}
    Office = {c1}
    Attempts = {w1}
    NoDriver = NoDriver
    Idle = Idle
SYMMETRY Interchangeable
CHECK_DEADLOCK FALSE
INVARIANTS
    TypeOK
    DriverFollowsStatus
    LorryFits
PROPERTIES
    PinnedStaysManual
    NeverCancelledOnTheRoad
