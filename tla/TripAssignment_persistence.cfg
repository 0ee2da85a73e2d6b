SPECIFICATION LiveSpec
CONSTANTS
    t1 = t1
    t2 = t2
    d1 = d1
    d2 = d2
    Trips = {t1}
    Drivers = {d1}
    Capacity <- OneLorry
    Loads = {1, 2}
    LastDay = 2
    Interplant = {t1}
    Office = {c1}
    Attempts = {w1, w2}
    NoDriver = NoDriver
    Idle = Idle
CHECK_DEADLOCK FALSE
PROPERTIES
    NoBookingForgotten
