SPECIFICATION Spec
CONSTANTS
    Stops = {s1, s2}
    MaxApiFailures = 2
    MaxOutbox = 2
    NoItem = NoItem
    Idle = Idle
    MaxTaps = 3
CHECK_DEADLOCK FALSE
SYMMETRY Interchangeable
PROPERTY
    MidFlushTapSurvives
