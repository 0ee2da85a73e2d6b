SPECIFICATION Spec
CONSTANTS
    lorry = lorry
    za = za
    zb = zb
    t1 = t1
    t2 = t2
    a = a
    b = b
    c = c
    Rows = {lorry, za, zb}
    Fields <- RateFields
    FieldsOf <- EditableFields
    Values = {1, 2, 3}
    Submitted = {3}
    SpecOf <- SeededRates
    ResetRows = {lorry}
    None = None
    LastDay = 3
    MaxEdits = 2
    Trips = {t1, t2}
    Stops = {a, b, c}
    TripOf <- OnTrip
    ZoneOf <- InZone
    Lorry = lorry
    PlantRates <- OnPlantWork
    OffDays = {1}
    PeakTaps = {1}
    OwnAmounts = {0}
    TapsADay = 2
    UndoTaps = 1
CHECK_DEADLOCK FALSE
CONSTRAINT
    Explored
INVARIANTS
    TypeOK
    PromisesKept
    OneFirstDropPerZone
    DayTotal
    StoredPointsAgree
    OvertimeOnce
    OneTariffADay
PROPERTY
    RatesHoldAllDay
