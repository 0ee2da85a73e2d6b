SPECIFICATION Spec
CONSTANTS
    z = z
    a = a
    b = b
    Rows = {z}
    Fields = {"points"}
    FieldsOf <- PointsOnly
    Values = {1, 3}
    Submitted = {1, 3}
    SpecOf <- SeededPoints
    ResetRows = {}
    None = None
    LastDay = 2
    MaxEdits = 1
    Trips = {t1, t2}
    Keys = {k1, k2}
    Calls = {c1, c2}
    Requests = {r1, r2}
    Contents <- Asks
    Consignees = {a, b}
    ZoneOf <- InZone
    Capacity = 3
CHECK_DEADLOCK FALSE
CONSTRAINT
    Explored
SYMMETRY Interchangeable
INVARIANTS
    TypeOK
    OneTripPerBooking
    LorryFits
    OneEraPerTrip
PROPERTIES
    NoLostEdit
    ChangesAreDecided
    LockedPrices
