SPECIFICATION Spec
CONSTANTS
    t1 = t1
    t2 = t2
    s1 = s1
    s2 = s2
    s3 = s3
    Trips = {t1}
    Stops = {s1, s2}
    TripOf <- OneTripOf
    Drivers = {d1, d2}
    Admins = {a1}
    Exceptions = {e1, e2}
    NoDriver = NoDriver
    NoException = NoException
    NoTrip = NoTrip
    NoStop = NoStop
    NoProposal = NoProposal
    Unpaid = Unpaid
    Edited = Edited
    NoRequest = NoRequest
CHECK_DEADLOCK FALSE
INVARIANT
    NothingOutstandingIsFinalized
