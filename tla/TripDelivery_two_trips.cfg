SPECIFICATION LiveSpec
CONSTANTS
    t1 = t1
    t2 = t2
    s1 = s1
    s2 = s2
    s3 = s3
    Trips = {t1, t2}
    Stops = {s1, s3}
    TripOf <- TwoTripOf
    Drivers = {d1}
    Admins = {a1, a2}
    Exceptions = {e1}
    NoDriver = NoDriver
    NoException = NoException
    NoTrip = NoTrip
    NoStop = NoStop
    NoProposal = NoProposal
    Unpaid = Unpaid
    Edited = Edited
    NoRequest = NoRequest
CHECK_DEADLOCK FALSE
PROPERTIES
    CompletedIsFinal
    StartedTripComesBack
