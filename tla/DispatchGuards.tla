--------------------------- MODULE DispatchGuards ---------------------------
(***************************************************************************)
(* The stateless rules that refuse a lorry or a pickup time: operating     *)
(* hours (api/src/services/operatingWindow.ts), the conflict window        *)
(* (schedulingConflict.ts, and its second form in dispatchEngine.ts),      *)
(* roadworthiness in its two forms (truckEligibility.ts) and the booking   *)
(* cut-offs (api/src/lib/bookingCutoff.ts).  TripAssignment has them as    *)
(* refusals that may always happen; here is what they compute.             *)
(*                                                                         *)
(* An instant is a number of milliseconds on the Malaysian wall clock      *)
(* (UTC+8, no daylight saving), a day is the number of its date since      *)
(* 1 January 1970, a minute of the day counts from midnight.  Sums of      *)
(* minutes per stop come in as the completion they lead to.                *)
(***************************************************************************)
EXTENDS Integers

Minute    == 60000
Hour      == 3600000
DayLength == 86400000

MinutesOfDay == 0 .. 1439

\* mytDateKey; and mytMinutesOfDay, mytMinutes.
DateOf(instant) == instant \div DayLength
MinuteOf(instant) == (instant % DayLength) \div Minute

-----------------------------------------------------------------------------
(* Operating hours: a window 07:00 - 02:00 wraps past midnight.             *)

windowWraps(start, end) == end < start

isWithinWindow(minute, start, end) ==
    IF windowWraps(start, end)
    THEN minute >= start \/ minute <= end
    ELSE minute >= start /\ minute <= end

\* When the operating day that a pickup belongs to closes.
windowEndInstant(pickup, start, end) ==
    LET rolls == windowWraps(start, end) /\ MinuteOf(pickup) >= start
    IN (DateOf(pickup) + IF rolls THEN 1 ELSE 0) * DayLength + end * Minute

exceedsWindow(pickup, completion, start, end) ==
    \/ ~ isWithinWindow(MinuteOf(pickup), start, end)
    \/ completion > windowEndInstant(pickup, start, end)

-----------------------------------------------------------------------------
(* The conflict window: no driver and no lorry is on two trips whose        *)
(* pickups are less than a buffer apart.  A trip is a record; null drivers  *)
(* and plates are the value None.                                           *)

CONFLICT_STATUSES == {"approved", "assigned", "in_progress"}

Distance(a, b) == IF a < b THEN b - a ELSE a - b

\* The rows a query for pickups around one reads.
Around(trips, pickup, buffer) ==
    {x \in trips : x.status \in CONFLICT_STATUSES
                   /\ x.pickup >= pickup - buffer /\ x.pickup <= pickup + buffer}

findSchedulingConflicts(id, driver, plate, pickup, buffer, candidates, None) ==
    {x \in candidates :
        /\ x.id # id /\ x.status \in CONFLICT_STATUSES
        /\ (x.driver # None /\ x.driver = driver) \/ (x.plate # None /\ x.plate = plate)
        /\ Distance(x.pickup, pickup) < buffer}

\* assignTripInTx: what the office's approve and reassign look at.
OfficeConflicts(id, pair, pickup, buffer, trips, None) ==
    findSchedulingConflicts(id, pair.driver, pair.plate, pickup, buffer,
        {x \in Around(trips, pickup, buffer) :
            x.id # id /\ (x.driver = pair.driver \/ x.plate = pair.plate)},
        None)

\* autoDispatchTrip: one query for all pairs, then two sets of what is taken.
EligibleCandidates(id, pairs, pickup, buffer, trips, None) ==
    LET rows == {x \in Around(trips, pickup, buffer) :
                    /\ x.id # id
                    /\ x.driver \in {p.driver : p \in pairs} \/ x.plate \in {p.plate : p \in pairs}}
        near == {x \in rows : Distance(x.pickup, pickup) < buffer}
        conflictedDrivers == {x.driver : x \in near} \ {None}
        conflictedPlates  == {x.plate : x \in near} \ {None}
    IN {p \in pairs : p.driver \notin conflictedDrivers /\ p.plate \notin conflictedPlates}

-----------------------------------------------------------------------------
(* Roadworthiness: a document is valid through its expiry date; a missing   *)
(* one (None) blocks nothing.                                               *)

Documents == {"insurance", "road_tax", "permit"}

isDocExpired(expiry, validOn, None) ==
    expiry # None /\ DateOf(expiry) < DateOf(validOn)

\* The office: the documents of a lorry that are expired.
truckExpiryIssues(truck, validOn, None) ==
    {d \in Documents : isDocExpired(truck[d], validOn, None)}

\* The day an instant is counted to when days begin at a reset hour.
getTripDayStart(instant, resetHour) ==
    LET date == DateOf(instant) - IF MinuteOf(instant) < 60 * resetHour THEN 1 ELSE 0
    IN date * DayLength + resetHour * Hour

\* The engine: the same rule as a condition of its query.
roadworthyWhere(truck, validOn, resetHour, None) ==
    \A d \in Documents :
        truck[d] = None \/ truck[d] >= getTripDayStart(validOn, resetHour)

-----------------------------------------------------------------------------
(* Booking cut-offs: a pickup later today must be booked before the         *)
(* cut-off of its session.                                                  *)

\* 1 January 1970 was a Thursday; 0 is Sunday.
Weekday(date) == (date + 4) % 7

isWorkingDay(date, holidays) == date \notin holidays /\ Weekday(date) # 0

\* The walk is bounded by a fortnight and then gives up on the day itself.
Fortnight == 1 .. 14

nextWorkingDay(date, holidays) ==
    IF \E k \in Fortnight : isWorkingDay(date + k, holidays)
    THEN date + CHOOSE k \in Fortnight :
                    /\ isWorkingDay(date + k, holidays)
                    /\ \A j \in Fortnight : j < k => ~ isWorkingDay(date + j, holidays)
    ELSE date

\* cutoffs: the settings [morning, afternoon, split], as minutes of the day.
CutoffOf(pickup, cutoffs) ==
    IF MinuteOf(pickup) < cutoffs.split THEN cutoffs.morning ELSE cutoffs.afternoon

\* bookingCutoffVerdict allows the booking; isExempt is a return or interplant.
MayBook(now, pickup, isExempt, cutoffs) ==
    \/ isExempt
    \/ pickup <= now
    \/ DateOf(pickup) # DateOf(now)
    \/ MinuteOf(now) < CutoffOf(pickup, cutoffs)

=============================================================================
