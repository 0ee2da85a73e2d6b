------------------------ MODULE DispatchGuards_proofs ------------------------
(***************************************************************************)
(* What the stateless rules of dispatch come to, for every instant, window,*)
(* set of trips, lorry and calendar.                                       *)
(***************************************************************************)
EXTENDS DispatchGuards, TLAPS

-----------------------------------------------------------------------------
(* The calendar.                                                            *)

\* An instant is its date and what is left of the day.
LEMMA Split ==
    ASSUME NEW i \in Int
    PROVE  /\ DateOf(i) \in Int /\ MinuteOf(i) \in Int
           /\ 0 <= MinuteOf(i) /\ MinuteOf(i) < 1440
           /\ \E rest \in Int :
                 /\ 0 <= rest /\ rest < 60000
                 /\ i = DateOf(i) * 86400000 + MinuteOf(i) * 60000 + rest
  <1> DEFINE inDay == i % 86400000
  <1>1. /\ DateOf(i) \in Int /\ inDay \in Int /\ 0 <= inDay /\ inDay < 86400000
        /\ i = DateOf(i) * 86400000 + inDay
    BY SMT DEF DateOf, DayLength
  <1>2. MinuteOf(i) = inDay \div 60000
    BY SMT DEF MinuteOf, DayLength, Minute
  <1> HIDE DEF inDay
  <1>3. /\ MinuteOf(i) \in Int /\ 0 <= MinuteOf(i) /\ MinuteOf(i) < 1440
        /\ inDay % 60000 \in Int
        /\ 0 <= inDay % 60000 /\ inDay % 60000 < 60000
        /\ inDay = MinuteOf(i) * 60000 + (inDay % 60000)
    BY SMT, <1>1, <1>2
  <1>4. i = DateOf(i) * 86400000 + MinuteOf(i) * 60000 + (inDay % 60000)
    BY SMT, <1>1, <1>3
  <1> QED BY SMT, <1>1, <1>3, <1>4

\* An instant has a whole date, and a minute that is not negative.
LEMMA DatesAreNumbers ==
    ASSUME NEW i \in Int
    PROVE  DateOf(i) \in Int /\ MinuteOf(i) \in Int /\ 0 <= MinuteOf(i)
  BY SMT, Split

\* A later instant is on a later date, or later on the same.
LEMMA DatesAreOrdered ==
    ASSUME NEW i \in Int, NEW j \in Int
    PROVE  /\ i <= j => DateOf(i) <= DateOf(j)
           /\ i <= j /\ DateOf(i) = DateOf(j) => MinuteOf(i) <= MinuteOf(j)
           /\ DateOf(i) < DateOf(j) <=> i < DateOf(j) * 86400000
  <1> DEFINE di == DateOf(i)
             dj == DateOf(j)
             mi == MinuteOf(i)
             mj == MinuteOf(j)
  <1>1. PICK ri \in Int : 0 <= ri /\ ri < 60000 /\ i = di * 86400000 + mi * 60000 + ri
    BY SMT, Split
  <1>2. PICK rj \in Int : 0 <= rj /\ rj < 60000 /\ j = dj * 86400000 + mj * 60000 + rj
    BY SMT, Split
  <1>3. /\ di \in Int /\ mi \in Int /\ 0 <= mi /\ mi < 1440
        /\ dj \in Int /\ mj \in Int /\ 0 <= mj /\ mj < 1440
    BY SMT, Split
  <1> HIDE DEF di, dj, mi, mj
  <1>4. /\ i <= j => di <= dj
        /\ i <= j /\ di = dj => mi <= mj
        /\ di < dj <=> i < dj * 86400000
    BY SMT, <1>1, <1>2, <1>3
  <1> QED BY SMT, <1>4 DEF di, dj, mi, mj

-----------------------------------------------------------------------------
(* Operating hours.                                                         *)

\* The shift that starts on a date: from the window's start to its end, on
\* the next date if the window wraps.
ShiftStart(date, start) == date * DayLength + start * Minute
ShiftEnd(date, start, end) ==
    (date + IF windowWraps(start, end) THEN 1 ELSE 0) * DayLength + end * Minute

Served(date, pickup, completion, start, end) ==
    ShiftStart(date, start) <= pickup /\ completion <= ShiftEnd(date, start, end)

\* "One shift-shaped window" (services/operatingWindow.ts): for any window, same
\* day or past midnight, a run is within hours exactly when one shift covers it
\* from pickup to completion.  A pickup at 01:00 is measured against the shift
\* of the evening before, never against the one to come.
THEOREM WithinHoursIsOneShift ==
    ASSUME NEW pickup \in Int, NEW completion \in Int, pickup <= completion,
           NEW start \in MinutesOfDay, NEW end \in MinutesOfDay
    PROVE  ~ exceedsWindow(pickup, completion, start, end) <=>
               \E date \in Int : Served(date, pickup, completion, start, end)
  <1> DEFINE D == DateOf(pickup)
             M == MinuteOf(pickup)
  <1>1. PICK rest \in Int : 0 <= rest /\ rest < 60000 /\ pickup = D * 86400000 + M * 60000 + rest
    BY SMT, Split
  <1>2. /\ D \in Int /\ M \in Int /\ 0 <= M /\ M < 1440
        /\ start \in Int /\ 0 <= start /\ start < 1440
        /\ end \in Int /\ 0 <= end /\ end < 1440
    BY SMT, Split DEF MinutesOfDay
  <1> DEFINE late == IF M >= start THEN 1 ELSE 0
             served(date) == Served(date, pickup, completion, start, end)
  <1>3. exceedsWindow(pickup, completion, start, end) <=>
            IF end < start
            THEN (M < start /\ M > end) \/ completion > (D + late) * 86400000 + end * 60000
            ELSE (M < start \/ M > end) \/ completion > D * 86400000 + end * 60000
    BY SMT, <1>2 DEF exceedsWindow, isWithinWindow, windowEndInstant, windowWraps, DayLength, Minute, D, M
  <1>4. ASSUME NEW date \in Int
        PROVE  served(date) <=>
                   /\ date * 86400000 + start * 60000 <= pickup
                   /\ IF end < start
                      THEN completion <= (date + 1) * 86400000 + end * 60000
                      ELSE completion <= date * 86400000 + end * 60000
    BY SMT DEF Served, ShiftStart, ShiftEnd, windowWraps, DayLength, Minute
  <1> HIDE DEF D, M, served
  <1>5. CASE end < start
    <2>1. ASSUME NEW date \in Int, served(date)
          PROVE  date = D + late - 1
      <3>1. date * 86400000 <= D * 86400000 + 86399999 - start * 60000
        BY SMT, <1>1, <1>2, <1>4, <2>1
      <3>2. (date + 1) * 86400000 + end * 60000 >= D * 86400000 + M * 60000
        BY SMT, <1>1, <1>2, <1>4, <1>5, <2>1
      <3>3. M * 60000 + 59999 + (D - date) * 86400000 >= start * 60000
        BY SMT, <1>1, <1>2, <1>4, <2>1
      <3>4. CASE M >= start
        BY SMT, <1>2, <1>5, <3>1, <3>2, <3>4
      <3>5. CASE M < start
        BY SMT, <1>2, <1>5, <3>2, <3>3, <3>5
      <3> QED BY SMT, <1>2, <3>4, <3>5
    <2>2. served(D + late - 1) <=> ~ exceedsWindow(pickup, completion, start, end)
      <3>1. CASE M >= start
        BY SMT, <1>1, <1>2, <1>3, <1>4, <1>5, <3>1
      <3>2. CASE M < start
        BY SMT, <1>1, <1>2, <1>3, <1>4, <1>5, <3>2
      <3> QED BY SMT, <1>2, <3>1, <3>2
    <2> QED BY SMT, <1>2, <2>1, <2>2 DEF served
  <1>6. CASE ~ (end < start)
    <2>1. ASSUME NEW date \in Int, served(date)
          PROVE  date = D
      BY SMT, <1>1, <1>2, <1>4, <1>6, <2>1
    <2>2. served(D) <=> ~ exceedsWindow(pickup, completion, start, end)
      BY SMT, <1>1, <1>2, <1>3, <1>4, <1>6
    <2> QED BY SMT, <1>2, <2>1, <2>2 DEF served
  <1> QED BY SMT, <1>5, <1>6

-----------------------------------------------------------------------------
(* The conflict window.                                                     *)

IsTrip(x, Persons, Plates, None) ==
    x.pickup \in Int /\ x.driver \in Persons \cup {None} /\ x.plate \in Plates \cup {None}

\* The engine has a form of its own of the rule the office applies
\* (services/dispatchEngine.ts, routes/trips.ts): it asks for all pairs at once and
\* keeps two sets of what is taken.  A pair is left for auto-dispatch exactly
\* when the office would meet no conflict with it; and the query, which reads
\* only pickups around the booking's, misses no conflict.
THEOREM EngineAndOfficeAgree ==
    ASSUME NEW Persons, NEW Plates, NEW None, None \notin Persons, None \notin Plates,
           NEW trips, \A x \in trips : IsTrip(x, Persons, Plates, None),
           NEW pairs, \A p \in pairs : p.driver \in Persons /\ p.plate \in Plates,
           NEW pair \in pairs, NEW id, NEW pickup \in Int, NEW buffer \in Nat
    PROVE  pair \in EligibleCandidates(id, pairs, pickup, buffer, trips, None) <=>
               OfficeConflicts(id, pair, pickup, buffer, trips, None) = {}
  <1> DEFINE clash(x) == /\ x.id # id /\ x.status \in CONFLICT_STATUSES
                         /\ x.driver = pair.driver \/ x.plate = pair.plate
                         /\ Distance(x.pickup, pickup) < buffer
  <1>0. pair.driver # None /\ pair.plate # None
    OBVIOUS
  <1>1. ASSUME NEW x \in trips, Distance(x.pickup, pickup) < buffer
        PROVE  x.pickup >= pickup - buffer /\ x.pickup <= pickup + buffer
    BY <1>1 DEF Distance, IsTrip
  <1>2. OfficeConflicts(id, pair, pickup, buffer, trips, None) = {x \in trips : clash(x)}
    BY <1>0, <1>1 DEF OfficeConflicts, findSchedulingConflicts, Around
  <1>3. pair \in EligibleCandidates(id, pairs, pickup, buffer, trips, None) <=>
            ~ \E x \in trips : clash(x)
    BY <1>0, <1>1 DEF EligibleCandidates, Around
  <1> QED BY <1>2, <1>3

-----------------------------------------------------------------------------
(* Roadworthiness.                                                          *)

\* "The SQL form of truckExpiryIssues" (services/truckEligibility.ts): while days
\* begin at midnight, the engine's query takes a lorry exactly when the office
\* finds no document expired, at every instant of the day and for expiries
\* stored at any hour.
THEOREM QueryFormAgrees ==
    ASSUME NEW None, None \notin Int, NEW validOn \in Int,
           NEW truck \in [Documents -> Int \cup {None}]
    PROVE  roadworthyWhere(truck, validOn, 0, None) <=> truckExpiryIssues(truck, validOn, None) = {}
  <1>0. DateOf(validOn) \in Int /\ MinuteOf(validOn) \in Int /\ 0 <= MinuteOf(validOn)
    BY SMT, Split
  <1>1. getTripDayStart(validOn, 0) = DateOf(validOn) * 86400000
    BY SMT, <1>0 DEF getTripDayStart, DayLength, Hour
  <1>2. ASSUME NEW d \in Documents
        PROVE  (truck[d] = None \/ truck[d] >= getTripDayStart(validOn, 0)) <=>
                   ~ isDocExpired(truck[d], validOn, None)
    <2>1. CASE truck[d] = None
      BY SMT, <2>1 DEF isDocExpired
    <2>2. CASE truck[d] \in Int
      <3>1. /\ truck[d] # None /\ DateOf(truck[d]) \in Int
            /\ DateOf(truck[d]) < DateOf(validOn) <=> truck[d] < DateOf(validOn) * 86400000
        <4> DEFINE e == truck[d]
        <4>1. e \in Int /\ e # None
          BY <2>2
        <4> HIDE DEF e
        <4>2. DateOf(e) \in Int /\ (DateOf(e) < DateOf(validOn) <=> e < DateOf(validOn) * 86400000)
          BY SMT, <4>1, DatesAreOrdered, Split
        <4> QED BY SMT, <4>1, <4>2 DEF e
      <3>2. DateOf(validOn) * 86400000 \in Int
        BY SMT, <1>0
      <3> QED BY SMT, <1>1, <2>2, <3>1, <3>2 DEF isDocExpired
    <2> QED BY SMT, <2>1, <2>2
  <1> QED BY SMT, <1>2 DEF roadworthyWhere, truckExpiryIssues

-----------------------------------------------------------------------------
(* Booking cut-offs.                                                        *)

\* "After that the earliest selectable day is the next working day"
\* (lib/bookingCutoff.ts): a slot that is closed to a booking stays closed until
\* its pickup time comes; waiting or asking again does not open it.
THEOREM ClosedSlotStaysClosed ==
    ASSUME NEW now \in Int, NEW later \in Int, NEW pickup \in Int, NEW isExempt \in BOOLEAN,
           NEW cutoffs \in [{"morning", "afternoon", "split"} -> MinutesOfDay],
           now <= later, later < pickup, ~ MayBook(now, pickup, isExempt, cutoffs)
    PROVE  ~ MayBook(later, pickup, isExempt, cutoffs)
  <1>1. DateOf(now) <= DateOf(later) /\ DateOf(later) <= DateOf(pickup)
    BY SMT, DatesAreOrdered
  <1>2. ~ isExempt /\ DateOf(pickup) = DateOf(now) /\ ~ (MinuteOf(now) < CutoffOf(pickup, cutoffs))
    BY SMT DEF MayBook
  <1>0. /\ DateOf(now) \in Int /\ DateOf(later) \in Int /\ DateOf(pickup) \in Int
        /\ MinuteOf(now) \in Int /\ MinuteOf(later) \in Int
    BY DatesAreNumbers
  <1>3. DateOf(later) = DateOf(now) /\ MinuteOf(now) <= MinuteOf(later)
    <2>1. DateOf(later) = DateOf(now)
      BY SMT, <1>0, <1>1, <1>2
    <2> QED BY SMT, <2>1, DatesAreOrdered
  <1>4. CutoffOf(pickup, cutoffs) \in Int
    <2>1. cutoffs["morning"] \in MinutesOfDay /\ cutoffs["afternoon"] \in MinutesOfDay
      OBVIOUS
    <2>2. MinutesOfDay \subseteq Int
      BY SMT DEF MinutesOfDay
    <2>3. cutoffs.morning \in Int /\ cutoffs.afternoon \in Int
      BY <2>1, <2>2
    <2> QED BY <2>3 DEF CutoffOf
  <1>5. ~ (MinuteOf(later) < CutoffOf(pickup, cutoffs))
    BY SMT, <1>0, <1>2, <1>3, <1>4
  <1> QED BY SMT, <1>2, <1>3, <1>5 DEF MayBook

\* The walk stops at the first working day.
LEMMA NextWorkingDayIsFirst ==
    ASSUME NEW date \in Int, NEW holidays,
           \E k \in Fortnight : isWorkingDay(date + k, holidays)
    PROVE  \E k \in Fortnight :
              /\ nextWorkingDay(date, holidays) = date + k
              /\ isWorkingDay(date + k, holidays)
              /\ \A j \in Fortnight : j < k => ~ isWorkingDay(date + j, holidays)
  <1> DEFINE works(k) == isWorkingDay(date + k, holidays)
             first(k) == works(k) /\ \A j \in Fortnight : j < k => ~ works(j)
  <1>1. \E k \in Fortnight : first(k)
    <2> HIDE DEF works
    <2> SUFFICES ASSUME \A k \in Fortnight : ~ first(k) PROVE FALSE
      OBVIOUS
    <2>1. ~works(1) /\ ~works(2) /\ ~works(3) /\ ~works(4)
      BY DEF Fortnight
    <2>2. ~works(5) /\ ~works(6) /\ ~works(7) /\ ~works(8)
      BY <2>1 DEF Fortnight
    <2>3. ~works(9) /\ ~works(10) /\ ~works(11)
      BY <2>1, <2>2 DEF Fortnight
    <2>4. ~works(12) /\ ~works(13) /\ ~works(14)
      BY <2>1, <2>2, <2>3 DEF Fortnight
    <2>5. PICK k \in Fortnight : works(k)
      BY DEF works
    <2> QED BY <2>1, <2>2, <2>3, <2>4, <2>5 DEF Fortnight
  <1> QED BY <1>1 DEF nextWorkingDay

\* "The message states the cut-off AND the way forward" (cutoffMessage): the day
\* it names is a working day after today, every slot of it may be booked now,
\* and no day in between is a working day, provided the calendar has a working
\* day within a fortnight.
THEOREM EarliestDayIsOpen ==
    ASSUME NEW now \in Int, NEW pickup \in Int, NEW holidays, NEW isExempt \in BOOLEAN, NEW cutoffs,
           \E k \in Fortnight : isWorkingDay(DateOf(now) + k, holidays),
           DateOf(pickup) = nextWorkingDay(DateOf(now), holidays)
    PROVE  /\ DateOf(pickup) > DateOf(now) /\ isWorkingDay(DateOf(pickup), holidays)
           /\ MayBook(now, pickup, isExempt, cutoffs)
           /\ \A date \in Int : DateOf(now) < date /\ date < DateOf(pickup)
                                    => ~ isWorkingDay(date, holidays)
  <1>1. DateOf(now) \in Int
    BY DatesAreNumbers
  <1>2. PICK k \in Fortnight :
              /\ DateOf(pickup) = DateOf(now) + k
              /\ isWorkingDay(DateOf(now) + k, holidays)
              /\ \A j \in Fortnight : j < k => ~ isWorkingDay(DateOf(now) + j, holidays)
    BY <1>1, NextWorkingDayIsFirst
  <1>3. DateOf(pickup) > DateOf(now) /\ isWorkingDay(DateOf(pickup), holidays)
    BY <1>1, <1>2 DEF Fortnight
  <1>4. ASSUME NEW date \in Int, DateOf(now) < date, date < DateOf(pickup)
        PROVE  ~ isWorkingDay(date, holidays)
    <2>1. date - DateOf(now) \in Fortnight /\ date - DateOf(now) < k
      BY <1>1, <1>2, <1>4 DEF Fortnight
    <2>2. date = DateOf(now) + (date - DateOf(now))
      BY <1>1
    <2> QED BY <1>2, <2>1, <2>2
  <1>5. MayBook(now, pickup, isExempt, cutoffs)
    BY <1>1, <1>3 DEF MayBook
  <1> QED BY <1>3, <1>4, <1>5

=============================================================================
