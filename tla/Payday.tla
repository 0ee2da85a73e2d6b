------------------------------- MODULE Payday -------------------------------
(***************************************************************************)
(* The incentive of one driver with one lorry: the rates fixed on a trip   *)
(* when it is assigned, the drops of his trips, and the proposal of a trip *)
(* computed from its own drops and the day's ledger of earlier drops on    *)
(* his other trips (services/tripFinalize.ts, dayLedger.ts, rateSnapshot,  *)
(* incentiveEngine.ts, undeliveredPay.ts), while the office edits the      *)
(* rates and the two-minute undo takes deliveries back; and the approval,  *)
(* which takes the off-peak premium from a trip that was not the day's     *)
(* last (services/lastTripOt.ts).                                          *)
(*                                                                         *)
(* A trip is customer or interplant work, which have a ledger each; since  *)
(* interplant points are paid by the half, paid points and amounts are     *)
(* counted in halves.  The life of a report is cut down to its effect: a   *)
(* stop the driver reached is settled (verified and resumed), or vetoed    *)
(* (another report about it is rejected, before or after).  An approval is *)
(* one step here; what may come between its read and its write is in       *)
(* TripDelivery.                                                           *)
(***************************************************************************)
EXTENDS StagedRates, FiniteSets, FiniteSetsExt

CONSTANTS
    Trips, Stops,
    TripOf,         \* the trip of a stop
    ZoneOf,         \* the zone of a stop's consignee
    Lorry,          \* the driver's lorry
    PlantRates,     \* the lorry's interplant claims, which nothing edits
    OffDays,        \* Saturdays, Sundays and public holidays
    PeakTaps,       \* the taps of a day made between 8am and 6pm
    OwnAmounts,     \* final_amount, where the admin gives one
    TapsADay,       \* bound: arrived and delivered taps of a day
    UndoTaps        \* bound: taps later than one that can still be undone

ASSUME PaydayAssumption ==
    /\ IsFiniteSet(Trips) /\ IsFiniteSet(Stops)
    /\ TripOf \in [Stops -> Trips]
    /\ ZoneOf \in [Stops -> Rows \ {Lorry}]
    /\ Lorry \in Rows
    /\ PlantRates \in [Fields -> Nat] /\ PlantRates["deduction"] = 0
    /\ {"weekday", "offpeak", "deduction", "points"} \subseteq Fields
    /\ None \notin Nat \cup BOOLEAN
    /\ OwnAmounts \subseteq Nat
    /\ Values \subseteq Nat
    /\ TapsADay \in Nat
    /\ UndoTaps \in Nat

VARIABLES
    trip,           \* Trip: route type, status, rates fixed on it, incentive, breakdown
    stop,           \* TripStop: status, instants, the office's verdict, zone_points, was_repeat
    taps,           \* taps of today
    unwound,        \* ghost: a delivery was undone after he went on with another trip
    exempt          \* ghost: days tapped or undone after one of their trips was approved,
                    \* or approved at an amount of the admin's own

ledgerVars == <<trip, stop, taps, unwound, exempt>>
vars == <<rateVars, ledgerVars>>

\* Instants count the taps of a day after all those of the days before; 0 is null.
At(n) == today * (TapsADay + 1) + n
DayOf(at) == at \div (TapsADay + 1)
Instant == 0 .. (LastDay + 1) * (TapsADay + 1)

Pools == {"customer", "interplant"}

Trip == [pool : Pools,
         status : {"pending", "assigned", "in_progress", "pending_approval",
                   "completed", "cancelled"},
         rates : Tariff \cup {PlantRates, None}, assignedOn : 0 .. LastDay, earned : Nat \cup {None},
         offpeak : BOOLEAN \cup {None}, deducted : Nat, shortfall : Nat, final : Nat \cup {None},
         override : {"none", "overtime", "office"}]

Stop == [status : {"pending", "arrived", "delivered"}, arrivedAt : Instant,
         deliveredAt : Instant, verdict : {"none", "settled", "vetoed"},
         zonePoints : Values \cup {None}, award : {"none", "first", "repeat"}]

StopsOf(t) == {s \in Stops : TripOf[s] = t}
PoolOf(s) == trip[TripOf[s]].pool

Out == {t \in Trips : trip[t].status = "in_progress"}

InstantsOf(t) == (UNION {{stop[s].arrivedAt, stop[s].deliveredAt} : s \in StopsOf(t)}) \ {0}

\* The trips he was out on a day.
OutOn(day) ==
    {TripOf[s] : s \in {u \in Stops : day \in {DayOf(stop[u].arrivedAt), DayOf(stop[u].deliveredAt)}}}

-----------------------------------------------------------------------------
(* Scoring, of sets of drops (incentiveEngine.ts).                         *)

Drop(s, zone, points, at) == [stop |-> s, zone |-> zone, points |-> points, at |-> at]

IsRepeat(d, drops) == \E e \in drops : e.zone = d.zone /\ e.at < d.at

\* scoreDrops: the first drop in a zone is worth its points, the others one.
Total(drops) ==
    SumFunction([d \in drops |-> IF IsRepeat(d, drops) THEN 1 ELSE d.points])

Above(points, deduction) == IF points > deduction THEN points - deduction ELSE 0

\* Mistake: the deduction is taken from every trip's own points.
Marginal_PerTrip(group, prior, deduction) ==
    Above(Total(group \cup prior) - Total(prior), deduction)

\* calculateDeliveryIncentive: a group's share of the day's points, the
\* deduction being taken from their total.
Marginal(group, prior, deduction) ==
    Above(Total(group \cup prior), deduction) - Above(Total(prior), deduction)

\* payable, in halves: interplant is paid in whole round trips, one for two legs.
Halves(pool, points) == IF pool = "interplant" THEN points ELSE 2 * points

\* deductionApplied: what the group scored and is not paid.
Deducted(group, prior, deduction) ==
    Total(group \cup prior) - Total(prior) - Marginal(group, prior, deduction)

OffPeak(at) == DayOf(at) \in OffDays \/ at % (TapsADay + 1) \notin PeakTaps

-----------------------------------------------------------------------------
(* What earns, and what the ledger remembers, in a state st of the stops.  *)

\* A stop whose report the office verified and resumed is closed out; it earns
\* unless another report about it was rejected.
Adjudicated(st, s) ==
    st[s].status # "delivered" /\ st[s].arrivedAt # 0 /\ st[s].verdict # "none"

Earns(st, s) ==
    st[s].status = "delivered" \/ (Adjudicated(st, s) /\ st[s].verdict = "settled")

Outstanding(st, t) ==
    {s \in StopsOf(t) : st[s].status # "delivered" /\ ~Adjudicated(st, s)}

\* stopPayInstant: the delivered tap, or the arrival at a stop not delivered.
PayInstant(st, s) ==
    IF st[s].status = "delivered" THEN st[s].deliveredAt ELSE st[s].arrivedAt

LedgerStatuses == {"in_progress", "pending_approval", "completed"}

\* Mistake: a stop that lost its pay after it was scored frees its zone.
InLedger_FollowsPay(st, s) == Earns(st, s)

\* priorDeliveredDropsWhere: delivered, or SCORED_UNDELIVERED.
InLedger(st, s) ==
    Earns(st, s) \/ (st[s].status # "delivered" /\ st[s].arrivedAt # 0 /\ st[s].award # "none")

\* A drop that lost its pay sorts before all others.
LedgerDrop(st, s) ==
    LET at == PayInstant(st, s)
    IN Drop(s, ZoneOf[s], st[s].zonePoints, IF Earns(st, s) THEN at ELSE at % (TapsADay + 1))

\* Mistake: one ledger for all work.
PriorDrops_Shared(st, t, anchor) ==
    {LedgerDrop(st, s) :
        s \in {u \in Stops \ StopsOf(t) :
                /\ trip[TripOf[u]].status \in LedgerStatuses
                /\ InLedger(st, u)
                /\ DayOf(PayInstant(st, u)) = DayOf(anchor)
                /\ PayInstant(st, u) < anchor}}

\* The drops of his other trips of the pool on the day of an instant, before it.
PriorDrops(st, t, anchor) ==
    {LedgerDrop(st, s) :
        s \in {u \in Stops \ StopsOf(t) :
                /\ PoolOf(u) = trip[t].pool
                /\ trip[TripOf[u]].status \in LedgerStatuses
                /\ InLedger(st, u)
                /\ DayOf(PayInstant(st, u)) = DayOf(anchor)
                /\ PayInstant(st, u) < anchor}}

\* groupStopsByDeliveryDay: a trip's drops of each day, and the first of them.
EarnedDrops(st, t) ==
    {LedgerDrop(st, s) : s \in {u \in StopsOf(t) : Earns(st, u)}}

DayGroups(st, t) ==
    {{e \in EarnedDrops(st, t) : DayOf(e.at) = DayOf(d.at)} : d \in EarnedDrops(st, t)}

Prior(st, t, group) == PriorDrops(st, t, Min({d.at : d \in group}))

\* A group is rated by its first delivery, or first arrival if it has none.
RateAnchor(st, group) ==
    LET delivered == {d \in group : st[d.stop].status = "delivered"}
    IN Min({d.at : d \in IF delivered = {} THEN group ELSE delivered})

Rate(st, t, group) ==
    trip[t].rates[IF OffPeak(RateAnchor(st, group)) THEN "offpeak" ELSE "weekday"]

\* The points a trip is paid for a day.
PaidPoints(st, t, g) == Marginal(g, Prior(st, t, g), trip[t].rates["deduction"])

\* proposeDeliveredStopsIncentive
Incentive(st, t) ==
    SumFunction([g \in DayGroups(st, t) |->
        Halves(trip[t].pool, PaidPoints(st, t, g)) * Rate(st, t, g)])

\* collectFinalizeBreakdown: deduction_applied, and round_trip_shortfall in halves.
DeductedPoints(st, t) ==
    SumFunction([g \in DayGroups(st, t) |-> Deducted(g, Prior(st, t, g), trip[t].rates["deduction"])])

Shortfall(st, t) ==
    SumFunction([g \in DayGroups(st, t) |->
        2 * PaidPoints(st, t, g) - Halves(trip[t].pool, PaidPoints(st, t, g))])

\* collectFinalizeBreakdown: off_peak (and rate_used), of a trip of one day.
SingleTier(st, t) ==
    IF Cardinality(DayGroups(st, t)) # 1 THEN None
    ELSE \A g \in DayGroups(st, t) : OffPeak(RateAnchor(st, g))

\* collectFinalizeBreakdown: points_awarded and was_repeat of the scored stops.
Awarded(st, t) ==
    [s \in Stops |->
        IF s \notin StopsOf(t) \/ ~Earns(st, s) THEN st[s]
        ELSE LET g == CHOOSE h \in DayGroups(st, t) : \E d \in h : d.stop = s
                 d == CHOOSE e \in g : e.stop = s
             IN [st[s] EXCEPT !.award =
                    IF IsRepeat(d, g \cup Prior(st, t, g)) THEN "repeat" ELSE "first"]]

-----------------------------------------------------------------------------
Init ==
    /\ RatesInit
    /\ \E pool \in [Trips -> Pools] :
          trip = [t \in Trips |->
                    [pool |-> pool[t], status |-> "pending", rates |-> None, assignedOn |-> 0,
                     earned |-> None, offpeak |-> None, deducted |-> 0, shortfall |-> 0,
                     final |-> None, override |-> "none"]]
    /\ stop = [s \in Stops |-> [status |-> "pending", arrivedAt |-> 0, deliveredAt |-> 0,
                                verdict |-> "none", zonePoints |-> None, award |-> "none"]]
    /\ taps = 0
    /\ unwound = FALSE
    /\ exempt = {}

\* The stops become st, and trip t changes to status with what that means.
Becomes(t, st, status) ==
    IF status = "pending_approval"
    THEN /\ stop' = Awarded(st, t)
         /\ trip' = [trip EXCEPT ![t].status = status, ![t].earned = Incentive(st, t),
                                 ![t].offpeak = SingleTier(st, t),
                                 ![t].deducted = DeductedPoints(st, t),
                                 ![t].shortfall = Shortfall(st, t)]
    ELSE stop' = st /\ trip' = [trip EXCEPT ![t].status = status]

\* truckRateSnapshot: the rate follows the work.
TruckRateSnapshot(t) ==
    IF trip[t].pool = "interplant" THEN PlantRates ELSE Effective(Lorry, today)

\* Approval or automatic dispatch, or reassignment: the rates in force today
\* are fixed on the trip and its stops.
Assign(t) ==
    /\ trip[t].status \in {"pending", "assigned"}
    /\ Out = {}
    /\ trip' = [trip EXCEPT ![t].status = "assigned", ![t].rates = TruckRateSnapshot(t),
                            ![t].assignedOn = today]
    /\ stop' = [s \in Stops |->
                  IF s \notin StopsOf(t) THEN stop[s]
                  ELSE [stop[s] EXCEPT !.zonePoints = Effective(ZoneOf[s], today)["points"]]]
    /\ UNCHANGED <<rateVars, taps, unwound, exempt>>

\* RELEASE_TRIP_DATA
Unassign(t) ==
    /\ trip[t].status = "assigned"
    /\ trip' = [trip EXCEPT ![t].status = "pending", ![t].rates = None, ![t].assignedOn = 0]
    /\ stop' = [s \in Stops |->
                  IF s \notin StopsOf(t) THEN stop[s] ELSE [stop[s] EXCEPT !.zonePoints = None]]
    /\ UNCHANGED <<rateVars, taps, unwound, exempt>>

Start(t) ==
    /\ trip[t].status = "assigned"
    /\ Out = {}
    /\ trip' = [trip EXCEPT ![t].status = "in_progress"]
    /\ UNCHANGED <<rateVars, stop, taps, unwound, exempt>>

Reopens(day) ==
    exempt' = IF \E t \in OutOn(day) : trip[t].status = "completed" THEN exempt \cup {day}
              ELSE exempt

Tap(s) ==
    /\ TripOf[s] \in Out
    /\ taps < TapsADay
    /\ taps' = taps + 1
    /\ Reopens(today)
    /\ UNCHANGED <<rateVars, unwound>>

Arrive(s) ==
    /\ Tap(s)
    /\ stop[s].status = "pending"
    /\ stop' = [stop EXCEPT ![s].status = "arrived", ![s].arrivedAt = At(taps + 1)]
    /\ UNCHANGED trip

\* finalizeIfNothingOutstanding, and the last delivered tap.
Conclude(t, st) ==
    Becomes(t, st, IF Outstanding(st, t) = {} THEN "pending_approval" ELSE "in_progress")

Deliver(s) ==
    /\ Tap(s)
    /\ stop[s].status # "delivered"
    /\ Conclude(TripOf[s], [stop EXCEPT ![s].status = "delivered", ![s].deliveredAt = At(taps + 1)])

\* The office's decisions on the reports about a stop the driver reached.
Adjudicate(s, verdict) ==
    /\ TripOf[s] \in Out
    /\ stop[s].status = "arrived" /\ stop[s].verdict = "none"
    /\ Conclude(TripOf[s], [stop EXCEPT ![s].verdict = verdict])
    /\ UNCHANGED <<rateVars, taps, unwound, exempt>>

\* A report still open after the trip was proposed is rejected.
RejectLate(s) ==
    /\ stop[s].verdict = "settled"
    /\ trip[TripOf[s]].status \in {"pending_approval", "completed"}
    /\ stop' = [stop EXCEPT ![s].verdict = "vetoed"]
    /\ UNCHANGED <<rateVars, trip, taps, unwound, exempt>>

\* The two minutes of STOP_TAP_UNDO_WINDOW_MS, in taps.
WithinWindow(at) == at # 0 /\ At(taps) - at <= UndoTaps

\* The undo of an Arrived tap.
UndoArrived(s) ==
    /\ TripOf[s] \in Out
    /\ stop[s].status = "arrived" /\ WithinWindow(stop[s].arrivedAt)
    /\ stop' = [stop EXCEPT ![s].status = "pending", ![s].arrivedAt = 0]
    /\ Reopens(DayOf(stop[s].arrivedAt))
    /\ UNCHANGED <<rateVars, trip, taps, unwound>>

\* Mistake: the points of the trip's other stops stand.
Reverted_OnlyUndone(t, s) ==
    [stop EXCEPT ![s].status = "arrived", ![s].deliveredAt = 0, ![s].award = "none"]

\* revertFinalizeForUndo, as far as the stops go.
Reverted(t, s) ==
    [u \in Stops |->
        IF u = s THEN [stop[u] EXCEPT !.status = "arrived", !.deliveredAt = 0, !.award = "none"]
        ELSE IF u \in StopsOf(t) THEN [stop[u] EXCEPT !.award = "none"]
        ELSE stop[u]]

\* The undo of a Delivered tap takes the proposal back with it.
UndoDelivered(s) ==
    LET t == TripOf[s]
    IN /\ trip[t].status \in {"in_progress", "pending_approval"}
       /\ stop[s].status = "delivered" /\ WithinWindow(stop[s].deliveredAt)
       /\ stop' = Reverted(t, s)
       /\ trip' = [trip EXCEPT ![t].status = "in_progress", ![t].earned = None,
                               ![t].offpeak = None, ![t].deducted = 0, ![t].shortfall = 0]
       /\ unwound' = (\/ unwound
                       \/ Out \ {t} # {}
                       \/ \E u \in Stops \ StopsOf(t) : PayInstant(stop, u) > stop[s].deliveredAt)
       /\ Reopens(DayOf(stop[s].deliveredAt))
       /\ UNCHANGED <<rateVars, taps>>

\* Aborted, the trip owes what it earned, or is cancelled if that is nothing.
Abort(t) ==
    /\ t \in Out
    /\ Becomes(t, stop, IF \E s \in StopsOf(t) : Earns(stop, s) THEN "pending_approval" ELSE "cancelled")
    /\ UNCHANGED <<rateVars, taps, unwound, exempt>>

-----------------------------------------------------------------------------
(* Approval.                                                               *)

\* points_awarded
PointsOf(s) ==
    CASE stop[s].award = "none"   -> 0
      [] stop[s].award = "first"  -> stop[s].zonePoints
      [] stop[s].award = "repeat" -> 1

\* persistedPaidPoints, in halves
StoredPoints(t) ==
    2 * (SumFunction([s \in StopsOf(t) |-> PointsOf(s)]) - trip[t].deducted) - trip[t].shortfall

Deliveries(t) == {stop[s].deliveredAt : s \in StopsOf(t)} \ {0}

\* Mistake: an arrival does not show that he went out again.
WentOutAgain_Delivered(t) ==
    /\ Deliveries(t) # {}
    /\ \E u \in Trips \ {t} :
          /\ trip[u].status \in LedgerStatuses
          /\ \E at \in Deliveries(u) : at > Max(Deliveries(t)) /\ DayOf(at) = DayOf(Max(Deliveries(t)))

\* After its last delivery the driver reached a stop of another trip that day.
WentOutAgain(t) ==
    /\ Deliveries(t) # {}
    /\ \E u \in Trips \ {t} :
          /\ trip[u].status \in LedgerStatuses
          /\ \E at \in InstantsOf(u) : at > Max(Deliveries(t)) /\ DayOf(at) = DayOf(Max(Deliveries(t)))

\* weekdayEquivalent: the points, stored or whole ones taken from the amount,
\* which at the off-peak rate make the amount proposed, at the weekday rate.
WeekdayEquivalents(t) ==
    LET proposed == trip[t].earned
        rates == trip[t].rates
    IN IF rates["offpeak"] = 0 \/ rates["weekday"] = 0 THEN {}
       ELSE {p * rates["weekday"] :
                p \in {q \in {StoredPoints(t), 2 * (proposed \div (2 * rates["offpeak"]))} :
                        q * rates["offpeak"] = proposed}}

\* resolveLastTripOt: the amount the rules make of the proposal.
Payable(t) ==
    IF trip[t].offpeak = TRUE /\ WentOutAgain(t)
    THEN Min({trip[t].earned} \cup WeekdayEquivalents(t))
    ELSE trip[t].earned

\* PATCH /trips/:id/approve-incentive; an admin's own amount wins.
Approve(t, own) ==
    LET final == IF own = None THEN Payable(t) ELSE own
    IN /\ trip[t].status = "pending_approval"
       /\ trip' = [trip EXCEPT ![t].status = "completed", ![t].final = final,
                               ![t].override = IF final = trip[t].earned THEN "none"
                                               ELSE IF own = None THEN "overtime" ELSE "office"]
       /\ exempt' = IF own = None THEN exempt ELSE exempt \cup {DayOf(at) : at \in InstantsOf(t)}
       /\ UNCHANGED <<rateVars, stop, taps, unwound>>

NextDay == Midnight /\ taps' = 0 /\ UNCHANGED <<trip, stop, unwound, exempt>>

OfficeHours ==
    /\ \/ \E r \in Rows : \E submission \in SubmissionTo(r) : EditRow(r, submission)
       \/ ResetRates
       \/ SweepRead \/ SweepStops
       \/ \E r \in Rows : SweepWrite(r)
    /\ UNCHANGED ledgerVars

Next ==
    \/ OfficeHours
    \/ NextDay
    \/ \E t \in Trips :
          \/ Assign(t) \/ Unassign(t) \/ Start(t) \/ Abort(t)
          \/ \E own \in OwnAmounts \cup {None} : Approve(t, own)
    \/ \E s \in Stops :
          \/ Arrive(s) \/ Deliver(s) \/ UndoArrived(s) \/ UndoDelivered(s)
          \/ RejectLate(s)
          \/ \E verdict \in {"settled", "vetoed"} : Adjudicate(s, verdict)

Spec == Init /\ [][Next]_vars

-----------------------------------------------------------------------------
\* The trips and stops hold what the code can put there.
TypeOK ==
    /\ RatesTypeOK
    /\ trip \in [Trips -> Trip]
    /\ stop \in [Stops -> Stop]
    /\ taps \in 0 .. TapsADay
    /\ unwound \in BOOLEAN
    /\ exempt \subseteq Day

ScoredStops == {s \in Stops : stop[s].award # "none"}

\* "The first-delivered drop always scores full" and every later drop in that
\* zone that day scores one (dayLedger.ts): among the drops scored on a day in
\* a pool, each zone has exactly one first, over all trips, reports settled late,
\* deliveries taken back and made again, and midnights in the middle of a
\* trip; as long as no delivery was undone after the driver
\* had gone on with another trip.
OneFirstDropPerZone ==
    ~unwound =>
        \A s \in ScoredStops :
            LET same == {u \in ScoredStops : /\ PoolOf(u) = PoolOf(s) /\ ZoneOf[u] = ZoneOf[s]
                                             /\ DayOf(PayInstant(stop, u)) = DayOf(PayInstant(stop, s))}
            IN Cardinality({u \in same : stop[u].award = "first"}) = 1

Proposed == {t \in Trips : trip[t].earned # None}

ProposedIn(pool) == {t \in Proposed : trip[t].pool = pool}

DropsOn(day, pool) ==
    {Drop(s, ZoneOf[s], stop[s].zonePoints, PayInstant(stop, s)) :
        s \in {u \in ScoredStops : PoolOf(u) = pool /\ DayOf(PayInstant(stop, u)) = day}}

\* One tariff: the same claim, deduction and zone points on all of a pool's proposals.
OneTariff ==
    /\ \A pool \in Pools : Cardinality({trip[t].rates : t \in ProposedIn(pool)}) <= 1
    /\ \A s, u \in ScoredStops :
          ZoneOf[s] = ZoneOf[u] /\ PoolOf(s) = PoolOf(u) => stop[s].zonePoints = stop[u].zonePoints

RatesOf(pool) == trip[CHOOSE t \in ProposedIn(pool) : TRUE].rates

\* What the rules pay for a day's drops in a pool, in halves of a point.
DayPoints(day, pool) ==
    Halves(pool, Above(Total(DropsOn(day, pool)), RatesOf(pool)["deduction"]))

\* "Summing every trip's marginal over a driver-day telescopes to
\* max(dayTotalPoints - deduction, 0)" (incentiveEngine.ts): the points the
\* trips of a pool are paid for add up to the sum over the days of the day's
\* points above one deduction, halved if interplant, however the drops are
\* spread over trips, days and pools, if one tariff holds, under the same
\* exception.
DayTotal ==
    Proposed # {} /\ ~unwound /\ OneTariff =>
        \A pool \in {trip[t].pool : t \in Proposed} :
            SumFunction([t \in ProposedIn(pool) |-> StoredPoints(t)]) =
                SumFunction([day \in Day |-> DayPoints(day, pool)])

\* "points x rate_used == incentive_earned" (lastTripOt.ts), so that the money
\* quotient "should not fire in normal operation": the points on a trip's stops
\* and its deduction account for the amount proposed, at its one rate, or
\* between the two rates if it has drops of two days; also after a delivery was
\* undone and made again, or a report that had paid was rejected late.
StoredPointsAgree ==
    \A t \in Proposed :
        LET rates == trip[t].rates
            points == StoredPoints(t)
        IN /\ trip[t].offpeak # None =>
                 trip[t].earned = points * rates[IF trip[t].offpeak THEN "offpeak" ELSE "weekday"]
           /\ rates["weekday"] <= rates["offpeak"] =>
                 trip[t].earned \in points * rates["weekday"] .. points * rates["offpeak"]

\* The one of some trips that he came back from last.
LastOf(out) == CHOOSE t \in out : \A u \in out : Max(InstantsOf(u)) <= Max(InstantsOf(t))

\* The trips were of that day only, at a weekday claim not above the off-peak one,
\* were approved as the rules have it after its last tap, and none but the last
\* earned without a delivery.
ApprovedAfterwards(out, day) ==
    /\ day \notin exempt
    /\ \A t \in out :
          /\ trip[t].status = "completed"
          /\ 0 < trip[t].rates["weekday"] /\ trip[t].rates["weekday"] <= trip[t].rates["offpeak"]
          /\ \A at \in InstantsOf(t) : DayOf(at) = day
          /\ Deliveries(t) # {} \/ trip[t].earned = 0 \/ t = LastOf(out)

\* "Only the LAST trip of the day can earn the after-6pm rate" (lastTripOt.ts):
\* what a day's trips are finally paid is what the day's drops come to at the
\* weekday rates, and the premium on the points of the last trip alone, of
\* either pool, if that one is off-peak; provided nothing was approved before the day's last
\* tap, which the code names as its hole, and no trip ended unpaid (it counts as
\* a later trip until it is aborted), under the exceptions above.
OvertimeOnce ==
    \A day \in Day :
        LET out == OutOn(day)
            last == LastOf(out)
            rates == trip[last].rates
            premium == IF trip[last].offpeak = TRUE THEN rates["offpeak"] - rates["weekday"] ELSE 0
        IN /\ out # {} /\ ApprovedAfterwards(out, day)
           /\ ~unwound /\ OneTariff
           => SumFunction([t \in out |-> trip[t].final]) =
                  SumFunction([pool \in {trip[t].pool : t \in out} |->
                      RatesOf(pool)["weekday"] * DayPoints(day, pool)])
                      + premium * StoredPoints(last)

\* "Today's assignments keep snapshotting today's rates" (routes/trucks.ts):
\* trips of a pool assigned on one day are paid by one tariff, whatever the office
\* edited and the sweep folded between the assignments; rows edited between
\* their day and its fold excepted.
OneTariffADay ==
    \A t, u \in {v \in Trips : trip[v].assignedOn # 0} :
        trip[t].assignedOn = trip[u].assignedOn =>
            /\ \/ Lorry \in tangled
               \/ trip[t].pool = trip[u].pool => trip[t].rates = trip[u].rates
            /\ \A s \in StopsOf(t), v \in StopsOf(u) :
                  ZoneOf[s] = ZoneOf[v] =>
                      ZoneOf[s] \in tangled \/ stop[s].zonePoints = stop[v].zonePoints

=============================================================================
