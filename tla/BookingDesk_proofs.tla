-------------------------- MODULE BookingDesk_proofs --------------------------
(***************************************************************************)
(* Safety of the booking desk for any bookings, keys, retries, changes and *)
(* edits of points.  The rates keep the invariant of StagedRates_proofs,   *)
(* since every step of the desk is one of theirs or leaves them alone.     *)
(***************************************************************************)
EXTENDS BookingDesk, StagedRates_proofs, Totals_proofs

-----------------------------------------------------------------------------
(* The inductive invariant.                                                 *)

Known(r) ==
    /\ request[r].trip \in Trips
    /\ request[r].seen \in Contents
    /\ request[r].input \in Contents

\* What a booking has depends on its status.
Booked(t) ==
    /\ trip[t].status = "unbooked" => trip[t].key = None
    /\ trip[t].status # "unbooked" => trip[t].content \in Contents

\* Exactly the stops of a booking with a lorry have points.
Stocked(t) ==
    \A d \in Consignees :
        trip[t].points[d] # None <=>
            trip[t].status \in {"assigned", "in_progress"} /\ d \in trip[t].content.drops

\* An approval past its checks: the booking is still what its author saw.
Locked(t) ==
    approving[t] # None =>
        /\ trip[t].status = "assigned"
        /\ request[approving[t]].status # "none"
        /\ request[approving[t]].trip = t
        /\ Fingerprint(trip[t].content) = Fingerprint(request[approving[t]].seen)

\* Points are those of the day of the assignment, as long as these are there.
OfItsDay(t) ==
    /\ trip[t].assignedOn <= today
    /\ \A d \in Consignees :
          /\ trip[t].points[d] # None
          /\ folded[ZoneOf[d]] <= trip[t].assignedOn /\ ZoneOf[d] \notin tangled
          => trip[t].points[d] = Effective(ZoneOf[d], trip[t].assignedOn)["points"]

OneTrip ==
    /\ \A t, u \in Trips : trip[t].key # None /\ trip[t].key = trip[u].key => t = u
    /\ \A k \in Keys : told[k] \subseteq WithKey(k)

DeskInv ==
    /\ TypeOK
    /\ \A c \in Calls : call[c].pc \in {"find", "create"} => call[c].key \in Keys /\ call[c].content \in Contents
    /\ \A r \in Requests : request[r].status # "none" => Known(r)
    /\ \A t \in Trips : Booked(t) /\ Stocked(t) /\ Locked(t)
    /\ assigning \subseteq {t \in Trips : trip[t].status \in {"pending", "assigned"}}
    /\ OneTrip

EraInv == \A t \in Trips : OfItsDay(t)

\* Points are folded in the order of their days.
FoldsInOrder ==
    \A z \in Rows \ tangled :
        /\ folded[z] <= today
        /\ effective[z] # 0 => folded[z] <= effective[z]

-----------------------------------------------------------------------------
(* The rates.                                                               *)

RatesSteps == EditPoints \/ Sweep \/ NextDay \/ \E z \in Rows : FoldPoints(z)

\* A step of the rates is one of StagedRates and leaves the bookings alone, and
\* any other step leaves the rates alone.
LEMMA RatesOrDesk ==
    ASSUME [Next]_vars
    PROVE  /\ [RatesNext]_rateVars
           /\ RatesSteps \/ UNCHANGED <<rateVars, folded>>
           /\ RatesSteps => DeskStands
  <1>1. CASE RatesSteps
    BY <1>1 DEF RatesSteps, EditPoints, Sweep, NextDay, FoldPoints, RatesNext
  <1>2. CASE UNCHANGED vars
    <2>1. UNCHANGED <<rateVars, folded>> /\ DeskStands
      BY <1>2 DEF vars, deskVars, DeskStands
    <2> QED BY <2>1
  <1>3. CASE \E c \in Calls :
               \/ \E k \in Keys, content \in Contents : SubmitBooking(c, k, content)
               \/ FindExisting(c) \/ FindWinner(c) \/ BookingFails(c)
               \/ \E t \in Trips : CreateTrip(c, t)
    BY <1>1, <1>3 DEF SubmitBooking, FindExisting, FindWinner, BookingFails, CreateTrip, BookingStep
  <1>4. CASE \E t \in Trips :
               \/ \E input \in Contents : EditBooking(t, input) \/ ReadForChange(t, input)
               \/ Cancel(t) \/ Unassign(t) \/ Start(t)
               \/ AssignCheck(t) \/ AssignCommit(t) \/ AssignFails(t)
               \/ ApproveCommit(t) \/ ApproveFails(t)
    BY <1>1, <1>4 DEF EditBooking, ReadForChange, Cancel, Unassign, Start, AssignCheck, AssignCommit,
          AssignFails, ApproveCommit, ApproveFails, OfficeStep, ChangeStep
  <1>5. CASE (\E r \in Requests : MakeRequest(r) \/ Reject(r) \/ ApproveCheck(r)) \/ DropDraft
    BY <1>1, <1>5 DEF MakeRequest, Reject, ApproveCheck, DropDraft, ChangeStep
  <1> QED BY <1>1, <1>2, <1>3, <1>4, <1>5 DEF Next, RatesSteps

\* The desk runs the rates as StagedRates says.
LEMMA DeskRates == Spec => RatesSpec
  <1>1. Init => RatesInit
    BY DEF Init
  <1>2. [Next]_vars => [RatesNext]_rateVars
    BY RatesOrDesk
  <1> QED BY <1>1, <1>2, PTL DEF Spec, RatesSpec

-----------------------------------------------------------------------------
(* The bookings.                                                            *)

\* The desk opens empty: every record is well-formed, and no key is taken.
LEMMA InitDesk == Init => DeskInv
  <1> SUFFICES ASSUME Init PROVE DeskInv
    OBVIOUS
  <1>1. RatesTypeOK
    BY InitInv DEF Init, RatesInv
  <1> USE DeskAssumption, RatesAssumption DEF Init
  <1>2. TypeOK
    <2>1. trip \in [Trips -> Trip]
      BY DEF Trip, Unpriced
    <2>2. call \in [Calls -> Call] /\ request \in [Requests -> Request]
      BY DEF Call, Request
    <2>3. told \in [Keys -> SUBSET Trips] /\ approving \in [Trips -> Requests \cup {None}]
      OBVIOUS
    <2>4. folded \in [Rows -> 0 .. LastDay + 1]
      OBVIOUS
    <2> QED BY <1>1, <2>1, <2>2, <2>3, <2>4 DEF TypeOK
  <1> QED BY <1>2 DEF DeskInv, Booked, Stocked, Locked, OneTrip, Unpriced

\* The points put on the drops of a booking: one for each drop it has.
LEMMA PricedType ==
    ASSUME RatesTypeOK, NEW content \in Contents, NEW day
    PROVE  /\ Priced(content, day) \in [Consignees -> Values \cup {None}]
           /\ \A d \in Consignees : Priced(content, day)[d] # None <=> d \in content.drops
  <1>1. \A r \in Rows : Effective(r, day) \in Tariff
    BY DEF RatesTypeOK, Effective, Tariff, Staged
  <1>2. ASSUME NEW d \in Consignees
        PROVE  Effective(ZoneOf[d], day)["points"] \in Values
    BY <1>1, DeskAssumption DEF Tariff
  <1> QED BY <1>2, RatesAssumption DEF Priced

\* The submission of a booking, in its four steps, keeps the desk in order.
LEMMA BookingInv ==
    ASSUME DeskInv, RatesTypeOK', NEW c \in Calls,
           \/ \E k \in Keys, content \in Contents : SubmitBooking(c, k, content)
           \/ FindExisting(c) \/ FindWinner(c) \/ BookingFails(c)
           \/ \E t \in Trips : CreateTrip(c, t)
    PROVE  DeskInv'
  <1> USE DeskAssumption DEF DeskInv, TypeOK, BookingStep
  <1>1. ASSUME NEW k \in Keys, NEW content \in Contents, SubmitBooking(c, k, content)
        PROVE  DeskInv'
    BY <1>1 DEF SubmitBooking, Call, Booked, Stocked, Locked, Known, OneTrip, WithKey
  <1>2. CASE FindExisting(c) \/ FindWinner(c)
    <2>1. UNCHANGED <<trip, draft, request, approving, assigning, overlapped, folded>>
      BY <1>2 DEF FindExisting, FindWinner
    <2>2. call' \in [Calls -> Call]
      BY <1>2 DEF FindExisting, FindWinner, Answer, Call
    <2>3. \A d \in Calls : call'[d].pc \in {"find", "create"} => call'[d].key \in Keys /\ call'[d].content \in Contents
      BY <1>2 DEF FindExisting, FindWinner, Answer, Call
    <2>4. told' \in [Keys -> SUBSET Trips] /\ \A k \in Keys : told'[k] \subseteq WithKey(k)
      BY <1>2 DEF FindExisting, FindWinner, Answer, OneTrip, WithKey
    <2> QED BY <2>1, <2>2, <2>3, <2>4 DEF Booked, Stocked, Locked, Known, OneTrip, WithKey
  <1>3. CASE BookingFails(c)
    BY <1>3 DEF BookingFails, Call, Booked, Stocked, Locked, Known, OneTrip, WithKey
  <1>4. ASSUME NEW t \in Trips, CreateTrip(c, t)
        PROVE  DeskInv'
    <2>1. /\ trip' = [trip EXCEPT ![t].status = "pending", ![t].content = call[c].content,
                                  ![t].key = call[c].key]
          /\ trip[t].status = "unbooked" /\ trip[t].key = None
          /\ call[c].key \in Keys /\ call[c].content \in Contents
          /\ WithKey(call[c].key) = {}
          /\ UNCHANGED <<draft, request, approving, assigning, overlapped, folded>>
      BY <1>4 DEF CreateTrip, Booked
    <2>2. trip' \in [Trips -> Trip] /\ call' \in [Calls -> Call] /\ told' \in [Keys -> SUBSET Trips]
      <3>1. trip' \in [Trips -> Trip]
        <4>1. trip[t] \in Trip
          OBVIOUS
        <4>2. [[[trip[t] EXCEPT !.status = "pending"] EXCEPT !.content = call[c].content]
                  EXCEPT !.key = call[c].key] \in Trip
          BY <2>1, <4>1 DEF Trip
        <4> QED BY <2>1, <4>2
      <3>2. call' = [call EXCEPT ![c].pc = "over"] /\ told' = [told EXCEPT ![call[c].key] = @ \cup {t}]
        BY <1>4 DEF CreateTrip, Answer
      <3>3. call' \in [Calls -> Call]
        BY <3>2 DEF Call
      <3>4. told' \in [Keys -> SUBSET Trips]
        BY <3>2
      <3> QED BY <3>1, <3>3, <3>4
    <2>3. \A d \in Calls : call'[d].pc \in {"find", "create"} => call'[d].key \in Keys /\ call'[d].content \in Contents
      <3>1. call' = [call EXCEPT ![c].pc = "over"]
        BY <1>4 DEF CreateTrip, Answer
      <3> QED BY <3>1 DEF Call
    <2>4. \A u \in Trips \ {t} : trip'[u] = trip[u]
      BY <2>1
    <2>5. /\ trip'[t].status = "pending" /\ trip'[t].content = call[c].content
          /\ trip'[t].key = call[c].key /\ trip'[t].points = trip[t].points
      BY <2>1 DEF Trip
    <2>6. \A u \in Trips : Booked(u)' /\ Stocked(u)'
      BY <2>1, <2>4, <2>5 DEF Booked, Stocked
    <2>7. \A u \in Trips : Locked(u)'
      BY <2>1, <2>4 DEF Locked
    <2>8. OneTrip'
      <3>1. \A u \in Trips : trip[u].key # call[c].key
        BY <2>1 DEF WithKey
      <3>2. \A u, v \in Trips : trip'[u].key # None /\ trip'[u].key = trip'[v].key => u = v
        BY <2>4, <2>5, <3>1 DEF OneTrip
      <3>3. told' = [told EXCEPT ![call[c].key] = @ \cup {t}]
        BY <1>4 DEF CreateTrip, Answer
      <3>4. ASSUME NEW k \in Keys PROVE told'[k] \subseteq WithKey(k)'
        <4>1. told[k] \subseteq WithKey(k)'
          BY <2>1, <2>4 DEF OneTrip, WithKey
        <4> QED BY <2>5, <3>3, <4>1 DEF WithKey
      <3> QED BY <3>2, <3>4 DEF OneTrip
    <2>9. assigning' \subseteq {u \in Trips : trip'[u].status \in {"pending", "assigned"}}
      BY <2>1, <2>4, <2>5
    <2>10. \A r \in Requests : request'[r].status # "none" => Known(r)'
      BY <2>1 DEF Known
    <2> QED BY <2>1, <2>2, <2>3, <2>6, <2>7, <2>8, <2>9, <2>10
  <1> QED BY <1>1, <1>2, <1>3, <1>4

\* A step that changes one booking, t, and no request, draft or lock: what is
\* left to show is about t.
LEMMA OneBookingInv ==
    ASSUME DeskInv, RatesTypeOK', NEW t \in Trips, Unlocked(t),
           NEW b \in Trip, trip' = [trip EXCEPT ![t] = b],
           b.key = trip[t].key, b.status # "unbooked", trip[t].status # "unbooked",
           b.content \in Contents,
           \A d \in Consignees : b.points[d] # None <=>
               b.status \in {"assigned", "in_progress"} /\ d \in b.content.drops,
           assigning' \subseteq assigning \ {t},
           UNCHANGED <<call, told, draft, request, approving, folded>>,
           overlapped' \in BOOLEAN
    PROVE  DeskInv'
  <1> USE DEF DeskInv
  <1>1. trip' \in [Trips -> Trip] /\ \A u \in Trips \ {t} : trip'[u] = trip[u]
    BY DEF TypeOK
  <1>2. trip'[t] = b
    BY DEF TypeOK
  <1>3. TypeOK'
    BY <1>1 DEF TypeOK
  <1>4. \A u \in Trips : Booked(u)' /\ Stocked(u)'
    BY <1>1, <1>2 DEF Booked, Stocked
  <1>5. \A u \in Trips : Locked(u)'
    BY <1>1, <1>2 DEF Locked, Unlocked
  <1>6. OneTrip'
    <2>1. \A u \in Trips : trip'[u].key = trip[u].key
      BY <1>1, <1>2
    <2> QED BY <2>1 DEF OneTrip, WithKey
  <1>7. assigning' \subseteq {u \in Trips : trip'[u].status \in {"pending", "assigned"}}
    BY <1>1, <1>2
  <1>8. \A r \in Requests : request'[r].status # "none" => Known(r)'
    BY DEF Known
  <1> QED BY <1>3, <1>4, <1>5, <1>6, <1>7, <1>8

\* A booking that has the lock free: pending ones always do.
LEMMA PendingUnlocked ==
    ASSUME DeskInv, NEW t \in Trips, trip[t].status # "assigned"
    PROVE  Unlocked(t)
  BY DEF DeskInv, Locked, Unlocked

\* So do the edits and decisions about a trip.
LEMMA OfficeInv ==
    ASSUME DeskInv, RatesTypeOK', NEW t \in Trips,
           \/ \E input \in Contents : EditBooking(t, input)
           \/ Cancel(t) \/ Unassign(t) \/ Start(t)
           \/ AssignCheck(t) \/ AssignCommit(t) \/ AssignFails(t)
    PROVE  DeskInv'
  <1> USE DeskAssumption, RatesAssumption DEF OfficeStep, Writes
  <1>0. /\ trip[t] \in Trip /\ RatesTypeOK /\ assigning \subseteq Trips /\ overlapped \in BOOLEAN
        /\ Booked(t) /\ Stocked(t)
    BY DEF DeskInv, TypeOK
  <1>1. ASSUME NEW input \in Contents, EditBooking(t, input)
        PROVE  DeskInv'
    <2> DEFINE b == [trip[t] EXCEPT !.content = input]
    <2>1. b \in Trip /\ b.key = trip[t].key /\ b.status = trip[t].status /\ b.content = input
          /\ b.points = trip[t].points
      BY <1>0 DEF Trip
    <2>2. trip[t].status = "pending" /\ trip' = [trip EXCEPT ![t] = b]
      BY <1>1 DEF EditBooking
    <2>3. /\ assigning' \subseteq assigning \ {t} /\ overlapped' \in BOOLEAN
          /\ UNCHANGED <<call, told, draft, request, approving, folded>>
      BY <1>0, <1>1 DEF EditBooking
    <2>4. Unlocked(t)
      BY <2>2, PendingUnlocked
    <2>5. \A d \in Consignees : b.points[d] # None <=>
             b.status \in {"assigned", "in_progress"} /\ d \in b.content.drops
      BY <1>0, <2>1, <2>2 DEF Stocked
    <2> HIDE DEF b
    <2> QED BY <2>1, <2>2, <2>3, <2>4, <2>5, OneBookingInv
  <1>2. CASE Cancel(t)
    <2> DEFINE b == [trip[t] EXCEPT !.status = "cancelled"]
    <2>1. b \in Trip /\ b.key = trip[t].key /\ b.status = "cancelled" /\ b.content = trip[t].content
          /\ b.points = trip[t].points
      BY <1>0 DEF Trip
    <2>2. trip[t].status = "pending" /\ trip' = [trip EXCEPT ![t] = b]
      BY <1>2 DEF Cancel
    <2>3. /\ assigning' \subseteq assigning \ {t} /\ overlapped' \in BOOLEAN
          /\ UNCHANGED <<call, told, draft, request, approving, folded>>
      BY <1>0, <1>2 DEF Cancel
    <2>4. Unlocked(t)
      BY <2>2, PendingUnlocked
    <2>5. /\ \A d \in Consignees : b.points[d] # None <=>
                b.status \in {"assigned", "in_progress"} /\ d \in b.content.drops
          /\ b.content \in Contents
      BY <1>0, <2>1, <2>2 DEF Stocked, Booked
    <2> HIDE DEF b
    <2> QED BY <2>1, <2>2, <2>3, <2>4, <2>5, OneBookingInv
  <1>3. CASE Unassign(t)
    <2> DEFINE b == [[[trip[t] EXCEPT !.status = "pending"] EXCEPT !.assignedOn = 0] EXCEPT !.points = Unpriced]
    <2>1. b \in Trip /\ b.key = trip[t].key /\ b.status = "pending" /\ b.content = trip[t].content
          /\ b.points = Unpriced
      <3>1. Unpriced \in [Consignees -> Values \cup {None}] /\ 0 \in 0 .. LastDay
        BY DEF Unpriced
      <3> QED BY <1>0, <3>1 DEF Trip
    <2>2. trip[t].status = "assigned" /\ trip' = [trip EXCEPT ![t] = b]
      BY <1>3 DEF Unassign
    <2> HIDE DEF b
    <2> QED BY <1>0, <1>3, <2>1, <2>2, OneBookingInv DEF Unassign, Booked, Unpriced
  <1>4. CASE Start(t)
    <2> DEFINE b == [trip[t] EXCEPT !.status = "in_progress"]
    <2>1. b \in Trip /\ b.key = trip[t].key /\ b.status = "in_progress" /\ b.content = trip[t].content
          /\ b.points = trip[t].points
      BY <1>0 DEF Trip
    <2>2. trip[t].status = "assigned" /\ trip' = [trip EXCEPT ![t] = b]
      BY <1>4 DEF Start
    <2>3. /\ assigning' \subseteq assigning \ {t} /\ overlapped' \in BOOLEAN
          /\ Unlocked(t) /\ UNCHANGED <<call, told, draft, request, approving, folded>>
      BY <1>0, <1>4 DEF Start
    <2>4. /\ \A d \in Consignees : b.points[d] # None <=>
                b.status \in {"assigned", "in_progress"} /\ d \in b.content.drops
          /\ b.content \in Contents
      BY <1>0, <2>1, <2>2 DEF Stocked, Booked
    <2> HIDE DEF b
    <2> QED BY <2>1, <2>2, <2>3, <2>4, OneBookingInv
  <1>5. CASE AssignCommit(t)
    <2> DEFINE b == [[[trip[t] EXCEPT !.status = "assigned"] EXCEPT !.assignedOn = today]
                        EXCEPT !.points = Priced(trip[t].content, today)]
    <2>1. trip[t].status \in {"pending", "assigned"} /\ trip[t].content \in Contents
      BY <1>0, <1>5 DEF AssignCommit, DeskInv, Booked
    <2>2. today \in 0 .. LastDay
      BY <1>0 DEF RatesTypeOK, Day
    <2>3. /\ Priced(trip[t].content, today) \in [Consignees -> Values \cup {None}]
          /\ \A d \in Consignees : Priced(trip[t].content, today)[d] # None <=> d \in trip[t].content.drops
      BY <1>0, <2>1, PricedType
    <2>4. b \in Trip /\ b.key = trip[t].key /\ b.status = "assigned" /\ b.content = trip[t].content
          /\ b.points = Priced(trip[t].content, today)
      BY <1>0, <2>2, <2>3 DEF Trip
    <2>5. trip' = [trip EXCEPT ![t] = b]
      BY <1>5 DEF AssignCommit
    <2>6. overlapped' \in BOOLEAN
      BY <1>0, <1>5 DEF AssignCommit
    <2>7. /\ assigning' \subseteq assigning \ {t} /\ Unlocked(t)
          /\ UNCHANGED <<call, told, draft, request, approving, folded>>
      BY <1>5 DEF AssignCommit
    <2>8. \A d \in Consignees : b.points[d] # None <=>
             b.status \in {"assigned", "in_progress"} /\ d \in b.content.drops
      BY <2>3, <2>4
    <2> HIDE DEF b
    <2> QED BY <2>1, <2>4, <2>5, <2>6, <2>7, <2>8, OneBookingInv
  <1>6. CASE AssignCheck(t) \/ AssignFails(t)
    <2>1. /\ UNCHANGED <<trip, call, told, draft, request, approving, overlapped, folded>>
          /\ assigning' \subseteq assigning \cup {t}
          /\ t \in assigning' => trip[t].status \in {"pending", "assigned"}
      BY <1>6 DEF AssignCheck, AssignFails
    <2> QED BY <2>1 DEF DeskInv, TypeOK, Booked, Stocked, Locked, Known, OneTrip, WithKey
  <1> QED BY <1>1, <1>2, <1>3, <1>4, <1>5, <1>6

\* An approval commits only what the request asks of the booking it locked.
LEMMA ApproveInv ==
    ASSUME DeskInv, RatesTypeOK', NEW t \in Trips, ApproveCommit(t)
    PROVE  DeskInv'
  <1> USE DeskAssumption, RatesAssumption DEF DeskInv, ChangeStep, Writes
  <1> DEFINE r == approving[t]
             input == request[r].input
             b == [[trip[t] EXCEPT !.content = input] EXCEPT !.points = Repriced(t, input)]
  <1>1. /\ r \in Requests /\ request[r].status = "pending" /\ request[r].trip = t
        /\ trip[t].status = "assigned" /\ input \in Contents
    BY DEF ApproveCommit, Claims, TypeOK, Locked, Known
  <1>2. trip[t] \in Trip /\ RatesTypeOK
    BY DEF TypeOK
  <1>3. /\ Priced(input, trip[t].assignedOn) \in [Consignees -> Values \cup {None}]
        /\ \A d \in Consignees : Priced(input, trip[t].assignedOn)[d] # None <=> d \in input.drops
    BY <1>1, <1>2, PricedType
  <1>4. /\ Repriced(t, input) \in [Consignees -> Values \cup {None}]
        /\ \A d \in Consignees : Repriced(t, input)[d] # None <=> d \in input.drops
    <2> HIDE DEF input
    <2> QED BY <1>2, <1>3 DEF Repriced, Trip
  <1>5. b \in Trip /\ b.key = trip[t].key /\ b.status = "assigned" /\ b.content = input
        /\ b.points = Repriced(t, input)
    <2> HIDE DEF input
    <2> QED BY <1>1, <1>2, <1>4 DEF Trip
  <1>6. trip' = [trip EXCEPT ![t] = b]
    BY DEF ApproveCommit
  <1>7. /\ request' = [request EXCEPT ![r].status = "approved"]
        /\ approving' = [approving EXCEPT ![t] = None]
        /\ assigning' = assigning \ {t} /\ overlapped' \in BOOLEAN
        /\ UNCHANGED <<call, told, draft, folded>>
    BY DEF ApproveCommit, TypeOK
  <1> HIDE DEF b, input, r
  <1>8. \A u \in Trips \ {t} : trip'[u] = trip[u] /\ approving'[u] = approving[u]
    BY <1>6, <1>7 DEF TypeOK
  <1>9. trip'[t] = b /\ approving'[t] = None
    BY <1>6, <1>7 DEF TypeOK
  <1>10. \A q \in Requests : /\ request'[q].trip = request[q].trip /\ request'[q].seen = request[q].seen
                             /\ request'[q].input = request[q].input
                             /\ request'[q].status # "none" <=> request[q].status # "none"
    BY <1>1, <1>7 DEF TypeOK, Request
  <1>11. TypeOK'
    <2>1. trip' \in [Trips -> Trip]
      BY <1>5, <1>6 DEF TypeOK
    <2>2. request' \in [Requests -> Request]
      <3>1. request[r] \in Request
        BY <1>1 DEF TypeOK
      <3>2. [request[r] EXCEPT !.status = "approved"] \in Request
        BY <3>1 DEF Request
      <3> QED BY <1>7, <3>2 DEF TypeOK
    <2>3. approving' \in [Trips -> Requests \cup {None}]
      BY <1>7 DEF TypeOK
    <2> QED BY <1>7, <2>1, <2>2, <2>3 DEF TypeOK
  <1>12. \A q \in Requests : request'[q].status # "none" => Known(q)'
    BY <1>10 DEF Known
  <1>13. \A u \in Trips : Booked(u)' /\ Stocked(u)'
    <2>1. Booked(t)' /\ Stocked(t)'
      BY <1>1, <1>4, <1>5, <1>9 DEF Booked, Stocked
    <2> QED BY <1>8, <2>1 DEF Booked, Stocked
  <1>14. \A u \in Trips : Locked(u)'
    <2>1. ASSUME NEW u \in Trips \ {t}, approving[u] # None
          PROVE  approving[u] \in Requests
      BY <2>1 DEF TypeOK
    <2> QED BY <1>8, <1>9, <1>10, <2>1 DEF Locked
  <1>15. OneTrip'
    <2>1. \A u \in Trips : trip'[u].key = trip[u].key
      BY <1>5, <1>8, <1>9
    <2> QED BY <1>7, <2>1 DEF OneTrip, WithKey
  <1>16. assigning' \subseteq {u \in Trips : trip'[u].status \in {"pending", "assigned"}}
    BY <1>7, <1>8
  <1> QED BY <1>7, <1>11, <1>12, <1>13, <1>14, <1>15, <1>16

\* The other steps of a change request.
LEMMA ChangeInv ==
    ASSUME DeskInv, RatesTypeOK',
           \/ \E t \in Trips : (\E input \in Contents : ReadForChange(t, input)) \/ ApproveFails(t)
           \/ \E r \in Requests : MakeRequest(r) \/ Reject(r) \/ ApproveCheck(r)
           \/ DropDraft
    PROVE  DeskInv'
  <1> USE DeskAssumption DEF DeskInv, ChangeStep
  <1>1. UNCHANGED <<trip, call, told, assigning, overlapped, folded>>
    BY DEF ReadForChange, ApproveFails, MakeRequest, Reject, ApproveCheck, DropDraft
  <1>2. OneTrip' /\ \A t \in Trips : Booked(t)' /\ Stocked(t)'
    BY <1>1 DEF OneTrip, WithKey, Booked, Stocked
  <1>3. ASSUME NEW t \in Trips, NEW input \in Contents, ReadForChange(t, input)
        PROVE  DeskInv'
    <2>1. draft' \in Draft
      BY <1>3 DEF ReadForChange, Booked, Draft
    <2> QED BY <1>1, <1>2, <1>3, <2>1 DEF ReadForChange, TypeOK, Locked, Known
  <1>4. ASSUME NEW t \in Trips, ApproveFails(t)
        PROVE  DeskInv'
    BY <1>1, <1>2, <1>4 DEF ApproveFails, TypeOK, Locked, Known
  <1>5. ASSUME NEW r \in Requests, MakeRequest(r)
        PROVE  DeskInv'
    <2>1. draft \in Draft /\ request[r].status = "none" /\ draft' = None /\ approving' = approving
      BY <1>5 DEF MakeRequest, TypeOK
    <2>2. request' = [q \in Requests |->
                        IF q = r THEN [status |-> "pending", trip |-> draft.trip,
                                       seen |-> draft.seen, input |-> draft.input]
                        ELSE IF request[q].trip = draft.trip /\ request[q].status = "pending"
                        THEN [request[q] EXCEPT !.status = "superseded"]
                        ELSE request[q]]
      BY <1>5 DEF MakeRequest
    <2>3. request' \in [Requests -> Request] /\ request'[r].status = "pending" /\ Known(r)'
      BY <2>1, <2>2 DEF TypeOK, Request, Draft, Known
    <2>4. \A q \in Requests \ {r} :
             /\ request'[q].trip = request[q].trip /\ request'[q].seen = request[q].seen
             /\ request'[q].input = request[q].input
             /\ request'[q].status # "none" <=> request[q].status # "none"
      BY <2>2 DEF TypeOK, Request
    <2>5. \A t \in Trips : Locked(t)'
      <3>1. ASSUME NEW t \in Trips, approving[t] # None
            PROVE  approving[t] \in Requests \ {r}
        BY <2>1, <3>1 DEF TypeOK, Locked
      <3> QED BY <1>1, <2>1, <2>4, <3>1 DEF Locked
    <2>6. \A q \in Requests : request'[q].status # "none" => Known(q)'
      BY <2>3, <2>4 DEF Known
    <2>7. UNCHANGED <<trip, call, told, approving, assigning, overlapped, folded>> /\ draft' = None
      BY <1>5, <2>1 DEF MakeRequest
    <2>8. TypeOK'
      <3>1. TypeOK /\ RatesTypeOK'
        OBVIOUS
      <3> HIDE DEF DeskInv
      <3> QED BY <2>3, <2>7, <3>1 DEF TypeOK
    <2>9. assigning' \subseteq {u \in Trips : trip'[u].status \in {"pending", "assigned"}}
      BY <2>7
    <2>10. \A c \in Calls : call'[c].pc \in {"find", "create"} => call'[c].key \in Keys /\ call'[c].content \in Contents
      BY <2>7
    <2> QED BY <1>2, <2>5, <2>6, <2>8, <2>9, <2>10
  <1>6. ASSUME NEW r \in Requests, Reject(r)
        PROVE  DeskInv'
    <2>1. /\ request' = [request EXCEPT ![r].status = "rejected"] /\ request[r].status = "pending"
          /\ UNCHANGED <<draft, approving>>
      BY <1>6 DEF Reject
    <2>2. request' \in [Requests -> Request]
      <3>1. request \in [Requests -> Request]
        BY DEF TypeOK
      <3> HIDE DEF DeskInv
      <3>2. [request[r] EXCEPT !.status = "rejected"] \in Request
        BY <3>1 DEF Request
      <3> QED BY <2>1, <3>1, <3>2
    <2>3. \A q \in Requests :
             /\ request'[q].trip = request[q].trip /\ request'[q].seen = request[q].seen
             /\ request'[q].input = request[q].input
             /\ request'[q].status # "none" <=> request[q].status # "none"
      BY <2>1 DEF TypeOK, Request
    <2>4. \A t \in Trips : Locked(t)'
      <3>1. ASSUME NEW t \in Trips, approving[t] # None
            PROVE  approving[t] \in Requests
        BY <3>1 DEF TypeOK
      <3> QED BY <1>1, <2>1, <2>3, <3>1 DEF Locked
    <2>5. \A q \in Requests : request'[q].status # "none" => Known(q)'
      BY <2>3 DEF Known
    <2> QED BY <1>1, <1>2, <2>1, <2>2, <2>4, <2>5 DEF TypeOK
  <1>7. ASSUME NEW r \in Requests, ApproveCheck(r)
        PROVE  DeskInv'
    <2>1. request[r].trip \in Trips
      BY <1>7 DEF ApproveCheck, Known
    <2>2. approving' \in [Trips -> Requests \cup {None}]
      BY <1>7, <2>1 DEF ApproveCheck, TypeOK
    <2>3. \A t \in Trips : Locked(t)'
      BY <1>1, <1>7, <2>1 DEF ApproveCheck, TypeOK, Locked
    <2> QED BY <1>1, <1>2, <1>7, <2>2, <2>3 DEF ApproveCheck, TypeOK, Known
  <1>8. CASE DropDraft
    BY <1>1, <1>2, <1>8 DEF DropDraft, TypeOK, Locked, Known
  <1> QED BY <1>3, <1>4, <1>5, <1>6, <1>7, <1>8

\* So does a step of the rates, which leaves the desk alone.
LEMMA RatesStepInv ==
    ASSUME DeskInv, RatesTypeOK', RatesSteps
    PROVE  DeskInv'
  <1>1. UNCHANGED <<trip, call, told, draft, request, approving, assigning, overlapped>>
    BY DEF RatesSteps, EditPoints, Sweep, NextDay, FoldPoints, DeskStands
  <1>2. folded' \in [Rows -> 0 .. LastDay + 1]
    BY DEF RatesSteps, EditPoints, Sweep, NextDay, FoldPoints, DeskInv, TypeOK, RatesTypeOK
  <1> QED BY <1>1, <1>2 DEF DeskInv, TypeOK, Booked, Stocked, Locked, Known, OneTrip, WithKey

\* Every step keeps the desk in order.
LEMMA NextDesk ==
    ASSUME RatesInv, DeskInv, [Next]_vars
    PROVE  DeskInv'
  <1>1. RatesTypeOK'
    BY RatesOrDesk, StepInv DEF RatesInv
  <1>2. CASE UNCHANGED vars
    BY <1>2 DEF vars, deskVars, rateVars, DeskInv, TypeOK, RatesTypeOK, Booked, Stocked, Locked, Known,
                OneTrip, WithKey
  <1> QED BY <1>1, <1>2, BookingInv, OfficeInv, ApproveInv, ChangeInv, RatesStepInv DEF Next, RatesSteps

-----------------------------------------------------------------------------
(* The era of the points.                                                   *)

\* What a zone's points were on an earlier day stays known until points of a
\* day after it are folded in.
LEMMA EraStays ==
    ASSUME RatesInv, FoldsInOrder, folded \in [Rows -> Nat], RatesSteps,
           NEW z \in Rows \ tangled', NEW day \in Nat, day <= today, folded'[z] <= day
    PROVE  /\ z \notin tangled /\ folded[z] <= day
           /\ Effective(z, day)' = Effective(z, day)
  <1> USE DEF RatesInv
  <1>0. /\ today \in Nat /\ effective[z] \in Nat /\ effective \in [Rows -> Nat]
        /\ folded[z] \in Nat
    BY DEF RatesTypeOK, Day
  <1>1. CASE EditPoints
    <2>1. PICK rows \in SUBSET Rows, edit \in [Rows -> Staged] : Edit(rows, edit)
      BY <1>1, EditForms DEF EditPoints
    <2>2. z \notin tangled /\ (z \in rows => ~Matured(z, today)) /\ folded' = folded
      BY <1>1, <2>1, EditHolds DEF EditPoints
    <2>3. CASE z \notin rows
      BY <1>0, <2>1, <2>2, <2>3 DEF Edit, Submit, Effective, Matured, FoldsInOrder
    <2>4. CASE z \in rows
      <3>1. effective'[z] = today + 1 /\ today' = today /\ base' = base
        BY <2>1, <2>4 DEF Edit, Submit
      <3>2. ~(effective[z] # 0 /\ effective[z] <= day) /\ ~(effective'[z] # 0 /\ effective'[z] <= day)
        BY <1>0, <2>2, <2>4, <3>1 DEF Matured
      <3>3. Effective(z, day)' = Effective(z, day)
        BY <3>1, <3>2 DEF Effective, Matured
      <3> QED BY <1>0, <2>2, <3>1, <3>3 DEF FoldsInOrder
    <2> QED BY <2>3, <2>4
  <1>2. CASE Sweep \/ NextDay
    <2>1. UNCHANGED <<base, pending, effective, tangled, folded>> /\ today' \in {today, today + 1}
      BY <1>2 DEF Sweep, NextDay, SweepRead, SweepStops, Midnight
    <2> QED BY <1>0, <2>1 DEF Effective, Matured, FoldsInOrder
  <1>3. ASSUME NEW u \in Rows, FoldPoints(u)
        PROVE  /\ z \notin tangled /\ folded[z] <= day
               /\ Effective(z, day)' = Effective(z, day)
    <2>1. /\ base' = [base EXCEPT ![u] = sweep[u]]
          /\ pending' = [pending EXCEPT ![u] = [f \in Fields |-> None]]
          /\ effective' = [effective EXCEPT ![u] = 0]
          /\ folded' = [folded EXCEPT ![u] = effective[u]]
          /\ sweep[u] # None
          /\ UNCHANGED <<today, tangled>>
      BY <1>3 DEF FoldPoints, SweepWrite, Fold
    <2>2. CASE z # u
      BY <1>0, <2>1, <2>2 DEF Effective, Matured, FoldsInOrder, RatesTypeOK
    <2>3. CASE z = u
      <3>1. effective[z] # 0 /\ effective[z] <= today /\ sweep[z] = Effective(z, today) /\ z \notin tangled
        BY <2>1, <2>3 DEF SweepIsFresh, Matured
      <3>2. folded'[z] = effective[z] /\ effective'[z] = 0 /\ base'[z] = sweep[z]
        BY <2>1, <2>3 DEF RatesTypeOK
      <3>3. Effective(z, day) = Effective(z, today)
        BY <1>0, <3>1, <3>2 DEF Effective, Matured
      <3>4. Effective(z, day)' = [f \in Fields |-> sweep[z][f]]
        BY <3>2 DEF Effective, Matured
      <3>5. sweep[z] = [f \in Fields |-> sweep[z][f]]
        BY <2>1, <2>3 DEF RatesTypeOK, Tariff
      <3> QED BY <1>0, <2>1, <3>1, <3>2, <3>3, <3>4, <3>5 DEF FoldsInOrder
    <2> QED BY <2>2, <2>3
  <1> QED BY <1>1, <1>2, <1>3 DEF RatesSteps

\* After a step of the rates a fold is still no later than today, and before
\* what is staged, unless its row is tangled.
LEMMA FoldsStay ==
    ASSUME RatesInv, FoldsInOrder, folded \in [Rows -> Nat], RatesSteps
    PROVE  FoldsInOrder'
  <1> SUFFICES ASSUME NEW z \in Rows \ tangled'
               PROVE  /\ folded'[z] <= today'
                      /\ effective'[z] # 0 => folded'[z] <= effective'[z]
    BY DEF FoldsInOrder
  <1> USE DEF RatesInv
  <1>0. today \in Nat /\ effective \in [Rows -> Nat] /\ folded[z] \in Nat
    BY DEF RatesTypeOK, Day
  <1>1. CASE EditPoints
    <2>1. PICK rows \in SUBSET Rows, edit \in [Rows -> Staged] : Edit(rows, edit)
      BY <1>1, EditForms DEF EditPoints
    <2>2. /\ z \notin tangled /\ folded' = folded /\ today' = today
          /\ effective'[z] = IF z \in rows THEN today + 1 ELSE effective[z]
      BY <1>1, <2>1, EditHolds DEF EditPoints, Edit, Submit
    <2> QED BY <1>0, <2>2 DEF FoldsInOrder
  <1>2. CASE Sweep \/ NextDay
    <2>1. UNCHANGED <<effective, tangled, folded>> /\ today' \in {today, today + 1}
      BY <1>2 DEF Sweep, NextDay, SweepRead, SweepStops, Midnight
    <2> QED BY <1>0, <2>1 DEF FoldsInOrder
  <1>3. ASSUME NEW u \in Rows, FoldPoints(u)
        PROVE  /\ folded'[z] <= today'
               /\ effective'[z] # 0 => folded'[z] <= effective'[z]
    <2>1. /\ effective' = [effective EXCEPT ![u] = 0]
          /\ folded' = [folded EXCEPT ![u] = effective[u]]
          /\ sweep[u] # None
          /\ UNCHANGED <<today, tangled>>
      BY <1>3 DEF FoldPoints, SweepWrite, Fold
    <2>2. z = u => effective[z] <= today
      BY <2>1 DEF SweepIsFresh, Matured
    <2> QED BY <1>0, <2>1, <2>2 DEF FoldsInOrder
  <1> QED BY <1>1, <1>2, <1>3 DEF RatesSteps

\* What a step of the desk does to the points of a booking.
PointsFollow(t) ==
    \/ trip'[t].points = trip[t].points /\ trip'[t].assignedOn = trip[t].assignedOn
    \/ trip'[t].points = Unpriced /\ trip'[t].assignedOn = 0
    \/ trip'[t].points = Priced(trip[t].content, today) /\ trip'[t].assignedOn = today
    \/ /\ \E r \in Requests : trip'[t].points = Repriced(t, request[r].input)
       /\ trip'[t].assignedOn = trip[t].assignedOn

\* A step of the desk leaves a trip's points as they are, clears them, prices
\* them today, or prices what a change brings in as on the day of assignment.
LEMMA DeskPoints ==
    ASSUME DeskInv, [Next]_vars, ~RatesSteps, NEW t \in Trips
    PROVE  PointsFollow(t)
  <1> USE DEF PointsFollow
  <1>0. trip \in [Trips -> Trip] /\ approving \in [Trips -> Requests \cup {None}]
    BY DEF DeskInv, TypeOK
  <1>1. CASE trip' = trip
    BY <1>1
  <1>2. ASSUME NEW c \in Calls, NEW u \in Trips, CreateTrip(c, u)
        PROVE  PointsFollow(t)
    BY <1>0, <1>2 DEF CreateTrip, Trip
  <1>3. ASSUME NEW u \in Trips,
               (\E input \in Contents : EditBooking(u, input)) \/ Cancel(u) \/ Start(u)
        PROVE  PointsFollow(t)
    BY <1>0, <1>3 DEF EditBooking, Cancel, Start, Trip
  <1>4. ASSUME NEW u \in Trips, Unassign(u) PROVE PointsFollow(t)
    BY <1>0, <1>4 DEF Unassign, Trip
  <1>5. ASSUME NEW u \in Trips, AssignCommit(u) PROVE PointsFollow(t)
    BY <1>0, <1>5 DEF AssignCommit, Trip
  <1>6. ASSUME NEW u \in Trips, ApproveCommit(u) PROVE PointsFollow(t)
    <2>1. approving[u] \in Requests
      BY <1>0, <1>6 DEF ApproveCommit
    <2>2. CASE t = u
      BY <1>0, <1>6, <2>1, <2>2 DEF ApproveCommit, Trip
    <2>3. CASE t # u
      BY <1>0, <1>6, <2>3 DEF ApproveCommit
    <2> QED BY <2>2, <2>3
  <1>7. ASSUME NEW u \in Trips,
               \/ \E input \in Contents : ReadForChange(u, input)
               \/ AssignCheck(u) \/ AssignFails(u) \/ ApproveFails(u)
        PROVE  trip' = trip
    BY <1>7 DEF ReadForChange, AssignCheck, AssignFails, ApproveFails
  <1>8. ASSUME \/ \E r \in Requests : MakeRequest(r) \/ Reject(r) \/ ApproveCheck(r)
               \/ DropDraft
        PROVE  trip' = trip
    BY <1>8 DEF MakeRequest, Reject, ApproveCheck, DropDraft
  <1>9. ASSUME NEW c \in Calls,
               \/ \E k \in Keys, content \in Contents : SubmitBooking(c, k, content)
               \/ FindExisting(c) \/ FindWinner(c) \/ BookingFails(c)
        PROVE  trip' = trip
    BY <1>9 DEF SubmitBooking, FindExisting, FindWinner, BookingFails
  <1>10. CASE UNCHANGED vars
    BY <1>1, <1>10 DEF vars, deskVars
  <1> QED BY <1>1, <1>2, <1>3, <1>4, <1>5, <1>6, <1>7, <1>8, <1>9, <1>10 DEF Next, RatesSteps

\* The points stay those of the day of the assignment.
LEMMA NextEra ==
    ASSUME RatesInv, DeskInv, FoldsInOrder, EraInv, [Next]_vars
    PROVE  FoldsInOrder' /\ EraInv'
  <1>0. /\ today \in Nat /\ folded \in [Rows -> Nat]
        /\ \A t \in Trips : trip[t].assignedOn \in Nat /\ trip[t] \in Trip
        /\ \A d \in Consignees : ZoneOf[d] \in Rows
    BY DeskAssumption DEF DeskInv, TypeOK, Trip, RatesTypeOK, Day
  <1>1. CASE RatesSteps
    <2>1. trip' = trip /\ today' \in {today, today + 1}
      BY <1>1 DEF RatesSteps, EditPoints, Sweep, NextDay, FoldPoints, DeskStands, EditRow, Edit,
                  SweepRead, SweepStops, SweepWrite, Midnight
    <2>2. ASSUME NEW t \in Trips, NEW d \in Consignees, trip[t].points[d] # None,
                 folded'[ZoneOf[d]] <= trip[t].assignedOn, ZoneOf[d] \notin tangled'
          PROVE  trip[t].points[d] = Effective(ZoneOf[d], trip[t].assignedOn)'["points"]
      <3>1. trip[t].assignedOn <= today
        BY DEF EraInv, OfItsDay
      <3>2. /\ ZoneOf[d] \notin tangled /\ folded[ZoneOf[d]] <= trip[t].assignedOn
            /\ \A day \in Nat : day = trip[t].assignedOn =>
                  Effective(ZoneOf[d], day)' = Effective(ZoneOf[d], day)
        BY <1>0, <1>1, <2>2, <3>1, EraStays
      <3>3. Effective(ZoneOf[d], trip[t].assignedOn)' = Effective(ZoneOf[d], trip[t].assignedOn)
        BY <1>0, <2>1, <3>2
      <3> QED BY <2>2, <3>2, <3>3 DEF EraInv, OfItsDay
    <2>3. \A t \in Trips : trip[t].assignedOn <= today'
      BY <1>0, <2>1 DEF EraInv, OfItsDay
    <2> QED BY <1>0, <1>1, <2>1, <2>2, <2>3, FoldsStay DEF EraInv, OfItsDay
  <1>2. CASE ~RatesSteps
    <2>1. UNCHANGED <<rateVars, folded>>
      BY <1>2, RatesOrDesk
    <2>2. FoldsInOrder'
      BY <2>1 DEF FoldsInOrder, rateVars
    <2>3. \A z \in Rows, day \in Nat : Effective(z, day)' = Effective(z, day)
      BY <2>1 DEF Effective, Matured, rateVars
    <2>4. ASSUME NEW t \in Trips PROVE OfItsDay(t)'
      <3>1. OfItsDay(t) /\ PointsFollow(t)
        BY <1>2, DeskPoints DEF EraInv
      <3>2. \A day \in Nat, content \in Contents, d \in Consignees :
              Priced(content, day)[d] # None => Priced(content, day)[d] = Effective(ZoneOf[d], day)["points"]
        BY DEF Priced
      <3>3. CASE trip'[t].points = trip[t].points /\ trip'[t].assignedOn = trip[t].assignedOn
        BY <1>0, <2>1, <2>3, <3>1, <3>3 DEF OfItsDay, rateVars
      <3>4. CASE trip'[t].points = Unpriced /\ trip'[t].assignedOn = 0
        BY <1>0, <2>1, <3>4 DEF OfItsDay, Unpriced, rateVars
      <3>5. CASE trip'[t].points = Priced(trip[t].content, today) /\ trip'[t].assignedOn = today
        <4>1. \A d \in Consignees : trip'[t].points[d] # None =>
                 trip'[t].points[d] = Effective(ZoneOf[d], today)["points"]
          BY <3>5 DEF Priced
        <4> QED BY <1>0, <2>1, <2>3, <3>5, <4>1 DEF OfItsDay, rateVars
      <3>6. CASE /\ \E r \in Requests : trip'[t].points = Repriced(t, request[r].input)
                 /\ trip'[t].assignedOn = trip[t].assignedOn
        <4>1. \A d \in Consignees : trip'[t].points[d] # None =>
                 \/ trip[t].points[d] # None /\ trip'[t].points[d] = trip[t].points[d]
                 \/ trip'[t].points[d] = Effective(ZoneOf[d], trip[t].assignedOn)["points"]
          BY <3>6 DEF Repriced, Priced
        <4> QED BY <1>0, <2>1, <2>3, <3>1, <3>6, <4>1 DEF OfItsDay, rateVars
      <3> QED BY <3>1, <3>3, <3>4, <3>5, <3>6 DEF PointsFollow
    <2> QED BY <2>2, <2>4 DEF EraInv
  <1> QED BY <1>1, <1>2

-----------------------------------------------------------------------------
(* The theorems.                                                            *)

Inv == RatesInv /\ DeskInv /\ FoldsInOrder /\ EraInv

\* The whole invariant holds initially.
LEMMA InitDeskInv == Init => Inv
  <1> SUFFICES ASSUME Init PROVE Inv
    OBVIOUS
  <1>1. RatesInv /\ DeskInv
    BY InitInv, InitDesk DEF Init
  <1>2. FoldsInOrder
    <2>1. \A z \in Rows : folded[z] = 0 /\ effective[z] = 0
      BY DEF Init, RatesInit
    <2>2. today = 1
      BY DEF Init, RatesInit
    <2>3. ASSUME NEW z \in Rows
          PROVE  folded[z] <= today /\ (effective[z] # 0 => folded[z] <= effective[z])
      <3>1. folded[z] = 0 /\ effective[z] = 0
        BY <2>1
      <3> QED BY <2>2, <3>1
    <2> QED BY <2>3 DEF FoldsInOrder
  <1>3. EraInv
    BY DEF Init, RatesInit, EraInv, OfItsDay, Unpriced
  <1> QED BY <1>1, <1>2, <1>3 DEF Inv

\* Every step keeps the whole invariant.
LEMMA NextInv ==
    ASSUME Inv, [Next]_vars
    PROVE  Inv'
  <1>1. RatesInv'
    BY RatesOrDesk, StepInv DEF Inv
  <1>2. DeskInv'
    BY NextDesk DEF Inv
  <1>3. FoldsInOrder' /\ EraInv'
    BY NextEra DEF Inv
  <1> QED BY <1>1, <1>2, <1>3 DEF Inv

\* The desk keeps its invariant, for any number of bookings, keys, retries,
\* change requests and edits of points (POST /trips, PATCH /trips/:id, the
\* change-request handlers and the rate editor).
THEOREM DeskInvariant == Spec => []Inv
  <1>1. Init => Inv
    BY InitDeskInv
  <1>2. Inv /\ [Next]_vars => Inv'
    BY NextInv
  <1> QED BY <1>1, <1>2, PTL DEF Spec

\* Type correctness of the booking desk.
THEOREM TypeSafety == Spec => []TypeOK
  <1>1. Inv => TypeOK
    BY DEF Inv, DeskInv
  <1> QED BY <1>1, DeskInvariant, PTL

\* One client_request_id makes one booking, and every answer names it, however
\* many retries run at once and wherever they break off (POST /trips).
THEOREM OneBookingPerKey == Spec => []OneTripPerBooking
  <1>1. ASSUME Inv, NEW k \in Keys
        PROVE  Cardinality(WithKey(k)) <= 1 /\ told[k] \subseteq WithKey(k)
    <2>1. k # None /\ OneTrip
      BY <1>1, DeskAssumption DEF Inv, DeskInv
    <2>2. CASE WithKey(k) = {}
      BY <2>1, <2>2, FS_EmptySet DEF OneTrip
    <2>3. CASE WithKey(k) # {}
      <3>1. PICK t \in Trips : trip[t].key = k
        BY <2>3 DEF WithKey
      <3>2. WithKey(k) = {t}
        BY <2>1, <3>1 DEF OneTrip, WithKey
      <3>3. Cardinality(WithKey(k)) = 1
        BY <3>2, FS_Singleton
      <3> QED BY <2>1, <3>3 DEF OneTrip
    <2> QED BY <2>2, <2>3
  <1>2. Inv => OneTripPerBooking
    BY <1>1 DEF OneTripPerBooking
  <1> QED BY <1>2, DeskInvariant, PTL

\* All stops of a booking in one zone carry the points of one era, whatever the
\* office edits and the requestor adds after the assignment
\* (snapshotStopZonePoints, the approval of a change).
THEOREM OneEra == Spec => []OneEraPerTrip
  <1>1. Inv => OneEraPerTrip
    BY DEF Inv, EraInv, OfItsDay, OneEraPerTrip
  <1> QED BY <1>1, DeskInvariant, PTL

\* Which step changes what a booking asks for, or decides a request.
LEMMA Decisions ==
    ASSUME Inv, [Next]_vars
    PROVE  \/ \E u \in Trips : ApproveCommit(u)
           \/ /\ \A r \in Requests : ~Approves(r)
              /\ \A t \in Trips : trip[t].status \in {"assigned", "in_progress"} =>
                    trip'[t].content = trip[t].content
              /\ \A r \in Requests :
                    request[r].status \in {"superseded", "rejected", "approved"} => request'[r] = request[r]
  <1> DEFINE Keeps == \A t \in Trips : trip[t].status \in {"assigned", "in_progress"} =>
                         trip'[t].content = trip[t].content
  <1>0. trip \in [Trips -> Trip] /\ request \in [Requests -> Request] /\ DeskInv
    BY DEF Inv, DeskInv, TypeOK
  <1>1. CASE request' = request /\ Keeps
    BY <1>1 DEF Approves
  <1>2. CASE RatesSteps \/ UNCHANGED vars
    BY <1>1, <1>2, RatesOrDesk DEF DeskStands, vars, deskVars
  <1>3. ASSUME NEW c \in Calls,
               \/ \E k \in Keys, content \in Contents : SubmitBooking(c, k, content)
               \/ FindExisting(c) \/ FindWinner(c) \/ BookingFails(c)
        PROVE  request' = request /\ Keeps
    BY <1>3 DEF SubmitBooking, FindExisting, FindWinner, BookingFails, BookingStep
  <1>4. ASSUME NEW c \in Calls, NEW u \in Trips, CreateTrip(c, u)
        PROVE  request' = request /\ Keeps
    BY <1>0, <1>4 DEF CreateTrip, BookingStep
  <1>5. ASSUME NEW u \in Trips,
               \/ \E input \in Contents : EditBooking(u, input)
               \/ Cancel(u) \/ Unassign(u) \/ Start(u)
               \/ AssignCheck(u) \/ AssignFails(u)
        PROVE  request' = request /\ Keeps
    BY <1>0, <1>5 DEF EditBooking, Cancel, Unassign, Start, AssignCheck, AssignFails, OfficeStep, Trip
  <1>6. ASSUME NEW u \in Trips, AssignCommit(u)
        PROVE  request' = request /\ Keeps
    BY <1>0, <1>6 DEF AssignCommit, Trip
  <1>7. ASSUME NEW u \in Trips, (\E input \in Contents : ReadForChange(u, input)) \/ ApproveFails(u)
        PROVE  request' = request /\ Keeps
    BY <1>7 DEF ReadForChange, ApproveFails
  <1>8. ASSUME NEW r \in Requests, ApproveCheck(r)
        PROVE  request' = request /\ Keeps
    BY <1>8 DEF ApproveCheck
  <1>9. CASE DropDraft
    BY <1>1, <1>9 DEF DropDraft
  <1>10. ASSUME NEW r \in Requests, MakeRequest(r) \/ Reject(r)
         PROVE  /\ Keeps /\ \A q \in Requests : ~Approves(q)
                /\ \A q \in Requests :
                      request[q].status \in {"superseded", "rejected", "approved"} => request'[q] = request[q]
    <2>1. CASE MakeRequest(r)
      BY <1>0, <2>1 DEF MakeRequest, Request, Approves
    <2>2. CASE Reject(r)
      BY <1>0, <2>2 DEF Reject, Request, Approves
    <2> QED BY <1>10, <2>1, <2>2
  <1> QED BY <1>1, <1>2, <1>3, <1>4, <1>5, <1>6, <1>7, <1>8, <1>9, <1>10 DEF Next, RatesSteps

\* What an approval does: one open request becomes its booking.
LEMMA Approval ==
    ASSUME Inv, NEW u \in Trips, ApproveCommit(u)
    PROVE  \E r \in Requests :
             /\ r = approving[u] /\ Known(r) /\ request[r].trip = u /\ request[r].status = "pending"
             /\ trip[u].status = "assigned"
             /\ Fingerprint(trip[u].content) = Fingerprint(request[r].seen)
             /\ trip'[u].content = request[r].input
             /\ trip'[u].points = Repriced(u, request[r].input)
             /\ Approves(r)
             /\ \A q \in Requests \ {r} : request'[q] = request[q]
             /\ \A t \in Trips \ {u} : trip'[t] = trip[t]
  <1>0. /\ trip \in [Trips -> Trip] /\ request \in [Requests -> Request]
        /\ approving \in [Trips -> Requests \cup {None}] /\ Locked(u)
        /\ \A r \in Requests : request[r].status # "none" => Known(r)
    BY DEF Inv, DeskInv, TypeOK
  <1> DEFINE r == approving[u]
  <1>1. /\ r \in Requests /\ request[r].status = "pending" /\ request[r].trip = u
        /\ trip[u].status = "assigned" /\ Known(r)
        /\ Fingerprint(trip[u].content) = Fingerprint(request[r].seen)
    BY <1>0 DEF ApproveCommit, Claims, Locked
  <1>2. /\ request' = [request EXCEPT ![r].status = "approved"]
        /\ trip' = [trip EXCEPT ![u].content = request[r].input,
                                ![u].points = Repriced(u, request[r].input)]
    BY DEF ApproveCommit
  <1> HIDE DEF r
  <1>3. Approves(r) /\ \A q \in Requests \ {r} : request'[q] = request[q]
    BY <1>0, <1>1, <1>2 DEF Approves, Request
  <1>4. /\ trip'[u].content = request[r].input /\ trip'[u].points = Repriced(u, request[r].input)
        /\ \A t \in Trips \ {u} : trip'[t] = trip[t]
    BY <1>0, <1>2 DEF Trip
  <1>5. r = approving[u]
    BY DEF r
  <1> QED BY <1>1, <1>3, <1>4, <1>5

\* An approval never takes back an edit its author did not see
\* (editableTripFingerprint and the row lock it is compared under).
THEOREM EditsAreKept == Spec => NoLostEdit
  <1>1. ASSUME Inv, [Next]_vars, NEW r \in Requests, NEW f \in {"day", "load", "drops"},
               Approves(r), request[r].seen[f] = request[r].input[f]
        PROVE  trip'[request[r].trip].content[f] = trip[request[r].trip].content[f]
    <2>1. PICK u \in Trips : ApproveCommit(u)
      BY <1>1, Decisions
    <2>2. /\ request[r].trip = u /\ Fingerprint(trip[u].content) = Fingerprint(request[r].seen)
          /\ trip'[u].content = request[r].input
      BY <1>1, <2>1, Approval DEF Approves
    <2>3. trip[u].content[f] = request[r].seen[f]
      BY <1>1, <2>2 DEF Fingerprint
    <2> QED BY <1>1, <2>2, <2>3
  <1>2. Inv /\ [Next]_vars => [\A r \in Requests : \A f \in {"day", "load", "drops"} :
            Approves(r) /\ request[r].seen[f] = request[r].input[f] =>
                trip'[request[r].trip].content[f] = trip[request[r].trip].content[f]]_vars
    BY <1>1
  <1> QED BY <1>2, DeskInvariant, PTL DEF Spec, NoLostEdit

\* A booking that has a lorry changes only by the approval of an open request,
\* and a decided request stays decided (the change-request handlers).
THEOREM OnlyByApproval == Spec => ChangesAreDecided
  <1> DEFINE Decided ==
        /\ \A t \in Trips :
             trip[t].status \in {"assigned", "in_progress"} /\ trip'[t].content # trip[t].content =>
                 /\ trip[t].status = "assigned"
                 /\ \E r \in Requests : /\ Approves(r) /\ request[r].status = "pending"
                                        /\ request[r].trip = t
                                        /\ trip'[t].content = request[r].input
        /\ \A r \in Requests :
             request[r].status \in {"superseded", "rejected", "approved"} =>
                 request'[r] = request[r]
  <1>1. ASSUME Inv, [Next]_vars PROVE Decided
    <2>1. CASE \E u \in Trips : ApproveCommit(u)
      <3>1. PICK u \in Trips : ApproveCommit(u)
        BY <2>1
      <3> QED BY <1>1, <3>1, Approval
    <2> QED BY <1>1, <2>1, Decisions
  <1>2. Inv /\ [Next]_vars => [Decided]_vars
    BY <1>1
  <1> QED BY <1>2, DeskInvariant, PTL DEF Spec, ChangesAreDecided

\* The stops a change keeps keep the points they were locked to at assignment
\* (the approval of a change, snapshotStopZonePoints).
THEOREM PricesStayLocked == Spec => LockedPrices
  <1>1. ASSUME Inv, [Next]_vars, NEW t \in Trips, NEW d \in Consignees,
               trip[t].status = "assigned", trip'[t].content # trip[t].content,
               d \in trip[t].content.drops \cap trip'[t].content.drops
        PROVE  trip'[t].points[d] = trip[t].points[d]
    <2>1. PICK u \in Trips : ApproveCommit(u)
      BY <1>1, Decisions
    <2>2. PICK r \in Requests :
             /\ trip'[u].content = request[r].input
             /\ trip'[u].points = Repriced(u, request[r].input)
             /\ \A v \in Trips \ {u} : trip'[v] = trip[v]
      BY <1>1, <2>1, Approval
    <2>3. t = u
      BY <1>1, <2>2
    <2>4. trip[t].points[d] # None
      BY <1>1 DEF Inv, DeskInv, Stocked
    <2> QED BY <1>1, <2>2, <2>3, <2>4 DEF Repriced
  <1>2. Inv /\ [Next]_vars =>
          [\A t \in Trips : \A d \in Consignees :
              /\ trip[t].status = "assigned" /\ trip'[t].content # trip[t].content
              /\ d \in trip[t].content.drops \cap trip'[t].content.drops
              => trip'[t].points[d] = trip[t].points[d]]_vars
    BY <1>1
  <1> QED BY <1>2, DeskInvariant, PTL DEF Spec, LockedPrices

-----------------------------------------------------------------------------
(* What the lorry carries.                                                  *)

OnLorry == {"assigned", "in_progress"}

\* There is room for the content, beside what else the lorry carries on its day.
Room(t, content) == Pallets(Aboard(content.day) \ {t}) + content.load <= Capacity

\* What an assignment or an approval found fitting when it checked still fits, and
\* what was decided fits: as long as no approval overlapped another decision.
RoomKept ==
    ~overlapped =>
        /\ \A t \in assigning : Room(t, trip[t].content)
        /\ \A t \in Trips : approving[t] # None =>
              LET input == request[approving[t]].input IN
              input.day = trip[t].content.day /\ Room(t, input)
        /\ \A day \in Day : Pallets(Aboard(day)) <= Capacity

\* The bookings of a day on the lorry, and their weight, after the step.
AboardNext(day) == {t \in Trips : trip'[t].status \in OnLorry /\ trip'[t].content.day = day}
PalletsNext(S) == SumFunction([u \in S |-> trip'[u].content.load])

RoomNext(t, content) == PalletsNext(AboardNext(content.day) \ {t}) + content.load <= Capacity

RoomKeptNext ==
    ~overlapped' =>
        /\ \A t \in assigning' : RoomNext(t, trip'[t].content)
        /\ \A t \in Trips : approving'[t] # None =>
              LET input == request'[approving'[t]].input IN
              input.day = trip'[t].content.day /\ RoomNext(t, input)
        /\ \A day \in Day : PalletsNext(AboardNext(day)) <= Capacity

\* The room of the next state, said of the next bookings.
LEMMA RoomAfterStep == RoomKeptNext => RoomKept'
  BY DEF RoomKeptNext, RoomKept, Room, RoomNext, Pallets, PalletsNext, Aboard, AboardNext, OnLorry

\* The weight of bookings is a total of natural numbers over a finite set.
LEMMA PalletsType ==
    ASSUME DeskInv, NEW S \in SUBSET Trips, \A u \in S : trip[u].status # "unbooked"
    PROVE  /\ IsFiniteSet(S)
           /\ \A u \in S : trip[u].content.load \in Nat /\ trip[u].content.day \in Day
           /\ Pallets(S) = SumFunctionOnSet([u \in S |-> trip[u].content.load], S)
           /\ Pallets(S) \in Nat
  <1> DEFINE f == [u \in S |-> trip[u].content.load]
  <1>1. IsFiniteSet(S)
    BY DeskAssumption, FS_Subset
  <1>2. \A u \in S : trip[u].content.load \in Nat /\ trip[u].content.day \in Day
    BY DeskAssumption DEF DeskInv, Booked, Content
  <1>3. Pallets(S) = SumFunctionOnSet(f, S)
    BY DEF Pallets, SumFunction
  <1>4. \A u \in S : f[u] \in Nat
    BY <1>2
  <1> HIDE DEF f
  <1>5. SumFunctionOnSet(f, S) \in Nat
    BY <1>1, <1>4, TotalNat
  <1> QED BY <1>1, <1>2, <1>3, <1>5 DEF f

\* A part of the bookings weighs no more than all of them.
LEMMA PartWeighsLess ==
    ASSUME DeskInv, NEW S \in SUBSET Trips, \A u \in S : trip[u].status # "unbooked",
           NEW U \in SUBSET S
    PROVE  /\ Pallets(S) \in Nat /\ Pallets(U) \in Nat
           /\ Pallets(U) <= Pallets(S)
  <1> DEFINE f == [u \in S |-> trip[u].content.load]
             g == [u \in U |-> trip[u].content.load]
  <1>1. /\ Pallets(S) = SumFunctionOnSet(f, S) /\ Pallets(S) \in Nat
        /\ IsFiniteSet(S) /\ \A u \in S : trip[u].content.load \in Nat
    BY PalletsType
  <1>2. Pallets(U) = SumFunctionOnSet(g, U) /\ Pallets(U) \in Nat /\ IsFiniteSet(U)
    BY PalletsType
  <1>3. (\A u \in S : f[u] \in Nat) /\ \A u \in U : g[u] \in Int /\ g[u] = f[u]
    BY <1>1
  <1> HIDE DEF f, g
  <1>4. SumFunctionOnSet(f, U) <= SumFunctionOnSet(f, S)
    BY <1>1, <1>3, TotalPart
  <1>5. SumFunctionOnSet(g, U) = SumFunctionOnSet(f, U)
    BY <1>2, <1>3, TotalSame
  <1> QED BY <1>1, <1>2, <1>4, <1>5

\* Bookings whose loads are left alone weigh what they did.
LEMMA SameWeight ==
    ASSUME DeskInv, NEW S \in SUBSET Trips, \A u \in S : trip[u].status # "unbooked",
           \A u \in S : trip'[u].content.load = trip[u].content.load
    PROVE  PalletsNext(S) = Pallets(S)
  <1> DEFINE g == [u \in S |-> trip[u].content.load]
             h == [u \in S |-> trip'[u].content.load]
  <1>1. g = h
    OBVIOUS
  <1>2. Pallets(S) = SumFunction(g) /\ PalletsNext(S) = SumFunction(h)
    BY DEF Pallets, PalletsNext
  <1> QED BY <1>1, <1>2

\* The check of an assignment or an approval leaves room: it counts what is on the
\* road, of whatever day, besides.
LEMMA FitsIsRoom ==
    ASSUME DeskInv, NEW t \in Trips, NEW content \in Contents, Fits(t, content)
    PROVE  Room(t, content)
  <1> DEFINE others == {u \in Trips \ {t} :
                          \/ trip[u].status = "in_progress"
                          \/ trip[u].status = "assigned" /\ trip[u].content.day = content.day}
             mine == Aboard(content.day) \ {t}
  <1>1. others \in SUBSET Trips /\ mine \in SUBSET others
        /\ \A u \in others : trip[u].status # "unbooked"
    BY DEF Aboard
  <1>2. Pallets(others) + content.load <= Capacity
    BY DEF Fits
  <1>3. content.load \in Nat
    BY DeskAssumption DEF Content
  <1> HIDE DEF others, mine
  <1>4. Pallets(others) \in Nat /\ Pallets(mine) \in Nat /\ Pallets(mine) <= Pallets(others)
    BY <1>1, PartWeighsLess
  <1>5. Pallets(mine) + content.load <= Capacity
    BY <1>2, <1>3, <1>4, DeskAssumption
  <1> QED BY <1>5 DEF Room, mine

\* Those of a day, with or without the one at hand, are booked.
LEMMA AboardBooked ==
    ASSUME NEW day
    PROVE  /\ Aboard(day) \in SUBSET Trips
           /\ \A u \in Aboard(day) : trip[u].status # "unbooked"
  BY DEF Aboard

\* A step that puts nothing on the lorry and changes nothing of what it carries
\* leaves room where there was room.
Unladen ==
    \A u \in Trips : trip'[u].status \in OnLorry =>
        trip[u].status \in OnLorry /\ trip'[u].content = trip[u].content

\* A step that puts nothing on the lorry leaves every day the room it had.
LEMMA UnladenKeepsRoom ==
    ASSUME DeskInv, Unladen
    PROVE  /\ \A day \in Day : Pallets(Aboard(day)) <= Capacity =>
                 PalletsNext(AboardNext(day)) <= Capacity
           /\ \A t \in Trips, content \in Contents : Room(t, content) => RoomNext(t, content)
  <1>1. ASSUME NEW day, NEW U \in SUBSET Trips
        PROVE  /\ Pallets(Aboard(day) \ U) \in Nat
               /\ PalletsNext(AboardNext(day) \ U) \in Nat
               /\ PalletsNext(AboardNext(day) \ U) <= Pallets(Aboard(day) \ U)
    <2> DEFINE S == Aboard(day) \ U
               V == AboardNext(day) \ U
    <2>1. S \in SUBSET Trips /\ (\A u \in S : trip[u].status # "unbooked")
      BY AboardBooked
    <2>2. V \in SUBSET S /\ \A u \in V : trip'[u].content = trip[u].content
      BY DEF AboardNext, Aboard, Unladen, OnLorry
    <2> HIDE DEF S, V
    <2>3. Pallets(S) \in Nat /\ Pallets(V) \in Nat /\ Pallets(V) <= Pallets(S)
      BY <2>1, <2>2, PartWeighsLess
    <2>4. PalletsNext(V) = Pallets(V)
      BY <2>1, <2>2, SameWeight
    <2> QED BY <2>3, <2>4 DEF S, V
  <1>2. ASSUME NEW day \in Day, Pallets(Aboard(day)) <= Capacity
        PROVE  PalletsNext(AboardNext(day)) <= Capacity
    <2>1. Aboard(day) \ {} = Aboard(day) /\ AboardNext(day) \ {} = AboardNext(day)
      OBVIOUS
    <2>2. /\ Pallets(Aboard(day)) \in Nat
          /\ PalletsNext(AboardNext(day)) \in Nat
          /\ PalletsNext(AboardNext(day)) <= Pallets(Aboard(day))
      <3>1. /\ Pallets(Aboard(day) \ {}) \in Nat
            /\ PalletsNext(AboardNext(day) \ {}) \in Nat
            /\ PalletsNext(AboardNext(day) \ {}) <= Pallets(Aboard(day) \ {})
        BY <1>1
      <3> QED BY <2>1, <3>1
    <2> QED BY <1>2, <2>2, DeskAssumption
  <1>3. ASSUME NEW t \in Trips, NEW content \in Contents, Room(t, content)
        PROVE  RoomNext(t, content)
    <2>1. /\ Pallets(Aboard(content.day) \ {t}) \in Nat
          /\ PalletsNext(AboardNext(content.day) \ {t}) \in Nat
          /\ PalletsNext(AboardNext(content.day) \ {t}) <= Pallets(Aboard(content.day) \ {t})
      BY <1>1
    <2>2. content.load \in Nat
      BY DeskAssumption DEF Content
    <2> QED BY <1>3, <2>1, <2>2, DeskAssumption DEF Room, RoomNext
  <1> QED BY <1>2, <1>3

\* A booking there was room for may be put on the lorry.
LEMMA OneJoins ==
    ASSUME DeskInv, NEW t \in Trips, NEW content \in Contents, Room(t, content),
           trip'[t].content = content, \A u \in Trips \ {t} : trip'[u] = trip[u],
           NEW day \in Day, Pallets(Aboard(day)) <= Capacity
    PROVE  PalletsNext(AboardNext(day)) <= Capacity
  <1> DEFINE V == Aboard(day) \ {t}
  <1>1. V \in SUBSET Trips /\ V \in SUBSET Aboard(day) /\ t \notin V
        /\ (\A u \in V : trip[u].status # "unbooked")
        /\ (\A u \in V : trip'[u].content.load = trip[u].content.load)
    BY AboardBooked
  <1>2. /\ Pallets(Aboard(day)) \in Nat /\ Pallets(V) \in Nat
        /\ Pallets(V) <= Pallets(Aboard(day))
    BY <1>1, AboardBooked, PartWeighsLess
  <1>3. PalletsNext(V) = Pallets(V) /\ IsFiniteSet(V)
    BY <1>1, SameWeight, PalletsType
  <1>4. AboardNext(day) = V \/ (AboardNext(day) = V \cup {t} /\ content.day = day)
    BY DEF AboardNext, Aboard, OnLorry
  <1>5. CASE AboardNext(day) = V
    BY <1>2, <1>3, <1>5, DeskAssumption
  <1>6. CASE AboardNext(day) = V \cup {t} /\ content.day = day
    <2> DEFINE f == [u \in V \cup {t} |-> trip'[u].content.load]
               h == [u \in V |-> trip'[u].content.load]
    <2>1. \A u \in V : trip[u].content.load \in Nat
      BY <1>1, PalletsType
    <2>2. content.load \in Nat
      BY DeskAssumption DEF Content
    <2>3. /\ \A u \in V \cup {t} : f[u] \in Int
          /\ \A u \in V : h[u] \in Int /\ h[u] = f[u]
          /\ f[t] = content.load
      BY <1>1, <2>1, <2>2
    <2>4. PalletsNext(V \cup {t}) = SumFunctionOnSet(f, V \cup {t})
          /\ PalletsNext(V) = SumFunctionOnSet(h, V)
      BY DEF PalletsNext, SumFunction
    <2> HIDE DEF V, f, h
    <2>5. SumFunctionOnSet(f, V \cup {t}) = f[t] + SumFunctionOnSet(f, V)
      BY <1>1, <1>3, <2>3, TotalAdd
    <2>6. SumFunctionOnSet(h, V) = SumFunctionOnSet(f, V)
      BY <1>3, <2>3, TotalSame
    <2>7. Pallets(V) + content.load <= Capacity
      BY <1>6 DEF Room, V
    <2>8. PalletsNext(V \cup {t}) = content.load + Pallets(V)
      BY <1>3, <2>3, <2>4, <2>5, <2>6
    <2> QED BY <1>2, <1>6, <2>2, <2>7, <2>8, DeskAssumption
  <1> QED BY <1>4, <1>5, <1>6

\* Most steps keep the room: they put nothing on the lorry, and what they add to
\* the decisions on their way was weighed.
LEMMA QuietRoom ==
    ASSUME DeskInv, RoomKept, Unladen, overlapped' = overlapped,
           \A t \in assigning' :
               /\ t \in Trips /\ trip[t].content \in Contents
               /\ trip'[t].content = trip[t].content
               /\ t \in assigning \/ Room(t, trip[t].content),
           \A t \in Trips : approving'[t] # None =>
               /\ trip'[t].content = trip[t].content
               /\ request'[approving'[t]].input \in Contents
               /\ \/ /\ approving[t] # None
                     /\ request'[approving'[t]].input = request[approving[t]].input
                  \/ /\ request'[approving'[t]].input.day = trip[t].content.day
                     /\ Room(t, request'[approving'[t]].input)
    PROVE  RoomKept'
  <1>1. /\ \A day \in Day : Pallets(Aboard(day)) <= Capacity =>
                 PalletsNext(AboardNext(day)) <= Capacity
        /\ \A t \in Trips, content \in Contents : Room(t, content) => RoomNext(t, content)
    BY UnladenKeepsRoom
  <1>2. RoomKeptNext
    BY <1>1 DEF RoomKept, RoomKeptNext
  <1> QED BY <1>2, RoomAfterStep

\* The steps of a booking, and the assignment.
LEMMA OfficeRoom ==
    ASSUME DeskInv, RoomKept, NEW t \in Trips,
           \/ \E input \in Contents : EditBooking(t, input)
           \/ Cancel(t) \/ Unassign(t) \/ Start(t)
           \/ AssignCheck(t) \/ AssignFails(t)
    PROVE  RoomKept'
  <1>1. /\ UNCHANGED <<request, approving, overlapped>>
        /\ assigning' \subseteq assigning \cup {t}
        /\ t \in assigning' =>
              trip' = trip /\ trip[t].content \in Contents /\ Room(t, trip[t].content)
        /\ trip \in [Trips -> Trip]
    <2>1. CASE AssignCheck(t)
      <3>1. trip[t].content \in Contents /\ Fits(t, trip[t].content)
        BY <2>1 DEF AssignCheck, DeskInv, Booked
      <3>2. Room(t, trip[t].content)
        BY <3>1, FitsIsRoom
      <3> QED BY <2>1, <3>1, <3>2 DEF AssignCheck, OfficeStep, DeskInv, TypeOK
    <2>2. CASE ~AssignCheck(t)
      BY <2>2 DEF EditBooking, Cancel, Unassign, Start, AssignFails, OfficeStep, Writes,
                  DeskInv, TypeOK
    <2> QED BY <2>1, <2>2
  <1>2. Unladen /\ (trip[t].status # "pending" => trip'[t].content = trip[t].content)
        /\ (\A u \in Trips \ {t} : trip'[u] = trip[u])
    BY <1>1 DEF EditBooking, Cancel, Unassign, Start, AssignCheck, AssignFails, Unladen,
                OnLorry, Trip
  <1>3. \A u \in assigning' :
               /\ u \in Trips /\ trip[u].content \in Contents
               /\ trip'[u].content = trip[u].content
               /\ u \in assigning \/ Room(u, trip[u].content)
    BY <1>1, <1>2 DEF DeskInv, Booked
  <1>4. \A u \in Trips : approving'[u] # None =>
               /\ trip'[u].content = trip[u].content
               /\ request'[approving'[u]].input \in Contents
               /\ approving[u] # None
               /\ request'[approving'[u]].input = request[approving[u]].input
    BY <1>1, <1>2 DEF DeskInv, TypeOK, Locked, Known
  <1> QED BY <1>1, <1>2, <1>3, <1>4, QuietRoom

\* A commit that no approval overlapped finds the lorry as its check left it.
LEMMA CommitRoom ==
    ASSUME DeskInv, RoomKept, NEW t \in Trips, AssignCommit(t) \/ ApproveCommit(t)
    PROVE  RoomKept'
  <1> DEFINE content == trip'[t].content
  <1>1. SUFFICES ASSUME ~overlapped' PROVE RoomKeptNext
    BY RoomAfterStep DEF RoomKeptNext
  <1>2. /\ ~overlapped /\ assigning' = {} /\ (\A u \in Trips : approving'[u] = None)
        /\ content \in Contents /\ Room(t, content)
        /\ (\A u \in Trips \ {t} : trip'[u] = trip[u])
    <2>1. CASE AssignCommit(t)
      <3>1. /\ t \in assigning /\ ~overlapped /\ assigning' = {}
            /\ (\A u \in Trips : Unlocked(u)) /\ approving' = approving
        BY <1>1, <2>1 DEF AssignCommit
      <3>2. content = trip[t].content /\ \A u \in Trips \ {t} : trip'[u] = trip[u]
        BY <2>1 DEF AssignCommit, DeskInv, TypeOK, Trip
      <3>3. trip[t].content \in Contents
        BY <3>1 DEF DeskInv, Booked
      <3> QED BY <3>1, <3>2, <3>3 DEF RoomKept, Unlocked
    <2>2. CASE ApproveCommit(t)
      <3>1. /\ ~overlapped /\ assigning' = assigning \ {t} /\ assigning \ {t} = {}
            /\ (\A u \in Trips \ {t} : Unlocked(u)) /\ approving[t] # None
            /\ approving' = [approving EXCEPT ![t] = None]
        BY <1>1, <2>2 DEF ApproveCommit, Writes
      <3>2. approving[t] \in Requests /\ request[approving[t]].input \in Contents
        BY <3>1 DEF DeskInv, TypeOK, Locked, Known
      <3>3. content = request[approving[t]].input /\ \A u \in Trips \ {t} : trip'[u] = trip[u]
        BY <2>2 DEF ApproveCommit, DeskInv, TypeOK, Trip
      <3>4. \A u \in Trips : approving'[u] = None
        BY <3>1 DEF DeskInv, TypeOK, Unlocked
      <3> QED BY <3>1, <3>2, <3>3, <3>4 DEF RoomKept
    <2> QED BY <2>1, <2>2
  <1>3. ASSUME NEW day \in Day PROVE PalletsNext(AboardNext(day)) <= Capacity
    <2>1. Pallets(Aboard(day)) <= Capacity
      BY <1>2 DEF RoomKept
    <2> QED BY <1>2, <2>1, OneJoins
  <1> QED BY <1>2, <1>3 DEF RoomKeptNext

\* The other steps of a change request.
LEMMA ChangeRoom ==
    ASSUME DeskInv, DeskInv', RoomKept,
           \/ \E t \in Trips : (\E input \in Contents : ReadForChange(t, input)) \/ ApproveFails(t)
           \/ \E r \in Requests : MakeRequest(r) \/ Reject(r) \/ ApproveCheck(r)
           \/ DropDraft
    PROVE  RoomKept'
  <1>1. UNCHANGED <<trip, assigning, overlapped>>
    BY DEF ReadForChange, ApproveFails, MakeRequest, Reject, ApproveCheck, DropDraft
  <1>2. Unladen /\ \A u \in assigning' :
               /\ u \in Trips /\ trip[u].content \in Contents
               /\ trip'[u].content = trip[u].content
               /\ u \in assigning \/ Room(u, trip[u].content)
    BY <1>1 DEF Unladen, DeskInv, Booked
  <1>3. \A u \in Trips : approving[u] # None =>
            /\ approving[u] \in Requests /\ request[approving[u]].status # "none"
            /\ request[approving[u]].input \in Contents
    BY DEF DeskInv, TypeOK, Locked, Known
  <1>4. ASSUME NEW u \in Trips, approving'[u] # None
        PROVE  /\ trip'[u].content = trip[u].content
               /\ request'[approving'[u]].input \in Contents
               /\ \/ /\ approving[u] # None
                     /\ request'[approving'[u]].input = request[approving[u]].input
                  \/ /\ request'[approving'[u]].input.day = trip[u].content.day
                     /\ Room(u, request'[approving'[u]].input)
    <2>1. ASSUME NEW t \in Trips, (\E input \in Contents : ReadForChange(t, input)) \/ ApproveFails(t)
          PROVE  request' = request /\ approving'[u] = approving[u]
      BY <1>4, <2>1 DEF ReadForChange, ApproveFails, DeskInv, TypeOK
    <2>2. CASE DropDraft
      BY <1>1, <1>3, <1>4, <2>2 DEF DropDraft
    <2>3. ASSUME NEW r \in Requests, MakeRequest(r)
          PROVE  /\ approving' = approving
                 /\ \A q \in Requests : request[q].status # "none" =>
                       request'[q].input = request[q].input
      BY <2>3 DEF MakeRequest, DeskInv, TypeOK, Request
    <2>4. ASSUME NEW r \in Requests, Reject(r)
          PROVE  /\ approving' = approving
                 /\ \A q \in Requests : request'[q].input = request[q].input
      BY <2>4 DEF Reject, DeskInv, TypeOK, Request
    <2>5. ASSUME NEW r \in Requests, ApproveCheck(r)
          PROVE  /\ request' = request
                 /\ \/ approving'[u] = approving[u]
                    \/ /\ approving'[u] = r /\ request[r].input \in Contents
                       /\ request[r].input.day = trip[u].content.day
                       /\ Room(u, request[r].input)
      <3>1. /\ request[r].trip \in Trips /\ request[r].input \in Contents
            /\ request[r].input.day = trip[request[r].trip].content.day
            /\ Fits(request[r].trip, request[r].input)
            /\ approving' = [approving EXCEPT ![request[r].trip] = r]
            /\ request' = request
        BY <2>5 DEF ApproveCheck, DeskInv, Known
      <3>2. Room(request[r].trip, request[r].input)
        BY <3>1, FitsIsRoom
      <3> QED BY <3>1, <3>2 DEF DeskInv, TypeOK
    <2> QED BY <1>1, <1>3, <1>4, <2>1, <2>2, <2>3, <2>4, <2>5
  <1> QED BY <1>1, <1>2, <1>4, QuietRoom

\* Every step keeps the room for the decisions on their way.
LEMMA NextRoom ==
    ASSUME DeskInv, DeskInv', RoomKept, [Next]_vars
    PROVE  RoomKept'
  <1>1. CASE RatesSteps \/ UNCHANGED vars
    <2>1. UNCHANGED <<trip, request, approving, assigning, overlapped>>
      BY <1>1 DEF RatesSteps, EditPoints, Sweep, NextDay, FoldPoints, DeskStands, vars, deskVars
    <2>2. Unladen /\ \A u \in assigning' :
               /\ u \in Trips /\ trip[u].content \in Contents
               /\ trip'[u].content = trip[u].content
               /\ u \in assigning \/ Room(u, trip[u].content)
      BY <2>1 DEF Unladen, DeskInv, Booked
    <2>3. \A u \in Trips : approving'[u] # None =>
               /\ trip'[u].content = trip[u].content
               /\ request'[approving'[u]].input \in Contents
               /\ approving[u] # None
               /\ request'[approving'[u]].input = request[approving[u]].input
      BY <2>1 DEF DeskInv, TypeOK, Locked, Known
    <2> QED BY <2>1, <2>2, <2>3, QuietRoom
  <1>2. ASSUME NEW c \in Calls,
               \/ \E k \in Keys, content \in Contents : SubmitBooking(c, k, content)
               \/ FindExisting(c) \/ FindWinner(c) \/ BookingFails(c)
               \/ \E t \in Trips : CreateTrip(c, t)
        PROVE  RoomKept'
    <2>1. UNCHANGED <<request, approving, assigning, overlapped>>
      BY <1>2 DEF SubmitBooking, FindExisting, FindWinner, BookingFails, CreateTrip, BookingStep
    <2>2. ASSUME NEW u \in Trips
          PROVE  \/ trip'[u] = trip[u]
                 \/ trip[u].status = "unbooked" /\ trip'[u].status = "pending"
      <3>1. ASSUME NEW t \in Trips, CreateTrip(c, t), u = t
            PROVE  trip[u].status = "unbooked" /\ trip'[u].status = "pending"
        BY <3>1 DEF CreateTrip, DeskInv, TypeOK, Trip
      <3>2. ASSUME NEW t \in Trips, CreateTrip(c, t), u # t
            PROVE  trip'[u] = trip[u]
        BY <3>2 DEF CreateTrip, DeskInv, TypeOK
      <3> QED BY <1>2, <3>1, <3>2 DEF SubmitBooking, FindExisting, FindWinner, BookingFails
    <2>3. Unladen /\ \A u \in assigning' :
               /\ u \in Trips /\ trip[u].content \in Contents
               /\ trip'[u].content = trip[u].content
               /\ u \in assigning \/ Room(u, trip[u].content)
      BY <2>1, <2>2 DEF Unladen, DeskInv, Booked, OnLorry
    <2>4. \A u \in Trips : approving'[u] # None =>
               /\ trip'[u].content = trip[u].content
               /\ request'[approving'[u]].input \in Contents
               /\ approving[u] # None
               /\ request'[approving'[u]].input = request[approving[u]].input
      BY <2>1, <2>2 DEF DeskInv, TypeOK, Locked, Known
    <2> QED BY <2>1, <2>3, <2>4, QuietRoom
  <1> QED BY <1>1, <1>2, OfficeRoom, CommitRoom, ChangeRoom DEF Next, RatesSteps

\* "The assigned lorry must still fit": what is given to the lorry for a day, and
\* what approved changes make of it, never exceeds what it holds, as long as no
\* approval overlapped another decision (assignTripInTx, the approval of a change).
THEOREM LorryIsNotOverfilled == Spec => []LorryFits
  <1>1. Init => RoomKept
    <2> SUFFICES ASSUME Init, NEW day \in Day PROVE Pallets(Aboard(day)) <= Capacity
      BY DEF Init, RoomKept
    <2>1. Aboard(day) = {}
      BY DEF Init, Aboard
    <2>2. Pallets({}) = SumFunctionOnSet([u \in {} |-> trip[u].content.load], {})
      BY DEF Pallets, SumFunction
    <2>3. SumFunctionOnSet([u \in {} |-> trip[u].content.load], {}) = 0
      BY TotalEmpty
    <2> QED BY <2>1, <2>2, <2>3, DeskAssumption
  <1>2. Inv /\ Inv' /\ RoomKept /\ [Next]_vars => RoomKept'
    BY NextRoom DEF Inv
  <1>3. RoomKept => LorryFits
    BY DEF RoomKept, LorryFits
  <1> QED BY <1>1, <1>2, <1>3, DeskInvariant, PTL DEF Spec

=============================================================================
