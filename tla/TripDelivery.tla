---------------------------- MODULE TripDelivery ----------------------------
(***************************************************************************)
(* What happens to a trip between its assignment to a driver and the       *)
(* moment its incentive is approved: start, the Arrived and Delivered taps *)
(* of each stop and their two-minute undo, failed-delivery reports and     *)
(* their review, the proposal of the incentive, abort, reassignment and    *)
(* the approval (api/src/routes/trips.ts, routes/exceptions.ts and the     *)
(* services they call).                                                    *)
(*                                                                         *)
(* One action is one database transaction.  Handlers that take the trip    *)
(* row lock, or run Serializable, re-read everything under it and are one  *)
(* action; approve-incentive reads outside any transaction and writes by   *)
(* compare-and-set, so it is two.  A request refused with an error changes *)
(* nothing and is not a step.                                              *)
(*                                                                         *)
(* Money is the SET of stops an amount was computed from.  A timestamp is  *)
(* "never" (null), "fresh" (within STOP_TAP_UNDO_WINDOW_MS) or "old".      *)
(***************************************************************************)
EXTENDS ExceptionWorkflow

CONSTANTS
    Trips,          \* trip ids
    Stops,          \* trip stop ids
    TripOf,         \* the trip each stop belongs to
    Drivers,        \* users with the driver role
    Admins,         \* users with the admin role
    Exceptions,     \* ids of the reports that may be filed
    NoDriver,       \* driver_id is null
    NoException,    \* open_exception_id is null
    NoTrip,         \* the report does not exist yet
    NoStop,         \* trip_stop_id is null: a report about the whole trip
    NoProposal,     \* incentive_earned is null
    Unpaid,         \* incentive_final and incentive_approved_at are null
    Edited,         \* an amount an admin chose, with a written reason
    NoRequest       \* the admin has no approve-incentive request in flight

ASSUME TripOfAssumption == TripOf \in [Stops -> Trips]

ASSUME NullsAssumption ==
    /\ NoDriver \notin Drivers
    /\ NoException \notin Exceptions
    /\ NoTrip \notin Trips
    /\ NoStop \notin Stops
    /\ \A amount \in SUBSET Stops : amount \notin {NoProposal, Unpaid, Edited}
    /\ Edited # Unpaid
    /\ \A t \in Trips, amount \in SUBSET Stops :
          NoRequest # [trip |-> t, amount |-> amount]

VARIABLES
    status,         \* Trip.status
    driver,         \* Trip.driver_id
    blocker,        \* Trip.open_exception_id: the report that blocks the trip
    proposal,       \* Trip.incentive_earned
    final,          \* Trip.incentive_final, set together with approved_at
    stopStatus,     \* TripStop.status
    arrivedAt,      \* TripStop.arrived_at
    deliveredAt,    \* TripStop.delivered_at
    scored,         \* the stops whose points_awarded is not null
    excState,       \* TripException.current_state
    excTrip,        \* TripException.trip_id
    excStop,        \* TripException.trip_stop_id
    resolution,     \* TripException.resolution
    verified,       \* the reports that carry a "verify" ExceptionAction
    request         \* what an approve-incentive request in flight has read

tripVars == <<status, driver, blocker, proposal, final>>
stopVars == <<stopStatus, arrivedAt, deliveredAt>>
excVars  == <<excState, excTrip, excStop, resolution, verified>>
vars     == <<tripVars, stopVars, scored, excVars, request>>

TripStatuses == {"pending", "assigned", "in_progress", "pending_approval",
                 "completed", "cancelled", "rejected"}
Instants == {"never", "fresh", "old"}

StopsOf(t) == {s \in Stops : TripOf[s] = t}

-----------------------------------------------------------------------------
(* Which stops are closed out, and which stops earn.                       *)

ReportsOn(s) == {e \in Exceptions : excStop[e] = s}

\* ADJUDICATED_UNDELIVERED_WHERE: the driver reached the stop, and the office
\* verified a report about it and resumed the trip without going back.
Adjudicated(s) ==
    /\ stopStatus[s] # "delivered"
    /\ arrivedAt[s] # "never"
    /\ \E e \in ReportsOn(s) :
          excState[e] = "resolved" /\ resolution[e] = "resume" /\ e \in verified

\* SETTLED_UNDELIVERED_WHERE: adjudicated, and no report about it was rejected.
Settled(s) ==
    /\ Adjudicated(s)
    /\ \A e \in ReportsOn(s) : excState[e] # "rejected"

Outstanding(t) ==
    {s \in StopsOf(t) : stopStatus[s] # "delivered" /\ ~Adjudicated(s)}

\* Mistake: a rejected report vetoes a delivered stop as well.
Earning_VetoesDelivered(t) ==
    {s \in StopsOf(t) : /\ stopStatus[s] = "delivered" \/ Adjudicated(s)
                        /\ \A e \in ReportsOn(s) : excState[e] # "rejected"}

Earning(t) == {s \in StopsOf(t) : stopStatus[s] = "delivered" \/ Settled(s)}

\* Mistake: a report the driver continued past no longer counts as open.
HasOpenException_Blocking(t) == blocker[t] # NoException

HasOpenException(t) ==
    \E e \in Exceptions : excTrip[e] = t /\ excState[e] \in OpenStates

OnOtherTrip(d, t) ==
    \E u \in Trips \ {t} : driver[u] = d /\ status[u] = "in_progress"

\* proposeTripIncentiveOnce: may this trip's proposal be written?
CanPropose(t) ==
    /\ status[t] = "in_progress"
    /\ proposal[t] = NoProposal
    /\ blocker'[t] = NoException

\* Score the stops that earn once the step is taken, and ask for approval.
Propose(t) ==
    /\ status'   = [status EXCEPT ![t] = "pending_approval"]
    /\ proposal' = [proposal EXCEPT ![t] = Earning(t)']
    /\ scored'   = scored \cup Earning(t)'

-----------------------------------------------------------------------------
Init ==
    /\ status      = [t \in Trips |-> "pending"]
    /\ driver      = [t \in Trips |-> NoDriver]
    /\ blocker     = [t \in Trips |-> NoException]
    /\ proposal    = [t \in Trips |-> NoProposal]
    /\ final       = [t \in Trips |-> Unpaid]
    /\ stopStatus  = [s \in Stops |-> "pending"]
    /\ arrivedAt   = [s \in Stops |-> "never"]
    /\ deliveredAt = [s \in Stops |-> "never"]
    /\ scored      = {}
    /\ excState    = [e \in Exceptions |-> "unfiled"]
    /\ excTrip     = [e \in Exceptions |-> NoTrip]
    /\ excStop     = [e \in Exceptions |-> NoStop]
    /\ resolution  = [e \in Exceptions |-> "none"]
    /\ verified    = {}
    /\ request     = [a \in Admins |-> NoRequest]

-----------------------------------------------------------------------------
(* Dispatch, as far as a trip's delivery sees it: truck capacity, operating *)
(* windows and leave may refuse an assignment, and are left out.            *)

\* approve / auto-dispatch: claim a pending trip for a driver.
Assign(t, d) ==
    /\ status[t] = "pending"
    /\ ~OnOtherTrip(d, t)
    /\ status' = [status EXCEPT ![t] = "assigned"]
    /\ driver' = [driver EXCEPT ![t] = d]
    /\ UNCHANGED <<blocker, proposal, final, stopVars, scored, excVars, request>>

\* reject by an admin, cancel by its requestor or an admin.
Withdraw(t, exit) ==
    /\ exit \in {"rejected", "cancelled"}
    /\ status[t] = "pending"
    /\ status' = [status EXCEPT ![t] = exit]
    /\ UNCHANGED <<driver, blocker, proposal, final, stopVars, scored, excVars,
                   request>>

\* sweepStaleTickets: at 3am a trip that has not started is cancelled if its day
\* is over; its driver stays written on it.
CancelStale(t) ==
    /\ status[t] \in {"pending", "assigned"}
    /\ status' = [status EXCEPT ![t] = "cancelled"]
    /\ UNCHANGED <<driver, blocker, proposal, final, stopVars, scored, excVars,
                   request>>

\* unassign: releaseAssignedTrip.
Unassign(t) ==
    /\ status[t] = "assigned"
    /\ status' = [status EXCEPT ![t] = "pending"]
    /\ driver' = [driver EXCEPT ![t] = NoDriver]
    /\ UNCHANGED <<blocker, proposal, final, stopVars, scored, excVars, request>>

\* reassign before the start: release and claim in one transaction.  The same
\* driver may get the trip again, with another lorry.
Reassign(t, d) ==
    /\ status[t] = "assigned"
    /\ ~OnOtherTrip(d, t)
    /\ driver' = [driver EXCEPT ![t] = d]
    /\ UNCHANGED <<status, blocker, proposal, final, stopVars, scored, excVars,
                   request>>

\* reassign after the start, while nothing is delivered: the old driver's
\* arrivals are wiped, reports and the blocker are left as they are.
ReassignMidTrip(t, d) ==
    /\ status[t] = "in_progress"
    /\ \A s \in StopsOf(t) : stopStatus[s] # "delivered"
    /\ ~OnOtherTrip(d, t)
    /\ status' = [status EXCEPT ![t] = "assigned"]
    /\ driver' = [driver EXCEPT ![t] = d]
    /\ stopStatus' = [s \in Stops |->
                         IF s \in StopsOf(t) THEN "pending" ELSE stopStatus[s]]
    /\ arrivedAt'  = [s \in Stops |->
                         IF s \in StopsOf(t) THEN "never" ELSE arrivedAt[s]]
    /\ UNCHANGED <<blocker, proposal, final, deliveredAt, scored, excVars, request>>

-----------------------------------------------------------------------------
(* The driver's taps (PATCH /trips/:id/status and /stops/:stopId/undo); the *)
(* driver the trip has now is the only one whose tap is accepted.           *)

\* startAssignedTripForDriver
Start(t) ==
    /\ status[t] = "assigned"
    /\ driver[t] # NoDriver
    /\ ~OnOtherTrip(driver[t], t)
    /\ status' = [status EXCEPT ![t] = "in_progress"]
    /\ UNCHANGED <<driver, blocker, proposal, final, stopVars, scored, excVars,
                   request>>

Arrive(s) ==
    /\ blocker[TripOf[s]] = NoException
    /\ stopStatus[s] = "pending"
    /\ status[TripOf[s]] = "in_progress"
    /\ stopStatus' = [stopStatus EXCEPT ![s] = "arrived"]
    /\ arrivedAt'  = [arrivedAt EXCEPT ![s] = "fresh"]
    /\ UNCHANGED <<tripVars, deliveredAt, scored, excVars, request>>

\* The delivered tap; the one that leaves nothing outstanding also proposes
\* the incentive.  A lost proposal rolls the whole tap back.  The document
\* gate may refuse the tap, and is left out.
Deliver(s) ==
    LET t == TripOf[s] IN
    /\ blocker[t] = NoException
    /\ status[t] = "in_progress"
    /\ stopStatus[s] # "delivered"
    /\ stopStatus'  = [stopStatus EXCEPT ![s] = "delivered"]
    /\ deliveredAt' = [deliveredAt EXCEPT ![s] = "fresh"]
    /\ UNCHANGED <<driver, blocker, final, arrivedAt, excVars, request>>
    /\ \/ /\ Outstanding(t)' # {}
          /\ UNCHANGED <<status, proposal, scored>>
       \/ /\ Outstanding(t)' = {}
          /\ CanPropose(t)
          /\ Propose(t)

\* assertStopTapUndoable, arrived branch
UndoArrived(s) ==
    /\ blocker[TripOf[s]] = NoException
    /\ stopStatus[s] = "arrived"
    /\ status[TripOf[s]] = "in_progress"
    /\ arrivedAt[s] = "fresh"
    /\ stopStatus' = [stopStatus EXCEPT ![s] = "pending"]
    /\ arrivedAt'  = [arrivedAt EXCEPT ![s] = "never"]
    /\ UNCHANGED <<tripVars, deliveredAt, scored, excVars, request>>

\* Mistake: the stops keep the points of the proposal that is taken back.
Unpropose_KeepsPoints(t) ==
    /\ status'   = [status EXCEPT ![t] = "in_progress"]
    /\ proposal' = [proposal EXCEPT ![t] = NoProposal]
    /\ UNCHANGED scored

\* revertFinalizeForUndo: the exact inverse of Propose.
Unpropose(t) ==
    /\ status'   = [status EXCEPT ![t] = "in_progress"]
    /\ proposal' = [proposal EXCEPT ![t] = NoProposal]
    /\ scored'   = scored \ StopsOf(t)

\* assertStopTapUndoable, delivered branch
UndoDelivered(s) ==
    LET t == TripOf[s] IN
    /\ blocker[t] = NoException
    /\ stopStatus[s] = "delivered"
    /\ status[t] \in {"in_progress", "pending_approval"}
    /\ final[t] = Unpaid
    /\ deliveredAt[s] = "fresh"
    /\ stopStatus'  = [stopStatus EXCEPT ![s] = "arrived"]
    /\ deliveredAt' = [deliveredAt EXCEPT ![s] = "never"]
    /\ \/ status[t] = "pending_approval" /\ Unpropose(t)
       \/ status[t] = "in_progress" /\ UNCHANGED <<status, proposal, scored>>
    /\ UNCHANGED <<driver, blocker, final, arrivedAt, excVars, request>>

-----------------------------------------------------------------------------
(* Failed-delivery reports (routes/exceptions.ts).  A report's version makes *)
(* each of these a compare-and-set on the report it read.                   *)

\* The driver reports stop s of trip t, or the trip itself, and is blocked.
Report(e, t, s) ==
    /\ excState[e] = "unfiled"
    /\ s \in StopsOf(t) \cup {NoStop}
    /\ status[t] = "in_progress"
    /\ blocker[t] = NoException
    /\ excState' = [excState EXCEPT ![e] = "reported"]
    /\ excTrip'  = [excTrip EXCEPT ![e] = t]
    /\ excStop'  = [excStop EXCEPT ![e] = s]
    /\ blocker'  = [blocker EXCEPT ![t] = e]
    /\ UNCHANGED <<status, driver, proposal, final, stopVars, scored, resolution,
                   verified, request>>

\* The driver adds a photo to an open report.
AddEvidence(e) ==
    /\ excState[e] \in OpenStates
    /\ driver[excTrip[e]] # NoDriver
    /\ excState' = [excState EXCEPT ![e] = StateAfterEvidence(@)]
    /\ UNCHANGED <<tripVars, stopVars, scored, excTrip, excStop, resolution,
                   verified, request>>

\* The driver carries on: the trip is unblocked, the report stays open.
Continue(e) ==
    LET t == excTrip[e] IN
    /\ excState[e] \in OpenStates
    /\ status[t] = "in_progress"
    /\ blocker[t] = e
    /\ blocker' = [blocker EXCEPT ![t] = NoException]
    /\ UNCHANGED <<status, driver, proposal, final, stopVars, scored, excVars,
                   request>>

RequestMoreEvidence(e) ==
    /\ excState[e] \in AllowedFrom["request_more_evidence"]
    /\ excState' = [excState EXCEPT ![e] = "more_evidence"]
    /\ UNCHANGED <<tripVars, stopVars, scored, excTrip, excStop, resolution,
                   verified, request>>

Verify(e) ==
    /\ excState[e] \in AllowedFrom["verify"]
    /\ excState' = [excState EXCEPT ![e] = "verified"]
    /\ verified' = verified \cup {e}
    /\ UNCHANGED <<tripVars, stopVars, scored, excTrip, excStop, resolution, request>>

\* The step after a close that may find the trip has nothing left to do.
FinalizeIfNothingOutstanding(t) ==
    IF /\ CanPropose(t)
       /\ driver[t] # NoDriver
       /\ Outstanding(t)' = {}
      THEN Propose(t)
      ELSE UNCHANGED <<status, proposal, scored>>

\* Mistake: closing a report leaves the trip blocked by it.
Unblock_Forgets(e) == UNCHANGED blocker

\* The trip is unblocked if this report is the one that holds it.
Unblock(e) ==
    blocker' = [blocker EXCEPT ![excTrip[e]] = IF @ = e THEN NoException ELSE @]

\* applyTransition for an action that closes the report: clear the block if
\* this report holds it, refuse if the trip is blocked by a closed report,
\* then finalize the trip if nothing is outstanding.
Close(e, action, state, res) ==
    LET t == excTrip[e] IN
    /\ excState[e] \in AllowedFrom[action]
    /\ blocker[t] # NoException => excState[blocker[t]] \in OpenStates
    /\ excState'   = [excState EXCEPT ![e] = state]
    /\ resolution' = [resolution EXCEPT ![e] = res]
    /\ Unblock(e)
    /\ UNCHANGED <<driver, final, stopVars, excTrip, excStop, verified, request>>
    /\ FinalizeIfNothingOutstanding(t)

Reject(e) == Close(e, "reject", "rejected", "none")
Resume(e) == Close(e, "resume", "resolved", "resume")
Retry(e)  == Close(e, "resolve", "resolved", "retry")

-----------------------------------------------------------------------------
(* Abort and approval by an admin.                                          *)

\* Mistake: an aborted trip is cancelled whatever it has earned.
Abort_Unpaid(t) ==
    /\ status[t] = "in_progress"
    /\ ~HasOpenException(t)
    /\ status' = [status EXCEPT ![t] = "cancelled"]
    /\ UNCHANGED <<driver, blocker, proposal, final, stopVars, scored, excVars,
                   request>>

\* abort: a trip that owes nothing is cancelled, any other one is sent for
\* approval with what it has earned so far.
Abort(t) ==
    /\ status[t] = "in_progress"
    /\ ~HasOpenException(t)
    /\ UNCHANGED <<driver, blocker, final, stopVars, excVars, request>>
    /\ \/ /\ Earning(t) = {}
          /\ status' = [status EXCEPT ![t] = "cancelled"]
          /\ UNCHANGED <<proposal, scored>>
       \/ /\ Earning(t) # {}
          /\ driver[t] # NoDriver
          /\ CanPropose(t)
          /\ Propose(t)

\* approve-incentive, first half: read the proposal and check the request.
ReadForApproval(a, t) ==
    /\ request[a] = NoRequest
    /\ status[t] = "pending_approval"
    /\ request' = [request EXCEPT ![a] = [trip |-> t, amount |-> proposal[t]]]
    /\ UNCHANGED <<tripVars, stopVars, scored, excVars>>

\* Mistake: the approval is written whatever happened since it was read.
ApproveOrRefuse_Blind(a) ==
    /\ request[a] # NoRequest
    /\ request' = [request EXCEPT ![a] = NoRequest]
    /\ status' = [status EXCEPT ![request[a].trip] = "completed"]
    /\ \E amount \in {request[a].amount, Edited} :
          final' = [final EXCEPT ![request[a].trip] = amount]
    /\ UNCHANGED <<driver, blocker, proposal, stopVars, scored, excVars>>

\* approve-incentive, second half: approveTripIncentiveOnce pays the amount that
\* was read or the admin's own; its compare-and-set is on the status alone.
ApproveOrRefuse(a) ==
    LET t == request[a].trip IN
    /\ request[a] # NoRequest
    /\ request' = [request EXCEPT ![a] = NoRequest]
    /\ \/ /\ status[t] = "pending_approval"
          /\ status' = [status EXCEPT ![t] = "completed"]
          /\ \E amount \in {request[a].amount, Edited} :
                final' = [final EXCEPT ![t] = amount]
       \/ /\ status[t] # "pending_approval"
          /\ UNCHANGED <<status, final>>
    /\ UNCHANGED <<driver, blocker, proposal, stopVars, scored, excVars>>

-----------------------------------------------------------------------------
(* Two minutes pass.  A stop's arrival is never later than its delivery, and *)
(* the age of a tap is read only while its trip is out or awaits approval.  *)

Undoable(t) == status[t] \in {"in_progress", "pending_approval"}

ArrivalAges(s) ==
    /\ Undoable(TripOf[s])
    /\ arrivedAt[s] = "fresh"
    /\ arrivedAt' = [arrivedAt EXCEPT ![s] = "old"]
    /\ UNCHANGED <<tripVars, stopStatus, deliveredAt, scored, excVars, request>>

DeliveryAges(s) ==
    /\ Undoable(TripOf[s])
    /\ deliveredAt[s] = "fresh"
    /\ arrivedAt[s] # "fresh"
    /\ deliveredAt' = [deliveredAt EXCEPT ![s] = "old"]
    /\ UNCHANGED <<tripVars, stopStatus, arrivedAt, scored, excVars, request>>

DispatchStep(t) ==
    \/ \E d \in Drivers : Assign(t, d) \/ Reassign(t, d) \/ ReassignMidTrip(t, d)
    \/ \E exit \in {"rejected", "cancelled"} : Withdraw(t, exit)
    \/ CancelStale(t)
    \/ Unassign(t)
    \/ Start(t)
    \/ Abort(t)

StopStep(s) ==
    \/ Arrive(s)
    \/ Deliver(s)
    \/ UndoArrived(s)
    \/ UndoDelivered(s)
    \/ ArrivalAges(s)
    \/ DeliveryAges(s)

ReportStep(e) ==
    \/ \E t \in Trips, s \in Stops \cup {NoStop} : Report(e, t, s)
    \/ AddEvidence(e)
    \/ Continue(e)
    \/ RequestMoreEvidence(e)
    \/ Verify(e)
    \/ Reject(e)
    \/ Resume(e)
    \/ Retry(e)

ApprovalStep(a) ==
    \/ \E t \in Trips : ReadForApproval(a, t)
    \/ ApproveOrRefuse(a)

Next ==
    \/ \E t \in Trips : DispatchStep(t)
    \/ \E s \in Stops : StopStep(s)
    \/ \E e \in Exceptions : ReportStep(e)
    \/ \E a \in Admins : ApprovalStep(a)

Spec == Init /\ [][Next]_vars

-----------------------------------------------------------------------------
(* What must hold.                                                          *)

\* Every field has a value its column can hold.
TypeOK ==
    /\ status \in [Trips -> TripStatuses]
    /\ driver \in [Trips -> Drivers \cup {NoDriver}]
    /\ blocker \in [Trips -> Exceptions \cup {NoException}]
    /\ proposal \in [Trips -> {NoProposal} \cup SUBSET Stops]
    /\ final \in [Trips -> {Unpaid, Edited} \cup SUBSET Stops]
    /\ stopStatus \in [Stops -> {"pending", "arrived", "delivered"}]
    /\ arrivedAt \in [Stops -> Instants]
    /\ deliveredAt \in [Stops -> Instants]
    /\ scored \in SUBSET Stops
    /\ excState \in [Exceptions -> ExceptionStates]
    /\ excTrip \in [Exceptions -> Trips \cup {NoTrip}]
    /\ excStop \in [Exceptions -> Stops \cup {NoStop}]
    /\ resolution \in [Exceptions -> Resolutions]
    /\ verified \in SUBSET Exceptions
    /\ request \in [Admins -> {NoRequest} \cup
                       [trip : Trips, amount : SUBSET Stops]]

\* A trip is only ever blocked by an open report of its own: whatever the
\* driver continues past and in whatever order the office closes the reports,
\* no trip is left pointing at a closed one, which nothing could clear
\* (the POINTER_INCONSISTENT refusal of applyTransition).
BlockerIsOpen ==
    \A t \in Trips : blocker[t] # NoException =>
        /\ excTrip[blocker[t]] = t
        /\ excState[blocker[t]] \in OpenStates

\* The points stored on the stops and the amount stored on the trip are of one
\* proposal: no undo, abort or re-finalization leaves the points of an earlier
\* proposal on a stop, or an amount without its points.
ScoredMatchesProposal ==
    \A t \in Trips :
        scored \cap StopsOf(t) = IF proposal[t] = NoProposal THEN {} ELSE proposal[t]

\* Every stop the driver delivered is in the amount that waits for approval or
\* was approved, whichever of the three finalizers proposed it.
DeliveredIsProposed ==
    \A t \in Trips : status[t] \in {"pending_approval", "completed"} =>
        {s \in StopsOf(t) : stopStatus[s] = "delivered"} \subseteq proposal[t]

\* A trip that is off the road and unpaid owes nothing, then and later: no stop
\* of a pending, assigned, cancelled or rejected trip is delivered, and no
\* report still to be reviewed can turn one of its stops into one that earns.
UnpaidExitOwesNothing ==
    \A t \in Trips : status[t] \notin {"in_progress", "pending_approval", "completed"} =>
        Earning(t) = {}

\* Payment is decided once: whatever an approval request has read before, a
\* completed trip never leaves that status and neither its proposal nor its
\* final amount ever changes, nor does the set of stops that earned it.
CompletedIsFinal ==
    [][\A t \in Trips : status[t] = "completed" =>
          /\ status'[t] = "completed"
          /\ proposal'[t] = proposal[t]
          /\ final'[t] = final[t]
          /\ scored' \cap StopsOf(t) = scored \cap StopsOf(t)]_vars

\* Diligence of the people, not of the code: a driver does not undo his taps for
\* ever and delivers a stop he can deliver again and again, and the office
\* closes every open report.  Only under it can a trip be expected to end.
Diligence ==
    /\ <>[][\A s \in Stops : ~UndoArrived(s) /\ ~UndoDelivered(s)]_vars
    /\ \A s \in Stops : SF_vars(Deliver(s))
    /\ \A e \in Exceptions : WF_vars(Reject(e) \/ Resume(e) \/ Retry(e))

LiveSpec == Spec /\ Diligence

\* No trip is wedged: whatever is reported, continued past, reviewed and undone
\* on the way, a trip that is out ends on the desk of the office (or is taken
\* off its driver) and frees its driver and lorry.
StartedTripComesBack ==
    \A t \in Trips : status[t] = "in_progress" ~> status[t] # "in_progress"

-----------------------------------------------------------------------------
(* What comments in the code say and the code does not do; each is refuted  *)
(* by a run of its own.                                                     *)

\* services/tripAssignment.ts:345: a driver "may be OUT on only ONE
\* `in_progress` trip".
OneActiveTripPerDriver ==
    \A t, u \in Trips :
        (t # u /\ status[t] = "in_progress" /\ status[u] = "in_progress")
            => driver[t] # driver[u]

\* services/tripAssignment.ts:170: in a mid-trip reassignment "nothing has been
\* earned on the old assignment".
NothingEarnedIsReassigned ==
    [][\A t \in Trips :
          (status[t] = "in_progress" /\ status'[t] = "assigned")
              => Earning(t) = {}]_vars

\* routes/exceptions.ts:341: a trip whose last stop is settled instead of
\* delivered does not "sit `in_progress` forever": with nothing outstanding and
\* no report open it is no longer in progress.
NothingOutstandingIsFinalized ==
    \A t \in Trips : (status[t] = "in_progress" /\ ~HasOpenException(t))
        => Outstanding(t) # {}

=============================================================================
