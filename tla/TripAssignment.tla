--------------------------- MODULE TripAssignment ---------------------------
(***************************************************************************)
(* How a booking gets a driver and his lorry, and loses them again, before *)
(* the trip starts: the office's approve, reassign, unassign, outsource,   *)
(* reject and cancel, the requestor's edit, the automatic dispatcher, and  *)
(* the two sweeps (api/src/routes/trips.ts, services/tripAssignment.ts,    *)
(* dispatchEngine.ts, pendingTripAlerts.ts, staleTicketSweep.ts).          *)
(*                                                                         *)
(* Several handlers read a booking, do other work, and write later.  Each  *)
(* keeps here what it has read and what it has not written yet: an office  *)
(* request (approval), an automatic attempt (attempt), and the lists of    *)
(* the two sweeps (expired, stale).  The transaction in the middle of      *)
(* approve, reassign and auto-dispatch is Serializable and is one step.    *)
(*                                                                         *)
(* A driver stands for the pair of the driver and the lorry assigned to    *)
(* him.  Roadworthiness, leave, the conflict window, operating hours, zone *)
(* pools and preferences can only refuse a pair: an attempt may always     *)
(* find no lorry, and an office request may always be refused.             *)
(***************************************************************************)
EXTENDS Integers, FiniteSetsExt

CONSTANTS
    Trips,          \* trip ids
    Drivers,        \* drivers that have a lorry
    Capacity,       \* the pallets each driver's lorry holds
    Loads,          \* pallet totals a booking may have
    LastDay,        \* bound: pickup days are 1 .. LastDay
    Interplant,     \* the trips on an interplant route
    Office,         \* approve or reassign requests that may be in flight
    Attempts,       \* auto-dispatch attempts that may be in flight
    NoDriver,       \* driver_id and truck_plate are null
    Idle            \* no request, or no attempt, in flight

ASSUME CapacityAssumption ==
    /\ Loads \subseteq Nat
    /\ Capacity \in [Drivers -> Nat]

Days == 1 .. LastDay
Sizes == Loads \cup {0}     \* 0 until the booking exists

\* What a request, and what an attempt, has read.
ApprovalRequests ==
    [trip : Trips, day : Days, from : {"pending", "assigned", "in_progress"},
     pair : Drivers \cup {NoDriver}]
DispatchAttempts == [trip : Trips, day : Days, load : Sizes]

\* What an attempt that found no lorry is about to write.
DispatchFailures == [trip : Trips, pin : BOOLEAN]

ASSUME BoundsAssumption ==
    /\ IsFiniteSet(Trips)
    /\ LastDay \in Nat \ {0}
    /\ Interplant \subseteq Trips

ASSUME NullsAssumption ==
    /\ NoDriver \notin Drivers
    /\ Idle \notin ApprovalRequests \cup DispatchAttempts \cup DispatchFailures
    /\ DispatchAttempts \cap DispatchFailures = {}

VARIABLES
    status,         \* Trip.status; "unbooked" before the booking exists, "done"
                    \* once the trip came back from the road; "cancelled" and
                    \* "rejected" are one
    driver,         \* Trip.driver_id and truck_plate
    day,            \* the day of Trip.pickup_datetime
    load,           \* the pallet total of the cargo
    paused,         \* Trip.auto_dispatch_paused
    failed,         \* Trip.auto_dispatch_failed
    edited,         \* the trips whose history has an "edited" event
    approval,       \* what an approve or reassign request has read
    attempt,        \* what an auto-dispatch attempt has read, and how it goes
    expired,        \* trips the alert sweep is about to hand to the office
    stale,          \* trips the 3am sweep is about to cancel
    today

bookingVars == <<day, load, edited>>
flightVars  == <<approval, attempt, expired, stale>>
vars == <<status, driver, bookingVars, paused, failed, flightVars, today>>

Statuses == {"unbooked", "pending", "assigned", "in_progress", "done", "cancelled"}

Init ==
    /\ status   = [t \in Trips |-> "unbooked"]
    /\ driver   = [t \in Trips |-> NoDriver]
    /\ day      = [t \in Trips |-> 1]
    /\ load     = [t \in Trips |-> 0]
    /\ paused   = [t \in Trips |-> FALSE]
    /\ failed   = [t \in Trips |-> FALSE]
    /\ edited   = {}
    /\ approval = [c \in Office |-> Idle]
    /\ attempt  = [w \in Attempts |-> Idle]
    /\ expired  = {}
    /\ stale    = {}
    /\ today    = 1

-----------------------------------------------------------------------------
(* The lorry of a driver on a day.                                          *)

\* The trips that take up room on the lorry of d on day k: those on the road,
\* whatever their day, and those assigned for that day.
Aboard(d, k) ==
    {t \in Trips : /\ driver[t] = d
                   /\ \/ status[t] = "in_progress"
                      \/ status[t] = "assigned" /\ day[t] = k}

Pallets(S) == SumFunctionOnSet(load, S)

\* Mistake: what the lorry already carries is forgotten.
Fits_Alone(t, d, k) == load[t] <= Capacity[d]

\* TRUCK_OVERLOADED, for the day k the request has read and the cargo of now.
Fits(t, d, k) == Pallets(Aboard(d, k) \ {t}) + load[t] <= Capacity[d]

\* DRIVER_BUSY
OnOtherTrip(d, t) ==
    \E u \in Trips \ {t} : driver[u] = d /\ status[u] = "in_progress"

\* Mistake: the claim leaves the trip in the status an approval once had.
Claim_Approved(t, d) ==
    /\ status' = [status EXCEPT ![t] = "approved"]
    /\ driver' = [driver EXCEPT ![t] = d]
    /\ paused' = [paused EXCEPT ![t] = FALSE]
    /\ failed' = [failed EXCEPT ![t] = FALSE]

\* claimPendingTrip and claimUnpausedPendingTrip: the booking is d's.
Claim(t, d) ==
    /\ status' = [status EXCEPT ![t] = "assigned"]
    /\ driver' = [driver EXCEPT ![t] = d]
    /\ paused' = [paused EXCEPT ![t] = FALSE]
    /\ failed' = [failed EXCEPT ![t] = FALSE]

-----------------------------------------------------------------------------
(* The requestor.                                                           *)

\* POST /trips
Book(t, k, n) ==
    /\ status[t] = "unbooked"
    /\ k >= today
    /\ status' = [status EXCEPT ![t] = "pending"]
    /\ day'    = [day EXCEPT ![t] = k]
    /\ load'   = [load EXCEPT ![t] = n]
    /\ UNCHANGED <<driver, edited, paused, failed, flightVars, today>>

\* PATCH /trips/:id: compare-and-set on pending; the failure flag is cleared.
Edit(t, k, n) ==
    /\ status[t] = "pending"
    /\ k # day[t] => k >= today
    /\ <<k, n>> # <<day[t], load[t]>>
    /\ day'    = [day EXCEPT ![t] = k]
    /\ load'   = [load EXCEPT ![t] = n]
    /\ failed' = [failed EXCEPT ![t] = FALSE]
    /\ edited' = edited \cup {t}
    /\ UNCHANGED <<status, driver, paused, flightVars, today>>

-----------------------------------------------------------------------------
(* The office.                                                              *)

\* approve and reassign begin: the pickup, the status and the driver are read
\* outside the transaction; the request is refused unless the status fits.
ReadForApproval(c, t) ==
    /\ approval[c] = Idle
    /\ status[t] \in {"pending", "assigned", "in_progress"}
    /\ approval' = [approval EXCEPT ![c] =
                       [trip |-> t, day |-> day[t], from |-> status[t], pair |-> driver[t]]]
    /\ UNCHANGED <<status, driver, bookingVars, paused, failed, attempt, expired,
                   stale, today>>

\* approve and reassign end: assignTripInTx, after the release in a reassign.
\* The status read must still be the trip's, the pickup read is used, and the
\* driver read is refused (SAME_ASSIGNMENT).
Approve(c, d) ==
    LET t == approval[c].trip IN
    /\ approval[c] # Idle
    /\ status[t] = approval[c].from
    /\ d # approval[c].pair
    /\ Fits(t, d, approval[c].day)
    /\ ~OnOtherTrip(d, t)
    /\ Claim(t, d)
    /\ approval' = [approval EXCEPT ![c] = Idle]
    /\ UNCHANGED <<bookingVars, attempt, expired, stale, today>>

\* Any other guard of the ladder refuses, or the request is lost.
Refuse(c) ==
    /\ approval[c] # Idle
    /\ approval' = [approval EXCEPT ![c] = Idle]
    /\ UNCHANGED <<status, driver, bookingVars, paused, failed, attempt, expired,
                   stale, today>>

\* Mistake: the released trip keeps its driver.
Unassign_KeepsDriver(t) ==
    /\ status[t] = "assigned"
    /\ status' = [status EXCEPT ![t] = "pending"]
    /\ failed' = [failed EXCEPT ![t] = FALSE]
    /\ paused' = [paused EXCEPT ![t] = TRUE]
    /\ UNCHANGED <<driver, bookingVars, flightVars, today>>

\* unassign: releaseAssignedTrip, then the pin to manual dispatch.
Unassign(t) ==
    /\ status[t] = "assigned"
    /\ status' = [status EXCEPT ![t] = "pending"]
    /\ driver' = [driver EXCEPT ![t] = NoDriver]
    /\ failed' = [failed EXCEPT ![t] = FALSE]
    /\ paused' = [paused EXCEPT ![t] = TRUE]
    /\ UNCHANGED <<bookingVars, flightVars, today>>

\* assign-external: outsourcePendingTrip; assigned to a forwarder, not a driver.
Outsource(t) ==
    /\ status[t] = "pending"
    /\ status' = [status EXCEPT ![t] = "assigned"]
    /\ failed' = [failed EXCEPT ![t] = FALSE]
    /\ UNCHANGED <<driver, bookingVars, paused, flightVars, today>>

\* reject, and cancel by the requestor or the office
Withdraw(t) ==
    /\ status[t] = "pending"
    /\ status' = [status EXCEPT ![t] = "cancelled"]
    /\ failed' = [failed EXCEPT ![t] = FALSE]
    /\ UNCHANGED <<driver, bookingVars, paused, flightVars, today>>

-----------------------------------------------------------------------------
(* The automatic dispatcher: autoDispatchTrip, called when a trip is booked *)
(* or edited, by the minute's sweep and by the office.                      *)

Begin(w, t) ==
    /\ attempt[w] = Idle
    /\ status[t] = "pending"
    /\ ~paused[t]
    /\ attempt' = [attempt EXCEPT ![w] =
                      [trip |-> t, day |-> day[t], load |-> load[t]]]
    /\ UNCHANGED <<status, driver, bookingVars, paused, failed, approval, expired,
                   stale, today>>

\* Mistake: the claim does not look at the pin again.
AutoAssign_IgnoresPin(w, d) ==
    LET t == attempt[w].trip IN
    /\ attempt[w] \in DispatchAttempts
    /\ Aboard(d, attempt[w].day) = {}
    /\ attempt[w].load <= Capacity[d]
    /\ status[t] = "pending"
    /\ Claim(t, d)
    /\ attempt' = [attempt EXCEPT ![w] = Idle]
    /\ UNCHANGED <<bookingVars, approval, expired, stale, today>>

\* A lorry that is empty on the day read and holds the cargo read is claimed.
AutoAssign(w, d) ==
    LET t == attempt[w].trip IN
    /\ attempt[w] \in DispatchAttempts
    /\ Aboard(d, attempt[w].day) = {}
    /\ attempt[w].load <= Capacity[d]
    /\ status[t] = "pending"
    /\ ~paused[t]
    /\ Claim(t, d)
    /\ attempt' = [attempt EXCEPT ![w] = Idle]
    /\ UNCHANGED <<bookingVars, approval, expired, stale, today>>

\* Somebody else was faster, the transaction met another one, or the process
\* restarted: nothing is written, and a later sweep tries again.
LoseAttempt(w) ==
    /\ attempt[w] # Idle
    /\ attempt' = [attempt EXCEPT ![w] = Idle]
    /\ UNCHANGED <<status, driver, bookingVars, paused, failed, approval, expired,
                   stale, today>>

\* No lorry will do, or the cargo has no size; an interplant trip that no lorry
\* can take is to be pinned.
FindNone(w, pin) ==
    /\ attempt[w] \in DispatchAttempts
    /\ pin => attempt[w].trip \in Interplant
    /\ attempt' = [attempt EXCEPT ![w] =
                      [trip |-> attempt[w].trip, pin |-> pin]]
    /\ UNCHANGED <<status, driver, bookingVars, paused, failed, approval, expired,
                   stale, today>>

\* Mistake: an attempt that finds no lorry ends without a trace.
WriteFailure_Silent(w) ==
    /\ attempt[w] \in DispatchFailures
    /\ attempt' = [attempt EXCEPT ![w] = Idle]
    /\ UNCHANGED <<status, driver, bookingVars, paused, failed, approval, expired,
                   stale, today>>

\* The failure is written after the transaction, by compare-and-set on pending.
WriteFailure(w) ==
    LET t == attempt[w].trip IN
    /\ attempt[w] \in DispatchFailures
    /\ attempt' = [attempt EXCEPT ![w] = Idle]
    /\ \/ /\ status[t] = "pending"
          /\ failed' = [failed EXCEPT ![t] = TRUE]
          /\ paused' = [paused EXCEPT ![t] = @ \/ attempt[w].pin]
       \/ /\ status[t] # "pending"
          /\ UNCHANGED <<failed, paused>>
    /\ UNCHANGED <<status, driver, bookingVars, approval, expired, stale, today>>

-----------------------------------------------------------------------------
(* The sweeps.                                                              *)

\* sweepPendingTrips collects the bookings whose pickup has passed or that have
\* waited too long; only then it retries the others and notifies the office.
FindExpired(S) ==
    /\ expired = {}
    /\ S # {}
    /\ \A t \in S : status[t] = "pending" /\ ~paused[t]
    /\ expired' = S
    /\ UNCHANGED <<status, driver, bookingVars, paused, failed, approval, attempt,
                   stale, today>>

\* It ends by flagging them all, whatever they are by now.
FlagExpired ==
    /\ expired # {}
    /\ expired' = {}
    /\ failed' = [t \in Trips |-> failed[t] \/ t \in expired]
    /\ UNCHANGED <<status, driver, bookingVars, paused, approval, attempt, stale,
                   today>>

\* sweepStaleTickets lists what was to be picked up before today.
FindStale ==
    LET found == {t \in Trips : /\ status[t] \in {"pending", "assigned"}
                                /\ day[t] < today} IN
    /\ stale = {}
    /\ found # {}
    /\ stale' = found
    /\ UNCHANGED <<status, driver, bookingVars, paused, failed, approval, attempt,
                   expired, today>>

\* Mistake: the sweep cancels whatever its list says.
CancelStale_Blind(t) ==
    /\ t \in stale
    /\ stale' = stale \ {t}
    /\ status' = [status EXCEPT ![t] = "cancelled"]
    /\ failed' = [failed EXCEPT ![t] = FALSE]
    /\ UNCHANGED <<driver, bookingVars, paused, approval, attempt, expired, today>>

\* Each trip of the list is cancelled if it is still before its start; its
\* driver stays written on it.
CancelStale(t) ==
    /\ t \in stale
    /\ stale' = stale \ {t}
    /\ \/ /\ status[t] \in {"pending", "assigned"}
          /\ status' = [status EXCEPT ![t] = "cancelled"]
          /\ failed' = [failed EXCEPT ![t] = FALSE]
       \/ /\ status[t] \notin {"pending", "assigned"}
          /\ UNCHANGED <<status, failed>>
    /\ UNCHANGED <<driver, bookingVars, paused, approval, attempt, expired, today>>

\* The process restarts between two steps of a sweep; the list is forgotten.
LoseSweep ==
    /\ expired # {} \/ stale # {}
    /\ expired' = {}
    /\ stale' = {}
    /\ UNCHANGED <<status, driver, bookingVars, paused, failed, approval, attempt,
                   today>>

-----------------------------------------------------------------------------
(* The road, as far as assignment sees it (TripDelivery has the rest).      *)

\* startAssignedTripForDriver
Start(t) ==
    /\ status[t] = "assigned"
    /\ driver[t] # NoDriver
    /\ ~OnOtherTrip(driver[t], t)
    /\ status' = [status EXCEPT ![t] = "in_progress"]
    /\ UNCHANGED <<driver, bookingVars, paused, failed, flightVars, today>>

\* abort, of a trip that is owed nothing.
Abort(t) ==
    /\ status[t] = "in_progress"
    /\ status' = [status EXCEPT ![t] = "cancelled"]
    /\ failed' = [failed EXCEPT ![t] = FALSE]
    /\ UNCHANGED <<driver, bookingVars, paused, flightVars, today>>

\* The trip comes back to be paid.
Finish(t) ==
    /\ status[t] = "in_progress"
    /\ status' = [status EXCEPT ![t] = "done"]
    /\ UNCHANGED <<driver, bookingVars, paused, failed, flightVars, today>>

\* A driver's undo sends a trip back out.
Reopen(t) ==
    /\ status[t] = "done"
    /\ status' = [status EXCEPT ![t] = "in_progress"]
    /\ UNCHANGED <<driver, bookingVars, paused, failed, flightVars, today>>

Tomorrow ==
    /\ today < LastDay
    /\ today' = today + 1
    /\ UNCHANGED <<status, driver, bookingVars, paused, failed, flightVars>>

RequestorStep(t) ==
    \E k \in Days, n \in Loads :
        Book(t, k, n) \/ Edit(t, k, n)

OfficeStep(t) ==
    \/ \E c \in Office : ReadForApproval(c, t)
    \/ Unassign(t)
    \/ Outsource(t)
    \/ Withdraw(t)

ApprovalStep(c) ==
    \/ \E d \in Drivers : Approve(c, d)
    \/ Refuse(c)

Choose(w) ==
    \/ \E d \in Drivers : AutoAssign(w, d)
    \/ \E pin \in BOOLEAN : FindNone(w, pin)

AttemptStep(w) ==
    \/ \E t \in Trips : Begin(w, t)
    \/ Choose(w)
    \/ LoseAttempt(w)
    \/ WriteFailure(w)

SweepStep ==
    \/ \E S \in SUBSET Trips : FindExpired(S)
    \/ FlagExpired
    \/ FindStale
    \/ \E t \in Trips : CancelStale(t)
    \/ LoseSweep

RoadStep(t) == Start(t) \/ Abort(t) \/ Finish(t) \/ Reopen(t)

Next ==
    \/ \E t \in Trips : RequestorStep(t) \/ OfficeStep(t) \/ RoadStep(t)
    \/ \E c \in Office : ApprovalStep(c)
    \/ \E w \in Attempts : AttemptStep(w)
    \/ SweepStep
    \/ Tomorrow

Spec == Init /\ [][Next]_vars

-----------------------------------------------------------------------------
(* What must hold.                                                          *)

\* Every field has a value its column can hold, every request one it has read.
TypeOK ==
    /\ status \in [Trips -> Statuses]
    /\ driver \in [Trips -> Drivers \cup {NoDriver}]
    /\ day \in [Trips -> Days]
    /\ load \in [Trips -> Sizes]
    /\ paused \in [Trips -> BOOLEAN]
    /\ failed \in [Trips -> BOOLEAN]
    /\ edited \in SUBSET Trips
    /\ approval \in [Office -> {Idle} \cup ApprovalRequests]
    /\ attempt \in [Attempts -> {Idle} \cup DispatchAttempts \cup DispatchFailures]
    /\ expired \in SUBSET Trips
    /\ stale \in SUBSET Trips
    /\ today \in Days

\* A trip that waits for a driver has none, and one that was on the road has one,
\* so a release never leaves the old driver on a trip, and a forwarder's trip
\* never goes out.
DriverFollowsStatus ==
    \A t \in Trips :
        /\ status[t] \in {"unbooked", "pending"} => driver[t] = NoDriver
        /\ status[t] \in {"in_progress", "done"} => driver[t] # NoDriver

\* Of the trips given to one lorry for one day, those that were never edited fit
\* on it together: two approvals and an attempt in flight never overfill a lorry
\* with what each of them saw free, whatever else is on it.
LorryFits ==
    \A d \in Drivers, k \in Days :
        Pallets({t \in Aboard(d, k) : status[t] = "assigned"} \ edited) <= Capacity[d]

\* "No more auto after unassign": a trip the office took off its driver goes to
\* a driver again only by an office request, even if an automatic attempt that
\* began before is still on its way.
PinnedStaysManual ==
    [][\A t \in Trips : (status[t] = "pending" /\ paused[t]) =>
          \/ paused'[t]
          \/ \E c \in Office : /\ approval[c] # Idle
                              /\ approval[c].trip = t
                              /\ approval'[c] = Idle]_vars

\* The 3am sweep never ends a trip that is on the road or back from it, however
\* late it gets to that trip on its list.
NeverCancelledOnTheRoad ==
    [][\A t \in stale \ stale' : status[t] \in {"in_progress", "done"} =>
          status'[t] = status[t]]_vars

\* The automatic dispatcher and the minute's sweep come back to every trip, and
\* once they do often enough an attempt is carried through.
Persistence ==
    \A w \in Attempts, t \in Trips :
        /\ SF_vars(Begin(w, t))
        /\ SF_vars(attempt[w] # Idle /\ attempt[w].trip = t /\ Choose(w))
        /\ SF_vars(attempt[w] # Idle /\ attempt[w].trip = t /\ WriteFailure(w))

LiveSpec == Spec /\ Persistence

\* In auto mode no booking is forgotten: one that waits for the dispatcher gets a
\* driver, leaves the queue, or is flagged for the office, whatever attempts are
\* lost on the way.
NoBookingForgotten ==
    \A t \in Trips :
        (status[t] = "pending" /\ ~paused[t])
            ~> (status[t] # "pending" \/ paused[t] \/ failed[t])

-----------------------------------------------------------------------------
(* What comments in the code say and the code does not do.                  *)

\* routes/trips.ts:1438: "capacity overload — hard (physics)", a guard that
\* nothing overrides, so no lorry is ever given more than it holds for a day.
NoLorryOverloaded ==
    \A d \in Drivers, k \in Days :
        Pallets({t \in Aboard(d, k) : status[t] = "assigned"}) <= Capacity[d]

=============================================================================
