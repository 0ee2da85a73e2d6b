----------------------------- MODULE BookingDesk -----------------------------
(***************************************************************************)
(* The booking desk: bookings submitted with a client_request_id and       *)
(* retried, direct edits, and changes of a booking that has a lorry, which *)
(* the requestor proposes and the office decides (POST /trips, PATCH       *)
(* /trips/:id and the change-request handlers of api/src/routes/trips.ts), *)
(* while the office assigns, reassigns and releases the bookings and edits *)
(* the zone points they are priced with (StagedRates; a row is a zone).    *)
(*                                                                         *)
(* A booking request reads, then creates; a change request reads the       *)
(* booking, then writes under the lock of its row; an approval checks      *)
(* under that lock, then claims the request and writes.  An assignment is  *)
(* a Serializable transaction: it fails if the row it read was written, or *)
(* if another assignment to the lorry came first, but an approval, READ    *)
(* COMMITTED, is none of its concern.                                      *)
(*                                                                         *)
(* One requestor, and one lorry of the office's own fleet.  Validation     *)
(* against consignees, routes and cut-offs can only refuse a request.  A   *)
(* ticket number may always turn out to be taken, and another may be tried *)
(* or the request refused.                                                 *)
(***************************************************************************)
EXTENDS StagedRates, FiniteSetsExt

CONSTANTS
    Trips,
    Keys,           \* client_request_ids
    Calls,          \* bound: booking requests sent
    Requests,       \* bound: change requests made
    Contents,       \* what a booking may ask for
    Consignees,
    ZoneOf,         \* the zone of a consignee
    Capacity        \* the lorry's max_pallets

\* Pickup day, pallets, destinations, and the plant the cargo is picked up at.
Content == [day : Day, load : Nat, drops : (SUBSET Consignees) \ {{}}, plant : {"p1", "p2"}]

ASSUME DeskAssumption ==
    /\ IsFiniteSet(Trips)
    /\ Contents \subseteq Content
    /\ ZoneOf \in [Consignees -> Rows]
    /\ "points" \in Fields
    /\ Capacity \in Nat
    /\ None \notin Contents \cup Keys \cup Trips \cup Requests

VARIABLES
    trip,           \* Trip: status, content, key, zone points of its stops, day of assignment
    call,           \* booking requests on their way
    told,           \* ghost: the bookings a key was answered with
    draft,          \* a change request between its read and its transaction
    request,        \* TripChangeRequest
    approving,      \* the change request whose approval holds the trip's row lock
    assigning,      \* trips whose assignment has passed its checks
    overlapped,     \* ghost: two decisions of which one was an approval overlapped
    folded          \* ghost: the effective day of the last points folded into a zone

deskVars == <<trip, call, told, draft, request, approving, assigning, overlapped, folded>>
vars == <<rateVars, deskVars>>

Trip == [status : {"unbooked", "pending", "assigned", "in_progress", "cancelled"},
         content : Contents \cup {None}, key : Keys \cup {None},
         points : [Consignees -> Values \cup {None}], assignedOn : 0 .. LastDay]

Call == [pc : {"unsent", "find", "create", "over"}, key : Keys \cup {None},
         content : Contents \cup {None}]

Draft == [trip : Trips, seen : Contents, input : Contents]

Request == [status : {"none", "pending", "superseded", "rejected", "approved"},
            trip : Trips \cup {None}, seen : Contents \cup {None},
            input : Contents \cup {None}]

Unpriced == [d \in Consignees |-> None]

\* editableTripFingerprint: all that a change replaces, but for the plant.
Fingerprint(c) == <<c.day, c.load, c.drops>>

Init ==
    /\ RatesInit
    /\ trip = [t \in Trips |-> [status |-> "unbooked", content |-> None, key |-> None,
                                points |-> Unpriced, assignedOn |-> 0]]
    /\ call = [c \in Calls |-> [pc |-> "unsent", key |-> None, content |-> None]]
    /\ told = [k \in Keys |-> {}]
    /\ draft = None
    /\ request = [r \in Requests |-> [status |-> "none", trip |-> None,
                                      seen |-> None, input |-> None]]
    /\ approving = [t \in Trips |-> None]
    /\ assigning = {}
    /\ overlapped = FALSE
    /\ folded = [z \in Rows |-> 0]

-----------------------------------------------------------------------------
(* Booking (POST /trips).                                                   *)

BookingStep ==
    UNCHANGED <<rateVars, draft, request, approving, assigning, overlapped, folded>>

WithKey(k) == {t \in Trips : trip[t].key = k}

\* The form sends the key of a booking again until it gets an answer.
SubmitBooking(c, k, content) ==
    /\ call[c].pc = "unsent"
    /\ call' = [call EXCEPT ![c] = [pc |-> "find", key |-> k, content |-> content]]
    /\ UNCHANGED <<trip, told>>
    /\ BookingStep

Answer(c, t) ==
    /\ call' = [call EXCEPT ![c].pc = "over"]
    /\ told' = [told EXCEPT ![call[c].key] = @ \cup {t}]

\* The fast path: the key is a booking's already.
FindExisting(c) ==
    /\ call[c].pc = "find"
    /\ \/ \E t \in WithKey(call[c].key) : Answer(c, t)
       \/ /\ WithKey(call[c].key) = {}
          /\ call' = [call EXCEPT ![c].pc = "create"]
          /\ UNCHANGED told
    /\ UNCHANGED trip
    /\ BookingStep

\* Mistake: no unique index on the key.
CreateTrip_NoIndex(c, t) ==
    /\ call[c].pc = "create"
    /\ trip[t].status = "unbooked"
    /\ trip' = [trip EXCEPT ![t].status = "pending", ![t].content = call[c].content,
                            ![t].key = call[c].key]
    /\ Answer(c, t)
    /\ BookingStep

CreateTrip(c, t) ==
    /\ call[c].pc = "create"
    /\ WithKey(call[c].key) = {}
    /\ trip[t].status = "unbooked"
    /\ trip' = [trip EXCEPT ![t].status = "pending", ![t].content = call[c].content,
                            ![t].key = call[c].key]
    /\ Answer(c, t)
    /\ BookingStep

\* The race path: the unique index on the key refuses, the winner is answered.
FindWinner(c) ==
    /\ call[c].pc = "create"
    /\ \E t \in WithKey(call[c].key) : Answer(c, t)
    /\ UNCHANGED trip
    /\ BookingStep

\* TICKET_CONFLICT, a refused validation, or the server goes down.
BookingFails(c) ==
    /\ call[c].pc \in {"find", "create"}
    /\ call' = [call EXCEPT ![c].pc = "over"]
    /\ UNCHANGED <<trip, told>>
    /\ BookingStep

-----------------------------------------------------------------------------
(* The booking's way through the office.                                    *)

Unlocked(t) == approving[t] = None

\* A write of the trip's row: an assignment that has read it will fail.
Writes(t) == assigning' = assigning \ {t}

OfficeStep == UNCHANGED <<rateVars, call, told, draft, request, approving, overlapped, folded>>

\* PATCH /trips/:id, compare-and-set on pending.
EditBooking(t, input) ==
    /\ trip[t].status = "pending"
    /\ input # trip[t].content
    /\ input.day # trip[t].content.day => input.day >= today
    /\ trip' = [trip EXCEPT ![t].content = input]
    /\ Writes(t)
    /\ OfficeStep

Cancel(t) ==
    /\ trip[t].status = "pending"
    /\ trip' = [trip EXCEPT ![t].status = "cancelled"]
    /\ Writes(t)
    /\ OfficeStep

\* What these bookings weigh together.
Pallets(S) == SumFunction([u \in S |-> trip[u].content.load])

\* Mistake: only the booking itself is weighed.
Fits_Alone(t, content) == content.load <= Capacity

\* What the lorry carries on the day of the content, or is out with.
Fits(t, content) ==
    LET others == {u \in Trips \ {t} :
                     \/ trip[u].status = "in_progress"
                     \/ trip[u].status = "assigned" /\ trip[u].content.day = content.day}
    IN Pallets(others) + content.load <= Capacity

\* The checks of an assignment or reassignment, in its snapshot.
AssignCheck(t) ==
    /\ trip[t].status \in {"pending", "assigned"}
    /\ t \notin assigning
    /\ Fits(t, trip[t].content)
    /\ assigning' = assigning \cup {t}
    /\ UNCHANGED trip
    /\ OfficeStep

Priced(content, day) ==
    [d \in Consignees |-> IF d \in content.drops THEN Effective(ZoneOf[d], day)["points"] ELSE None]

\* It commits: the booking is priced with today's points.
AssignCommit(t) ==
    /\ t \in assigning
    /\ Unlocked(t)
    /\ trip' = [trip EXCEPT ![t].status = "assigned", ![t].assignedOn = today,
                            ![t].points = Priced(trip[t].content, today)]
    /\ assigning' = {}
    /\ overlapped' = (overlapped \/ \E u \in Trips : ~Unlocked(u))
    /\ UNCHANGED <<rateVars, call, told, draft, request, approving, folded>>

AssignFails(t) ==
    /\ t \in assigning
    /\ Writes(t)
    /\ UNCHANGED trip
    /\ OfficeStep

\* RELEASE_TRIP_DATA
Unassign(t) ==
    /\ trip[t].status = "assigned"
    /\ Unlocked(t)
    /\ trip' = [trip EXCEPT ![t].status = "pending", ![t].assignedOn = 0, ![t].points = Unpriced]
    /\ Writes(t)
    /\ OfficeStep

Start(t) ==
    /\ trip[t].status = "assigned"
    /\ Unlocked(t)
    /\ \A u \in Trips : trip[u].status # "in_progress"
    /\ trip' = [trip EXCEPT ![t].status = "in_progress"]
    /\ Writes(t)
    /\ OfficeStep

-----------------------------------------------------------------------------
(* Change requests.                                                         *)

ChangeStep == UNCHANGED <<rateVars, call, told, folded>>

\* The handler reads the booking, and refuses NO_CHANGES.
ReadForChange(t, input) ==
    /\ draft = None
    /\ trip[t].status = "assigned"
    /\ input # trip[t].content
    /\ draft' = [trip |-> t, seen |-> trip[t].content, input |-> input]
    /\ UNCHANGED <<trip, request, approving, assigning, overlapped>>
    /\ ChangeStep

\* Its transaction: the open request of the booking is superseded.
MakeRequest(r) ==
    /\ draft # None
    /\ request[r].status = "none"
    /\ trip[draft.trip].status = "assigned"
    /\ Unlocked(draft.trip)
    /\ request' = [q \in Requests |->
                     IF q = r THEN [status |-> "pending", trip |-> draft.trip,
                                    seen |-> draft.seen, input |-> draft.input]
                     ELSE IF request[q].trip = draft.trip /\ request[q].status = "pending"
                     THEN [request[q] EXCEPT !.status = "superseded"]
                     ELSE request[q]]
    /\ draft' = None
    /\ UNCHANGED <<trip, approving, assigning, overlapped>>
    /\ ChangeStep

\* Refused, since the status has changed, or lost.
DropDraft ==
    /\ draft # None
    /\ draft' = None
    /\ UNCHANGED <<trip, request, approving, assigning, overlapped>>
    /\ ChangeStep

Reject(r) ==
    /\ request[r].status = "pending"
    /\ request' = [request EXCEPT ![r].status = "rejected"]
    /\ UNCHANGED <<trip, draft, approving, assigning, overlapped>>
    /\ ChangeStep

\* Mistake: no staleness check.
ApproveCheck_Stale(r) ==
    LET t == request[r].trip
        input == request[r].input
    IN /\ request[r].status # "none"
       /\ Unlocked(t)
       /\ trip[t].status = "assigned"
       /\ input # trip[t].content
       /\ input.day = trip[t].content.day
       /\ Fits(t, input)
       /\ approving' = [approving EXCEPT ![t] = r]
       /\ UNCHANGED <<trip, draft, request, assigning, overlapped>>
       /\ ChangeStep

\* The request was found pending, some time ago; the row is locked, and the
\* checks hold: TRIP_STATE_CHANGED, CHANGE_REQUEST_STALE, NO_CHANGES,
\* PICKUP_DAY_CHANGED, TRUCK_OVERLOADED.
ApproveCheck(r) ==
    LET t == request[r].trip
        input == request[r].input
    IN /\ request[r].status # "none"
       /\ Unlocked(t)
       /\ trip[t].status = "assigned"
       /\ Fingerprint(trip[t].content) = Fingerprint(request[r].seen)
       /\ input # trip[t].content
       /\ input.day = trip[t].content.day
       /\ Fits(t, input)
       /\ approving' = [approving EXCEPT ![t] = r]
       /\ UNCHANGED <<trip, draft, request, assigning, overlapped>>
       /\ ChangeStep

\* Mistake: all stops are priced again.
Repriced_All(t, input) == Priced(input, trip[t].assignedOn)

\* Mistake: a new stop is priced with today's points.
Repriced_Today(t, input) ==
    [d \in Consignees |->
        IF d \in input.drops /\ trip[t].points[d] # None THEN trip[t].points[d]
        ELSE Priced(input, today)[d]]

\* The stops of the new content: those the booking had keep their points, a
\* new one is priced as of the assignment.
Repriced(t, input) ==
    [d \in Consignees |->
        IF d \in input.drops /\ trip[t].points[d] # None THEN trip[t].points[d]
        ELSE Priced(input, trip[t].assignedOn)[d]]

\* Mistake: the request is not claimed.
Claims_Any(r) == TRUE

\* CHANGE_REQUEST_STATE_CHANGED unless it is still pending.
Claims(r) == request[r].status = "pending"

ApproveCommit(t) ==
    LET r == approving[t]
    IN /\ r # None
       /\ Claims(r)
       /\ request' = [request EXCEPT ![r].status = "approved"]
       /\ trip' = [trip EXCEPT ![t].content = request[r].input,
                               ![t].points = Repriced(t, request[r].input)]
       /\ approving' = [approving EXCEPT ![t] = None]
       /\ Writes(t)
       /\ overlapped' = (\/ overlapped
                         \/ assigning \ {t} # {}
                         \/ \E u \in Trips \ {t} : ~Unlocked(u))
       /\ UNCHANGED draft
       /\ ChangeStep

\* The claim is lost, or the transaction fails.
ApproveFails(t) ==
    /\ ~Unlocked(t)
    /\ approving' = [approving EXCEPT ![t] = None]
    /\ UNCHANGED <<trip, draft, request, assigning, overlapped>>
    /\ ChangeStep

-----------------------------------------------------------------------------
(* The zone points.                                                         *)

DeskStands == UNCHANGED <<trip, call, told, draft, request, approving, assigning, overlapped>>

EditPoints ==
    /\ \E z \in Rows : \E submission \in SubmissionTo(z) : EditRow(z, submission)
    /\ UNCHANGED folded
    /\ DeskStands

Sweep ==
    /\ SweepRead \/ SweepStops
    /\ UNCHANGED folded
    /\ DeskStands

FoldPoints(z) ==
    /\ SweepWrite(z)
    /\ folded' = [folded EXCEPT ![z] = effective[z]]
    /\ DeskStands

NextDay == Midnight /\ UNCHANGED folded /\ DeskStands

Next ==
    \/ \E c \in Calls :
          \/ \E k \in Keys, content \in Contents : SubmitBooking(c, k, content)
          \/ FindExisting(c) \/ FindWinner(c) \/ BookingFails(c)
          \/ \E t \in Trips : CreateTrip(c, t)
    \/ \E t \in Trips :
          \/ \E input \in Contents : EditBooking(t, input) \/ ReadForChange(t, input)
          \/ Cancel(t) \/ Unassign(t) \/ Start(t)
          \/ AssignCheck(t) \/ AssignCommit(t) \/ AssignFails(t)
          \/ ApproveCommit(t) \/ ApproveFails(t)
    \/ \E r \in Requests : MakeRequest(r) \/ Reject(r) \/ ApproveCheck(r)
    \/ DropDraft
    \/ EditPoints \/ Sweep \/ NextDay
    \/ \E z \in Rows : FoldPoints(z)

Spec == Init /\ [][Next]_vars

-----------------------------------------------------------------------------
\* The bookings, the requests on their way and the decisions hold what the
\* code can put there.
TypeOK ==
    /\ RatesTypeOK
    /\ trip \in [Trips -> Trip]
    /\ call \in [Calls -> Call]
    /\ told \in [Keys -> SUBSET Trips]
    /\ draft \in Draft \cup {None}
    /\ request \in [Requests -> Request]
    /\ approving \in [Trips -> Requests \cup {None}]
    /\ assigning \subseteq Trips
    /\ overlapped \in BOOLEAN
    /\ folded \in [Rows -> 0 .. LastDay + 1]

\* "The form reuses one key for every retry of the SAME booking" (POST /trips):
\* however often it is sent, also while an earlier attempt is still running or
\* after an answer or the server was lost, one key makes one booking, and every
\* successful answer names that booking.
OneTripPerBooking ==
    \A k \in Keys :
        /\ Cardinality(WithKey(k)) <= 1
        /\ told[k] \subseteq WithKey(k)

Aboard(day) ==
    {t \in Trips : /\ trip[t].status \in {"assigned", "in_progress"}
                   /\ trip[t].content.day = day}

\* "The assigned lorry must still fit" (the approval of a change): assignments,
\* reassignments and approved changes never put more on the lorry for one day
\* than it holds, as long as no approval overlapped another decision.
LorryFits ==
    ~overlapped => \A day \in Day : Pallets(Aboard(day)) <= Capacity

\* "One approval could leave a trip carrying two stops priced from two different
\* rate eras" is what the era argument rules out (snapshotStopZonePoints): all
\* stops of a booking in one zone have the same points, whatever stops were
\* added and points edited since its assignment; unless points of a later
\* day have been folded into the zone, when the assignment's are gone, or the
\* zone was edited between its day and the fold.
OneEraPerTrip ==
    \A t \in Trips : \A d, e \in Consignees :
        /\ trip[t].points[d] # None /\ trip[t].points[e] # None
        /\ ZoneOf[d] = ZoneOf[e]
        /\ folded[ZoneOf[d]] <= trip[t].assignedOn /\ ZoneOf[d] \notin tangled
        => trip[t].points[d] = trip[t].points[e]

Approves(r) == request[r].status # "approved" /\ request'[r].status = "approved"

\* A stored proposal must not "silently REVERT the requestor's own later edit"
\* (editableTripFingerprint): what the author of a change left as he found it
\* stays as the booking has it when the change is approved, though it was
\* released, edited and assigned again in between.  The pickup plant, which a
\* change replaces but the fingerprint leaves out, is not among the fields.
NoLostEdit ==
    [][\A r \in Requests : \A f \in {"day", "load", "drops"} :
          Approves(r) /\ request[r].seen[f] = request[r].input[f] =>
              trip'[request[r].trip].content[f] = trip[request[r].trip].content[f]]_vars

\* "Nothing on the trip moves until an admin approves", and two deciding at once
\* "cannot both apply": a booking with a lorry becomes what one request asks
\* for, at the moment that request goes from open to approved, and one on the
\* road becomes nothing else; a decided request stays decided.
ChangesAreDecided ==
    [][/\ \A t \in Trips :
             trip[t].status \in {"assigned", "in_progress"} /\ trip'[t].content # trip[t].content =>
                 /\ trip[t].status = "assigned"
                 /\ \E r \in Requests : /\ Approves(r) /\ request[r].status = "pending"
                                        /\ request[r].trip = t
                                        /\ trip'[t].content = request[r].input
       /\ \A r \in Requests :
             request[r].status \in {"superseded", "rejected", "approved"} =>
                 request'[r] = request[r]]_vars

\* "A destination the requestor did NOT touch must keep the points it was locked
\* to at assignment" (the approval of a change): a change of a booking that has
\* a lorry leaves the points of every stop it keeps.
LockedPrices ==
    [][\A t \in Trips : \A d \in Consignees :
          /\ trip[t].status = "assigned" /\ trip'[t].content # trip[t].content
          /\ d \in trip[t].content.drops \cap trip'[t].content.drops
          => trip'[t].points[d] = trip[t].points[d]]_vars

=============================================================================
