---------------------------- MODULE MCBookingDesk ----------------------------
(***************************************************************************)
(* BookingDesk on a small instance: two destinations in one zone.          *)
(***************************************************************************)
EXTENDS BookingDesk, TLC

CONSTANTS z, a, b

Ask(day, load, drops, plant) == [day |-> day, load |-> load, drops |-> drops, plant |-> plant]

Asks == {Ask(1, 1, {a}, "p1"), Ask(2, 1, {a}, "p1"), Ask(2, 2, {a}, "p1"),
         Ask(2, 1, {a, b}, "p1"), Ask(2, 1, {a}, "p2")}

PointsOnly == [r \in Rows |-> {"points"}]
SeededPoints == [r \in Rows |-> [f \in Fields |-> 1]]
InZone == [d \in Consignees |-> z]

Interchangeable == 
    Permutations(Trips) \cup Permutations(Requests) \cup Permutations(Calls) \cup Permutations(Keys)

Booked == {t \in Trips : trip[t].status # "unbooked"}
Answered == Cardinality({c \in Calls : call[c].pc # "unsent"}) = Cardinality(Booked)
UnderWay == \E t \in Trips : trip[t].status \in {"assigned", "in_progress"} \/ t \in assigning
Plain == Ask(2, 1, {a}, "p1")
Heavy == Ask(2, 2, {a}, "p1")
Made == {r \in Requests : request[r].status # "none"}
Changes == Cardinality(Made) + (IF draft = None THEN 0 ELSE 1)

Asked == {trip[t].content : t \in Booked} \cup {request[r].input : r \in Made}
             \cup (IF draft = None THEN {} ELSE {draft.input})

\* Retries while nothing else happens; then two bookings on the first day whose
\* loads change; or one booking over both days with all but its load changing:
\* with two change requests, or with one and an edit of the zone's points.  A change
\* is not drafted when none can be made of it.
Explored ==
    /\ \A c \in Calls : call[c].content \in {None, Plain}
    /\ Changes <= 2
    /\ \/ /\ ~UnderWay /\ today = 1 /\ edits = 0
          /\ Asked \subseteq {Plain} /\ Made = {}
       \/ /\ Answered
          /\ \/ today = 1 /\ edits = 0 /\ Asked \subseteq {Plain, Heavy}
             \/ Cardinality(Booked) = 1 /\ today = 1 /\ edits = 0 /\ Heavy \notin Asked
             \/ Cardinality(Booked) = 1 /\ Changes <= 1 /\ Heavy \notin Asked

=============================================================================
