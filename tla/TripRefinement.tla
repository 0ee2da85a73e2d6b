--------------------------- MODULE TripRefinement ---------------------------
(***************************************************************************)
(* TripDelivery implements TripContract: the mapping, and the property.    *)
(***************************************************************************)
EXTENDS TripDelivery

\* Where the contract sees a trip.
PhaseOf(st) ==
    CASE st \in {"pending", "assigned"}   -> "waiting"
      [] st = "in_progress"               -> "out"
      [] st = "pending_approval"          -> "owed"
      [] st = "completed"                 -> "paid"
      [] st \in {"cancelled", "rejected"} -> "closed"

phase  == [t \in Trips |-> PhaseOf(status[t])]
earned == [t \in Trips |-> Earning(t)]

Contract == INSTANCE TripContract WITH owed <- proposal, paid <- final

\* Every step of a delivery is a step of the contract or changes nothing it
\* speaks of: what is owed is what was earned when the trip came back, it is
\* paid once, and no trip that has earned something ends without pay.
ImplementsContract == Contract!Spec

=============================================================================
