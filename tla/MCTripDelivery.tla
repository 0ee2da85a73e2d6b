--------------------------- MODULE MCTripDelivery ---------------------------
(***************************************************************************)
(* TripDelivery on small instances.                                        *)
(***************************************************************************)
EXTENDS TripRefinement, TLC

CONSTANTS t1, t2, s1, s2, s3

\* One trip of two stops.
OneTripOf == (s1 :> t1) @@ (s2 :> t1)

\* Two trips of one stop each.
TwoTripOf == (s1 :> t1) @@ (s3 :> t2)

Interchangeable ==
    Permutations(Exceptions) \cup Permutations(Drivers) \cup Permutations(Admins)

=============================================================================
