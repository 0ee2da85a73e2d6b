-------------------------- MODULE MCTripAssignment --------------------------
(***************************************************************************)
(* TripAssignment on small instances.                                      *)
(***************************************************************************)
EXTENDS TripAssignment, TLC

CONSTANTS t1, t2, d1, d2

\* Lorries that hold two pallets.
OneLorry   == d1 :> 2
TwoLorries == (d1 :> 2) @@ (d2 :> 2)

Interchangeable == Permutations(Trips) \cup Permutations(Drivers)

=============================================================================
