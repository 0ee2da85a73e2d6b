--------------------------- MODULE MCHandsetOutbox ---------------------------
(***************************************************************************)
(* HandsetOutbox on small instances.                                       *)
(***************************************************************************)
EXTENDS HandsetOutbox, TLC

Interchangeable == Permutations(Stops)

=============================================================================
