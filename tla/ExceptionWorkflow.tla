------------------------- MODULE ExceptionWorkflow -------------------------
(***************************************************************************)
(* The failed-delivery report as a finite-state machine: the pure part of  *)
(* api/src/services/exceptionWorkflow.ts.  A report is filed by a driver   *)
(* ("reported") and is OPEN until an admin rejects it or resolves it.      *)
(***************************************************************************)

\* "unfiled" stands for a TripException row that does not exist yet.
ExceptionStates ==
    {"unfiled", "reported", "more_evidence", "verified", "rejected", "resolved"}

OpenStates == {"reported", "more_evidence", "verified"}

Resolutions == {"none", "resume", "retry"}

\* The states from which each admin action is accepted.
AllowedFrom ==
    [request_more_evidence |-> {"reported"},
     verify                |-> {"reported", "more_evidence"},
     reject                |-> {"reported", "more_evidence", "verified"},
     resume                |-> {"reported", "more_evidence", "verified"},
     resolve               |-> {"reported", "verified"}]

\* Mistake: the name of the action is stored as the state.
StateAfterEvidence_Action(current) == "evidence_added"

\* Fresh evidence answers a request for it and changes nothing else.
StateAfterEvidence(current) ==
    IF current = "more_evidence" THEN "reported" ELSE current

=============================================================================
