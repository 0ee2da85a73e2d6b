---------------------------- MODULE TripContract ----------------------------
(***************************************************************************)
(* What the delivery of a trip promises the driver, the office and the     *)
(* payroll, with no taps, reports or requests in it.  A trip waits, goes   *)
(* out, comes back with what it has earned owed to its driver, and is paid *)
(* once.  It may be sent back out before it is paid, and it may end        *)
(* without pay only when nothing was earned.                               *)
(*                                                                         *)
(* TripDelivery implements it under the mapping given in TripRefinement.   *)
(***************************************************************************)
CONSTANTS Trips, Stops, TripOf, NoProposal, Unpaid, Edited

VARIABLES
    phase,      \* where each trip is
    earned,     \* the stops it has earned so far
    owed,       \* the amount that waits for approval or was approved
    paid        \* the amount that was paid

vars == <<phase, earned, owed, paid>>

Work(t) == SUBSET {s \in Stops : TripOf[s] = t}

Init ==
    /\ phase  = [t \in Trips |-> "waiting"]
    /\ earned = [t \in Trips |-> {}]
    /\ owed   = [t \in Trips |-> NoProposal]
    /\ paid   = [t \in Trips |-> Unpaid]

Becomes(t, from, to) == phase[t] = from /\ phase' = [phase EXCEPT ![t] = to]

Earns(t, work) == earned' = [earned EXCEPT ![t] = work]

Owes(t, amount) == owed' = [owed EXCEPT ![t] = amount]

GoOut(t) == Becomes(t, "waiting", "out") /\ UNCHANGED <<earned, owed, paid>>

\* Stops are delivered, reviewed and undone while the trip is out, and reviewed
\* later; what comes after the settlement changes nothing that is owed.
Progress(t) ==
    /\ phase[t] \in {"out", "owed", "paid"}
    /\ \E work \in Work(t) : Earns(t, work)
    /\ UNCHANGED <<phase, owed, paid>>

\* The trip is taken off its driver; what he earned on it is dropped.
ComeBackEmpty(t) ==
    Becomes(t, "out", "waiting") /\ Earns(t, {}) /\ UNCHANGED <<owed, paid>>

\* What is owed is exactly what is earned at that moment.
Settle(t) ==
    /\ Becomes(t, "out", "owed")
    /\ \E work \in Work(t) : Earns(t, work) /\ Owes(t, work)
    /\ UNCHANGED paid

SendBackOut(t) ==
    /\ Becomes(t, "owed", "out")
    /\ \E work \in Work(t) : Earns(t, work)
    /\ Owes(t, NoProposal)
    /\ UNCHANGED paid

Pay(t) ==
    /\ Becomes(t, "owed", "paid")
    /\ \E amount \in {Edited} \cup Work(t) : paid' = [paid EXCEPT ![t] = amount]
    /\ UNCHANGED <<earned, owed>>

\* A trip ends without pay only if it has earned nothing.
EndUnpaid(t) ==
    /\ earned[t] = {}
    /\ Becomes(t, "waiting", "closed") \/ Becomes(t, "out", "closed")
    /\ UNCHANGED <<earned, owed, paid>>

Next ==
    \E t \in Trips :
        \/ GoOut(t) \/ Progress(t) \/ ComeBackEmpty(t) \/ Settle(t)
        \/ SendBackOut(t) \/ Pay(t) \/ EndUnpaid(t)

Spec == Init /\ [][Next]_vars

=============================================================================
