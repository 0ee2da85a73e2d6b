------------------------------ MODULE MCPayday ------------------------------
(***************************************************************************)
(* Payday on a small instance: a trip with two stops and one with one, two *)
(* drops in one zone; the lorry's row and the rows of two zones.           *)
(***************************************************************************)
EXTENDS Payday, TLC

CONSTANTS lorry, za, zb, t1, t2, a, b, c

RateFields == {"weekday", "offpeak", "deduction", "points"}
EditableFields ==
    lorry :> {"weekday", "deduction"} @@ za :> {"points"} @@ zb :> {}
SeededRates ==
    [r \in Rows |-> [f \in RateFields |->
        IF f = "weekday" \/ r = za THEN 1 ELSE IF f = "deduction" THEN 2 ELSE 3]]
OnPlantWork == [f \in RateFields |-> CASE f = "deduction" -> 0 [] f = "offpeak" -> 2 [] OTHER -> 1]
OnTrip == a :> t1 @@ b :> t1 @@ c :> t2
InZone == a :> za @@ b :> zb @@ c :> za

\* Three days and every edit while nothing is assigned; if no rate is edited,
\* two days of trips assigned on the first, with reports, undone arrivals and the
\* trip of one stop cancelled; if one is, two days of trips with only delivered
\* taps and no approvals, swept while none is out.  With interplant work, no edits
\* and no verdicts.  Nothing is claimed after an unwound delivery, nor of what is
\* paid on days tapped after an approval or after an amount of the admin's own.
Explored ==
  /\ ~unwound /\ exempt = {}
  /\ \A t \in Trips : trip[t].override # "office"
  /\ \/ \A t \in Trips : trip[t].pool = "customer"
     \/ edits = 0 /\ trip[t2].pool = "interplant" /\ \A s \in Stops : stop[s].verdict = "none"
  /\ \/ \A t \in Trips : trip[t].status = "pending"
     \/ /\ today <= 2 /\ edits = 0
        /\ \A t \in Trips : trip[t].assignedOn <= 1 /\ (trip[t].status = "cancelled" => t = t2)
     \/ /\ today <= 2 /\ edits = 1 /\ (Out # {} => sweep = NoSweep)
        /\ \A s \in Stops : stop[s].arrivedAt = 0 /\ stop[s].verdict = "none"
        /\ \A t \in Trips : trip[t].final = None /\ trip[t].status # "cancelled"

=============================================================================
