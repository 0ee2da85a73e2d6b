---------------------------- MODULE Payday_proofs ----------------------------
(***************************************************************************)
(* For any trips, stops, zones, days and edits: the records keep their     *)
(* types; the first drop of a zone is scored once a day; the points on the *)
(* stops account for the proposal; the proposals of a day come to what its *)
(* drops, scored at once, are worth, and the off-peak premium is paid      *)
(* once; the rates keep what StagedRates_proofs proves of them while a     *)
(* driver's days go on, and trips assigned on one day are paid by one      *)
(* tariff.                                                                 *)
(*                                                                         *)
(* The tariff: the snapshot of a trip assigned today is what is in force   *)
(* today, since the rates in force hold all day; so a later snapshot of    *)
(* the day meets the same values.  After midnight nobody is assigned on    *)
(* that day any more, and snapshots only change by a new assignment.       *)
(*                                                                         *)
(* The ledger: a driver is out with one trip, so all taps of one trip come *)
(* before all taps of the next (TapsInOrder), and the first of a zone is   *)
(* its earliest drop (FirstsInOrder).  A proposal is paid, day by day, for *)
(* what its drops add to those before it in its ledger (PaidInDays); later *)
(* trips come after it, and only the trip proposed last can be undone      *)
(* unless the day was unwound, so what it was paid for stays true.  With   *)
(* the trips of a day in line, what each adds telescopes to the day's      *)
(* total (DayAddsUp).                                                      *)
(*                                                                         *)
(* The approval: what the rules make of a proposal depends on the taps of  *)
(* its day, so it stands unless the day is tapped or undone again          *)
(* (Settled); and on a settled day he went out again after every trip but  *)
(* the one he came back from last (WentOutOrNot).                          *)
(***************************************************************************)
EXTENDS Payday, StagedRates_proofs, Totals_proofs

-----------------------------------------------------------------------------
\* The records keep their fields; what the sums among them come to is of no
\* concern here.
Shaped ==
    /\ DOMAIN trip = Trips
    /\ \A t \in Trips :
          DOMAIN trip[t] = {"pool", "status", "rates", "assignedOn", "earned", "offpeak",
                            "deducted", "shortfall", "final", "override"}
    /\ DOMAIN stop = Stops
    /\ \A s \in Stops :
          DOMAIN stop[s] = {"status", "arrivedAt", "deliveredAt", "verdict", "zonePoints", "award"}

\* What a trip is paid by stays as it is.
SamePay(t) ==
    /\ trip'[t].pool = trip[t].pool
    /\ trip'[t].rates = trip[t].rates
    /\ trip'[t].assignedOn = trip[t].assignedOn

SamePoints(s) == stop'[s].zonePoints = stop[s].zonePoints

\* The three things a step of the ledger does to what trips are paid by.
PayStands == (\A t \in Trips : SamePay(t)) /\ (\A s \in Stops : SamePoints(s))

Priced(t) ==
    /\ trip'[t].pool = trip[t].pool
    /\ trip'[t].rates = TruckRateSnapshot(t)
    /\ trip'[t].assignedOn = today
    /\ \A s \in StopsOf(t) : stop'[s].zonePoints = Effective(ZoneOf[s], today)["points"]

Released(t) == trip'[t].assignedOn = 0

OthersStand(t) ==
    /\ \A u \in Trips \ {t} : SamePay(u)
    /\ \A s \in Stops \ StopsOf(t) : SamePoints(s)

-----------------------------------------------------------------------------
\* The ledger starts with no row out of shape.
LEMMA InitShaped == Init => Shaped
  BY DEF Init, Shaped

\* A trip becomes something and its stops st, of which only awards, taps and
\* verdicts are new.
LEMMA BecomesShape ==
    ASSUME Shaped, NEW t \in Trips, NEW st, NEW status, Becomes(t, st, status),
           DOMAIN st = Stops,
           \A s \in Stops : DOMAIN st[s] = DOMAIN stop[s] /\ st[s].zonePoints = stop[s].zonePoints
    PROVE  Shaped' /\ PayStands
  <1>1. ASSUME NEW s \in Stops
        PROVE  DOMAIN stop'[s] = DOMAIN stop[s] /\ stop'[s].zonePoints = stop[s].zonePoints
    <2>1. stop' = st \/ stop' = Awarded(st, t)
      BY DEF Becomes
    <2>2. \/ Awarded(st, t)[s] = st[s]
          \/ \E award : Awarded(st, t)[s] = [st[s] EXCEPT !.award = award]
      BY DEF Awarded
    <2> QED BY <2>1, <2>2 DEF Shaped
  <1>2. DOMAIN stop' = Stops
    BY DEF Becomes, Awarded
  <1>3. DOMAIN trip' = Trips /\ \A u \in Trips : DOMAIN trip'[u] = DOMAIN trip[u] /\ SamePay(u)
    BY DEF Becomes, Shaped, SamePay
  <1> QED BY <1>1, <1>2, <1>3 DEF Shaped, PayStands, SamePoints

\* Each step of the ledger leaves pay as it is, prices a trip, or releases it.
LEMMA LedgerStep ==
    ASSUME Shaped, Next, UNCHANGED rateVars
    PROVE  /\ Shaped'
           /\ \/ PayStands
              \/ \E t \in Trips : (Priced(t) \/ Released(t)) /\ OthersStand(t)
  <1> USE DEF Shaped, PayStands, SamePay, SamePoints
  <1>1. CASE OfficeHours \/ NextDay
    BY <1>1 DEF OfficeHours, NextDay, ledgerVars
  <1>2. ASSUME NEW t \in Trips, Assign(t)
        PROVE  Shaped' /\ Priced(t) /\ OthersStand(t)
    BY <1>2 DEF Assign, Priced, OthersStand, StopsOf
  <1>3. ASSUME NEW t \in Trips, Unassign(t)
        PROVE  Shaped' /\ Released(t) /\ OthersStand(t)
    BY <1>3 DEF Unassign, Released, OthersStand
  <1>4. ASSUME NEW t \in Trips,
               Start(t) \/ Abort(t) \/ \E own \in OwnAmounts \cup {None} : Approve(t, own)
        PROVE  Shaped' /\ PayStands
    <2>1. CASE Start(t)
      BY <2>1 DEF Start
    <2>2. CASE Abort(t)
      BY <2>2, BecomesShape DEF Abort
    <2>3. CASE \E own \in OwnAmounts \cup {None} : Approve(t, own)
      BY <2>3 DEF Approve
    <2> QED BY <1>4, <2>1, <2>2, <2>3
  <1>5. ASSUME NEW s \in Stops, Arrive(s) \/ UndoArrived(s) \/ RejectLate(s)
        PROVE  Shaped' /\ PayStands
    BY <1>5 DEF Arrive, UndoArrived, RejectLate
  <1>6. ASSUME NEW s \in Stops, Deliver(s)
        PROVE  Shaped' /\ PayStands
    <2> DEFINE st == [stop EXCEPT ![s].status = "delivered", ![s].deliveredAt = At(taps + 1)]
    <2>1. \E status : Becomes(TripOf[s], st, status)
      BY <1>6 DEF Deliver, Conclude
    <2>2. /\ DOMAIN st = Stops
          /\ \A u \in Stops : DOMAIN st[u] = DOMAIN stop[u] /\ st[u].zonePoints = stop[u].zonePoints
      OBVIOUS
    <2>3. TripOf[s] \in Trips
      BY PaydayAssumption
    <2> HIDE DEF st
    <2> QED BY <2>1, <2>2, <2>3, BecomesShape
  <1>7. ASSUME NEW s \in Stops, NEW verdict, Adjudicate(s, verdict)
        PROVE  Shaped' /\ PayStands
    <2> DEFINE st == [stop EXCEPT ![s].verdict = verdict]
    <2>1. \E status : Becomes(TripOf[s], st, status)
      BY <1>7 DEF Adjudicate, Conclude
    <2>2. /\ DOMAIN st = Stops
          /\ \A u \in Stops : DOMAIN st[u] = DOMAIN stop[u] /\ st[u].zonePoints = stop[u].zonePoints
      OBVIOUS
    <2>3. TripOf[s] \in Trips
      BY PaydayAssumption
    <2> HIDE DEF st
    <2> QED BY <2>1, <2>2, <2>3, BecomesShape
  <1>8. ASSUME NEW s \in Stops, UndoDelivered(s)
        PROVE  Shaped' /\ PayStands
    BY <1>8 DEF UndoDelivered, Reverted
  <1> QED BY <1>1, <1>2, <1>3, <1>4, <1>5, <1>6, <1>7, <1>8 DEF Next

\* A step of the rates leaves the ledger alone, all others the rates.
LEMMA RatesOrLedger ==
    ASSUME [Next]_vars
    PROVE  /\ [RatesNext]_rateVars
           /\ UNCHANGED <<trip, stop>> \/ (Next /\ UNCHANGED rateVars)
  <1>1. CASE OfficeHours \/ NextDay
    BY <1>1 DEF OfficeHours, NextDay, RatesNext, ledgerVars
  <1>2. CASE UNCHANGED vars
    BY <1>2 DEF vars, ledgerVars
  <1>3. ASSUME NEW t \in Trips,
               \/ Assign(t) \/ Unassign(t) \/ Start(t) \/ Abort(t)
               \/ \E own \in OwnAmounts \cup {None} : Approve(t, own)
        PROVE  UNCHANGED rateVars
    BY <1>3 DEF Assign, Unassign, Start, Abort, Approve
  <1>4. ASSUME NEW s \in Stops,
               \/ Arrive(s) \/ Deliver(s) \/ UndoArrived(s) \/ UndoDelivered(s)
               \/ RejectLate(s)
               \/ \E verdict \in {"settled", "vetoed"} : Adjudicate(s, verdict)
        PROVE  UNCHANGED rateVars
    BY <1>4 DEF Arrive, Deliver, Tap, UndoArrived, UndoDelivered, RejectLate, Adjudicate
  <1> QED BY <1>1, <1>2, <1>3, <1>4 DEF Next

\* A driver's days run the rates as StagedRates says.
LEMMA PaydayRates == Spec => RatesSpec
  <1>1. Init => RatesInit
    BY DEF Init
  <1>2. [Next]_vars => [RatesNext]_rateVars
    BY RatesOrLedger
  <1> QED BY <1>1, <1>2, PTL DEF Spec, RatesSpec

\* Nothing gets untangled, and days follow each other.
LEMMA TangledGrows ==
    ASSUME [RatesNext]_rateVars
    PROVE  tangled \subseteq tangled' /\ today' \in {today, today + 1}
  BY DEF RatesNext, rateVars, EditRow, ResetRates, Edit, Promise, SweepRead, SweepStops, SweepWrite, Midnight

-----------------------------------------------------------------------------
(* The inductive invariant.                                                 *)

\* A trip assigned today has what is in force today.
Current(t) ==
    trip[t].assignedOn = today =>
        /\ Lorry \in tangled \/ trip[t].rates = TruckRateSnapshot(t)
        /\ \A s \in StopsOf(t) :
              ZoneOf[s] \in tangled \/ stop[s].zonePoints = Effective(ZoneOf[s], today)["points"]

PayInv ==
    /\ Shaped
    /\ \A t \in Trips : trip[t].assignedOn \in Nat /\ trip[t].assignedOn <= today /\ Current(t)
    /\ OneTariffADay

\* No trip has rates to begin with.
LEMMA InitPay == RatesInv /\ Init => PayInv
  <1> SUFFICES ASSUME RatesInv, Init PROVE PayInv
    OBVIOUS
  <1>1. \A t \in Trips : trip[t].assignedOn = 0
    BY DEF Init
  <1>2. today = 1
    BY DEF Init, RatesInit
  <1> QED BY <1>1, <1>2, InitShaped DEF PayInv, Current, OneTariffADay

\* While only the rates or the day move, what is current stays current.
LEMMA RatesKeepPay ==
    ASSUME RatesInv, PayInv, [RatesNext]_rateVars, UNCHANGED <<trip, stop>>
    PROVE  PayInv'
  <1>1. tangled \subseteq tangled'
    BY TangledGrows
  <1>2. today \in Nat /\ today' \in {today, today + 1}
    BY TangledGrows, RatesAssumption DEF RatesInv, RatesTypeOK, Day
  <1>3. ASSUME NEW t \in Trips
        PROVE  Current(t)'
    <2>1. CASE today' = today
      <3>1. \A r \in Rows \ tangled' : Effective(r, today)' = Effective(r, today)
        BY <2>1, StepInv
      <3>2. \A s \in Stops : ZoneOf[s] \in Rows
        BY PaydayAssumption
      <3>3. Lorry \in tangled' \/ TruckRateSnapshot(t)' = TruckRateSnapshot(t)
        BY <3>1, PaydayAssumption DEF TruckRateSnapshot
      <3>4. Current(t)
        BY DEF PayInv
      <3> QED BY <1>1, <2>1, <3>1, <3>2, <3>3, <3>4 DEF Current, StopsOf
    <2>2. CASE today' # today
      BY <1>2, <2>2 DEF Current, PayInv
    <2> QED BY <2>1, <2>2
  <1>4. OneTariffADay'
    BY <1>1 DEF PayInv, OneTariffADay, StopsOf
  <1> QED BY <1>2, <1>3, <1>4 DEF PayInv, Shaped

\* A step of the ledger takes its rates from the tariff of the day.
LEMMA LedgerKeepsPay ==
    ASSUME RatesInv, PayInv, Next, UNCHANGED rateVars
    PROVE  PayInv'
  <1> USE DEF PayInv
  <1>1. /\ today' = today /\ tangled' = tangled /\ today \in Nat
        /\ \A r \in Rows : Effective(r, today)' = Effective(r, today)
    BY DEF rateVars, RatesInv, RatesTypeOK, Day, Effective, Matured
  <1>2. Shaped'
    BY LedgerStep
  <1>3. CASE PayStands
    <2>1. \A t \in Trips : Current(t)'
      BY <1>1, <1>3, PaydayAssumption DEF PayStands, SamePay, SamePoints, Current, TruckRateSnapshot, StopsOf
    <2>2. OneTariffADay'
      BY <1>1, <1>3 DEF PayStands, SamePay, SamePoints, OneTariffADay, StopsOf
    <2> QED BY <1>1, <1>2, <1>3, <2>1, <2>2 DEF PayStands, SamePay
  <1>4. ASSUME NEW t \in Trips, Priced(t) \/ Released(t), OthersStand(t)
        PROVE  PayInv'
    <2>1. \A u \in Trips : u # t => \A s \in StopsOf(u) : s \in Stops \ StopsOf(t)
      BY DEF StopsOf
    <2>2. ASSUME NEW u \in Trips, u # t
          PROVE  Current(u)' /\ SamePay(u) /\ \A s \in StopsOf(u) : SamePoints(s)
      <3>1. SamePay(u) /\ \A s \in StopsOf(u) : SamePoints(s)
        BY <1>4, <2>1, <2>2 DEF OthersStand
      <3>2. \A s \in StopsOf(u) : s \in Stops /\ ZoneOf[s] \in Rows
        BY PaydayAssumption DEF StopsOf
      <3> QED BY <1>1, <3>1, <3>2, PaydayAssumption DEF SamePay, SamePoints, Current, TruckRateSnapshot, StopsOf
    <2>3. Current(t)'
      <3>1. CASE Released(t)
        BY <1>1, <3>1, RatesAssumption DEF Released, Current, RatesInv, RatesTypeOK, Day
      <3>2. CASE Priced(t)
        <4>1. \A s \in StopsOf(t) : ZoneOf[s] \in Rows
          BY PaydayAssumption DEF StopsOf
        <4> QED BY <1>1, <3>2, <4>1, PaydayAssumption DEF Priced, Current, TruckRateSnapshot, StopsOf
      <3> QED BY <1>4, <3>1, <3>2
    <2>4. trip'[t].assignedOn \in Nat /\ trip'[t].assignedOn <= today
      BY <1>1, <1>4 DEF Priced, Released
    <2>5. OneTariffADay'
      <3> SUFFICES ASSUME NEW p \in Trips, NEW q \in Trips,
                          trip'[p].assignedOn # 0, trip'[p].assignedOn = trip'[q].assignedOn
                   PROVE  /\ \/ Lorry \in tangled'
                             \/ trip'[p].pool = trip'[q].pool => trip'[p].rates = trip'[q].rates
                          /\ \A s \in StopsOf(p), v \in StopsOf(q) :
                                ZoneOf[s] = ZoneOf[v] =>
                                    ZoneOf[s] \in tangled' \/ stop'[s].zonePoints = stop'[v].zonePoints
        BY DEF OneTariffADay, StopsOf
      <3>1. CASE trip'[p].assignedOn = today
        <4>1. Current(p)' /\ Current(q)'
          BY <2>2, <2>3
        <4>2. \A u \in {p, q} :
                 /\ Lorry \in tangled' \/ trip'[u].rates = TruckRateSnapshot(u)'
                 /\ \A s \in StopsOf(u) :
                       \/ ZoneOf[s] \in tangled'
                       \/ stop'[s].zonePoints = Effective(ZoneOf[s], today)'["points"]
          BY <1>1, <3>1, <4>1 DEF Current, StopsOf
        <4>3. trip'[p].pool = trip'[q].pool => TruckRateSnapshot(p)' = TruckRateSnapshot(q)'
          BY DEF TruckRateSnapshot
        <4> QED BY <4>2, <4>3
      <3>2. CASE trip'[p].assignedOn # today
        <4>1. p # t /\ q # t
          BY <1>4, <3>2 DEF Priced, Released
        <4>2. SamePay(p) /\ SamePay(q) /\ \A s \in StopsOf(p) \cup StopsOf(q) : SamePoints(s)
          BY <2>2, <4>1
        <4>3. /\ \/ Lorry \in tangled
                 \/ trip[p].pool = trip[q].pool => trip[p].rates = trip[q].rates
              /\ \A s \in StopsOf(p), v \in StopsOf(q) :
                    ZoneOf[s] = ZoneOf[v] =>
                        ZoneOf[s] \in tangled \/ stop[s].zonePoints = stop[v].zonePoints
          <5>1. trip[p].assignedOn # 0 /\ trip[p].assignedOn = trip[q].assignedOn
            BY <4>2 DEF SamePay
          <5>2. p \in {v \in Trips : trip[v].assignedOn # 0} /\ q \in {v \in Trips : trip[v].assignedOn # 0}
            BY <5>1
          <5>3. OneTariffADay
            OBVIOUS
          <5> HIDE DEF PayInv
          <5> QED BY <5>1, <5>2, <5>3 DEF OneTariffADay
        <4> QED BY <1>1, <4>2, <4>3 DEF SamePay, SamePoints
      <3> QED BY <3>1, <3>2
    <2> QED BY <1>1, <1>2, <2>2, <2>3, <2>4, <2>5 DEF SamePay
  <1> QED BY <1>3, <1>4, LedgerStep

-----------------------------------------------------------------------------
\* The rates and what trips took from them always agree.
LEMMA PayInvariant == Spec => [](RatesInv /\ PayInv)
  <1>1. Init => RatesInv /\ PayInv
    BY InitInv, InitPay DEF Init
  <1>2. RatesInv /\ PayInv /\ [Next]_vars => (RatesInv /\ PayInv)'
    <2> SUFFICES ASSUME RatesInv, PayInv, [Next]_vars PROVE RatesInv' /\ PayInv'
      OBVIOUS
    <2>1. RatesInv'
      BY RatesOrLedger, StepInv
    <2>2. PayInv'
      BY RatesOrLedger, RatesKeepPay, LedgerKeepsPay
    <2> QED BY <2>1, <2>2
  <1> QED BY <1>1, <1>2, PTL DEF Spec

\* "Today's assignments keep snapshotting today's rates" (routes/trucks.ts): for
\* any trips and any edits, folds and restarts of the sweep between the
\* assignments, trips of a pool assigned on one day are paid by one tariff.
THEOREM OneTariffOnADay == Spec => []OneTariffADay
  <1>1. PayInv => OneTariffADay
    BY DEF PayInv
  <1> QED BY <1>1, PayInvariant, PTL

\* A driver's days change nothing about the cutoff at midnight (pendingRates.ts).
THEOREM RatesHoldOnPaydays == Spec => RatesHoldAllDay
  BY PaydayRates, HoldAllDay, PTL

\* Every edit is in force from the day the office was told, whatever trips are
\* assigned, delivered and paid meanwhile (applyMaturedPendingRates).
THEOREM PromisesKeptOnPaydays == Spec => []PromisesKept
  BY PaydayRates, PromisesAreKept, PTL

-----------------------------------------------------------------------------
(* Sums of drops: a later group adds its own worth to the ledger before it. *)

\* What a drop is worth among others.
Worth(drops) == [d \in drops |-> IF IsRepeat(d, drops) THEN 1 ELSE d.points]

\* Drops that can be added up.
Countable(drops) == IsFiniteSet(drops) /\ \A d \in drops : d.points \in Nat /\ d.at \in Nat

\* What a group adds to the drops before it.
Added(group, prior) == SumFunctionOnSet(Worth(group \cup prior), group)

\* A day's points are a number.
LEMMA TotalOfDrops ==
    ASSUME NEW drops, Countable(drops)
    PROVE  /\ Total(drops) = SumFunctionOnSet(Worth(drops), drops)
           /\ Total(drops) \in Nat
           /\ \A d \in drops : Worth(drops)[d] \in Nat
  <1> DEFINE w == Worth(drops)
  <1>1. Total(drops) = SumFunctionOnSet(w, drops)
    BY DEF Total, Worth, SumFunction
  <1>2. \A d \in drops : w[d] \in Nat
    BY DEF Worth, Countable
  <1>3. SumFunctionOnSet(w, drops) \in Nat
    <2> HIDE DEF w
    <2> QED BY <1>2, TotalNat DEF Countable
  <1> QED BY <1>1, <1>2, <1>3

\* Earlier drops are worth what they were; a later group adds what its own are worth.
LEMMA TotalSplits ==
    ASSUME NEW prior, Countable(prior), NEW group, Countable(group),
           \A p \in prior, d \in group : p.at < d.at
    PROVE  /\ Countable(group \cup prior)
           /\ Total(group \cup prior) = Total(prior) + Added(group, prior)
           /\ Total(prior) \in Nat /\ Added(group, prior) \in Nat
  <1> DEFINE all == group \cup prior
             w == Worth(all)
             v == Worth(prior)
  <1>1. Countable(all) /\ group \cap prior = {}
    <2>1. IsFiniteSet(all)
      BY FS_Union DEF Countable
    <2>2. \A d \in group \cap prior : d.at < d.at /\ d.at \in Nat
      BY DEF Countable
    <2> QED BY <2>1, <2>2 DEF Countable
  <1>2. \A p \in prior : IsRepeat(p, all) <=> IsRepeat(p, prior)
    BY DEF IsRepeat, Countable
  <1>3. \A p \in prior : w[p] = v[p]
    BY <1>2 DEF Worth
  <1>4. /\ Total(all) = SumFunctionOnSet(w, all) /\ (\A d \in all : w[d] \in Nat)
        /\ Total(prior) = SumFunctionOnSet(v, prior) /\ Total(prior) \in Nat
    <2> HIDE DEF all
    <2> QED BY <1>1, TotalOfDrops
  <1>5. Added(group, prior) = SumFunctionOnSet(w, group)
    BY DEF Added
  <1>6. /\ IsFiniteSet(group) /\ IsFiniteSet(prior)
        /\ (\A d \in group : w[d] \in Nat) /\ (\A d \in prior : w[d] \in Int)
        /\ \A d \in group \cup prior : w[d] \in Int
    BY <1>4 DEF Countable
  <1>7. /\ SumFunctionOnSet(w, all) = SumFunctionOnSet(w, group) + SumFunctionOnSet(w, prior)
        /\ SumFunctionOnSet(w, group) \in Nat
        /\ SumFunctionOnSet(w, prior) = SumFunctionOnSet(v, prior)
    <2> HIDE DEF w, v
    <2>1. SumFunctionOnSet(w, group \cup prior)
              = SumFunctionOnSet(w, group) + SumFunctionOnSet(w, prior)
      BY <1>1, <1>6, TotalUnion
    <2>2. SumFunctionOnSet(w, group) \in Nat
      BY <1>6, TotalNat
    <2>3. SumFunctionOnSet(w, prior) = SumFunctionOnSet(v, prior)
      BY <1>3, <1>6, TotalSame
    <2> QED BY <2>1, <2>2, <2>3
  <1> QED BY <1>1, <1>4, <1>5, <1>7

\* A trip's share is at most what it added, and not below nothing.
LEMMA MarginalWithin ==
    ASSUME NEW prior, Countable(prior), NEW group, Countable(group),
           \A p \in prior, d \in group : p.at < d.at, NEW deduction \in Nat
    PROVE  /\ Marginal(group, prior, deduction) \in Nat
           /\ Deducted(group, prior, deduction) \in Nat
           /\ Added(group, prior)
                  = Marginal(group, prior, deduction) + Deducted(group, prior, deduction)
  <1> DEFINE a == Total(group \cup prior)
             b == Total(prior)
             c == Added(group, prior)
  <1>1. a = b + c /\ b \in Nat /\ c \in Nat
    BY TotalSplits
  <1>2. /\ Marginal(group, prior, deduction) = Above(a, deduction) - Above(b, deduction)
        /\ Deducted(group, prior, deduction) = a - b - Marginal(group, prior, deduction)
    BY DEF Marginal, Deducted
  <1> HIDE DEF a, b, c
  <1>3. Above(a, deduction) - Above(b, deduction) \in 0 .. c
    BY <1>1 DEF Above
  <1> QED BY <1>1, <1>2, <1>3 DEF c

\* Stops whose drops can be scored: an assignment gave them their points.
Scorable(st) ==
    /\ st \in [Stops -> Stop]
    /\ \A s \in Stops : trip[TripOf[s]].status # "pending" => st[s].zonePoints \in Values

\* The drop of a stop of a trip that was assigned.
LEMMA DropOf ==
    ASSUME NEW st, Scorable(st), NEW s \in Stops, trip[TripOf[s]].status # "pending"
    PROVE  LET d == LedgerDrop(st, s)
           IN /\ d.stop = s /\ d.zone = ZoneOf[s] /\ d.points = st[s].zonePoints
              /\ d.points \in Nat /\ d.at \in Nat
              /\ PayInstant(st, s) \in Nat /\ d.at <= PayInstant(st, s)
              /\ Earns(st, s) => d.at = PayInstant(st, s)
  <1> DEFINE at == PayInstant(st, s)
             early1 == at % (TapsADay + 1)
  <1>1. at \in Nat
    BY DEF PayInstant, Scorable, Stop, Instant
  <1>2. early1 \in Nat /\ early1 <= at
    <2> HIDE DEF at
    <2> QED BY <1>1, PaydayAssumption
  <1>3. st[s].zonePoints \in Nat
    BY PaydayAssumption DEF Scorable
  <1>4. LedgerDrop(st, s) = [stop |-> s, zone |-> ZoneOf[s], points |-> st[s].zonePoints,
                             at |-> IF Earns(st, s) THEN at ELSE early1]
    BY DEF LedgerDrop, Drop
  <1> HIDE DEF at, early1
  <1> QED BY <1>1, <1>2, <1>3, <1>4 DEF at

\* The drops of some of these stops can be added up.
LEMMA DropsCountable ==
    ASSUME NEW st, Scorable(st), NEW S \in SUBSET Stops,
           \A s \in S : trip[TripOf[s]].status # "pending"
    PROVE  Countable({LedgerDrop(st, s) : s \in S})
  <1> DEFINE f == [s \in S |-> LedgerDrop(st, s)]
  <1>1. {LedgerDrop(st, s) : s \in S} = {f[s] : s \in S}
    OBVIOUS
  <1>2. IsFiniteSet({f[s] : s \in S})
    <2>1. IsFiniteSet(S)
      BY PaydayAssumption, FS_Subset
    <2> HIDE DEF f
    <2> QED BY <2>1, FiniteImage
  <1>3. \A s \in S : LedgerDrop(st, s).points \in Nat /\ LedgerDrop(st, s).at \in Nat
    BY DropOf
  <1> HIDE DEF f
  <1> QED BY <1>1, <1>2, <1>3 DEF Countable

\* The earliest drop of a trip's day.
Anchor(group) == Min({d.at : d \in group})

\* The drops of a day's group, and its anchor, the earliest of them.
LEMMA GroupFacts ==
    ASSUME NEW st, Scorable(st), NEW t \in Trips, trip[t].status # "pending",
           NEW group \in DayGroups(st, t)
    PROVE  /\ Countable(group) /\ group # {} /\ group \subseteq EarnedDrops(st, t)
           /\ \A d \in group : /\ d.stop \in StopsOf(t) /\ Earns(st, d.stop)
                               /\ d = LedgerDrop(st, d.stop) /\ d.at = PayInstant(st, d.stop)
                               /\ DayOf(d.at) = DayOf(Anchor(group)) /\ Anchor(group) <= d.at
           /\ Anchor(group) \in Nat
           /\ \E d \in group : d.at = Anchor(group)
           /\ group = {e \in EarnedDrops(st, t) : DayOf(e.at) = DayOf(Anchor(group))}
  <1> DEFINE earned == {s \in StopsOf(t) : Earns(st, s)}
             drops == {LedgerDrop(st, s) : s \in earned}
             ats == {d.at : d \in group}
  <1>1. EarnedDrops(st, t) = drops
    BY DEF EarnedDrops
  <1>2. earned \in SUBSET Stops /\ \A s \in earned : TripOf[s] = t
    BY DEF StopsOf
  <1>3. Countable(drops)
    <2> HIDE DEF earned
    <2> QED BY <1>2, DropsCountable
  <1>4. PICK first \in drops : group = {e \in drops : DayOf(e.at) = DayOf(first.at)}
    BY <1>1 DEF DayGroups
  <1>5. group \subseteq drops /\ group # {} /\ Countable(group)
    <2>1. group \in SUBSET drops /\ first \in group
      BY <1>4
    <2>2. IsFiniteSet(group)
      BY <1>3, <2>1, FS_Subset DEF Countable
    <2> QED BY <1>3, <2>1, <2>2 DEF Countable
  <1>6. \A d \in drops : /\ d.stop \in StopsOf(t) /\ Earns(st, d.stop)
                         /\ d = LedgerDrop(st, d.stop) /\ d.at = PayInstant(st, d.stop)
    <2>1. TAKE d \in drops
    <2>2. PICK s \in earned : d = LedgerDrop(st, s)
      OBVIOUS
    <2>3. d.stop = s /\ (Earns(st, s) => d.at = PayInstant(st, s))
      BY <1>2, <2>2, DropOf
    <2> QED BY <2>2, <2>3
  <1>7. ats \in SUBSET Nat /\ ats # {}
    BY <1>5 DEF Countable
  <1>8. Anchor(group) \in ats /\ \A at \in ats : Anchor(group) <= at
    <2>1. Anchor(group) = Min(ats)
      BY DEF Anchor
    <2> HIDE DEF ats
    <2> QED BY <1>7, <2>1, LeastOf
  <1>9. PICK d \in group : d.at = Anchor(group)
    BY <1>8
  <1>10. DayOf(d.at) = DayOf(first.at)
    BY <1>4
  <1>11. /\ group = {e \in drops : DayOf(e.at) = DayOf(Anchor(group))}
         /\ \A e \in group : DayOf(e.at) = DayOf(Anchor(group)) /\ Anchor(group) <= e.at
    BY <1>4, <1>8, <1>9, <1>10
  <1>12. Anchor(group) \in Nat
    BY <1>7, <1>8
  <1> HIDE DEF drops, earned, ats
  <1> QED BY <1>1, <1>5, <1>6, <1>9, <1>11, <1>12

\* The drops before an instant, on his other trips of the pool: each is of a stop
\* in the ledger, and sorts before the instant.
LEMMA PriorFacts ==
    ASSUME NEW st, Scorable(st), NEW t \in Trips, NEW anchor \in Nat
    PROVE  /\ Countable(PriorDrops(st, t, anchor))
           /\ \A p \in PriorDrops(st, t, anchor) :
                 /\ p.stop \in Stops \ StopsOf(t) /\ p = LedgerDrop(st, p.stop)
                 /\ p.zone = ZoneOf[p.stop] /\ p.at < anchor
                 /\ PoolOf(p.stop) = trip[t].pool
                 /\ trip[TripOf[p.stop]].status \in LedgerStatuses
                 /\ InLedger(st, p.stop)
                 /\ DayOf(PayInstant(st, p.stop)) = DayOf(anchor)
                 /\ PayInstant(st, p.stop) < anchor
  <1> DEFINE before == {u \in Stops \ StopsOf(t) :
                /\ PoolOf(u) = trip[t].pool
                /\ trip[TripOf[u]].status \in LedgerStatuses
                /\ InLedger(st, u)
                /\ DayOf(PayInstant(st, u)) = DayOf(anchor)
                /\ PayInstant(st, u) < anchor}
  <1>1. PriorDrops(st, t, anchor) = {LedgerDrop(st, s) : s \in before}
    BY DEF PriorDrops
  <1>2. before \in SUBSET Stops /\ \A s \in before : trip[TripOf[s]].status # "pending"
    BY DEF LedgerStatuses
  <1>3. Countable({LedgerDrop(st, s) : s \in before})
    <2> HIDE DEF before
    <2> QED BY <1>2, DropsCountable
  <1>4. ASSUME NEW p \in PriorDrops(st, t, anchor)
        PROVE  p.stop \in before /\ p = LedgerDrop(st, p.stop) /\ p.zone = ZoneOf[p.stop] /\ p.at < anchor
    <2>1. PICK s \in before : p = LedgerDrop(st, s)
      BY <1>1
    <2>2. /\ p.stop = s /\ p.zone = ZoneOf[s] /\ p.at \in Nat
          /\ PayInstant(st, s) \in Nat /\ p.at <= PayInstant(st, s)
      BY <1>2, <2>1, DropOf
    <2>3. PayInstant(st, s) < anchor
      OBVIOUS
    <2>4. p.at < anchor
      BY <2>2, <2>3
    <2> QED BY <2>1, <2>2, <2>4
  <1> QED BY <1>1, <1>3, <1>4

\* The ledger of a group's day comes before the group.
LEMMA PriorOfGroup ==
    ASSUME NEW st, Scorable(st), NEW t \in Trips, trip[t].status # "pending",
           NEW group \in DayGroups(st, t)
    PROVE  /\ Prior(st, t, group) = PriorDrops(st, t, Anchor(group))
           /\ Countable(group) /\ Countable(Prior(st, t, group))
           /\ \A p \in Prior(st, t, group), d \in group : p.at < d.at
  <1>1. Prior(st, t, group) = PriorDrops(st, t, Anchor(group))
    BY DEF Prior, Anchor
  <1>2. /\ Countable(group) /\ Anchor(group) \in Nat
        /\ \A d \in group : Anchor(group) <= d.at /\ d.at \in Nat
    BY GroupFacts DEF Countable
  <1>3. /\ Countable(PriorDrops(st, t, Anchor(group)))
        /\ \A p \in PriorDrops(st, t, Anchor(group)) : p.at < Anchor(group) /\ p.at \in Nat
    BY <1>2, PriorFacts DEF Countable
  <1> QED BY <1>1, <1>2, <1>3

\* A trip has finitely many days.
LEMMA GroupsFinite ==
    ASSUME NEW st, NEW t \in Trips
    PROVE  IsFiniteSet(DayGroups(st, t)) /\ IsFiniteSet(EarnedDrops(st, t))
  <1> DEFINE earned == {s \in StopsOf(t) : Earns(st, s)}
             f == [s \in earned |-> LedgerDrop(st, s)]
             drops == EarnedDrops(st, t)
             g == [d \in drops |-> {e \in drops : DayOf(e.at) = DayOf(d.at)}]
  <1>1. IsFiniteSet(earned)
    BY PaydayAssumption, FS_Subset DEF StopsOf
  <1>2. drops = {f[s] : s \in earned}
    BY DEF EarnedDrops
  <1>3. IsFiniteSet(drops)
    <2> HIDE DEF earned, f, drops
    <2> QED BY <1>1, <1>2, FiniteImage
  <1>4. DayGroups(st, t) = {g[d] : d \in drops}
    BY DEF DayGroups
  <1>5. IsFiniteSet(DayGroups(st, t))
    <2> HIDE DEF g, drops
    <2> QED BY <1>3, <1>4, FiniteImage
  <1> QED BY <1>3, <1>5

\* Rates an assignment fixes.
Rates == Tariff \cup {PlantRates}

\* Every rate of a trip's rates is a number.
LEMMA RatesType == ASSUME NEW rates \in Rates, NEW f \in Fields PROVE rates[f] \in Nat
  BY PaydayAssumption DEF Rates, Tariff

\* What a trip is paid for a day, and what it is not.
LEMMA GroupPay ==
    ASSUME NEW st, Scorable(st), NEW t \in Trips, trip \in [Trips -> Trip],
           trip[t].status # "pending", trip[t].rates \in Rates,
           NEW group \in DayGroups(st, t)
    PROVE  LET prior == Prior(st, t, group)
               paid == PaidPoints(st, t, group)
               kept == Deducted(group, prior, trip[t].rates["deduction"])
           IN /\ paid \in Nat /\ kept \in Nat
              /\ Added(group, prior) = paid + kept
              /\ Halves(trip[t].pool, paid) \in paid .. 2 * paid
              /\ Rate(st, t, group) \in Nat
              /\ Rate(st, t, group) \in {trip[t].rates["weekday"], trip[t].rates["offpeak"]}
  <1> DEFINE prior == Prior(st, t, group)
             deduction == trip[t].rates["deduction"]
  <1>1. /\ deduction \in Nat /\ trip[t].rates["weekday"] \in Nat
        /\ trip[t].rates["offpeak"] \in Nat
    BY PaydayAssumption, RatesType
  <1>2. Countable(group) /\ Countable(prior) /\ \A p \in prior, d \in group : p.at < d.at
    BY PriorOfGroup
  <1>3. /\ Marginal(group, prior, deduction) \in Nat
        /\ Deducted(group, prior, deduction) \in Nat
        /\ Added(group, prior) = Marginal(group, prior, deduction) + Deducted(group, prior, deduction)
    <2> HIDE DEF prior, deduction
    <2> QED BY <1>1, <1>2, MarginalWithin
  <1>4. PaidPoints(st, t, group) = Marginal(group, prior, deduction)
    BY DEF PaidPoints
  <1>5. Rate(st, t, group) \in {trip[t].rates["weekday"], trip[t].rates["offpeak"]}
    BY DEF Rate
  <1> HIDE DEF prior, deduction
  <1>6. Halves(trip[t].pool, PaidPoints(st, t, group))
            \in PaidPoints(st, t, group) .. 2 * PaidPoints(st, t, group)
    BY <1>3, <1>4 DEF Halves
  <1> QED BY <1>1, <1>3, <1>4, <1>5, <1>6 DEF prior, deduction

\* The proposal and its breakdown are numbers.
LEMMA ProposalType ==
    ASSUME NEW st, Scorable(st), NEW t \in Trips, trip \in [Trips -> Trip],
           trip[t].status # "pending", trip[t].rates \in Rates
    PROVE  /\ Incentive(st, t) \in Nat /\ DeductedPoints(st, t) \in Nat
           /\ Shortfall(st, t) \in Nat /\ SingleTier(st, t) \in BOOLEAN \cup {None}
  <1> DEFINE groups == DayGroups(st, t)
             amount == [g \in groups |-> Halves(trip[t].pool, PaidPoints(st, t, g)) * Rate(st, t, g)]
             kept == [g \in groups |-> Deducted(g, Prior(st, t, g), trip[t].rates["deduction"])]
             short == [g \in groups |->
                          2 * PaidPoints(st, t, g) - Halves(trip[t].pool, PaidPoints(st, t, g))]
  <1>1. IsFiniteSet(groups)
    BY GroupsFinite
  <1>2. \A g \in groups : amount[g] \in Nat /\ kept[g] \in Nat /\ short[g] \in Nat
    <2>1. TAKE g \in groups
    <2> DEFINE p == PaidPoints(st, t, g)
               h == Halves(trip[t].pool, p)
               r == Rate(st, t, g)
    <2>2. p \in Nat /\ h \in p .. 2 * p /\ r \in Nat
          /\ Deducted(g, Prior(st, t, g), trip[t].rates["deduction"]) \in Nat
      BY GroupPay
    <2>3. h * r \in Nat /\ 2 * p - h \in Nat
      <3> HIDE DEF p, h, r
      <3> QED BY <2>2
    <2> QED BY <2>2, <2>3
  <1>3. /\ Incentive(st, t) = SumFunctionOnSet(amount, groups)
        /\ DeductedPoints(st, t) = SumFunctionOnSet(kept, groups)
        /\ Shortfall(st, t) = SumFunctionOnSet(short, groups)
    BY DEF Incentive, DeductedPoints, Shortfall, SumFunction
  <1>4. /\ SumFunctionOnSet(amount, groups) \in Nat /\ SumFunctionOnSet(kept, groups) \in Nat
        /\ SumFunctionOnSet(short, groups) \in Nat
    <2> HIDE DEF amount, kept, short, groups
    <2> QED BY <1>1, <1>2, TotalNat
  <1>5. SingleTier(st, t) \in BOOLEAN \cup {None}
    BY DEF SingleTier
  <1> QED BY <1>3, <1>4, <1>5

\* Awards change nothing else about the stops.
LEMMA AwardedType ==
    ASSUME NEW st \in [Stops -> Stop], NEW t \in Trips
    PROVE  /\ Awarded(st, t) \in [Stops -> Stop]
           /\ \A s \in Stops :
                 \/ Awarded(st, t)[s] = st[s]
                 \/ \E award \in {"first", "repeat"} : Awarded(st, t)[s] = [st[s] EXCEPT !.award = award]
  <1>1. \A s \in Stops :
           \/ Awarded(st, t)[s] = st[s]
           \/ \E award \in {"first", "repeat"} : Awarded(st, t)[s] = [st[s] EXCEPT !.award = award]
    BY DEF Awarded
  <1>2. \A s \in Stops : Awarded(st, t)[s] \in Stop
    <2>1. TAKE s \in Stops
    <2>2. st[s] \in Stop
      OBVIOUS
    <2>3. \A award \in {"first", "repeat"} : [st[s] EXCEPT !.award = award] \in Stop
      BY <2>2 DEF Stop
    <2> QED BY <1>1, <2>2, <2>3
  <1>3. Awarded(st, t) = [s \in Stops |-> Awarded(st, t)[s]]
    BY DEF Awarded
  <1> QED BY <1>1, <1>2, <1>3

-----------------------------------------------------------------------------
(* The types, and how the records go together.                             *)

\* The statuses of a trip with a proposal.
Finished == {"pending_approval", "completed"}

\* An instant that is null, or a tap of this day or one before.
Tapped(at, now) == at = 0 \/ at \in TapsADay + 1 .. now

\* The instants of a stop go with its status.
Stamped(st, now, s) ==
    /\ Tapped(st[s].arrivedAt, now) /\ Tapped(st[s].deliveredAt, now)
    /\ st[s].status = "delivered" <=> st[s].deliveredAt # 0
    /\ st[s].status = "pending" => st[s].arrivedAt = 0

\* A trip that was assigned has its rates and points; one that is finished has its
\* proposal, and no other has; and one that has not been out has no taps.
Filed(t) ==
    /\ trip[t].status # "pending" =>
          trip[t].rates \in Rates /\ \A s \in StopsOf(t) : stop[s].zonePoints \in Values
    /\ trip[t].earned # None <=> trip[t].status \in Finished
    /\ trip[t].status \in {"pending", "assigned"} =>
          \A s \in StopsOf(t) : stop[s].status = "pending"

\* The stops with an award are those of finished trips that earned, then or now.
AwardStands(s) ==
    /\ stop[s].award # "none" =>
          trip[TripOf[s]].status \in Finished /\ PayInstant(stop, s) # 0
    /\ trip[TripOf[s]].status \in Finished /\ Earns(stop, s) => stop[s].award # "none"

\* How the ledger's records go together, in every state.
BooksInv ==
    /\ \A s \in Stops : Stamped(stop, At(taps), s) /\ AwardStands(s)
    /\ \A t \in Trips : Filed(t)

\* The inductive invariant the types rest on.
LedgerInv == RatesInv /\ TypeOK /\ BooksInv

\* The instants of a day's taps.
LEMMA TapInstants ==
    ASSUME RatesTypeOK, taps \in 0 .. TapsADay
    PROVE  /\ \A n \in 0 .. TapsADay : At(n) \in Instant /\ At(n) \in Nat /\ At(n) >= TapsADay + 1
           /\ \A n \in Nat : At(n) < At(n + 1)
           /\ At(taps) \in Nat
           /\ \A n \in Nat : n > 0 => At(n) # 0
  <1>1. today \in Nat /\ today >= 1 /\ today <= LastDay /\ LastDay \in Nat /\ TapsADay \in Nat
    BY RatesAssumption, PaydayAssumption DEF RatesTypeOK, Day
  <1>2. \A n \in 0 .. TapsADay :
           /\ today * (TapsADay + 1) + n \in Nat
           /\ today * (TapsADay + 1) + n >= TapsADay + 1
           /\ today * (TapsADay + 1) + n <= (LastDay + 1) * (TapsADay + 1)
    <2>1. TAKE n \in 0 .. TapsADay
    <2> DEFINE k == TapsADay + 1
    <2>2. k \in Nat /\ n \in Nat /\ n < k /\ k >= 1
      BY <1>1
    <2> HIDE DEF k
    <2>3. today * k <= LastDay * k /\ k <= today * k
      BY <1>1, <2>2
    <2>4. (LastDay + 1) * k = LastDay * k + k /\ today * k \in Nat /\ LastDay * k \in Nat
      BY <1>1, <2>2
    <2>5. today * k + n \in Nat /\ today * k + n >= k /\ today * k + n <= (LastDay + 1) * k
      BY <2>2, <2>3, <2>4
    <2> QED BY <2>5 DEF k
  <1>3. \A n \in Nat : At(n) < At(n + 1) /\ (n > 0 => At(n) # 0)
    BY <1>1 DEF At
  <1>4. \A n \in 0 .. TapsADay : At(n) \in Instant /\ At(n) \in Nat /\ At(n) >= TapsADay + 1
    BY <1>2 DEF At, Instant
  <1> QED BY <1>3, <1>4

\* The day of a tap is a day.
LEMMA InstantDay ==
    ASSUME NEW now \in Day, NEW n \in 0 .. TapsADay, NEW last, last = now * (TapsADay + 1) + n,
           NEW at, Tapped(at, last), at # 0
    PROVE  DayOf(at) \in 1 .. now /\ DayOf(at) \in Day
  <1>1. now \in Nat /\ now <= LastDay /\ LastDay \in Nat /\ TapsADay \in Nat /\ now >= 1
    BY RatesAssumption, PaydayAssumption DEF Day
  <1> DEFINE k == TapsADay + 1
  <1>2. k \in Nat /\ k > 0 /\ n \in 0 .. k - 1
    BY <1>1
  <1>3. at \in Nat /\ k <= at /\ at <= now * k + n
    BY <1>1, <1>2 DEF Tapped
  <1>4. DayOf(at) = at \div k
    BY DEF DayOf
  <1> HIDE DEF k
  <1>5. (now * k + n) \div k = now
    BY <1>1, <1>2
  <1>6. at \div k <= now /\ at \div k >= 1 /\ at \div k \in Nat
    <2>1. now * k + n \in Nat
      BY <1>1, <1>2
    <2>2. at \div k <= (now * k + n) \div k
      BY <1>2, <1>3, <2>1
    <2>3. k \div k = 1 /\ k \div k <= at \div k
      BY <1>2, <1>3
    <2>4. at \div k \in Nat
      BY <1>2, <1>3
    <2> QED BY <1>5, <2>2, <2>3, <2>4
  <1> QED BY <1>1, <1>4, <1>6 DEF Day

\* The day of an instant that is not null, in a state.
LEMMA TapDay ==
    ASSUME RatesTypeOK, taps \in 0 .. TapsADay, NEW at, Tapped(at, At(taps)), at # 0
    PROVE  DayOf(at) \in 1 .. today /\ DayOf(at) \in Day
  <1>1. today \in Day /\ At(taps) = today * (TapsADay + 1) + taps
    BY DEF RatesTypeOK, At
  <1> QED BY <1>1, InstantDay

\* What a step that sends a trip on may have done to the stops before: only the
\* status, taps and verdict of its own stops are new.
Touched(t, st) ==
    /\ st \in [Stops -> Stop]
    /\ \A s \in Stops : st[s].zonePoints = stop[s].zonePoints /\ st[s].award = stop[s].award
    /\ \A s \in Stops \ StopsOf(t) : st[s] = stop[s]

\* A trip's stops that earn have an instant.
LEMMA EarnsTapped ==
    ASSUME NEW st, NEW now, NEW s \in Stops, Stamped(st, now, s), Earns(st, s)
    PROVE  PayInstant(st, s) # 0
  BY DEF Stamped, Earns, Adjudicated, PayInstant

\* Awards leave statuses, instants and what earns alone.
LEMMA AwardsOnly ==
    ASSUME NEW st \in [Stops -> Stop], NEW t \in Trips, NEW s \in Stops
    PROVE  LET aw == Awarded(st, t)
           IN /\ aw[s].status = st[s].status /\ aw[s].verdict = st[s].verdict
              /\ aw[s].arrivedAt = st[s].arrivedAt /\ aw[s].deliveredAt = st[s].deliveredAt
              /\ aw[s].zonePoints = st[s].zonePoints
              /\ PayInstant(aw, s) = PayInstant(st, s) /\ (Earns(aw, s) <=> Earns(st, s))
              /\ IF s \in StopsOf(t) /\ Earns(st, s) THEN aw[s].award \in {"first", "repeat"}
                 ELSE aw[s] = st[s]
  <1> DEFINE aw == Awarded(st, t)
  <1>1. st[s] \in Stop
    OBVIOUS
  <1>2. IF s \in StopsOf(t) /\ Earns(st, s)
        THEN \E award \in {"first", "repeat"} : aw[s] = [st[s] EXCEPT !.award = award]
        ELSE aw[s] = st[s]
    BY DEF Awarded
  <1>3. /\ aw[s].status = st[s].status /\ aw[s].verdict = st[s].verdict
        /\ aw[s].arrivedAt = st[s].arrivedAt /\ aw[s].deliveredAt = st[s].deliveredAt
        /\ aw[s].zonePoints = st[s].zonePoints
        /\ IF s \in StopsOf(t) /\ Earns(st, s) THEN aw[s].award \in {"first", "repeat"}
           ELSE aw[s] = st[s]
    <2> HIDE DEF aw
    <2> QED BY <1>1, <1>2 DEF Stop
  <1> HIDE DEF aw
  <1>4. PayInstant(aw, s) = PayInstant(st, s) /\ (Earns(aw, s) <=> Earns(st, s))
    BY <1>3 DEF PayInstant, Earns, Adjudicated
  <1> QED BY <1>3, <1>4 DEF aw

\* The stops of a trip that is sent on can be scored.
LEMMA TouchedScorable ==
    ASSUME BooksInv, NEW t \in Trips, NEW st, Touched(t, st)
    PROVE  Scorable(st)
  <1>1. \A s \in Stops : trip[TripOf[s]].status # "pending" => stop[s].zonePoints \in Values
    BY PaydayAssumption DEF BooksInv, Filed, StopsOf
  <1> QED BY <1>1 DEF Touched, Scorable

\* The trip and its stops after it is proposed, or sent on without a proposal.
LEMMA BecomesTrip ==
    ASSUME LedgerInv, NEW t \in Out, NEW st, Touched(t, st),
           NEW status \in {"in_progress", "pending_approval", "cancelled"}, Becomes(t, st, status)
    PROVE  /\ trip' \in [Trips -> Trip]
           /\ trip'[t].status = status /\ trip'[t].rates = trip[t].rates /\ trip'[t].pool = trip[t].pool
           /\ trip'[t].earned # None <=> status = "pending_approval"
           /\ \A u \in Trips \ {t} : trip'[u] = trip[u]
  <1>1. trip \in [Trips -> Trip] /\ t \in Trips /\ trip[t].status = "in_progress"
    BY DEF LedgerInv, TypeOK, Out
  <1>2. trip[t].rates \in Rates /\ trip[t].earned = None
    BY <1>1 DEF LedgerInv, BooksInv, Filed, Finished
  <1>3. CASE status = "pending_approval"
    <2>1. Scorable(st)
      BY <1>1, TouchedScorable DEF LedgerInv
    <2>2. /\ Incentive(st, t) \in Nat /\ DeductedPoints(st, t) \in Nat
          /\ Shortfall(st, t) \in Nat /\ SingleTier(st, t) \in BOOLEAN \cup {None}
      BY <1>1, <1>2, <2>1, ProposalType
    <2> DEFINE a == Incentive(st, t)
               b == SingleTier(st, t)
               c == DeductedPoints(st, t)
               d == Shortfall(st, t)
    <2>3. trip' = [trip EXCEPT ![t].status = "pending_approval", ![t].earned = a, ![t].offpeak = b,
                               ![t].deducted = c, ![t].shortfall = d]
      BY <1>3 DEF Becomes
    <2>4. a \in Nat /\ a # None /\ c \in Nat /\ d \in Nat /\ b \in BOOLEAN \cup {None}
      BY <2>2, PaydayAssumption
    <2> HIDE DEF a, b, c, d
    <2>5. trip[t] \in Trip
      BY <1>1
    <2>6. trip'[t] \in Trip
      BY <1>1, <2>3, <2>4, <2>5 DEF Trip
    <2>7. trip' \in [Trips -> Trip] /\ \A u \in Trips \ {t} : trip'[u] = trip[u]
      BY <1>1, <2>3, <2>6
    <2>8. trip'[t].status = status /\ trip'[t].rates = trip[t].rates /\ trip'[t].pool = trip[t].pool
          /\ trip'[t].earned = a
      BY <1>1, <1>3, <2>3, <2>5 DEF Trip
    <2> QED BY <1>3, <2>4, <2>7, <2>8
  <1>4. CASE status # "pending_approval"
    <2>1. trip' = [trip EXCEPT ![t].status = status]
      BY <1>4 DEF Becomes
    <2>2. trip[t] \in Trip
      BY <1>1
    <2>3. trip'[t] \in Trip
      BY <1>1, <2>1, <2>2 DEF Trip
    <2>4. trip'[t].status = status /\ trip'[t].rates = trip[t].rates /\ trip'[t].pool = trip[t].pool
          /\ trip'[t].earned = trip[t].earned
      BY <1>1, <2>1, <2>2 DEF Trip
    <2> QED BY <1>1, <1>2, <1>4, <2>1, <2>3, <2>4
  <1> QED BY <1>3, <1>4

\* The books after it, if the stops' instants are in order.
LEMMA BecomesBooks ==
    ASSUME LedgerInv, NEW t \in Out, NEW st, Touched(t, st), NEW now \in Nat,
           \A s \in Stops : Stamped(st, now, s),
           NEW status \in {"in_progress", "pending_approval", "cancelled"}, Becomes(t, st, status)
    PROVE  /\ trip' \in [Trips -> Trip] /\ stop' \in [Stops -> Stop]
           /\ \A s \in Stops : Stamped(stop, now, s)' /\ AwardStands(s)'
           /\ \A u \in Trips : Filed(u)'
  <1>1. /\ trip' \in [Trips -> Trip]
        /\ trip'[t].status = status /\ trip'[t].rates = trip[t].rates
        /\ trip'[t].earned # None <=> status = "pending_approval"
        /\ \A u \in Trips \ {t} : trip'[u] = trip[u]
    BY BecomesTrip
  <1>2. trip \in [Trips -> Trip] /\ t \in Trips /\ trip[t].status = "in_progress"
    BY DEF LedgerInv, TypeOK, Out
  <1>3. st \in [Stops -> Stop]
    BY DEF Touched
  <1>4. stop' = IF status = "pending_approval" THEN Awarded(st, t) ELSE st
    BY DEF Becomes
  <1>5. \A s \in Stops :
           /\ stop'[s].status = st[s].status /\ stop'[s].arrivedAt = st[s].arrivedAt
           /\ stop'[s].deliveredAt = st[s].deliveredAt /\ stop'[s].zonePoints = st[s].zonePoints
           /\ PayInstant(stop', s) = PayInstant(st, s) /\ (Earns(stop', s) <=> Earns(st, s))
           /\ IF status = "pending_approval" /\ s \in StopsOf(t) /\ Earns(st, s)
              THEN stop'[s].award \in {"first", "repeat"} ELSE stop'[s] = st[s]
    BY <1>2, <1>3, <1>4, AwardsOnly
  <1>6. stop' \in [Stops -> Stop]
    BY <1>2, <1>3, <1>4, AwardedType
  <1>7. \A s \in Stops : Stamped(stop, now, s)'
    BY <1>5 DEF Stamped, Tapped
  <1>8. \A s \in Stops : s \in StopsOf(t) <=> TripOf[s] = t
    BY DEF StopsOf
  <1>9. ASSUME NEW s \in Stops
        PROVE  AwardStands(s)'
    <2>1. AwardStands(s)
      BY DEF LedgerInv, BooksInv
    <2>2. CASE s \in StopsOf(t)
      <3>1. st[s].award = "none"
        BY <1>2, <1>8, <2>1, <2>2 DEF AwardStands, Finished, Touched
      <3>2. Earns(st, s) => PayInstant(st, s) # 0
        BY EarnsTapped
      <3>3. TripOf[s] = t
        BY <1>8, <2>2
      <3> QED BY <1>1, <1>5, <2>2, <3>1, <3>2, <3>3 DEF AwardStands, Finished, PayInstant, Earns, Adjudicated
    <2>3. CASE s \notin StopsOf(t)
      <3>1. st[s] = stop[s]
        BY <2>3 DEF Touched
      <3>2. TripOf[s] \in Trips \ {t}
        BY <1>8, <2>3, PaydayAssumption
      <3>3. PayInstant(st, s) = PayInstant(stop, s) /\ (Earns(st, s) <=> Earns(stop, s))
        BY <3>1 DEF PayInstant, Earns, Adjudicated
      <3>4. stop'[s] = stop[s] /\ trip'[TripOf[s]] = trip[TripOf[s]]
        BY <1>1, <1>5, <2>3, <3>1, <3>2
      <3> QED BY <2>1, <3>4 DEF AwardStands, PayInstant, Earns, Adjudicated
    <2> QED BY <2>2, <2>3
  <1>10. ASSUME NEW u \in Trips
         PROVE  Filed(u)'
    <2>1. Filed(u) /\ Filed(t)
      BY <1>2 DEF LedgerInv, BooksInv
    <2>2. \A s \in StopsOf(u) : stop'[s].zonePoints = stop[s].zonePoints
      BY <1>5 DEF StopsOf, Touched
    <2>3. CASE u = t
      BY <1>1, <1>2, <2>1, <2>2, <2>3 DEF Filed, Finished, StopsOf
    <2>4. CASE u # t
      <3>1. trip'[u] = trip[u]
        BY <1>1, <2>4
      <3>2. \A s \in StopsOf(u) : stop'[s] = stop[s]
        <4>1. \A s \in StopsOf(u) : s \in Stops /\ s \notin StopsOf(t)
          BY <2>4 DEF StopsOf
        <4> QED BY <1>5, <4>1 DEF Touched
      <3> QED BY <2>1, <3>1, <3>2 DEF Filed, StopsOf
    <2> QED BY <2>3, <2>4
  <1> QED BY <1>1, <1>6, <1>7, <1>9, <1>10

\* The ledger's part of the type invariant.
LedgerTypeOK ==
    /\ trip \in [Trips -> Trip]
    /\ stop \in [Stops -> Stop]
    /\ taps \in 0 .. TapsADay
    /\ unwound \in BOOLEAN
    /\ exempt \subseteq Day

\* The points on the stops of a finished trip are numbers.
LEMMA PointsType ==
    ASSUME LedgerInv, NEW t \in Trips, trip[t].status # "pending"
    PROVE  /\ \A s \in StopsOf(t) : PointsOf(s) \in Nat
           /\ StoredPoints(t) \in Int
  <1> DEFINE f == [s \in StopsOf(t) |-> PointsOf(s)]
  <1>1. trip[t] \in Trip /\ stop \in [Stops -> Stop]
    BY DEF LedgerInv, TypeOK
  <1>2. \A s \in StopsOf(t) : stop[s].zonePoints \in Nat /\ stop[s] \in Stop
    BY <1>1, PaydayAssumption DEF LedgerInv, BooksInv, Filed, StopsOf
  <1>3. \A s \in StopsOf(t) : PointsOf(s) \in Nat
    BY <1>2 DEF PointsOf, Stop
  <1>4. IsFiniteSet(StopsOf(t))
    BY PaydayAssumption, FS_Subset DEF StopsOf
  <1>5. SumFunctionOnSet(f, StopsOf(t)) \in Nat
    <2> DEFINE T == StopsOf(t)
    <2>1. \A s \in T : f[s] \in Nat
      BY <1>3
    <2> HIDE DEF f, T
    <2>2. SumFunctionOnSet(f, T) \in Nat
      BY <1>4, <2>1, TotalNat DEF T
    <2> QED BY <2>2 DEF T
  <1>6. StoredPoints(t) = 2 * (SumFunctionOnSet(f, StopsOf(t)) - trip[t].deducted) - trip[t].shortfall
    BY DEF StoredPoints, SumFunction
  <1>7. trip[t].deducted \in Nat /\ trip[t].shortfall \in Nat
    BY <1>1 DEF Trip
  <1> DEFINE x == SumFunctionOnSet(f, StopsOf(t))
             d == trip[t].deducted
             h == trip[t].shortfall
  <1>8. 2 * (x - d) - h \in Int
    <2>1. x \in Nat /\ d \in Nat /\ h \in Nat
      BY <1>5, <1>7
    <2> HIDE DEF x, d, h
    <2> QED BY <2>1
  <1> QED BY <1>3, <1>6, <1>8

\* What the rules make of a proposal is an amount.
LEMMA PayableType ==
    ASSUME LedgerInv, NEW t \in Trips, trip[t].status \in Finished
    PROVE  /\ trip[t].earned \in Nat /\ Payable(t) \in Nat /\ Payable(t) <= trip[t].earned
           /\ WeekdayEquivalents(t) \subseteq Nat
  <1> DEFINE proposed == trip[t].earned
             w == trip[t].rates["weekday"]
             o == trip[t].rates["offpeak"]
             stored == StoredPoints(t)
             S == {proposed} \cup WeekdayEquivalents(t)
  <1>1. trip[t] \in Trip /\ trip[t].status # "pending" /\ proposed # None /\ trip[t].rates \in Rates
    BY DEF LedgerInv, TypeOK, BooksInv, Filed, Finished
  <1>2. proposed \in Nat /\ w \in Nat /\ o \in Nat /\ stored \in Int
    BY <1>1, PointsType, RatesType, PaydayAssumption DEF Trip
  <1>3. WeekdayEquivalents(t) =
           IF o = 0 \/ w = 0 THEN {}
           ELSE {p * w : p \in {q \in {stored, 2 * (proposed \div (2 * o))} : q * o = proposed}}
    BY DEF WeekdayEquivalents
  <1> HIDE DEF w, o, stored
  <1>4. WeekdayEquivalents(t) \subseteq Nat
    <2> SUFFICES ASSUME o > 0, w > 0, NEW q \in {stored, 2 * (proposed \div (2 * o))}, q * o = proposed
                 PROVE  q * w \in Nat
      BY <1>2, <1>3
    <2>1. proposed \div (2 * o) \in Int
      BY <1>2
    <2>2. q \in Int
      BY <1>2, <2>1
    <2> HIDE DEF proposed
    <2>3. q >= 0
      BY <1>2, <2>2
    <2> QED BY <1>2, <2>2, <2>3
  <1>5. S \in SUBSET Nat /\ S # {} /\ proposed \in S
    BY <1>2, <1>4
  <1>6. Min(S) \in S /\ Min(S) <= proposed
    <2> HIDE DEF S
    <2> QED BY <1>5, LeastOf
  <1>7. Payable(t) \in {proposed, Min(S)}
    BY DEF Payable
  <1> QED BY <1>2, <1>4, <1>5, <1>6, <1>7

\* The rates do not move while the ledger does.
LEMMA SameDay ==
    ASSUME UNCHANGED rateVars
    PROVE  /\ today' = today /\ \A n \in Nat : At(n)' = At(n)
           /\ At(taps)' = At(taps')
           /\ \A r \in Rows : Effective(r, today)' = Effective(r, today)
  BY DEF rateVars, At, Effective, Matured

\* The rates in force for a row on a day are of a tariff's type.
LEMMA EffectiveType ==
    ASSUME RatesTypeOK, NEW r \in Rows, NEW day
    PROVE  Effective(r, day) \in Tariff
  <1>1. base \in [Rows -> [Fields -> Values]] /\ pending \in [Rows -> [Fields -> Values \cup {None}]]
    BY DEF RatesTypeOK, Tariff, Staged
  <1>2. base[r] \in [Fields -> Values] /\ pending[r] \in [Fields -> Values \cup {None}]
    BY <1>1
  <1>3. Effective(r, day) \in [Fields -> Values]
    BY <1>2 DEF Effective
  <1> QED BY <1>3 DEF Tariff

\* An assignment prices a trip and its stops, and a release takes the prices away.
LEMMA PricingBooks ==
    ASSUME LedgerInv, NEW t \in Trips, UNCHANGED <<rateVars, taps, unwound, exempt>>,
           trip' \in [Trips -> Trip], \A u \in Trips \ {t} : trip'[u] = trip[u],
           trip[t].status \in {"pending", "assigned"}, trip'[t].status \in {"pending", "assigned"},
           trip'[t].earned = trip[t].earned,
           NEW price, \A s \in Stops : price[s] \in Values \cup {None},
           trip'[t].status = "assigned" =>
               trip'[t].rates \in Rates /\ \A s \in Stops : price[s] \in Values,
           stop' = [s \in Stops |-> IF s \notin StopsOf(t) THEN stop[s]
                                    ELSE [stop[s] EXCEPT !.zonePoints = price[s]]]
    PROVE  LedgerTypeOK' /\ BooksInv'
  <1>1. /\ stop \in [Stops -> Stop]
        /\ taps \in 0 .. TapsADay /\ unwound \in BOOLEAN /\ exempt \subseteq Day
    BY DEF LedgerInv, TypeOK
  <1>2. \A s \in Stops :
           /\ stop'[s] \in Stop /\ stop'[s].status = stop[s].status
           /\ stop'[s].arrivedAt = stop[s].arrivedAt /\ stop'[s].deliveredAt = stop[s].deliveredAt
           /\ stop'[s].award = stop[s].award /\ stop'[s].verdict = stop[s].verdict
           /\ stop'[s].zonePoints = IF s \in StopsOf(t) THEN price[s] ELSE stop[s].zonePoints
    <2>1. TAKE s \in Stops
    <2>2. stop[s] \in Stop /\ price[s] \in Values \cup {None}
      BY <1>1
    <2>3. CASE s \in StopsOf(t)
      <3>1. stop'[s] = [stop[s] EXCEPT !.zonePoints = price[s]]
        BY <2>3
      <3> QED BY <2>2, <2>3, <3>1 DEF Stop
    <2>4. CASE s \notin StopsOf(t)
      <3>1. stop'[s] = stop[s]
        BY <2>4
      <3> QED BY <2>2, <2>4, <3>1
    <2> QED BY <2>3, <2>4
  <1>3. LedgerTypeOK'
    BY <1>1, <1>2 DEF LedgerTypeOK, Day
  <1>4. At(taps)' = At(taps)
    BY SameDay
  <1>5. ASSUME NEW s \in Stops PROVE Stamped(stop, At(taps), s)' /\ AwardStands(s)'
    <2>1. Stamped(stop, At(taps), s) /\ AwardStands(s)
      BY DEF LedgerInv, BooksInv
    <2>2. TripOf[s] \in Trips /\ (TripOf[s] # t => trip'[TripOf[s]] = trip[TripOf[s]])
      BY PaydayAssumption
    <2>3. AwardStands(s)'
      BY <1>2, <2>1, <2>2 DEF AwardStands, Finished, PayInstant, Earns, Adjudicated
    <2> QED BY <1>2, <1>4, <2>1, <2>3 DEF Stamped, Tapped
  <1>6. ASSUME NEW u \in Trips PROVE Filed(u)'
    <2>1. Filed(u)
      BY DEF LedgerInv, BooksInv
    <2>2. \A s \in StopsOf(u) : s \in Stops /\ (s \in StopsOf(t) <=> u = t)
      BY DEF StopsOf
    <2>3. CASE u = t
      BY <1>2, <2>1, <2>2, <2>3 DEF Filed, Finished, StopsOf
    <2>4. CASE u # t
      <3>1. trip'[u] = trip[u]
        BY <2>4
      <3> QED BY <1>2, <2>1, <2>2, <2>4, <3>1 DEF Filed, StopsOf
    <2> QED BY <2>3, <2>4
  <1> QED BY <1>3, <1>5, <1>6 DEF BooksInv

\* An assignment fixes rates and points, and nothing was tapped yet.
LEMMA AssignBooks ==
    ASSUME LedgerInv, NEW t \in Trips, Assign(t)
    PROVE  LedgerTypeOK' /\ BooksInv'
  <1> DEFINE price == [s \in Stops |-> Effective(ZoneOf[s], today)["points"]]
  <1>1. /\ trip \in [Trips -> Trip] /\ trip[t] \in Trip /\ RatesTypeOK
    BY DEF LedgerInv, TypeOK
  <1>2. /\ trip' = [trip EXCEPT ![t].status = "assigned", ![t].rates = TruckRateSnapshot(t),
                                ![t].assignedOn = today]
        /\ stop' = [s \in Stops |-> IF s \notin StopsOf(t) THEN stop[s]
                                    ELSE [stop[s] EXCEPT !.zonePoints = price[s]]]
        /\ UNCHANGED <<rateVars, taps, unwound, exempt>>
        /\ trip[t].status \in {"pending", "assigned"}
    BY DEF Assign
  <1>3. TruckRateSnapshot(t) \in Rates /\ today \in 0 .. LastDay
    BY <1>1, EffectiveType, PaydayAssumption, RatesAssumption
       DEF TruckRateSnapshot, Rates, RatesTypeOK, Day
  <1>4. \A s \in Stops : price[s] \in Values
    <2>1. TAKE s \in Stops
    <2>2. Effective(ZoneOf[s], today) \in [Fields -> Values] /\ "points" \in Fields
      BY <1>1, EffectiveType, PaydayAssumption DEF Tariff
    <2> QED BY <2>2
  <1> HIDE DEF price
  <1>5. /\ trip'[t] \in Trip /\ trip'[t].status = "assigned" /\ trip'[t].rates \in Rates
        /\ trip'[t].earned = trip[t].earned
        /\ \A u \in Trips \ {t} : trip'[u] = trip[u]
    BY <1>1, <1>2, <1>3 DEF Trip, Rates
  <1>6. trip' \in [Trips -> Trip]
    BY <1>1, <1>2, <1>5
  <1> QED BY <1>2, <1>4, <1>5, <1>6, PricingBooks

\* A released trip keeps its rates and points; it was not out.
LEMMA ReleaseBooks ==
    ASSUME LedgerInv, NEW t \in Trips, Unassign(t)
    PROVE  LedgerTypeOK' /\ BooksInv'
  <1> DEFINE price == [s \in Stops |-> None]
  <1>1. trip \in [Trips -> Trip] /\ trip[t] \in Trip
    BY DEF LedgerInv, TypeOK
  <1>2. /\ trip' = [trip EXCEPT ![t].status = "pending", ![t].rates = None, ![t].assignedOn = 0]
        /\ stop' = [s \in Stops |-> IF s \notin StopsOf(t) THEN stop[s]
                                    ELSE [stop[s] EXCEPT !.zonePoints = price[s]]]
        /\ UNCHANGED <<rateVars, taps, unwound, exempt>>
        /\ trip[t].status = "assigned"
    BY DEF Unassign
  <1>3. \A s \in Stops : price[s] = None
    OBVIOUS
  <1> HIDE DEF price
  <1>4. 0 \in 0 .. LastDay
    BY RatesAssumption
  <1>5. trip'[t] = [trip[t] EXCEPT !.status = "pending", !.rates = None, !.assignedOn = 0]
        /\ \A u \in Trips \ {t} : trip'[u] = trip[u]
    BY <1>1, <1>2
  <1>6. trip'[t] \in Trip /\ trip'[t].status = "pending" /\ trip'[t].earned = trip[t].earned
    BY <1>1, <1>4, <1>5 DEF Trip
  <1>7. trip' \in [Trips -> Trip]
    BY <1>1, <1>2, <1>6
  <1>8. /\ \A u \in Trips \ {t} : trip'[u] = trip[u]
        /\ trip[t].status \in {"pending", "assigned"} /\ trip'[t].status \in {"pending", "assigned"}
        /\ trip'[t].status # "assigned"
        /\ \A s \in Stops : price[s] \in Values \cup {None}
    BY <1>2, <1>3, <1>5, <1>6
  <1>9. /\ stop' = [s \in Stops |-> IF s \notin StopsOf(t) THEN stop[s]
                                    ELSE [stop[s] EXCEPT !.zonePoints = price[s]]]
        /\ UNCHANGED <<rateVars, taps, unwound, exempt>>
    BY <1>2
  <1> QED BY <1>6, <1>7, <1>8, <1>9, PricingBooks

\* A trip starts, or is approved: its stops stand.
LEMMA StatusBooks ==
    ASSUME LedgerInv, NEW t \in Trips,
           Start(t) \/ \E own \in OwnAmounts \cup {None} : Approve(t, own)
    PROVE  LedgerTypeOK' /\ BooksInv'
  <1>1. /\ trip \in [Trips -> Trip] /\ stop \in [Stops -> Stop] /\ trip[t] \in Trip
        /\ taps \in 0 .. TapsADay /\ unwound \in BOOLEAN /\ exempt \subseteq Day /\ RatesTypeOK
    BY DEF LedgerInv, TypeOK
  <1>2. UNCHANGED <<rateVars, stop, taps, unwound>> /\ exempt' \subseteq Day
    <2>1. \A at \in InstantsOf(t) : DayOf(at) \in Day
      <3>1. ASSUME NEW s \in Stops, NEW at \in {stop[s].arrivedAt, stop[s].deliveredAt}, at # 0
            PROVE  DayOf(at) \in Day
        BY <1>1, <3>1, TapDay DEF LedgerInv, BooksInv, Stamped
      <3> QED BY <3>1 DEF InstantsOf, StopsOf
    <2>2. UNCHANGED <<rateVars, stop, taps, unwound>>
          /\ exempt' \subseteq exempt \cup {DayOf(at) : at \in InstantsOf(t)}
      BY DEF Start, Approve
    <2> QED BY <1>1, <2>1, <2>2
  <1>3. /\ trip' \in [Trips -> Trip]
        /\ trip'[t].earned = trip[t].earned /\ trip'[t].rates = trip[t].rates
        /\ \A u \in Trips \ {t} : trip'[u] = trip[u]
        /\ \/ trip[t].status = "assigned" /\ trip'[t].status = "in_progress"
           \/ trip[t].status = "pending_approval" /\ trip'[t].status = "completed"
    <2>1. CASE Start(t)
      BY <1>1, <2>1 DEF Start, Trip
    <2>2. ASSUME NEW own \in OwnAmounts \cup {None}, Approve(t, own)
          PROVE  <1>3!:
      <3>1. trip[t].status = "pending_approval" /\ Payable(t) \in Nat
        BY <2>2, PayableType DEF Approve, Finished
      <3> DEFINE final == IF own = None THEN Payable(t) ELSE own
                 word == IF final = trip[t].earned THEN "none"
                         ELSE IF own = None THEN "overtime" ELSE "office"
      <3>2. final \in Nat /\ word \in {"none", "overtime", "office"}
        BY <3>1, PaydayAssumption
      <3>3. trip' = [trip EXCEPT ![t].status = "completed", ![t].final = final, ![t].override = word]
        BY <2>2 DEF Approve
      <3> HIDE DEF final, word
      <3> QED BY <1>1, <3>1, <3>2, <3>3 DEF Trip
    <2> QED BY <2>1, <2>2
  <1>4. At(taps)' = At(taps)
    BY <1>2, SameDay
  <1>5. ASSUME NEW s \in Stops PROVE Stamped(stop, At(taps), s)' /\ AwardStands(s)'
    <2>1. Stamped(stop, At(taps), s) /\ AwardStands(s) /\ Filed(t)
      BY DEF LedgerInv, BooksInv
    <2>2. TripOf[s] \in Trips /\ (TripOf[s] # t => trip'[TripOf[s]] = trip[TripOf[s]])
      BY <1>3, PaydayAssumption
    <2>3. AwardStands(s)'
      BY <1>2, <1>3, <2>1, <2>2 DEF AwardStands, Finished, PayInstant, Earns, Adjudicated
    <2> QED BY <1>2, <1>4, <2>1, <2>3 DEF Stamped, Tapped
  <1>6. ASSUME NEW u \in Trips PROVE Filed(u)'
    <2>1. Filed(u)
      BY DEF LedgerInv, BooksInv
    <2> QED BY <1>2, <1>3, <2>1 DEF Filed, Finished, StopsOf
  <1> QED BY <1>1, <1>2, <1>3, <1>5, <1>6 DEF BooksInv, LedgerTypeOK, Day

\* A tap reopens its day, if any.
LEMMA ReopensType ==
    ASSUME LedgerInv, NEW day \in Day, Reopens(day)
    PROVE  exempt' \subseteq Day
  BY DEF Reopens, LedgerInv, TypeOK

\* A tap moves the clock.
LEMMA TapBooks ==
    ASSUME LedgerInv, NEW s \in Stops, Tap(s)
    PROVE  /\ taps' = taps + 1 /\ taps' \in 0 .. TapsADay /\ TripOf[s] \in Out
           /\ At(taps)' = At(taps + 1) /\ At(taps + 1) \in Instant /\ At(taps + 1) \in Nat
           /\ At(taps) < At(taps + 1) /\ At(taps + 1) >= TapsADay + 1 /\ At(taps + 1) # 0
           /\ unwound' \in BOOLEAN /\ exempt' \subseteq Day
           /\ \A u \in Stops : Stamped(stop, At(taps), u) => Stamped(stop, At(taps + 1), u)
  <1>1. /\ RatesTypeOK /\ taps \in 0 .. TapsADay /\ unwound \in BOOLEAN /\ TapsADay \in Nat
        /\ today \in Day
    BY PaydayAssumption DEF LedgerInv, TypeOK, RatesTypeOK
  <1>2. /\ TripOf[s] \in Out /\ taps < TapsADay /\ taps' = taps + 1 /\ Reopens(today)
        /\ UNCHANGED <<rateVars, unwound>>
    BY DEF Tap
  <1>3. taps + 1 \in 0 .. TapsADay /\ taps \in Nat /\ taps + 1 \in Nat
    BY <1>1, <1>2
  <1>4. /\ At(taps + 1) \in Instant /\ At(taps + 1) \in Nat /\ At(taps + 1) >= TapsADay + 1
        /\ At(taps) < At(taps + 1) /\ At(taps) \in Nat
    BY <1>1, <1>3, TapInstants
  <1>5. At(taps)' = At(taps + 1)
    BY <1>2, SameDay
  <1>6. At(taps + 1) # 0
    BY <1>1, <1>4
  <1>7. exempt' \subseteq Day
    BY <1>1, <1>2, ReopensType
  <1>8. \A at : Tapped(at, At(taps)) => Tapped(at, At(taps + 1))
    BY <1>1, <1>4 DEF Tapped
  <1>9. \A u \in Stops : Stamped(stop, At(taps), u) => Stamped(stop, At(taps + 1), u)
    BY <1>8 DEF Stamped
  <1> QED BY <1>1, <1>2, <1>3, <1>4, <1>5, <1>6, <1>7, <1>9

\* An arrival stamps one stop.
LEMMA ArriveBooks ==
    ASSUME LedgerInv, NEW s \in Stops, Arrive(s)
    PROVE  LedgerTypeOK' /\ BooksInv'
  <1> DEFINE now == At(taps + 1)
  <1>1. /\ taps' \in 0 .. TapsADay /\ TripOf[s] \in Out
        /\ At(taps)' = now /\ now \in Instant /\ now \in Nat /\ now >= TapsADay + 1 /\ now # 0
        /\ unwound' \in BOOLEAN /\ exempt' \subseteq Day
        /\ \A u \in Stops : Stamped(stop, At(taps), u) => Stamped(stop, now, u)
    BY TapBooks DEF Arrive
  <1>2. /\ stop' = [stop EXCEPT ![s].status = "arrived", ![s].arrivedAt = now]
        /\ trip' = trip /\ stop[s].status = "pending" /\ trip \in [Trips -> Trip]
        /\ stop \in [Stops -> Stop] /\ stop[s] \in Stop
    BY DEF Arrive, LedgerInv, TypeOK
  <1> HIDE DEF now
  <1>3. /\ stop'[s] = [stop[s] EXCEPT !.status = "arrived", !.arrivedAt = now]
        /\ \A u \in Stops \ {s} : stop'[u] = stop[u]
    BY <1>2
  <1>4. /\ stop'[s] \in Stop /\ stop'[s].status = "arrived" /\ stop'[s].arrivedAt = now
        /\ stop'[s].deliveredAt = stop[s].deliveredAt /\ stop'[s].award = stop[s].award
        /\ stop'[s].zonePoints = stop[s].zonePoints
    BY <1>1, <1>2, <1>3 DEF Stop
  <1>5. stop' \in [Stops -> Stop]
    BY <1>2, <1>4
  <1>6. ASSUME NEW u \in Stops PROVE Stamped(stop, At(taps), u)' /\ AwardStands(u)'
    <2>1. Stamped(stop, now, u) /\ AwardStands(u)
      BY <1>1 DEF LedgerInv, BooksInv
    <2>2. CASE u = s
      <3>1. trip[TripOf[s]].status = "in_progress"
        BY <1>1 DEF Out
      <3>2. AwardStands(s)'
        BY <1>2, <1>4, <2>1, <2>2, <3>1 DEF AwardStands, Finished
      <3>3. Tapped(now, now)
        BY <1>1 DEF Tapped
      <3>4. Stamped(stop', now, s)
        BY <1>2, <1>4, <2>1, <2>2, <3>3 DEF Stamped
      <3> QED BY <1>1, <2>2, <3>2, <3>4 DEF Stamped, Tapped
    <2>3. CASE u # s
      <3>1. stop'[u] = stop[u]
        BY <1>3, <2>3
      <3> QED BY <1>1, <1>2, <2>1, <3>1 DEF Stamped, Tapped, AwardStands, PayInstant, Earns, Adjudicated
    <2> QED BY <2>2, <2>3
  <1>7. ASSUME NEW u \in Trips PROVE Filed(u)'
    <2>1. Filed(u)
      BY DEF LedgerInv, BooksInv
    <2>2. \A v \in Stops : stop'[v].zonePoints = stop[v].zonePoints /\ (v # s => stop'[v] = stop[v])
      BY <1>3, <1>4
    <2>3. s \in StopsOf(u) => trip[u].status = "in_progress"
      BY <1>1 DEF Out, StopsOf
    <2> QED BY <1>2, <2>1, <2>2, <2>3 DEF Filed, StopsOf
  <1> QED BY <1>1, <1>2, <1>5, <1>6, <1>7 DEF LedgerTypeOK, BooksInv, Day

\* He is out with the trip: it is his, and it goes on with its stops as they are now.
LEMMA ConcludeBooks ==
    ASSUME LedgerInv, NEW t \in Out, NEW st, Touched(t, st), NEW now \in Nat,
           \A s \in Stops : Stamped(st, now, s),
           \E status \in {"in_progress", "pending_approval", "cancelled"} : Becomes(t, st, status),
           At(taps)' = now, taps' \in 0 .. TapsADay, unwound' \in BOOLEAN, exempt' \subseteq Day
    PROVE  LedgerTypeOK' /\ BooksInv'
  <1>1. /\ trip' \in [Trips -> Trip] /\ stop' \in [Stops -> Stop]
        /\ \A s \in Stops : Stamped(stop, now, s)' /\ AwardStands(s)'
        /\ \A u \in Trips : Filed(u)'
    BY BecomesBooks
  <1>2. \A s \in Stops : Stamped(stop, At(taps), s)'
    BY <1>1 DEF Stamped, Tapped
  <1> QED BY <1>1, <1>2 DEF LedgerTypeOK, BooksInv, Day

\* A delivery stamps one stop, and may send its trip for approval.
LEMMA DeliverBooks ==
    ASSUME LedgerInv, NEW s \in Stops, Deliver(s)
    PROVE  LedgerTypeOK' /\ BooksInv'
  <1> DEFINE now == At(taps + 1)
             st == [stop EXCEPT ![s].status = "delivered", ![s].deliveredAt = now]
             t == TripOf[s]
  <1>1. /\ taps' \in 0 .. TapsADay /\ t \in Out
        /\ At(taps)' = now /\ now \in Instant /\ now \in Nat /\ now >= TapsADay + 1 /\ now # 0
        /\ unwound' \in BOOLEAN /\ exempt' \subseteq Day
        /\ \A u \in Stops : Stamped(stop, At(taps), u) => Stamped(stop, now, u)
    BY TapBooks DEF Deliver
  <1>2. \E status \in {"in_progress", "pending_approval", "cancelled"} : Becomes(t, st, status)
    BY DEF Deliver, Conclude
  <1>3. stop \in [Stops -> Stop] /\ stop[s] \in Stop
    BY DEF LedgerInv, TypeOK
  <1> HIDE DEF now
  <1>4. /\ st[s] = [stop[s] EXCEPT !.status = "delivered", !.deliveredAt = now]
        /\ \A u \in Stops \ {s} : st[u] = stop[u]
    BY <1>3
  <1>5. /\ st[s] \in Stop /\ st[s].status = "delivered" /\ st[s].deliveredAt = now
        /\ st[s].arrivedAt = stop[s].arrivedAt /\ st[s].award = stop[s].award
        /\ st[s].zonePoints = stop[s].zonePoints
    BY <1>1, <1>3, <1>4 DEF Stop
  <1>6. st \in [Stops -> Stop]
    BY <1>3, <1>5
  <1> HIDE DEF st
  <1>7. s \in StopsOf(t)
    BY DEF StopsOf
  <1>8. Touched(t, st)
    BY <1>4, <1>5, <1>6, <1>7 DEF Touched
  <1>9. ASSUME NEW u \in Stops PROVE Stamped(st, now, u)
    <2>1. Stamped(stop, now, u)
      BY <1>1 DEF LedgerInv, BooksInv
    <2>2. Tapped(now, now)
      BY <1>1 DEF Tapped
    <2> QED BY <1>1, <1>4, <1>5, <2>1, <2>2 DEF Stamped
  <1> HIDE DEF t
  <1> QED BY <1>1, <1>2, <1>8, <1>9, ConcludeBooks

\* The office's verdict stamps nothing, and may send its trip for approval.
LEMMA AdjudicateBooks ==
    ASSUME LedgerInv, NEW s \in Stops, NEW verdict \in {"settled", "vetoed"}, Adjudicate(s, verdict)
    PROVE  LedgerTypeOK' /\ BooksInv'
  <1> DEFINE now == At(taps)
             st == [stop EXCEPT ![s].verdict = verdict]
             t == TripOf[s]
  <1>1. t \in Out /\ UNCHANGED <<rateVars, taps, unwound, exempt>>
    BY DEF Adjudicate
  <1>2. \E status \in {"in_progress", "pending_approval", "cancelled"} : Becomes(t, st, status)
    BY DEF Adjudicate, Conclude
  <1>3. /\ stop \in [Stops -> Stop] /\ stop[s] \in Stop /\ taps \in 0 .. TapsADay
        /\ unwound \in BOOLEAN /\ exempt \subseteq Day /\ now \in Nat /\ now' = now
    BY <1>1, SameDay, TapInstants DEF LedgerInv, TypeOK
  <1>4. /\ st[s] = [stop[s] EXCEPT !.verdict = verdict]
        /\ \A u \in Stops \ {s} : st[u] = stop[u]
    BY <1>3
  <1>5. /\ st[s] \in Stop /\ st[s].status = stop[s].status /\ st[s].deliveredAt = stop[s].deliveredAt
        /\ st[s].arrivedAt = stop[s].arrivedAt /\ st[s].award = stop[s].award
        /\ st[s].zonePoints = stop[s].zonePoints
    BY <1>3, <1>4 DEF Stop
  <1>6. st \in [Stops -> Stop]
    BY <1>3, <1>5
  <1> HIDE DEF st
  <1>7. s \in StopsOf(t)
    BY DEF StopsOf
  <1>8. Touched(t, st)
    BY <1>4, <1>5, <1>6, <1>7 DEF Touched
  <1>9. \A u \in Stops : Stamped(stop, now, u)
    BY DEF LedgerInv, BooksInv
  <1>10. ASSUME NEW u \in Stops PROVE Stamped(st, now, u)
    <2> HIDE DEF now
    <2>1. Stamped(stop, now, u)
      BY <1>9
    <2> QED BY <1>4, <1>5, <2>1 DEF Stamped
  <1>11. taps' \in 0 .. TapsADay /\ unwound' \in BOOLEAN /\ exempt' \subseteq Day /\ At(taps)' = now
    BY <1>1, <1>3
  <1> HIDE DEF t, now
  <1> QED BY <1>1, <1>2, <1>3, <1>8, <1>10, <1>11, ConcludeBooks

\* An abort stamps nothing, and may send what was delivered for approval.
LEMMA AbortBooks ==
    ASSUME LedgerInv, NEW t \in Trips, Abort(t)
    PROVE  LedgerTypeOK' /\ BooksInv'
  <1>1. t \in Out /\ UNCHANGED <<rateVars, taps, unwound, exempt>>
    BY DEF Abort
  <1>2. \E status \in {"in_progress", "pending_approval", "cancelled"} : Becomes(t, stop, status)
    BY DEF Abort
  <1>3. /\ Touched(t, stop) /\ taps \in 0 .. TapsADay
        /\ unwound \in BOOLEAN /\ exempt \subseteq Day /\ At(taps) \in Nat /\ At(taps)' = At(taps)
    BY <1>1, SameDay, TapInstants DEF LedgerInv, TypeOK, Touched
  <1>4. \A s \in Stops : Stamped(stop, At(taps), s)
    BY DEF LedgerInv, BooksInv
  <1>5. taps' \in 0 .. TapsADay /\ unwound' \in BOOLEAN /\ exempt' \subseteq Day
    BY <1>1, <1>3
  <1> QED BY <1>1, <1>2, <1>3, <1>4, <1>5, ConcludeBooks

\* One stop is changed while its trip and all others stand.
LEMMA StopBooks ==
    ASSUME LedgerInv, NEW s \in Stops, UNCHANGED <<rateVars, trip, taps, unwound>>, exempt' \subseteq Day,
           stop' \in [Stops -> Stop], \A u \in Stops \ {s} : stop'[u] = stop[u],
           stop'[s].zonePoints = stop[s].zonePoints,
           trip[TripOf[s]].status \notin {"pending", "assigned"},
           Stamped(stop', At(taps), s), AwardStands(s)'
    PROVE  LedgerTypeOK' /\ BooksInv'
  <1>1. /\ trip \in [Trips -> Trip] /\ stop \in [Stops -> Stop]
        /\ taps \in 0 .. TapsADay /\ unwound \in BOOLEAN
    BY DEF LedgerInv, TypeOK
  <1>2. At(taps)' = At(taps)
    BY SameDay
  <1>3. ASSUME NEW u \in Stops PROVE Stamped(stop, At(taps), u)' /\ AwardStands(u)'
    <2>1. Stamped(stop, At(taps), u) /\ AwardStands(u)
      BY DEF LedgerInv, BooksInv
    <2>2. CASE u # s
      <3>1. stop'[u] = stop[u]
        BY <2>2
      <3> QED BY <1>2, <2>1, <3>1 DEF Stamped, Tapped, AwardStands, PayInstant, Earns, Adjudicated
    <2>3. CASE u = s
      BY <1>2, <2>3 DEF Stamped, Tapped
    <2> QED BY <2>2, <2>3
  <1>4. ASSUME NEW u \in Trips PROVE Filed(u)'
    <2>1. Filed(u)
      BY DEF LedgerInv, BooksInv
    <2>2. \A v \in Stops : stop'[v].zonePoints = stop[v].zonePoints /\ (v # s => stop'[v] = stop[v])
      OBVIOUS
    <2>3. s \in StopsOf(u) => trip[u].status \notin {"pending", "assigned"}
      BY DEF StopsOf
    <2> QED BY <2>1, <2>2, <2>3 DEF Filed, StopsOf
  <1> QED BY <1>1, <1>3, <1>4 DEF LedgerTypeOK, BooksInv, Day

\* An arrival is taken back from a stop that is not delivered yet.
LEMMA UndoArrivedBooks ==
    ASSUME LedgerInv, NEW s \in Stops, UndoArrived(s)
    PROVE  LedgerTypeOK' /\ BooksInv'
  <1>1. /\ UNCHANGED <<rateVars, trip, taps, unwound>>
        /\ stop' = [stop EXCEPT ![s].status = "pending", ![s].arrivedAt = 0]
        /\ stop[s].status = "arrived" /\ stop[s].arrivedAt # 0
        /\ TripOf[s] \in Out /\ Reopens(DayOf(stop[s].arrivedAt))
    BY DEF UndoArrived, WithinWindow
  <1>2. /\ stop \in [Stops -> Stop] /\ stop[s] \in Stop /\ RatesTypeOK /\ taps \in 0 .. TapsADay
        /\ Stamped(stop, At(taps), s) /\ AwardStands(s)
    BY DEF LedgerInv, TypeOK, BooksInv
  <1>3. DayOf(stop[s].arrivedAt) \in Day
    BY <1>1, <1>2, TapDay DEF Stamped
  <1>4. exempt' \subseteq Day
    BY <1>1, <1>3, ReopensType
  <1>5. /\ stop'[s] = [stop[s] EXCEPT !.status = "pending", !.arrivedAt = 0]
        /\ \A u \in Stops \ {s} : stop'[u] = stop[u]
    BY <1>1, <1>2
  <1>6. 0 \in Instant
    BY RatesAssumption, PaydayAssumption DEF Instant
  <1>7. /\ stop'[s] \in Stop /\ stop'[s].status = "pending" /\ stop'[s].arrivedAt = 0
        /\ stop'[s].deliveredAt = stop[s].deliveredAt /\ stop'[s].award = stop[s].award
        /\ stop'[s].zonePoints = stop[s].zonePoints
    BY <1>2, <1>5, <1>6 DEF Stop
  <1>8. stop' \in [Stops -> Stop]
    BY <1>1, <1>2, <1>7
  <1>9. trip[TripOf[s]].status = "in_progress"
    BY <1>1 DEF Out
  <1>10. Stamped(stop', At(taps), s) /\ AwardStands(s)'
    <2>1. Stamped(stop', At(taps), s)
      BY <1>1, <1>2, <1>7 DEF Stamped, Tapped
    <2>2. AwardStands(s)'
      BY <1>1, <1>2, <1>7, <1>9 DEF AwardStands, Finished
    <2> QED BY <2>1, <2>2
  <1>11. trip[TripOf[s]].status \notin {"pending", "assigned"}
    BY <1>9
  <1> QED BY <1>1, <1>4, <1>5, <1>7, <1>8, <1>10, <1>11, StopBooks

\* A rejection after the trip is finished leaves the awards where they are.
LEMMA RejectLateBooks ==
    ASSUME LedgerInv, NEW s \in Stops, RejectLate(s)
    PROVE  LedgerTypeOK' /\ BooksInv'
  <1>1. /\ UNCHANGED <<rateVars, trip, taps, unwound, exempt>>
        /\ stop' = [stop EXCEPT ![s].verdict = "vetoed"]
        /\ trip[TripOf[s]].status \in Finished /\ stop[s].verdict = "settled"
    BY DEF RejectLate, Finished
  <1>2. /\ stop \in [Stops -> Stop] /\ stop[s] \in Stop /\ exempt \subseteq Day
        /\ Stamped(stop, At(taps), s) /\ AwardStands(s)
    BY DEF LedgerInv, TypeOK, BooksInv
  <1>3. /\ stop'[s] = [stop[s] EXCEPT !.verdict = "vetoed"]
        /\ \A u \in Stops \ {s} : stop'[u] = stop[u]
    BY <1>1, <1>2
  <1>4. /\ stop'[s] \in Stop /\ stop'[s].status = stop[s].status
        /\ stop'[s].arrivedAt = stop[s].arrivedAt /\ stop'[s].verdict = "vetoed"
        /\ stop'[s].deliveredAt = stop[s].deliveredAt /\ stop'[s].award = stop[s].award
        /\ stop'[s].zonePoints = stop[s].zonePoints
    BY <1>2, <1>3 DEF Stop
  <1>5. stop' \in [Stops -> Stop]
    BY <1>1, <1>2, <1>4
  <1>6. Earns(stop', s) => Earns(stop, s)
    BY <1>4 DEF Earns, Adjudicated
  <1>7. PayInstant(stop', s) = PayInstant(stop, s)
    BY <1>4 DEF PayInstant
  <1>8. Stamped(stop', At(taps), s)
    BY <1>2, <1>4 DEF Stamped
  <1>9. AwardStands(s)'
    BY <1>1, <1>2, <1>4, <1>6, <1>7 DEF AwardStands, PayInstant, Earns, Adjudicated
  <1>10. trip[TripOf[s]].status \notin {"pending", "assigned"} /\ exempt' \subseteq Day
         /\ UNCHANGED <<rateVars, trip, taps, unwound>> /\ stop'[s].zonePoints = stop[s].zonePoints
    BY <1>1, <1>2, <1>4 DEF Finished
  <1> QED BY <1>3, <1>5, <1>8, <1>9, <1>10, StopBooks

\* A delivery is undone, and the proposal and its awards with it.
LEMMA UndoDeliveredBooks ==
    ASSUME LedgerInv, NEW s \in Stops, UndoDelivered(s)
    PROVE  LedgerTypeOK' /\ BooksInv'
  <1> DEFINE t == TripOf[s]
  <1>1. /\ stop' = Reverted(t, s) /\ stop[s].status = "delivered"
        /\ trip[t].status \in {"in_progress", "pending_approval"}
        /\ trip' = [trip EXCEPT ![t].status = "in_progress", ![t].earned = None,
                                ![t].offpeak = None, ![t].deducted = 0, ![t].shortfall = 0]
        /\ UNCHANGED <<rateVars, taps>> /\ unwound' \in BOOLEAN
        /\ Reopens(DayOf(stop[s].deliveredAt))
    <2>1. unwound \in BOOLEAN
      BY DEF LedgerInv, TypeOK
    <2> QED BY <2>1 DEF UndoDelivered
  <1>2. /\ stop \in [Stops -> Stop] /\ stop[s] \in Stop /\ RatesTypeOK /\ taps \in 0 .. TapsADay
        /\ trip \in [Trips -> Trip] /\ t \in Trips /\ trip[t] \in Trip
        /\ \A u \in Stops : Stamped(stop, At(taps), u) /\ AwardStands(u)
        /\ \A u \in Trips : Filed(u)
    BY PaydayAssumption DEF LedgerInv, TypeOK, BooksInv
  <1>3. exempt' \subseteq Day
    <2>1. stop[s].deliveredAt # 0 /\ Tapped(stop[s].deliveredAt, At(taps))
      BY <1>1, <1>2 DEF Stamped
    <2>2. DayOf(stop[s].deliveredAt) \in Day
      BY <1>2, <2>1, TapDay
    <2> QED BY <1>1, <2>2, ReopensType
  <1>4. /\ trip'[t] = [trip[t] EXCEPT !.status = "in_progress", !.earned = None,
                                      !.offpeak = None, !.deducted = 0, !.shortfall = 0]
        /\ \A u \in Trips \ {t} : trip'[u] = trip[u]
    BY <1>1, <1>2
  <1> HIDE DEF t
  <1>5. /\ trip'[t] \in Trip /\ trip'[t].status = "in_progress" /\ trip'[t].earned = None
        /\ trip'[t].rates = trip[t].rates
    <2> DEFINE old == trip[t]
               new == [old EXCEPT !.status = "in_progress", !.earned = None,
                                  !.offpeak = None, !.deducted = 0, !.shortfall = 0]
    <2>1. old \in Trip /\ trip'[t] = new
      BY <1>2, <1>4
    <2> HIDE DEF old
    <2>2. new \in Trip
      BY <2>1 DEF Trip
    <2>3. new.status = "in_progress" /\ new.earned = None /\ new.rates = old.rates
      BY <2>1 DEF Trip
    <2> HIDE DEF new
    <2> QED BY <2>1, <2>2, <2>3 DEF old
  <1>6. 0 \in Instant
    BY RatesAssumption, PaydayAssumption DEF Instant
  <1>7. ASSUME NEW u \in Stops
        PROVE  /\ stop'[u] \in Stop /\ stop'[u].zonePoints = stop[u].zonePoints
               /\ stop'[u].arrivedAt = stop[u].arrivedAt
               /\ u = s => stop'[u].status = "arrived" /\ stop'[u].deliveredAt = 0
               /\ u # s => stop'[u].status = stop[u].status /\ stop'[u].deliveredAt = stop[u].deliveredAt
               /\ u = s \/ u \in StopsOf(t) => stop'[u].award = "none"
               /\ u # s /\ u \notin StopsOf(t) => stop'[u] = stop[u]
    <2>1. stop[u] \in Stop
      BY <1>2
    <2>2. CASE u = s
      <3>1. stop'[u] = [stop[u] EXCEPT !.status = "arrived", !.deliveredAt = 0, !.award = "none"]
        BY <1>1, <2>2 DEF Reverted
      <3> QED BY <1>6, <2>1, <2>2, <3>1 DEF Stop
    <2>3. CASE u # s /\ u \in StopsOf(t)
      <3>1. stop'[u] = [stop[u] EXCEPT !.award = "none"]
        BY <1>1, <2>3 DEF Reverted
      <3> QED BY <2>1, <2>3, <3>1 DEF Stop
    <2>4. CASE u # s /\ u \notin StopsOf(t)
      <3>1. stop'[u] = stop[u]
        BY <1>1, <2>4 DEF Reverted
      <3> QED BY <2>1, <2>4, <3>1
    <2> QED BY <2>2, <2>3, <2>4
  <1>8. stop' \in [Stops -> Stop] /\ trip' \in [Trips -> Trip]
    <2>1. stop' = [u \in Stops |-> stop'[u]]
      BY <1>1 DEF Reverted
    <2>2. stop' \in [Stops -> Stop]
      BY <1>7, <2>1
    <2> QED BY <1>1, <1>2, <1>5, <2>2
  <1>9. At(taps)' = At(taps)
    BY <1>1, SameDay
  <1>10. \A u \in Stops : u \in StopsOf(t) <=> TripOf[u] = t
    BY DEF StopsOf
  <1>11. s \in StopsOf(t)
    BY <1>10 DEF t
  <1>12. ASSUME NEW u \in Stops PROVE Stamped(stop, At(taps), u)' /\ AwardStands(u)'
    <2>1. Stamped(stop', At(taps), u)
      BY <1>2, <1>7 DEF Stamped, Tapped
    <2>2. Stamped(stop, At(taps), u)'
      BY <1>9, <2>1 DEF Stamped, Tapped
    <2>3. CASE u \in StopsOf(t)
      <3>1. trip'[TripOf[u]].status = "in_progress" /\ stop'[u].award = "none"
        BY <1>5, <1>7, <1>10, <2>3
      <3> QED BY <2>2, <3>1 DEF AwardStands, Finished
    <2>4. CASE u \notin StopsOf(t)
      <3>1. TripOf[u] \in Trips /\ TripOf[u] # t
        BY <1>10, <2>4, PaydayAssumption
      <3>2. stop'[u] = stop[u] /\ trip'[TripOf[u]] = trip[TripOf[u]]
        BY <1>4, <1>7, <1>11, <2>4, <3>1
      <3> QED BY <1>2, <2>2, <3>2 DEF AwardStands, PayInstant, Earns, Adjudicated
    <2> QED BY <2>3, <2>4
  <1>13. ASSUME NEW u \in Trips PROVE Filed(u)'
    <2>1. Filed(u) /\ (u # t => trip'[u] = trip[u])
      BY <1>2, <1>4
    <2>2. CASE u = t
      BY <1>1, <1>5, <1>7, <2>1, <2>2 DEF Filed, Finished, StopsOf
    <2>3. CASE u # t
      <3>1. \A v \in StopsOf(u) : v \in Stops /\ v # s /\ v \notin StopsOf(t)
        BY <1>10, <1>11, <2>3 DEF StopsOf
      <3>2. \A v \in StopsOf(u) : stop'[v] = stop[v]
        BY <1>7, <3>1
      <3> QED BY <2>1, <2>3, <3>2 DEF Filed, StopsOf
    <2> QED BY <2>2, <2>3
  <1> QED BY <1>1, <1>2, <1>3, <1>8, <1>12, <1>13 DEF LedgerTypeOK, BooksInv, Day

\* The rates and the day move on.
LEMMA QuietBooks ==
    ASSUME LedgerInv, RatesTypeOK', OfficeHours \/ NextDay \/ UNCHANGED vars
    PROVE  LedgerTypeOK' /\ BooksInv'
  <1>1. /\ trip \in [Trips -> Trip] /\ stop \in [Stops -> Stop] /\ RatesTypeOK
        /\ taps \in 0 .. TapsADay /\ unwound \in BOOLEAN /\ exempt \subseteq Day
    BY DEF LedgerInv, TypeOK
  <1>2. UNCHANGED <<trip, stop, unwound, exempt>> /\ taps' \in 0 .. TapsADay
    BY <1>1, PaydayAssumption DEF OfficeHours, NextDay, ledgerVars, vars
  <1>3. At(taps) \in Nat /\ At(taps)' \in Nat /\ At(taps) <= At(taps)'
    <2>1. today \in Nat /\ TapsADay \in Nat /\ taps \in Nat /\ taps <= TapsADay
      BY <1>1, RatesAssumption, PaydayAssumption DEF RatesTypeOK, Day
    <2>2. CASE today' = today /\ taps' = taps
      <3>1. At(taps)' = At(taps)
        BY <2>2 DEF At
      <3>2. At(taps) \in Nat
        BY <1>1, TapInstants
      <3> QED BY <3>1, <3>2
    <2>3. CASE today' = today + 1 /\ taps' = 0
      <3> DEFINE k == TapsADay + 1
      <3>1. At(taps) = today * k + taps /\ At(taps)' = (today + 1) * k + 0
        BY <2>3 DEF At
      <3>2. k \in Nat /\ taps < k
        BY <2>1
      <3> HIDE DEF k
      <3>3. (today + 1) * k = today * k + k /\ today * k \in Nat
        BY <2>1, <3>2
      <3> QED BY <2>1, <3>1, <3>2, <3>3
    <2>4. \/ today' = today /\ taps' = taps
          \/ today' = today + 1 /\ taps' = 0
      BY DEF OfficeHours, NextDay, Midnight, ledgerVars, vars, rateVars, EditRow, ResetRates, Edit,
             SweepRead, SweepStops, SweepWrite
    <2> QED BY <2>2, <2>3, <2>4
  <1>4. ASSUME NEW u \in Stops PROVE Stamped(stop, At(taps), u)' /\ AwardStands(u)'
    <2>1. Stamped(stop, At(taps), u) /\ AwardStands(u)
      BY DEF LedgerInv, BooksInv
    <2> DEFINE now == At(taps)
               then == At(taps)'
    <2>2. \A at : Tapped(at, now) => Tapped(at, then)
      <3> HIDE DEF now, then
      <3>1. now \in Nat /\ then \in Nat /\ now <= then /\ TapsADay \in Nat
        BY <1>3, PaydayAssumption DEF now, then
      <3> QED BY <3>1 DEF Tapped
    <2>3. Stamped(stop, then, u)
      BY <2>1, <2>2 DEF Stamped
    <2>4. Stamped(stop, At(taps), u)'
      BY <1>2, <2>3 DEF Stamped, Tapped
    <2> QED BY <1>2, <2>1, <2>4 DEF AwardStands, PayInstant, Earns, Adjudicated
  <1>5. ASSUME NEW u \in Trips PROVE Filed(u)'
    <2>1. Filed(u)
      BY DEF LedgerInv, BooksInv
    <2> QED BY <1>2, <2>1 DEF Filed, StopsOf
  <1> QED BY <1>1, <1>2, <1>4, <1>5 DEF LedgerTypeOK, BooksInv, Day

\* Nobody has been assigned yet.
LEMMA InitBooks == Init => LedgerInv
  <1> SUFFICES ASSUME Init PROVE LedgerInv
    OBVIOUS
  <1>1. RatesInv /\ RatesTypeOK
    BY InitInv DEF Init, RatesInv
  <1>2. PICK pool \in [Trips -> Pools] :
            trip = [t \in Trips |->
                    [pool |-> pool[t], status |-> "pending", rates |-> None, assignedOn |-> 0,
                     earned |-> None, offpeak |-> None, deducted |-> 0, shortfall |-> 0,
                     final |-> None, override |-> "none"]]
    BY DEF Init
  <1>3. /\ stop = [s \in Stops |-> [status |-> "pending", arrivedAt |-> 0, deliveredAt |-> 0,
                                    verdict |-> "none", zonePoints |-> None, award |-> "none"]]
        /\ taps = 0 /\ unwound = FALSE /\ exempt = {}
    BY DEF Init
  <1>4. 0 \in 0 .. LastDay /\ 0 \in Instant /\ 0 \in 0 .. TapsADay
    BY RatesAssumption, PaydayAssumption DEF Instant
  <1>5. \A t \in Trips : trip[t] \in Trip /\ trip[t].status = "pending" /\ trip[t].earned = None
    BY <1>2, <1>4 DEF Trip
  <1>6. \A s \in Stops : /\ stop[s] \in Stop /\ stop[s].status = "pending" /\ stop[s].arrivedAt = 0
                         /\ stop[s].deliveredAt = 0 /\ stop[s].award = "none"
    BY <1>3, <1>4 DEF Stop
  <1>7. TypeOK
    BY <1>1, <1>2, <1>3, <1>4, <1>5, <1>6 DEF TypeOK
  <1>8. \A s \in Stops : Stamped(stop, At(taps), s) /\ AwardStands(s)
    <2>1. \A s \in Stops : TripOf[s] \in Trips
      BY PaydayAssumption
    <2> QED BY <1>5, <1>6, <2>1 DEF Stamped, Tapped, AwardStands, Finished
  <1>9. \A t \in Trips : Filed(t)
    BY <1>5, <1>6 DEF Filed, Finished, StopsOf
  <1> QED BY <1>1, <1>7, <1>8, <1>9 DEF LedgerInv, BooksInv

\* Every step keeps the types, and how the records go together.
LEMMA NextBooks ==
    ASSUME LedgerInv, [Next]_vars
    PROVE  LedgerInv'
  <1>1. RatesInv' /\ RatesTypeOK'
    BY RatesOrLedger, StepInv DEF LedgerInv, RatesInv
  <1>2. LedgerTypeOK' /\ BooksInv'
    <2>1. CASE OfficeHours \/ NextDay \/ UNCHANGED vars
      BY <1>1, <2>1, QuietBooks
    <2>2. ASSUME NEW t \in Trips,
                 \/ Assign(t) \/ Unassign(t) \/ Start(t) \/ Abort(t)
                 \/ \E own \in OwnAmounts \cup {None} : Approve(t, own)
          PROVE  LedgerTypeOK' /\ BooksInv'
      BY <2>2, AssignBooks, ReleaseBooks, StatusBooks, AbortBooks
    <2>3. ASSUME NEW s \in Stops,
                 \/ Arrive(s) \/ Deliver(s) \/ UndoArrived(s) \/ UndoDelivered(s)
                 \/ RejectLate(s)
                 \/ \E verdict \in {"settled", "vetoed"} : Adjudicate(s, verdict)
          PROVE  LedgerTypeOK' /\ BooksInv'
      BY <2>3, ArriveBooks, DeliverBooks, UndoArrivedBooks, UndoDeliveredBooks, RejectLateBooks,
         AdjudicateBooks
    <2> QED BY <2>1, <2>2, <2>3 DEF Next
  <1>3. TypeOK'
    BY <1>1, <1>2 DEF TypeOK, LedgerTypeOK, Day
  <1> QED BY <1>1, <1>2, <1>3 DEF LedgerInv

\* The invariant holds in every state.
LEMMA LedgerInvariant == Spec => []LedgerInv
  BY InitBooks, NextBooks, PTL DEF Spec

\* The records of trips and stops keep their types: a sum of points is a number,
\* and a proposal is never below nothing, whatever the rates, zones and deductions
\* (Trip and TripStop, services/tripFinalize.ts).
THEOREM TypeCorrect == Spec => []TypeOK
  <1>1. LedgerInv => TypeOK
    BY DEF LedgerInv
  <1> QED BY <1>1, LedgerInvariant, PTL

-----------------------------------------------------------------------------
(* The order of the taps: one trip after the other.                        *)

\* The taps of a stop.
Instants(st, s) == {st[s].arrivedAt, st[s].deliveredAt} \ {0}

\* All taps of one trip come before all taps of the other.
Before(st, t, u) ==
    \A s \in StopsOf(t), v \in StopsOf(u) :
        \A at \in Instants(st, s), by \in Instants(st, v) : at < by

\* No two stops share a tap.
OneTapEach(st) == \A s, u \in Stops : s # u => Instants(st, s) \cap Instants(st, u) = {}

\* Of any two trips, one was over before he tapped the other.
OneAfterTheOther(st) == \A t, u \in Trips : t # u => Before(st, t, u) \/ Before(st, u, t)

\* He is out with one trip at most, and all others came before.
OneOut == \A t \in Out : Out = {t} /\ \A u \in Trips \ {t} : Before(stop, u, t)

\* The stops with an award.
Scored(st) == {s \in Stops : st[s].award # "none"}

\* Two stops that share a zone, a day and a ledger.
Same(st, s, u) ==
    /\ PoolOf(s) = PoolOf(u) /\ ZoneOf[s] = ZoneOf[u]
    /\ DayOf(PayInstant(st, s)) = DayOf(PayInstant(st, u))

\* The first of a zone, a day and a ledger is the earliest, and only that.
FirstIsEarliest(st) ==
    \A s \in Scored(st) :
        st[s].award = "first" <=>
            \A u \in Scored(st) : Same(st, s, u) => PayInstant(st, s) <= PayInstant(st, u)

\* While no delivery was undone after he went on, he made his trips one by one.
TapsInOrder ==
    /\ OneTapEach(stop)
    /\ ~unwound => OneOut /\ OneAfterTheOther(stop)

\* A stop's pay instant is one of its taps.
LEMMA PayIsTap ==
    ASSUME NEW st \in [Stops -> Stop], NEW s \in Stops
    PROVE  /\ PayInstant(st, s) \in Nat
           /\ PayInstant(st, s) # 0 => PayInstant(st, s) \in Instants(st, s)
           /\ Instants(st, s) \subseteq Nat
  BY DEF PayInstant, Instants, Stop, Instant

\* A stop with a tap has a pay instant.
LEMMA TapIsPaid ==
    ASSUME NEW st \in [Stops -> Stop], NEW now, NEW s \in Stops, Stamped(st, now, s), Instants(st, s) # {}
    PROVE  PayInstant(st, s) \in Instants(st, s)
  BY DEF PayInstant, Instants, Stamped, Stop

\* An award: a repeat if the zone had a drop before, that day, on this or another
\* of his trips of the pool.
LEMMA AwardOf ==
    ASSUME NEW st, Scorable(st), NEW t \in Trips, trip[t].status # "pending",
           NEW s \in StopsOf(t), Earns(st, s)
    PROVE  \E g \in DayGroups(st, t) :
              /\ LedgerDrop(st, s) \in g
              /\ Awarded(st, t)[s].award =
                    IF IsRepeat(LedgerDrop(st, s), g \cup Prior(st, t, g)) THEN "repeat" ELSE "first"
  <1> DEFINE d == LedgerDrop(st, s)
             mine(h) == \E e \in h : e.stop = s
             g == CHOOSE h \in DayGroups(st, t) : mine(h)
  <1>1. s \in Stops /\ TripOf[s] = t /\ st[s] \in Stop
    BY DEF StopsOf, Scorable
  <1>2. d \in EarnedDrops(st, t) /\ d.stop = s
    BY <1>1, DropOf DEF EarnedDrops
  <1>3. g \in DayGroups(st, t) /\ mine(g)
    <2> DEFINE h == {e \in EarnedDrops(st, t) : DayOf(e.at) = DayOf(d.at)}
    <2>1. h \in DayGroups(st, t)
      BY <1>2 DEF DayGroups
    <2>2. d \in h
      BY <1>2
    <2>3. mine(h)
      BY <1>2, <2>2
    <2> HIDE DEF h, mine
    <2> QED BY <2>1, <2>3
  <1>4. \A e \in g : e.stop = s => e = d
    BY <1>3, GroupFacts
  <1>5. (CHOOSE e \in g : e.stop = s) = d
    BY <1>3, <1>4
  <1>6. d \in g
    BY <1>3, <1>4
  <1>7. Awarded(st, t)[s] = [st[s] EXCEPT !.award =
                                IF IsRepeat(d, g \cup Prior(st, t, g)) THEN "repeat" ELSE "first"]
    BY <1>1, <1>5 DEF Awarded
  <1> HIDE DEF g, d
  <1>8. Awarded(st, t)[s].award = IF IsRepeat(d, g \cup Prior(st, t, g)) THEN "repeat" ELSE "first"
    BY <1>1, <1>7 DEF Stop
  <1> QED BY <1>3, <1>6, <1>8 DEF d

\* Taking taps away leaves the others in order.
LEMMA FewerTaps ==
    ASSUME NEW st, NEW new, \A s \in Stops : Instants(new, s) \subseteq Instants(st, s)
    PROVE  /\ OneTapEach(st) => OneTapEach(new)
           /\ \A t, u \in Trips : Before(st, t, u) => Before(new, t, u)
           /\ OneAfterTheOther(st) => OneAfterTheOther(new)
  <1>1. OneTapEach(st) => OneTapEach(new)
    BY DEF OneTapEach
  <1>2. \A t, u \in Trips : Before(st, t, u) => Before(new, t, u)
    <2>1. TAKE t, u \in Trips
    <2>2. \A s \in StopsOf(t) \cup StopsOf(u) : s \in Stops
      BY DEF StopsOf
    <2> QED BY <2>2 DEF Before
  <1>3. OneAfterTheOther(st) => OneAfterTheOther(new)
    BY <1>2 DEF OneAfterTheOther
  <1> QED BY <1>1, <1>2, <1>3

\* A tap after all others, on a trip that all other trips came before.
LEMMA LatestTap ==
    ASSUME NEW st, NEW new, NEW now \in Nat, NEW s \in Stops,
           \A u \in Stops : \A at \in Instants(st, u) : at \in Nat /\ at < now,
           \A u \in Stops \ {s} : Instants(new, u) = Instants(st, u),
           Instants(new, s) \subseteq Instants(st, s) \cup {now}
    PROVE  /\ OneTapEach(st) => OneTapEach(new)
           /\ \A t, u \in Trips : u # t /\ t # TripOf[s] /\ Before(st, t, u) => Before(new, t, u)
           /\ OneAfterTheOther(st) /\ (\A t \in Trips \ {TripOf[s]} : Before(st, t, TripOf[s]))
                => OneAfterTheOther(new)
  <1>1. OneTapEach(st) => OneTapEach(new)
    <2> SUFFICES ASSUME OneTapEach(st), NEW a \in Stops, NEW b \in Stops, a # b,
                        NEW at \in Instants(new, a), at \in Instants(new, b)
                 PROVE  FALSE
      BY DEF OneTapEach
    <2>1. CASE a # s /\ b # s
      BY <2>1 DEF OneTapEach
    <2>2. CASE a = s
      <3>1. at \in Instants(st, b) /\ at < now /\ at \in Nat
        BY <2>2
      <3> QED BY <2>2, <3>1 DEF OneTapEach
    <2>3. CASE b = s
      <3>1. at \in Instants(st, a) /\ at < now /\ at \in Nat
        BY <2>3
      <3> QED BY <2>3, <3>1 DEF OneTapEach
    <2> QED BY <2>1, <2>2, <2>3
  <1>2. ASSUME NEW t \in Trips, NEW u \in Trips, u # t, t # TripOf[s], Before(st, t, u)
        PROVE  Before(new, t, u)
    <2> SUFFICES ASSUME NEW a \in StopsOf(t), NEW b \in StopsOf(u),
                        NEW at \in Instants(new, a), NEW by \in Instants(new, b)
                 PROVE  at < by
      BY DEF Before
    <2>1. a \in Stops /\ b \in Stops /\ a # s
      BY <1>2 DEF StopsOf
    <2>2. at \in Instants(st, a) /\ at < now
      BY <2>1
    <2>3. by \in Instants(st, b) \/ by = now
      BY <2>1
    <2> QED BY <1>2, <2>2, <2>3 DEF Before
  <1>3. ASSUME OneAfterTheOther(st), \A t \in Trips \ {TripOf[s]} : Before(st, t, TripOf[s])
        PROVE  OneAfterTheOther(new)
    <2> SUFFICES ASSUME NEW t \in Trips, NEW u \in Trips, t # u
                 PROVE  Before(new, t, u) \/ Before(new, u, t)
      BY DEF OneAfterTheOther
    <2>1. CASE t = TripOf[s]
      BY <1>2, <1>3, <2>1
    <2>2. CASE u = TripOf[s]
      BY <1>2, <1>3, <2>2
    <2>3. CASE t # TripOf[s] /\ u # TripOf[s]
      BY <1>2, <1>3, <2>3 DEF OneAfterTheOther
    <2> QED BY <2>1, <2>2, <2>3
  <1> QED BY <1>1, <1>2, <1>3

\* A step that adds no tap and starts no trip.
LEMMA OrderStands ==
    ASSUME TapsInOrder, unwound' = unwound, Out' \subseteq Out,
           \A s \in Stops : Instants(stop', s) \subseteq Instants(stop, s)
    PROVE  TapsInOrder'
  <1>1. /\ OneTapEach(stop')
        /\ \A t, u \in Trips : Before(stop, t, u) => Before(stop', t, u)
        /\ OneAfterTheOther(stop) => OneAfterTheOther(stop')
    BY FewerTaps DEF TapsInOrder
  <1>2. ASSUME ~unwound PROVE OneOut' /\ OneAfterTheOther(stop')
    <2>1. OneOut /\ OneAfterTheOther(stop)
      BY <1>2 DEF TapsInOrder
    <2>2. OneOut'
      <3> SUFFICES ASSUME NEW t \in Out', t \in Out
                   PROVE  Out' = {t} /\ \A u \in Trips \ {t} : Before(stop', u, t)
        BY DEF OneOut, Before, Instants
      <3>1. Out = {t} /\ t \in Trips /\ \A u \in Trips \ {t} : Before(stop, u, t)
        BY <2>1 DEF OneOut, Out
      <3> QED BY <1>1, <3>1
    <2> QED BY <1>1, <2>1, <2>2
  <1> QED BY <1>1, <1>2 DEF TapsInOrder, OneTapEach, OneAfterTheOther, Before, Instants

\* All taps so far come before the next.
LEMMA TapsSoFar ==
    ASSUME LedgerInv, NEW now \in Nat, At(taps) < now,
           NEW u \in Stops, NEW at \in Instants(stop, u)
    PROVE  at \in Nat /\ at < now
  <1>1. at \in TapsADay + 1 .. At(taps)
    BY DEF LedgerInv, BooksInv, Stamped, Tapped, Instants
  <1>2. TapsADay \in Nat /\ At(taps) \in Nat
    BY PaydayAssumption, TapInstants DEF LedgerInv, TypeOK
  <1> QED BY <1>1, <1>2

\* A tap of the trip he is out with.
LEMMA OrderGrows ==
    ASSUME LedgerInv, TapsInOrder, unwound' = unwound, Out' \subseteq Out,
           NEW s \in Stops, TripOf[s] \in Out, NEW now \in Nat, At(taps) < now,
           \A u \in Stops \ {s} : Instants(stop', u) = Instants(stop, u),
           Instants(stop', s) \subseteq Instants(stop, s) \cup {now}
    PROVE  TapsInOrder'
  <1> DEFINE o == TripOf[s]
  <1>1. \A u \in Stops : \A at \in Instants(stop, u) : at \in Nat /\ at < now
    BY TapsSoFar
  <1>2. /\ OneTapEach(stop')
        /\ \A t, u \in Trips : u # t /\ t # o /\ Before(stop, t, u) => Before(stop', t, u)
        /\ OneAfterTheOther(stop) /\ (\A t \in Trips \ {o} : Before(stop, t, o))
                => OneAfterTheOther(stop')
    BY <1>1, LatestTap DEF TapsInOrder
  <1>3. ASSUME ~unwound PROVE OneOut' /\ OneAfterTheOther(stop')
    <2>1. Out = {o} /\ o \in Trips /\ (\A u \in Trips \ {o} : Before(stop, u, o))
          /\ OneAfterTheOther(stop)
      BY <1>3 DEF TapsInOrder, OneOut, Out
    <2>2. OneOut'
      <3> SUFFICES ASSUME NEW t \in Out', t \in Out
                   PROVE  Out' = {t} /\ \A u \in Trips \ {t} : Before(stop', u, t)
        BY DEF OneOut, Before, Instants
      <3>1. t = o
        BY <2>1
      <3> QED BY <1>2, <2>1, <3>1
    <2> QED BY <1>2, <2>1, <2>2
  <1> QED BY <1>2, <1>3 DEF TapsInOrder, OneTapEach, OneAfterTheOther, Before, Instants

\* He starts a trip he has no taps on, when he is out with none.
LEMMA StartOrder ==
    ASSUME LedgerInv, TapsInOrder, NEW t \in Trips, Start(t)
    PROVE  TapsInOrder'
  <1>1. stop' = stop /\ unwound' = unwound /\ Out = {} /\ Out' \subseteq {t}
    BY DEF Start, Out, LedgerInv, TypeOK
  <1>2. \A s \in StopsOf(t) : Instants(stop, s) = {}
    <2>1. TAKE s \in StopsOf(t)
    <2>2. s \in Stops /\ stop[s].status = "pending"
      BY DEF LedgerInv, BooksInv, Filed, Start, StopsOf
    <2> QED BY <2>2 DEF LedgerInv, BooksInv, Stamped, Instants
  <1>3. \A u \in Trips : Before(stop, u, t)
    BY <1>2 DEF Before
  <1> QED BY <1>1, <1>3 DEF TapsInOrder, OneOut, OneTapEach, OneAfterTheOther, Before, Instants

\* A trip is sent on: it may come in.
LEMMA BecomesOrder ==
    ASSUME LedgerInv, NEW t \in Out, NEW st, Touched(t, st),
           NEW status \in {"in_progress", "pending_approval", "cancelled"}, Becomes(t, st, status)
    PROVE  /\ Out' \subseteq Out
           /\ \A s \in Stops : Instants(stop', s) = Instants(st, s)
  <1>1. /\ t \in Trips /\ stop' = IF status = "pending_approval" THEN Awarded(st, t) ELSE st
        /\ \A u \in Trips \ {t} : trip'[u] = trip[u]
    BY BecomesTrip DEF Out, Becomes
  <1>2. st \in [Stops -> Stop]
    BY DEF Touched
  <1>3. \A s \in Stops : Instants(stop', s) = Instants(st, s)
    BY <1>1, <1>2, AwardsOnly DEF Instants
  <1> QED BY <1>1, <1>3 DEF Out

\* A tap brings a stop its instant and no other.
LEMMA ArriveOrder ==
    ASSUME LedgerInv, TapsInOrder, NEW s \in Stops, Arrive(s)
    PROVE  TapsInOrder'
  <1> DEFINE now == At(taps + 1)
  <1>1. TripOf[s] \in Out /\ now \in Nat /\ At(taps) < now
    BY TapBooks DEF Arrive
  <1>2. /\ stop' = [stop EXCEPT ![s].status = "arrived", ![s].arrivedAt = now]
        /\ trip' = trip /\ unwound' = unwound
        /\ stop \in [Stops -> Stop] /\ stop[s] \in Stop
    BY DEF Arrive, Tap, LedgerInv, TypeOK
  <1> HIDE DEF now
  <1>3. /\ stop'[s] = [stop[s] EXCEPT !.status = "arrived", !.arrivedAt = now]
        /\ \A u \in Stops \ {s} : stop'[u] = stop[u]
    BY <1>2
  <1>4. stop'[s].arrivedAt = now /\ stop'[s].deliveredAt = stop[s].deliveredAt
    BY <1>2, <1>3 DEF Stop
  <1>5. /\ Instants(stop', s) \subseteq Instants(stop, s) \cup {now}
        /\ \A u \in Stops \ {s} : Instants(stop', u) = Instants(stop, u)
    BY <1>3, <1>4 DEF Instants
  <1>6. Out' \subseteq Out /\ unwound' = unwound
    BY <1>2 DEF Out
  <1> QED BY <1>1, <1>5, <1>6, OrderGrows

\* A delivery is the latest tap.
LEMMA DeliverOrder ==
    ASSUME LedgerInv, TapsInOrder, NEW s \in Stops, Deliver(s)
    PROVE  TapsInOrder'
  <1> DEFINE now == At(taps + 1)
             st == [stop EXCEPT ![s].status = "delivered", ![s].deliveredAt = now]
             t == TripOf[s]
  <1>1. t \in Out /\ now \in Nat /\ At(taps) < now /\ now \in Instant /\ unwound' = unwound
    BY TapBooks DEF Deliver, Tap
  <1>2. \E status \in {"in_progress", "pending_approval", "cancelled"} : Becomes(t, st, status)
    BY DEF Deliver, Conclude
  <1>3. stop \in [Stops -> Stop] /\ stop[s] \in Stop
    BY DEF LedgerInv, TypeOK
  <1> HIDE DEF now
  <1>4. /\ st[s] = [stop[s] EXCEPT !.status = "delivered", !.deliveredAt = now]
        /\ \A u \in Stops \ {s} : st[u] = stop[u]
    BY <1>3
  <1>5. /\ st[s] \in Stop /\ st[s].deliveredAt = now
        /\ st[s].arrivedAt = stop[s].arrivedAt /\ st[s].award = stop[s].award
        /\ st[s].zonePoints = stop[s].zonePoints
    BY <1>1, <1>3, <1>4 DEF Stop
  <1>6. st \in [Stops -> Stop]
    BY <1>3, <1>5
  <1> HIDE DEF st
  <1>7. s \in StopsOf(t)
    BY DEF StopsOf
  <1>8. Touched(t, st)
    BY <1>4, <1>5, <1>6, <1>7 DEF Touched
  <1>9. Out' \subseteq Out /\ \A u \in Stops : Instants(stop', u) = Instants(st, u)
    <2> HIDE DEF t
    <2> QED BY <1>1, <1>2, <1>8, BecomesOrder
  <1>10. /\ Instants(st, s) \subseteq Instants(stop, s) \cup {now}
         /\ \A u \in Stops \ {s} : Instants(st, u) = Instants(stop, u)
    BY <1>4, <1>5 DEF Instants
  <1>11. /\ Instants(stop', s) \subseteq Instants(stop, s) \cup {now}
         /\ \A u \in Stops \ {s} : Instants(stop', u) = Instants(stop, u)
    BY <1>9, <1>10
  <1> QED BY <1>1, <1>9, <1>11, OrderGrows

\* The office's decisions bring no taps.
LEMMA AdjudicateOrder ==
    ASSUME LedgerInv, TapsInOrder, NEW s \in Stops, NEW verdict \in {"settled", "vetoed"},
           Adjudicate(s, verdict)
    PROVE  TapsInOrder'
  <1> DEFINE st == [stop EXCEPT ![s].verdict = verdict]
             t == TripOf[s]
  <1>1. t \in Out /\ unwound' = unwound
    BY DEF Adjudicate
  <1>2. \E status \in {"in_progress", "pending_approval", "cancelled"} : Becomes(t, st, status)
    BY DEF Adjudicate, Conclude
  <1>3. stop \in [Stops -> Stop] /\ stop[s] \in Stop
    BY DEF LedgerInv, TypeOK
  <1>4. /\ st[s] = [stop[s] EXCEPT !.verdict = verdict]
        /\ \A u \in Stops \ {s} : st[u] = stop[u]
    BY <1>3
  <1>5. /\ st[s] \in Stop /\ st[s].deliveredAt = stop[s].deliveredAt
        /\ st[s].arrivedAt = stop[s].arrivedAt /\ st[s].award = stop[s].award
        /\ st[s].zonePoints = stop[s].zonePoints
    BY <1>3, <1>4 DEF Stop
  <1>6. st \in [Stops -> Stop]
    BY <1>3, <1>5
  <1> HIDE DEF st
  <1>7. s \in StopsOf(t)
    BY DEF StopsOf
  <1>8. Touched(t, st)
    BY <1>4, <1>5, <1>6, <1>7 DEF Touched
  <1>9. Out' \subseteq Out /\ \A u \in Stops : Instants(stop', u) = Instants(st, u)
    <2> HIDE DEF t
    <2> QED BY <1>1, <1>2, <1>8, BecomesOrder
  <1>10. \A u \in Stops : Instants(st, u) = Instants(stop, u)
    BY <1>4, <1>5 DEF Instants
  <1> QED BY <1>1, <1>9, <1>10, OrderStands

\* An abort brings no tap.
LEMMA AbortOrder ==
    ASSUME LedgerInv, TapsInOrder, NEW t \in Trips, Abort(t)
    PROVE  TapsInOrder'
  <1>1. /\ t \in Out /\ unwound' = unwound
        /\ \E status \in {"in_progress", "pending_approval", "cancelled"} : Becomes(t, stop, status)
    BY DEF Abort
  <1>2. Touched(t, stop)
    BY DEF Touched, LedgerInv, TypeOK
  <1>3. Out' \subseteq Out /\ \A u \in Stops : Instants(stop', u) = Instants(stop, u)
    BY <1>1, <1>2, BecomesOrder
  <1> QED BY <1>1, <1>3, OrderStands

\* An undone delivery leaves him out with its trip again: the last, if nothing
\* was unwound.
LEMMA UndoneOrder ==
    ASSUME LedgerInv, TapsInOrder, NEW s \in Stops, UndoDelivered(s)
    PROVE  /\ TapsInOrder'
           /\ ~unwound' => ~unwound /\ \A u \in Trips \ {TripOf[s]} : Before(stop, u, TripOf[s])
  <1> DEFINE t == TripOf[s]
  <1>1. /\ stop' = Reverted(t, s) /\ t \in Trips /\ stop[s].status = "delivered"
        /\ \A u \in Trips \ {t} : trip'[u] = trip[u]
        /\ unwound' = (\/ unwound
                       \/ Out \ {t} # {}
                       \/ \E u \in Stops \ StopsOf(t) : PayInstant(stop, u) > stop[s].deliveredAt)
    BY PaydayAssumption DEF UndoDelivered, LedgerInv, TypeOK
  <1>2. stop \in [Stops -> Stop] /\ \A u \in Stops : Stamped(stop, At(taps), u)
    BY DEF LedgerInv, TypeOK, BooksInv
  <1>3. \A u \in Stops : Instants(stop', u) \subseteq Instants(stop, u)
    <2>1. TAKE u \in Stops
    <2>2. stop[u] \in Stop
      BY <1>2
    <2>3. CASE u = s
      <3>1. stop'[u] = [stop[u] EXCEPT !.status = "arrived", !.deliveredAt = 0, !.award = "none"]
        BY <1>1, <2>3 DEF Reverted
      <3> QED BY <2>2, <3>1 DEF Stop, Instants
    <2>4. CASE u # s
      <3>1. stop'[u] = stop[u] \/ stop'[u] = [stop[u] EXCEPT !.award = "none"]
        BY <1>1, <2>4 DEF Reverted
      <3> QED BY <2>2, <3>1 DEF Stop, Instants
    <2> QED BY <2>3, <2>4
  <1> HIDE DEF t
  <1>4. ASSUME ~unwound'
        PROVE  /\ ~unwound /\ Out \subseteq {t} /\ OneAfterTheOther(stop)
               /\ \A u \in Trips \ {t} : Before(stop, u, t)
    <2>1. ~unwound /\ Out \subseteq {t} /\ OneAfterTheOther(stop)
      BY <1>1, <1>4 DEF TapsInOrder
    <2>2. ASSUME NEW u \in Trips \ {t} PROVE Before(stop, u, t)
      <3>1. CASE Before(stop, u, t)
        BY <3>1
      <3>2. CASE Before(stop, t, u)
        <4>1. s \in StopsOf(t) /\ stop[s].deliveredAt \in Instants(stop, s)
          BY <1>1, <1>2 DEF StopsOf, t, Stamped, Instants
        <4>2. ASSUME NEW v \in StopsOf(u), Instants(stop, v) # {} PROVE FALSE
          <5>1. v \in Stops /\ v \notin StopsOf(t)
            BY DEF StopsOf
          <5>2. PayInstant(stop, v) \in Instants(stop, v)
            BY <1>2, <4>2, <5>1, TapIsPaid
          <5>3. stop[s].deliveredAt < PayInstant(stop, v)
            BY <3>2, <4>1, <5>2 DEF Before
          <5>4. ~(PayInstant(stop, v) > stop[s].deliveredAt)
            BY <1>1, <1>4, <5>1
          <5> QED BY <5>3, <5>4
        <4> QED BY <4>2 DEF Before
      <3> QED BY <2>1, <1>1, <3>1, <3>2 DEF OneAfterTheOther
    <2> QED BY <2>1, <2>2
  <1>5. /\ OneTapEach(stop')
        /\ \A a, b \in Trips : Before(stop, a, b) => Before(stop', a, b)
        /\ OneAfterTheOther(stop) => OneAfterTheOther(stop')
    BY <1>3, FewerTaps DEF TapsInOrder
  <1>6. ASSUME ~unwound' PROVE OneOut' /\ OneAfterTheOther(stop')
    <2>1. Out' \subseteq {t}
      BY <1>1, <1>4, <1>6 DEF Out
    <2>2. \A u \in Trips \ {t} : Before(stop', u, t)
      BY <1>1, <1>4, <1>5, <1>6
    <2> QED BY <1>4, <1>5, <1>6, <2>1, <2>2 DEF OneOut, Before, Instants
  <1>7. TapsInOrder'
    BY <1>5, <1>6 DEF TapsInOrder, OneTapEach, OneAfterTheOther, Before, Instants
  <1> QED BY <1>4, <1>7 DEF t

\* The other steps bring no tap and start no trip.
LEMMA OtherOrder ==
    ASSUME LedgerInv, TapsInOrder,
           \/ \E t \in Trips : \/ Assign(t) \/ Unassign(t)
                               \/ \E own \in OwnAmounts \cup {None} : Approve(t, own)
           \/ \E s \in Stops : UndoArrived(s) \/ RejectLate(s)
           \/ OfficeHours \/ NextDay \/ UNCHANGED vars
    PROVE  TapsInOrder'
  <1>1. stop \in [Stops -> Stop] /\ trip \in [Trips -> Trip]
    BY DEF LedgerInv, TypeOK
  <1>2. unwound' = unwound
    BY DEF Assign, Unassign, Approve, UndoArrived, RejectLate, OfficeHours, NextDay, vars, ledgerVars
  <1>3. \A s \in Stops : Instants(stop', s) \subseteq Instants(stop, s)
    <2>1. TAKE s \in Stops
    <2>2. stop[s] \in Stop
      BY <1>1
    <2>3. CASE stop' = stop
      BY <2>3 DEF Instants
    <2>4. ASSUME NEW t \in Trips, Assign(t) \/ Unassign(t)
          PROVE  Instants(stop', s) \subseteq Instants(stop, s)
      <3>1. stop'[s] = stop[s] \/ \E p : stop'[s] = [stop[s] EXCEPT !.zonePoints = p]
        BY <2>4 DEF Assign, Unassign
      <3> QED BY <2>2, <3>1 DEF Stop, Instants
    <2>5. ASSUME NEW u \in Stops, UndoArrived(u) \/ RejectLate(u)
          PROVE  Instants(stop', s) \subseteq Instants(stop, s)
      <3>1. \/ stop'[s] = stop[s]
            \/ stop'[s] = [stop[s] EXCEPT !.status = "pending", !.arrivedAt = 0]
            \/ stop'[s] = [stop[s] EXCEPT !.verdict = "vetoed"]
        BY <1>1, <2>5 DEF UndoArrived, RejectLate
      <3> QED BY <2>2, <3>1 DEF Stop, Instants
    <2>6. CASE OfficeHours \/ NextDay \/ UNCHANGED vars
      BY <2>6 DEF OfficeHours, NextDay, vars, ledgerVars, Instants
    <2>7. ASSUME NEW t \in Trips, NEW own, Approve(t, own)
          PROVE  Instants(stop', s) \subseteq Instants(stop, s)
      BY <2>7 DEF Approve, Instants
    <2> QED BY <2>4, <2>5, <2>6, <2>7
  <1>4. Out' \subseteq Out
    <2>1. CASE trip' = trip
      BY <2>1 DEF Out
    <2>2. ASSUME NEW t \in Trips,
                 Assign(t) \/ Unassign(t) \/ \E own \in OwnAmounts \cup {None} : Approve(t, own)
          PROVE  Out' \subseteq Out
      <3>1. trip[t] \in Trip
        BY <1>1
      <3>2. ASSUME NEW own, Approve(t, own)
            PROVE  trip'[t].status = "completed" /\ \A u \in Trips \ {t} : trip'[u] = trip[u]
        BY <1>1, <3>1, <3>2 DEF Approve, Trip
      <3>3. CASE Assign(t) \/ Unassign(t)
        <4>1. \E status \in {"assigned", "pending"} : \E rates, day :
                 trip' = [trip EXCEPT ![t].status = status, ![t].rates = rates, ![t].assignedOn = day]
          BY <3>3 DEF Assign, Unassign
        <4>2. /\ trip'[t].status \in {"assigned", "pending"}
              /\ \A u \in Trips \ {t} : trip'[u] = trip[u]
          BY <1>1, <3>1, <4>1 DEF Trip
        <4> QED BY <4>2 DEF Out
      <3> QED BY <2>2, <3>2, <3>3 DEF Out
    <2>3. CASE OfficeHours \/ NextDay \/ UNCHANGED vars
      BY <2>1, <2>3 DEF OfficeHours, NextDay, vars, ledgerVars
    <2>4. ASSUME NEW s \in Stops, UndoArrived(s) \/ RejectLate(s) PROVE trip' = trip
      BY <2>4 DEF UndoArrived, RejectLate
    <2> QED BY <2>1, <2>2, <2>3, <2>4
  <1> QED BY <1>2, <1>3, <1>4, OrderStands

\* The trips are made one after the other.
LEMMA NextOrder ==
    ASSUME LedgerInv, TapsInOrder, [Next]_vars
    PROVE  TapsInOrder'
  <1>1. CASE OfficeHours \/ NextDay \/ UNCHANGED vars
    BY <1>1, OtherOrder
  <1>2. ASSUME NEW t \in Trips,
               \/ Assign(t) \/ Unassign(t) \/ Start(t) \/ Abort(t)
               \/ \E own \in OwnAmounts \cup {None} : Approve(t, own)
        PROVE  TapsInOrder'
    BY <1>2, StartOrder, AbortOrder, OtherOrder
  <1>3. ASSUME NEW s \in Stops,
               \/ Arrive(s) \/ Deliver(s) \/ UndoArrived(s) \/ UndoDelivered(s)
               \/ RejectLate(s)
               \/ \E verdict \in {"settled", "vetoed"} : Adjudicate(s, verdict)
        PROVE  TapsInOrder'
    BY <1>3, ArriveOrder, DeliverOrder, UndoneOrder, AdjudicateOrder, OtherOrder
  <1> QED BY <1>1, <1>2, <1>3 DEF Next

-----------------------------------------------------------------------------
(* The awards: the first of a zone is its earliest drop.                   *)

\* While no delivery was undone after he went on, the first of a zone is its earliest.
FirstsInOrder == ~unwound => FirstIsEarliest(stop)

\* The pools of the trips, and with them the ledgers, never change.
PoolsStand == \A s \in Stops : PoolOf(s)' = PoolOf(s)

\* The awards stand, and the instants of the stops that have one.
LEMMA AwardsStand ==
    ASSUME PoolsStand, FirstsInOrder, unwound' = unwound,
           \A s \in Stops : stop'[s].award = stop[s].award,
           \A s \in Scored(stop) : PayInstant(stop', s) = PayInstant(stop, s)
    PROVE  FirstsInOrder'
  <1>1. Scored(stop') = Scored(stop) /\ Scored(stop) \subseteq Stops
    BY DEF Scored
  <1>2. \A s, u \in Scored(stop) : Same(stop, s, u)' <=> Same(stop, s, u)
    BY <1>1 DEF Same, PoolsStand, DayOf, PayInstant
  <1>3. ASSUME ~unwound PROVE FirstIsEarliest(stop)'
    <2>1. FirstIsEarliest(stop)
      BY <1>3 DEF FirstsInOrder
    <2>2. \A s \in Scored(stop) :
             stop'[s].award = "first" <=>
                \A u \in Scored(stop) :
                    Same(stop, s, u)' => PayInstant(stop', s) <= PayInstant(stop', u)
      BY <1>1, <1>2, <2>1 DEF FirstIsEarliest
    <2> QED BY <1>1, <2>2 DEF FirstIsEarliest, Scored, PayInstant
  <1> QED BY <1>3 DEF FirstsInOrder

\* The stops scored when a trip is proposed: its own that earn, besides those before.
LEMMA NewlyScored ==
    ASSUME LedgerInv, NEW t \in Out, NEW st, Touched(t, st)
    PROVE  LET new == Awarded(st, t)
           IN /\ \A s \in Stops : PayInstant(new, s) = PayInstant(st, s)
              /\ \A s \in StopsOf(t) :
                    s \in Stops /\ s \notin Scored(stop) /\ (s \in Scored(new) <=> Earns(st, s))
              /\ \A s \in Stops \ StopsOf(t) :
                    /\ new[s] = stop[s] /\ PayInstant(new, s) = PayInstant(stop, s)
                    /\ s \in Scored(new) <=> s \in Scored(stop)
              /\ Scored(new) \subseteq Stops
  <1> DEFINE new == Awarded(st, t)
  <1>1. t \in Trips /\ trip[t].status = "in_progress" /\ st \in [Stops -> Stop]
    BY DEF Out, Touched
  <1>2. \A s \in Stops :
           /\ PayInstant(new, s) = PayInstant(st, s)
           /\ IF s \in StopsOf(t) /\ Earns(st, s) THEN new[s].award \in {"first", "repeat"}
              ELSE new[s] = st[s]
    BY <1>1, AwardsOnly
  <1>3. \A s \in StopsOf(t) : s \in Stops /\ stop[s].award = "none" /\ st[s].award = "none"
    <2>1. TAKE s \in StopsOf(t)
    <2>2. s \in Stops /\ TripOf[s] = t
      BY DEF StopsOf
    <2>3. AwardStands(s)
      BY <2>2 DEF LedgerInv, BooksInv
    <2> QED BY <1>1, <2>2, <2>3 DEF AwardStands, Finished, Touched
  <1> HIDE DEF new
  <1>4. \A s \in StopsOf(t) : s \in Stops /\ s \notin Scored(stop) /\ (s \in Scored(new) <=> Earns(st, s))
    BY <1>2, <1>3 DEF Scored
  <1>5. ASSUME NEW s \in Stops \ StopsOf(t)
        PROVE  /\ new[s] = stop[s] /\ PayInstant(new, s) = PayInstant(stop, s)
               /\ s \in Scored(new) <=> s \in Scored(stop)
    <2>1. new[s] = stop[s]
      BY <1>2 DEF Touched
    <2> QED BY <2>1 DEF Scored, PayInstant
  <1> QED BY <1>2, <1>4, <1>5 DEF Scored, new

\* What a proposal's awards say: a drop is a repeat exactly if a stop that is scored
\* now has an earlier drop in its zone, on its day and in its ledger.
LEMMA RepeatsAreLater ==
    ASSUME LedgerInv, NEW t \in Out, Out = {t}, NEW st, Touched(t, st),
           NEW now, \A s \in Stops : Stamped(st, now, s),
           \A u \in Trips \ {t} : Before(st, u, t),
           NEW s \in StopsOf(t), Earns(st, s)
    PROVE  LET new == Awarded(st, t)
           IN new[s].award = "first" <=>
                 \A u \in Scored(new) : Same(new, s, u) => PayInstant(new, s) <= PayInstant(new, u)
  <1> DEFINE new == Awarded(st, t)
             d == LedgerDrop(st, s)
  <1>1. t \in Trips /\ trip[t].status = "in_progress" /\ st \in [Stops -> Stop] /\ Scorable(st)
    BY TouchedScorable DEF LedgerInv, Out, Touched
  <1>2. /\ \A u \in Stops : PayInstant(new, u) = PayInstant(st, u)
        /\ \A u \in StopsOf(t) : u \in Stops /\ (u \in Scored(new) <=> Earns(st, u))
        /\ \A u \in Stops \ StopsOf(t) :
              new[u] = stop[u] /\ (u \in Scored(new) <=> u \in Scored(stop))
        /\ Scored(new) \subseteq Stops
    BY NewlyScored
  <1>3. PICK g \in DayGroups(st, t) :
             d \in g /\ new[s].award = IF IsRepeat(d, g \cup Prior(st, t, g)) THEN "repeat" ELSE "first"
    BY <1>1, AwardOf
  <1> DEFINE prior == Prior(st, t, g)
             anchor == Anchor(g)
  <1> HIDE DEF new
  <1>4. /\ prior = PriorDrops(st, t, anchor) /\ anchor \in Nat
        /\ \A e \in g : /\ e.stop \in StopsOf(t) /\ Earns(st, e.stop) /\ e = LedgerDrop(st, e.stop)
                        /\ e.at = PayInstant(st, e.stop)
                        /\ DayOf(e.at) = DayOf(anchor) /\ anchor <= e.at
        /\ \E e \in g : e.at = anchor
        /\ g = {e \in EarnedDrops(st, t) : DayOf(e.at) = DayOf(anchor)}
    BY <1>1, GroupFacts, PriorOfGroup
  <1>5. s \in Stops /\ TripOf[s] = t /\ d.zone = ZoneOf[s] /\ d.at = PayInstant(st, s) /\ d.at \in Nat
        /\ DayOf(PayInstant(st, s)) = DayOf(anchor) /\ anchor <= PayInstant(st, s)
    <2>1. s \in Stops /\ TripOf[s] = t
      BY DEF StopsOf
    <2>2. d.zone = ZoneOf[s] /\ d.at = PayInstant(st, s) /\ d.at \in Nat
      BY <1>1, <2>1, DropOf
    <2> QED BY <1>3, <1>4, <2>1, <2>2
  <1> HIDE DEF d, prior, anchor
  <1>6. ASSUME NEW e \in g \cup prior, e.zone = d.zone, e.at < d.at
        PROVE  \E u \in Scored(new) : Same(new, s, u) /\ PayInstant(st, u) < PayInstant(st, s)
    <2>1. CASE e \in g
      <3>1. /\ e.stop \in StopsOf(t) /\ e.stop \in Stops /\ Earns(st, e.stop) /\ e.at = PayInstant(st, e.stop)
            /\ DayOf(e.at) = DayOf(anchor) /\ e.zone = ZoneOf[e.stop] /\ TripOf[e.stop] = t
        <4>1. /\ e.stop \in StopsOf(t) /\ Earns(st, e.stop) /\ e = LedgerDrop(st, e.stop)
              /\ e.at = PayInstant(st, e.stop) /\ DayOf(e.at) = DayOf(anchor)
          BY <1>4, <2>1
        <4>2. e.stop \in Stops /\ TripOf[e.stop] = t
          BY <4>1 DEF StopsOf
        <4>3. e.zone = ZoneOf[e.stop]
          BY <1>1, <4>1, <4>2, DropOf
        <4> QED BY <4>1, <4>2, <4>3
      <3>2. e.stop \in Scored(new) /\ PayInstant(new, e.stop) = e.at /\ PayInstant(new, s) = d.at
        BY <1>2, <1>5, <3>1
      <3>3. Same(new, s, e.stop)
        BY <1>5, <1>6, <3>1, <3>2 DEF Same, PoolOf
      <3> QED BY <1>5, <1>6, <3>1, <3>2, <3>3
    <2>2. CASE e \in prior
      <3>1. /\ e.stop \in Stops \ StopsOf(t) /\ e.zone = ZoneOf[e.stop]
            /\ PoolOf(e.stop) = trip[t].pool /\ trip[TripOf[e.stop]].status \in LedgerStatuses
            /\ InLedger(st, e.stop) /\ DayOf(PayInstant(st, e.stop)) = DayOf(anchor)
            /\ PayInstant(st, e.stop) < anchor
        BY <1>1, <1>4, <2>2, PriorFacts
      <3>2. trip[TripOf[e.stop]].status \in Finished
        <4>1. TripOf[e.stop] \in Trips /\ TripOf[e.stop] # t
          BY <3>1, PaydayAssumption DEF StopsOf
        <4>2. TripOf[e.stop] \notin Out
          BY <4>1
        <4> QED BY <3>1, <4>1, <4>2 DEF LedgerStatuses, Finished, Out
      <3>3. e.stop \in Scored(stop)
        <4>1. st[e.stop] = stop[e.stop] /\ AwardStands(e.stop)
          BY <3>1 DEF Touched, LedgerInv, BooksInv
        <4>2. Earns(st, e.stop) <=> Earns(stop, e.stop)
          BY <4>1 DEF Earns, Adjudicated
        <4> QED BY <3>1, <3>2, <4>1, <4>2 DEF AwardStands, InLedger, Scored
      <3>4. e.stop \in Scored(new) /\ PayInstant(new, e.stop) = PayInstant(st, e.stop)
            /\ PayInstant(new, s) = d.at
        BY <1>2, <1>5, <3>1, <3>3
      <3>5. Same(new, s, e.stop)
        BY <1>5, <1>6, <3>1, <3>4 DEF Same, PoolOf
      <3>6. PayInstant(st, e.stop) < PayInstant(st, s)
        <4>1. PayInstant(st, e.stop) \in Nat
          BY <1>1, <3>1, PayIsTap
        <4> QED BY <1>4, <1>5, <3>1, <4>1
      <3> QED BY <3>4, <3>5, <3>6
    <2> QED BY <2>1, <2>2
  <1>7. ASSUME NEW u \in Scored(new), Same(new, s, u), PayInstant(st, u) < PayInstant(st, s)
        PROVE  \E e \in g \cup prior : e.zone = d.zone /\ e.at < d.at
    <2>1. u \in Stops /\ PoolOf(u) = trip[t].pool /\ ZoneOf[u] = ZoneOf[s]
          /\ DayOf(PayInstant(st, u)) = DayOf(anchor)
      BY <1>2, <1>5, <1>7 DEF Same, PoolOf
    <2> DEFINE e == LedgerDrop(st, u)
    <2>2. CASE u \in StopsOf(t)
      <3>1. Earns(st, u) /\ TripOf[u] = t
        BY <1>2, <2>2 DEF StopsOf
      <3>2. e.zone = ZoneOf[u] /\ e.at = PayInstant(st, u)
        BY <1>1, <2>1, <3>1, DropOf
      <3>3. e \in EarnedDrops(st, t)
        BY <2>2, <3>1 DEF EarnedDrops
      <3>4. e \in g
        BY <1>4, <2>1, <3>2, <3>3
      <3> HIDE DEF e
      <3> QED BY <1>5, <1>7, <2>1, <3>2, <3>4
    <2>3. CASE u \notin StopsOf(t)
      <3>1. u \in Scored(stop) /\ st[u] = stop[u] /\ TripOf[u] \in Trips /\ TripOf[u] # t /\ u \in StopsOf(TripOf[u])
        BY <1>2, <2>1, <2>3, PaydayAssumption DEF StopsOf, Touched
      <3>2. trip[TripOf[u]].status \in Finished /\ PayInstant(stop, u) # 0 /\ stop[u].award # "none"
        BY <2>1, <3>1 DEF LedgerInv, BooksInv, AwardStands, Scored
      <3>3. PayInstant(st, u) # 0 /\ PayInstant(st, u) = PayInstant(stop, u)
        BY <3>1, <3>2 DEF PayInstant
      <3>4. InLedger(st, u)
        BY <3>1, <3>2, <3>3 DEF InLedger, PayInstant, Earns
      <3>5. PayInstant(st, u) < anchor
        <4>1. PICK f \in g : f.at = anchor
          BY <1>4
        <4>2. f.stop \in StopsOf(t) /\ f.stop \in Stops /\ PayInstant(st, f.stop) = anchor /\ Earns(st, f.stop)
          BY <1>4, <4>1 DEF StopsOf
        <4>3. PayInstant(st, f.stop) # 0
          BY <4>2, EarnsTapped
        <4>4. anchor \in Instants(st, f.stop) /\ PayInstant(st, u) \in Instants(st, u)
          BY <1>1, <2>1, <3>3, <4>2, <4>3, PayIsTap
        <4> QED BY <3>1, <4>2, <4>4 DEF Before
      <3>6. e \in prior
        <4>1. e \in PriorDrops(st, t, anchor)
          BY <2>1, <2>3, <3>2, <3>4, <3>5 DEF PriorDrops, LedgerStatuses, Finished
        <4> QED BY <1>4, <4>1
      <3>7. e.zone = ZoneOf[u] /\ e.at \in Nat /\ e.at <= PayInstant(st, u) /\ PayInstant(st, u) \in Nat
        BY <1>1, <2>1, <3>2, DropOf DEF Finished
      <3> HIDE DEF e
      <3>8. e.at < d.at
        BY <1>5, <1>7, <3>7
      <3> QED BY <1>5, <2>1, <3>6, <3>7, <3>8
    <2> QED BY <2>2, <2>3
  <1>8. IsRepeat(d, g \cup prior) <=>
            \E u \in Scored(new) : Same(new, s, u) /\ PayInstant(st, u) < PayInstant(st, s)
    BY <1>6, <1>7 DEF IsRepeat
  <1>9. \A u \in Stops : PayInstant(st, u) \in Nat /\ PayInstant(new, u) = PayInstant(st, u)
    BY <1>1, <1>2, PayIsTap
  <1>10. new[s].award = "first" <=> ~IsRepeat(d, g \cup prior)
    BY <1>3 DEF prior
  <1> QED BY <1>2, <1>5, <1>8, <1>9, <1>10 DEF new

\* A proposal scores its trip's drops: they come after all that were scored before.
LEMMA ProposalFirsts ==
    ASSUME LedgerInv, FirstIsEarliest(stop), NEW t \in Out, Out = {t}, NEW st, Touched(t, st),
           NEW now, \A s \in Stops : Stamped(st, now, s),
           \A u \in Trips \ {t} : Before(st, u, t)
    PROVE  FirstIsEarliest(Awarded(st, t))
  <1> DEFINE new == Awarded(st, t)
  <1>1. /\ \A u \in Stops : PayInstant(new, u) = PayInstant(st, u)
        /\ \A u \in StopsOf(t) : u \in Stops /\ (u \in Scored(new) <=> Earns(st, u))
        /\ \A u \in StopsOf(t) : u \notin Scored(stop)
        /\ \A u \in Stops \ StopsOf(t) : /\ new[u] = stop[u] /\ PayInstant(new, u) = PayInstant(stop, u)
                                         /\ u \in Scored(new) <=> u \in Scored(stop)
        /\ Scored(new) \subseteq Stops /\ Scored(stop) \subseteq Stops
    BY NewlyScored DEF Scored
  <1>2. st \in [Stops -> Stop]
    BY DEF Touched
  <1> SUFFICES ASSUME NEW s \in Scored(new)
               PROVE  new[s].award = "first" <=>
                         \A u \in Scored(new) : Same(new, s, u) => PayInstant(new, s) <= PayInstant(new, u)
    BY DEF FirstIsEarliest
  <1>3. CASE s \in StopsOf(t)
    <2>1. Earns(st, s)
      BY <1>1, <1>3
    <2> QED BY <1>3, <2>1, RepeatsAreLater
  <1> HIDE DEF new
  <1>4. CASE s \notin StopsOf(t)
    <2>1. s \in Stops /\ s \in Scored(stop) /\ new[s] = stop[s] /\ PayInstant(new, s) = PayInstant(stop, s)
      BY <1>1, <1>4
    <2>2. stop[s].award = "first" <=>
             \A u \in Scored(stop) : Same(stop, s, u) => PayInstant(stop, s) <= PayInstant(stop, u)
      BY <2>1 DEF FirstIsEarliest
    <2>3. ASSUME NEW u \in StopsOf(t), u \in Scored(new)
          PROVE  PayInstant(new, s) <= PayInstant(new, u)
      <3>1. u \in Stops /\ Earns(st, u) /\ TripOf[s] \in Trips \ {t} /\ s \in StopsOf(TripOf[s])
        BY <1>1, <1>4, <2>1, <2>3, PaydayAssumption DEF StopsOf
      <3>2. PayInstant(stop, s) # 0
        BY <2>1 DEF LedgerInv, BooksInv, AwardStands, Scored
      <3>3. PayInstant(st, s) = PayInstant(new, s) /\ PayInstant(st, u) = PayInstant(new, u)
        BY <1>1, <2>1, <3>1
      <3>4. PayInstant(st, s) \in Instants(st, s) /\ PayInstant(st, s) \in Nat
        BY <1>2, <2>1, <3>2, <3>3, PayIsTap
      <3>5. PayInstant(st, u) \in Instants(st, u) /\ PayInstant(st, u) \in Nat
        BY <1>2, <3>1, EarnsTapped, PayIsTap
      <3>6. PayInstant(st, s) < PayInstant(st, u)
        BY <2>3, <3>1, <3>4, <3>5 DEF Before
      <3> QED BY <3>3, <3>4, <3>5, <3>6
    <2>4. ASSUME NEW u \in Scored(stop)
          PROVE  u \in Scored(new) /\ u \notin StopsOf(t) /\ PayInstant(new, u) = PayInstant(stop, u)
      <3>1. u \in Stops /\ u \notin StopsOf(t)
        BY <1>1
      <3> QED BY <1>1, <3>1
    <2>5. \A u \in Scored(new) : u \notin StopsOf(t) => u \in Scored(stop)
      BY <1>1
    <2>6. \A u \in Scored(stop) : Same(new, s, u) <=> Same(stop, s, u)
      BY <2>1, <2>4 DEF Same
    <2> QED BY <2>1, <2>2, <2>3, <2>4, <2>5, <2>6
  <1> QED BY <1>3, <1>4

\* The pools of the trips stand when one is sent on.
LEMMA BecomesPools ==
    ASSUME LedgerInv, NEW t \in Out, NEW st, Touched(t, st),
           NEW status \in {"in_progress", "pending_approval", "cancelled"}, Becomes(t, st, status)
    PROVE  PoolsStand
  <1>1. t \in Trips /\ trip'[t].pool = trip[t].pool /\ \A u \in Trips \ {t} : trip'[u] = trip[u]
    BY BecomesTrip DEF Out
  <1>2. \A u \in Trips : trip'[u].pool = trip[u].pool
    BY <1>1
  <1> QED BY <1>2, PaydayAssumption DEF PoolsStand, PoolOf

\* Awards given to the trip that is out come after all others.
LEMMA BecomesFirsts ==
    ASSUME LedgerInv, TapsInOrder, FirstsInOrder, NEW t \in Out, NEW st, Touched(t, st),
           NEW now, \A s \in Stops : Stamped(st, now, s),
           ~unwound => \A u \in Trips \ {t} : Before(st, u, t), unwound' = unwound,
           NEW status \in {"in_progress", "pending_approval", "cancelled"}, Becomes(t, st, status)
    PROVE  FirstsInOrder'
  <1>1. PoolsStand
    BY BecomesPools
  <1>2. CASE status = "pending_approval"
    <2>1. ASSUME ~unwound PROVE FirstIsEarliest(stop)'
      <3> DEFINE new == Awarded(st, t)
      <3>1. Out = {t} /\ \A u \in Trips \ {t} : Before(st, u, t)
        BY <2>1 DEF TapsInOrder, OneOut
      <3>2. FirstIsEarliest(stop)
        BY <2>1 DEF FirstsInOrder
      <3>3. FirstIsEarliest(new)
        BY <3>1, <3>2, ProposalFirsts
      <3>4. stop' = new
        BY <1>2 DEF Becomes
      <3> HIDE DEF new
      <3>5. \A s, u \in Stops : Same(stop, s, u)' <=> Same(new, s, u)
        BY <1>1, <3>4 DEF Same, PoolsStand, PayInstant, DayOf
      <3>6. Scored(stop)' = Scored(new) /\ \A s \in Stops : PayInstant(stop, s)' = PayInstant(new, s)
        BY <3>4 DEF Scored, PayInstant
      <3>7. \A s \in Scored(new) : s \in Stops
        BY DEF Scored
      <3> QED BY <3>3, <3>4, <3>5, <3>6, <3>7 DEF FirstIsEarliest
    <2> QED BY <2>1 DEF FirstsInOrder
  <1>3. CASE status # "pending_approval"
    <2>1. stop' = st
      BY <1>3 DEF Becomes
    <2>2. \A s \in Stops : stop'[s].award = stop[s].award
      BY <2>1 DEF Touched
    <2>3. \A s \in Scored(stop) : PayInstant(stop', s) = PayInstant(stop, s)
      <3>1. TAKE s \in Scored(stop)
      <3>2. s \in Stops /\ s \notin StopsOf(t)
        BY NewlyScored DEF Scored
      <3>3. stop'[s] = stop[s]
        BY <2>1, <3>2 DEF Touched
      <3> QED BY <3>3 DEF PayInstant
    <2> QED BY <1>1, <2>2, <2>3, AwardsStand
  <1> QED BY <1>2, <1>3

\* A step sends the trip he is out with on, with its stops as in st.
SendsOn(t, st) ==
    /\ t \in Out /\ Touched(t, st) /\ unwound' = unwound
    /\ \A s \in Stops : Stamped(st, At(taps)', s)
    /\ \E status \in {"in_progress", "pending_approval", "cancelled"} : Becomes(t, st, status)
    /\ ~unwound => \A u \in Trips \ {t} : Before(st, u, t)

\* The trip of a delivered stop becomes something, with its stops in order.
LEMMA DeliverSends ==
    ASSUME LedgerInv, TapsInOrder, NEW s \in Stops, Deliver(s)
    PROVE  \E st : SendsOn(TripOf[s], st)
  <1> DEFINE now == At(taps + 1)
             st == [stop EXCEPT ![s].status = "delivered", ![s].deliveredAt = now]
             t == TripOf[s]
  <1>1. /\ t \in Out /\ now \in Nat /\ At(taps) < now /\ now \in Instant /\ unwound' = unwound
        /\ now >= TapsADay + 1 /\ now # 0
        /\ \A u \in Stops : Stamped(stop, At(taps), u) => Stamped(stop, now, u)
    BY TapBooks DEF Deliver, Tap
  <1>2. \E status \in {"in_progress", "pending_approval", "cancelled"} : Becomes(t, st, status)
    BY DEF Deliver, Conclude
  <1>3. stop \in [Stops -> Stop] /\ stop[s] \in Stop
    BY DEF LedgerInv, TypeOK
  <1> HIDE DEF now
  <1>4. /\ st[s] = [stop[s] EXCEPT !.status = "delivered", !.deliveredAt = now]
        /\ \A u \in Stops \ {s} : st[u] = stop[u]
    BY <1>3
  <1>5. /\ st[s] \in Stop /\ st[s].status = "delivered" /\ st[s].deliveredAt = now
        /\ st[s].arrivedAt = stop[s].arrivedAt /\ st[s].award = stop[s].award
        /\ st[s].zonePoints = stop[s].zonePoints
    BY <1>1, <1>3, <1>4 DEF Stop
  <1>6. st \in [Stops -> Stop]
    BY <1>3, <1>5
  <1> HIDE DEF st
  <1>7. s \in StopsOf(t)
    BY DEF StopsOf
  <1>8. Touched(t, st)
    BY <1>4, <1>5, <1>6, <1>7 DEF Touched
  <1>9. ASSUME NEW u \in Stops PROVE Stamped(st, now, u)
    <2>1. Stamped(stop, now, u)
      BY <1>1 DEF LedgerInv, BooksInv
    <2>2. Tapped(now, now)
      BY <1>1, PaydayAssumption DEF Tapped
    <2> QED BY <1>1, <1>4, <1>5, <2>1, <2>2 DEF Stamped
  <1>10. /\ Instants(st, s) \subseteq Instants(stop, s) \cup {now}
         /\ \A u \in Stops \ {s} : Instants(st, u) = Instants(stop, u)
    BY <1>4, <1>5 DEF Instants
  <1>11. ASSUME ~unwound, NEW u \in Trips \ {t} PROVE Before(st, u, t)
    <2>1. t \in Trips /\ Before(stop, u, t)
      BY <1>1, <1>11 DEF TapsInOrder, OneOut, Out
    <2>2. \A v \in Stops : \A at \in Instants(stop, v) : at \in Nat /\ at < now
      BY <1>1, TapsSoFar
    <2> QED BY <1>1, <1>10, <2>1, <2>2, LatestTap
  <1>12. At(taps)' = now
    BY TapBooks DEF Deliver, now
  <1> HIDE DEF t
  <1>13. SendsOn(t, st)
    BY <1>1, <1>2, <1>8, <1>9, <1>11, <1>12 DEF SendsOn
  <1> QED BY <1>13 DEF t

\* The trip of an adjudicated stop becomes something, with its stops in order.
LEMMA AdjudicateSends ==
    ASSUME LedgerInv, TapsInOrder, NEW s \in Stops,
           NEW verdict \in {"settled", "vetoed"}, Adjudicate(s, verdict)
    PROVE  \E st : SendsOn(TripOf[s], st)
  <1> DEFINE st == [stop EXCEPT ![s].verdict = verdict]
             t == TripOf[s]
             now == At(taps)
  <1>1. t \in Out /\ unwound' = unwound
    BY DEF Adjudicate
  <1>2. \E status \in {"in_progress", "pending_approval", "cancelled"} : Becomes(t, st, status)
    BY DEF Adjudicate, Conclude
  <1>3. stop \in [Stops -> Stop] /\ stop[s] \in Stop
    BY DEF LedgerInv, TypeOK
  <1>4. /\ st[s] = [stop[s] EXCEPT !.verdict = verdict]
        /\ \A u \in Stops \ {s} : st[u] = stop[u]
    BY <1>3
  <1>5. /\ st[s] \in Stop /\ st[s].deliveredAt = stop[s].deliveredAt /\ st[s].status = stop[s].status
        /\ st[s].arrivedAt = stop[s].arrivedAt /\ st[s].award = stop[s].award
        /\ st[s].zonePoints = stop[s].zonePoints
    BY <1>3, <1>4 DEF Stop
  <1>6. st \in [Stops -> Stop]
    BY <1>3, <1>5
  <1> HIDE DEF st
  <1>7. s \in StopsOf(t)
    BY DEF StopsOf
  <1>8. Touched(t, st)
    BY <1>4, <1>5, <1>6, <1>7 DEF Touched
  <1>9. \A u \in Stops : Stamped(stop, now, u)
    BY DEF LedgerInv, BooksInv
  <1> HIDE DEF now
  <1>10. ASSUME NEW u \in Stops PROVE Stamped(st, now, u)
    <2>1. Stamped(stop, now, u)
      BY <1>9
    <2>2. /\ st[u].arrivedAt = stop[u].arrivedAt /\ st[u].deliveredAt = stop[u].deliveredAt
          /\ st[u].status = stop[u].status
      BY <1>4, <1>5
    <2> QED BY <2>1, <2>2 DEF Stamped
  <1>11. \A u \in Stops : Instants(st, u) = Instants(stop, u)
    BY <1>4, <1>5 DEF Instants
  <1>12. ASSUME ~unwound, NEW u \in Trips \ {t} PROVE Before(st, u, t)
    <2>1. t \in Trips /\ Before(stop, u, t)
      BY <1>1, <1>12 DEF TapsInOrder, OneOut, Out
    <2> QED BY <1>11, <2>1, FewerTaps
  <1>13. At(taps)' = now
    BY SameDay DEF Adjudicate, now
  <1> HIDE DEF t
  <1>14. SendsOn(t, st)
    BY <1>1, <1>2, <1>8, <1>10, <1>12, <1>13 DEF SendsOn
  <1> QED BY <1>14 DEF t

\* An aborted trip becomes something, with its stops in order.
LEMMA AbortSends ==
    ASSUME LedgerInv, TapsInOrder, NEW t \in Trips, Abort(t)
    PROVE  SendsOn(t, stop)
  <1>1. /\ t \in Out /\ unwound' = unwound
        /\ \E status \in {"in_progress", "pending_approval", "cancelled"} : Becomes(t, stop, status)
    BY DEF Abort
  <1>2. Touched(t, stop)
    BY DEF Touched, LedgerInv, TypeOK
  <1>3. \A u \in Stops : Stamped(stop, At(taps), u)
    BY DEF LedgerInv, BooksInv
  <1>4. ~unwound => \A u \in Trips \ {t} : Before(stop, u, t)
    BY <1>1 DEF TapsInOrder, OneOut
  <1>5. At(taps)' = At(taps)
    BY SameDay DEF Abort
  <1> QED BY <1>1, <1>2, <1>3, <1>4, <1>5 DEF SendsOn

\* The three ways a trip is sent for approval keep the firsts the earliest.
LEMMA SentOnFirsts ==
    ASSUME LedgerInv, TapsInOrder, FirstsInOrder, NEW t \in Trips,
           \/ Abort(t)
           \/ \E s \in StopsOf(t) : \/ Deliver(s)
                                   \/ \E verdict \in {"settled", "vetoed"} : Adjudicate(s, verdict)
    PROVE  FirstsInOrder'
  <1>1. PICK st : SendsOn(t, st)
    BY AbortSends, DeliverSends, AdjudicateSends DEF StopsOf
  <1> QED BY <1>1, BecomesFirsts DEF SendsOn

\* An undone delivery takes its trip's awards, the latest, back.
LEMMA UndoneFirsts ==
    ASSUME LedgerInv, TapsInOrder, FirstsInOrder, NEW s \in Stops, UndoDelivered(s)
    PROVE  FirstsInOrder'
  <1> DEFINE t == TripOf[s]
  <1>1. /\ stop' = Reverted(t, s) /\ t \in Trips /\ s \in StopsOf(t)
        /\ trip \in [Trips -> Trip] /\ stop \in [Stops -> Stop]
        /\ trip' = [trip EXCEPT ![t].status = "in_progress", ![t].earned = None,
                                ![t].offpeak = None, ![t].deducted = 0, ![t].shortfall = 0]
    BY PaydayAssumption DEF UndoDelivered, LedgerInv, TypeOK, StopsOf
  <1>2. PoolsStand
    <2>1. \A u \in Trips : trip'[u].pool = trip[u].pool
      <3>1. TAKE u \in Trips
      <3>2. trip[u] \in Trip
        BY <1>1
      <3>3. CASE u # t
        BY <1>1, <3>3
      <3>4. CASE u = t
        <4>1. trip'[u] = [trip[u] EXCEPT !.status = "in_progress", !.earned = None,
                                        !.offpeak = None, !.deducted = 0, !.shortfall = 0]
          BY <1>1, <3>4
        <4> HIDE DEF t
        <4> QED BY <3>2, <4>1 DEF Trip
      <3> QED BY <3>3, <3>4
    <2> QED BY <2>1, PaydayAssumption DEF PoolsStand, PoolOf
  <1>3. /\ \A u \in StopsOf(t) : stop'[u].award = "none" /\ u \in Stops
        /\ \A u \in Stops \ StopsOf(t) : stop'[u] = stop[u]
    <2>1. \A u \in Stops : stop[u] \in Stop
      BY <1>1
    <2>2. \A u \in StopsOf(t) : u \in Stops
      BY DEF StopsOf
    <2>3. \A u \in Stops \ StopsOf(t) : stop'[u] = stop[u]
      BY <1>1 DEF Reverted
    <2>4. ASSUME NEW u \in StopsOf(t) PROVE stop'[u].award = "none"
      <3>1. \/ stop'[u] = [stop[u] EXCEPT !.status = "arrived", !.deliveredAt = 0, !.award = "none"]
            \/ stop'[u] = [stop[u] EXCEPT !.award = "none"]
        BY <1>1, <2>2, <2>4 DEF Reverted
      <3>2. stop[u] \in Stop
        BY <2>1, <2>2
      <3> QED BY <3>1, <3>2 DEF Stop
    <2> QED BY <2>2, <2>3, <2>4
  <1>4. ~unwound' => ~unwound /\ \A u \in Trips \ {t} : Before(stop, u, t)
    BY UndoneOrder
  <1> HIDE DEF t
  <1>5. ASSUME ~unwound' PROVE FirstIsEarliest(stop)'
    <2>1. FirstIsEarliest(stop) /\ \A u \in Trips \ {t} : Before(stop, u, t)
      BY <1>4, <1>5 DEF FirstsInOrder
    <2>2. Scored(stop') = Scored(stop) \ StopsOf(t) /\ Scored(stop) \subseteq Stops
      BY <1>3 DEF Scored
    <2>3. \A u \in Scored(stop') : stop'[u] = stop[u] /\ PayInstant(stop', u) = PayInstant(stop, u)
      BY <1>3, <2>2 DEF PayInstant
    <2>4. \A u, v \in Scored(stop') : Same(stop, u, v)' <=> Same(stop, u, v)
      BY <1>2, <2>2, <2>3 DEF Same, PoolsStand, PayInstant, DayOf
    <2>5. ASSUME NEW v \in Scored(stop) PROVE PayInstant(stop, v) \in Instants(stop, v)
      BY <1>1, <2>2, PayIsTap DEF LedgerInv, BooksInv, AwardStands, Scored
    <2>6. ASSUME NEW u \in Scored(stop'), NEW v \in Scored(stop) \cap StopsOf(t)
          PROVE  PayInstant(stop, u) <= PayInstant(stop, v)
      <3>1. u \in Scored(stop) /\ u \in Stops /\ v \in Stops /\ TripOf[u] \in Trips \ {t}
            /\ u \in StopsOf(TripOf[u])
        BY <2>2, PaydayAssumption DEF StopsOf
      <3>2. /\ PayInstant(stop, u) \in Instants(stop, u) /\ PayInstant(stop, v) \in Instants(stop, v)
            /\ PayInstant(stop, u) \in Nat /\ PayInstant(stop, v) \in Nat
        BY <1>1, <2>5, <3>1, PayIsTap
      <3>3. PayInstant(stop, u) < PayInstant(stop, v)
        BY <2>1, <3>1, <3>2 DEF Before
      <3> QED BY <3>2, <3>3
    <2>7. \A u \in Scored(stop') :
             stop'[u].award = "first" <=>
                \A v \in Scored(stop') :
                    Same(stop, u, v)' => PayInstant(stop', u) <= PayInstant(stop', v)
      <3>1. TAKE u \in Scored(stop')
      <3>2. stop[u].award = "first" <=>
               \A v \in Scored(stop) : Same(stop, u, v) => PayInstant(stop, u) <= PayInstant(stop, v)
        BY <2>1, <2>2 DEF FirstIsEarliest
      <3> QED BY <2>2, <2>3, <2>4, <2>6, <3>2
    <2> QED BY <2>7 DEF FirstIsEarliest, Scored, PayInstant
  <1> QED BY <1>5 DEF FirstsInOrder

\* The other steps score nothing, and leave the instants of what is scored alone.
LEMMA OtherFirsts ==
    ASSUME LedgerInv, FirstsInOrder,
           \/ \E t \in Trips : \/ Assign(t) \/ Unassign(t) \/ Start(t)
                               \/ \E own \in OwnAmounts \cup {None} : Approve(t, own)
           \/ \E s \in Stops : Arrive(s) \/ UndoArrived(s) \/ RejectLate(s)
           \/ OfficeHours \/ NextDay \/ UNCHANGED vars
    PROVE  FirstsInOrder'
  <1>1. stop \in [Stops -> Stop] /\ trip \in [Trips -> Trip]
    BY DEF LedgerInv, TypeOK
  <1>2. unwound' = unwound
    BY DEF Assign, Unassign, Start, Approve, Arrive, Tap, UndoArrived, RejectLate, OfficeHours,
           NextDay, vars, ledgerVars
  <1>3. PoolsStand
    <2>1. ASSUME NEW t \in Trips,
                 Assign(t) \/ Unassign(t) \/ Start(t) \/ \E own \in OwnAmounts \cup {None} : Approve(t, own)
          PROVE  \A u \in Trips : trip'[u].pool = trip[u].pool
      <3>1. trip[t] \in Trip
        BY <1>1
      <3>2. \A u \in Trips \ {t} : trip'[u] = trip[u]
        BY <1>1, <2>1 DEF Assign, Unassign, Start, Approve
      <3>3. ASSUME NEW own, Approve(t, own) PROVE trip'[t].pool = trip[t].pool
        BY <1>1, <3>1, <3>3 DEF Approve, Trip
      <3>4. CASE Assign(t) \/ Unassign(t)
        <4>1. \/ trip' = [trip EXCEPT ![t].status = "assigned", ![t].rates = TruckRateSnapshot(t),
                                     ![t].assignedOn = today]
              \/ trip' = [trip EXCEPT ![t].status = "pending", ![t].rates = None, ![t].assignedOn = 0]
          BY <3>4 DEF Assign, Unassign
        <4> QED BY <1>1, <3>1, <3>2, <4>1 DEF Trip
      <3>5. CASE Start(t)
        BY <1>1, <3>1, <3>2, <3>5 DEF Start, Trip
      <3> QED BY <2>1, <3>2, <3>3, <3>4, <3>5
    <2>2. trip' = trip \/ \A u \in Trips : trip'[u].pool = trip[u].pool
      BY <2>1 DEF Arrive, UndoArrived, RejectLate, OfficeHours, NextDay, vars, ledgerVars
    <2> QED BY <2>2, PaydayAssumption DEF PoolsStand, PoolOf
  <1>4. \A s \in Stops : /\ stop'[s].award = stop[s].award
                         /\ s \in Scored(stop) => PayInstant(stop', s) = PayInstant(stop, s)
    <2>1. TAKE s \in Stops
    <2>2. stop[s] \in Stop
      BY <1>1
    <2>3. CASE stop' = stop
      BY <2>3 DEF PayInstant
    <2>4. ASSUME NEW t \in Trips, Assign(t) \/ Unassign(t)
          PROVE  stop'[s].award = stop[s].award /\ PayInstant(stop', s) = PayInstant(stop, s)
      <3>1. stop'[s] = stop[s] \/ \E p : stop'[s] = [stop[s] EXCEPT !.zonePoints = p]
        BY <2>4 DEF Assign, Unassign
      <3> QED BY <2>2, <3>1 DEF Stop, PayInstant
    <2>5. ASSUME NEW u \in Stops, Arrive(u) \/ UndoArrived(u)
          PROVE  stop'[s].award = stop[s].award
                 /\ (s \in Scored(stop) => PayInstant(stop', s) = PayInstant(stop, s))
      <3>1. u \notin Scored(stop)
        BY <2>5 DEF LedgerInv, BooksInv, AwardStands, Finished, Scored, Arrive, Tap, UndoArrived, Out
      <3>2. \/ stop'[s] = stop[s]
            \/ s = u /\ stop'[s] = [stop[s] EXCEPT !.status = "arrived", !.arrivedAt = At(taps + 1)]
            \/ s = u /\ stop'[s] = [stop[s] EXCEPT !.status = "pending", !.arrivedAt = 0]
        BY <1>1, <2>5 DEF Arrive, UndoArrived
      <3> QED BY <2>2, <3>1, <3>2 DEF Stop, PayInstant
    <2>6. ASSUME NEW u \in Stops, RejectLate(u)
          PROVE  stop'[s].award = stop[s].award /\ PayInstant(stop', s) = PayInstant(stop, s)
      <3>1. stop'[s] = stop[s] \/ stop'[s] = [stop[s] EXCEPT !.verdict = "vetoed"]
        BY <1>1, <2>6 DEF RejectLate
      <3> QED BY <2>2, <3>1 DEF Stop, PayInstant
    <2>7. CASE \/ \E t \in Trips : Start(t) \/ \E own \in OwnAmounts \cup {None} : Approve(t, own)
               \/ OfficeHours \/ NextDay \/ UNCHANGED vars
      BY <2>3, <2>7 DEF Start, Approve, OfficeHours, NextDay, vars, ledgerVars
    <2> QED BY <2>4, <2>5, <2>6, <2>7
  <1>5. \A s \in Scored(stop) : PayInstant(stop', s) = PayInstant(stop, s)
    BY <1>4 DEF Scored
  <1> QED BY <1>2, <1>3, <1>4, <1>5, AwardsStand

\* Every step keeps the firsts the earliest.
LEMMA NextFirsts ==
    ASSUME LedgerInv, TapsInOrder, FirstsInOrder, [Next]_vars
    PROVE  FirstsInOrder'
  <1>1. CASE OfficeHours \/ NextDay \/ UNCHANGED vars
    BY <1>1, OtherFirsts
  <1>2. ASSUME NEW t \in Trips,
               \/ Assign(t) \/ Unassign(t) \/ Start(t) \/ Abort(t)
               \/ \E own \in OwnAmounts \cup {None} : Approve(t, own)
        PROVE  FirstsInOrder'
    BY <1>2, SentOnFirsts, OtherFirsts
  <1>3. ASSUME NEW s \in Stops,
               \/ Arrive(s) \/ Deliver(s) \/ UndoArrived(s) \/ UndoDelivered(s)
               \/ RejectLate(s)
               \/ \E verdict \in {"settled", "vetoed"} : Adjudicate(s, verdict)
        PROVE  FirstsInOrder'
    <2>1. s \in StopsOf(TripOf[s]) /\ TripOf[s] \in Trips
      BY PaydayAssumption DEF StopsOf
    <2> QED BY <1>3, <2>1, SentOnFirsts, UndoneFirsts, OtherFirsts
  <1> QED BY <1>1, <1>2, <1>3 DEF Next

\* Nobody has tapped yet.
LEMMA InitOrder == Init => TapsInOrder /\ FirstsInOrder
  <1> SUFFICES ASSUME Init PROVE TapsInOrder /\ FirstsInOrder
    OBVIOUS
  <1>1. \A s \in Stops : stop[s].arrivedAt = 0 /\ stop[s].deliveredAt = 0 /\ stop[s].award = "none"
    BY DEF Init
  <1>2. \A s \in Stops : Instants(stop, s) = {}
    BY <1>1 DEF Instants
  <1>3. \A t, u \in Trips : Before(stop, t, u)
    BY <1>2 DEF Before, StopsOf
  <1>4. Out = {}
    BY DEF Init, Out
  <1>5. FirstIsEarliest(stop)
    BY <1>1 DEF FirstIsEarliest, Scored
  <1> QED BY <1>2, <1>3, <1>4, <1>5 DEF TapsInOrder, FirstsInOrder, OneTapEach, OneOut, OneAfterTheOther

\* The inductive invariant the awards rest on.
OrderInv == LedgerInv /\ TapsInOrder /\ FirstsInOrder

\* The invariant holds in every state.
LEMMA OrderInvariant == Spec => []OrderInv
  <1>1. Init => OrderInv
    BY InitBooks, InitOrder DEF OrderInv
  <1>2. OrderInv /\ [Next]_vars => OrderInv'
    BY NextBooks, NextOrder, NextFirsts DEF OrderInv
  <1> QED BY <1>1, <1>2, PTL DEF Spec

\* Among stops that share a zone, a day and a ledger, exactly one is the earliest.
LEMMA EarliestIsOne ==
    ASSUME LedgerInv, OneTapEach(stop), FirstIsEarliest(stop), NEW s \in Scored(stop),
           NEW same, same = {u \in Scored(stop) : Same(stop, u, s)}
    PROVE  Cardinality({u \in same : stop[u].award = "first"}) = 1
  <1>1. same \subseteq Stops /\ s \in same /\ stop \in [Stops -> Stop]
    BY DEF Same, Scored, LedgerInv, TypeOK
  <1>2. \A u \in same : PayInstant(stop, u) \in Nat /\ PayInstant(stop, u) \in Instants(stop, u)
    BY <1>1, PayIsTap DEF LedgerInv, BooksInv, AwardStands, Scored
  <1>3. \A u, v \in same : Same(stop, u, v)
    BY DEF Same
  <1>4. \A u \in same, v \in Scored(stop) : Same(stop, u, v) => v \in same
    BY DEF Same
  <1>5. \A u \in same : stop[u].award = "first" <=>
                            \A v \in same : PayInstant(stop, u) <= PayInstant(stop, v)
    BY <1>3, <1>4 DEF FirstIsEarliest
  <1> DEFINE ats == {PayInstant(stop, u) : u \in same}
  <1>6. ats \in SUBSET Nat /\ ats # {}
    BY <1>1, <1>2
  <1>7. Min(ats) \in ats /\ \A at \in ats : Min(ats) <= at
    <2> HIDE DEF ats
    <2> QED BY <1>6, LeastOf
  <1>8. PICK one \in same : PayInstant(stop, one) = Min(ats)
    BY <1>7
  <1>9. \A v \in same : PayInstant(stop, one) <= PayInstant(stop, v)
    BY <1>7, <1>8
  <1> HIDE DEF ats
  <1>10. ASSUME NEW u \in same, stop[u].award = "first" PROVE u = one
    <2>1. PayInstant(stop, u) = PayInstant(stop, one)
      BY <1>2, <1>5, <1>9, <1>10
    <2> QED BY <1>1, <1>2, <2>1 DEF OneTapEach
  <1>11. {u \in same : stop[u].award = "first"} = {one}
    BY <1>5, <1>9, <1>10
  <1> QED BY <1>11, FS_Singleton

\* Among the stops scored on one day, of one zone and one ledger, exactly one is the
\* first and is paid in full, unless a delivery was undone after the driver went on
\* with another trip (scoreDrops, services/dayLedger.ts).
THEOREM OneFirstPerZone == Spec => []OneFirstDropPerZone
  <1>1. ASSUME OrderInv PROVE OneFirstDropPerZone
    <2> SUFFICES ASSUME ~unwound, NEW s \in ScoredStops
                 PROVE  LET same == {u \in ScoredStops :
                                /\ PoolOf(u) = PoolOf(s) /\ ZoneOf[u] = ZoneOf[s]
                                /\ DayOf(PayInstant(stop, u)) = DayOf(PayInstant(stop, s))}
                        IN Cardinality({u \in same : stop[u].award = "first"}) = 1
      BY DEF OneFirstDropPerZone
    <2> DEFINE same == {u \in ScoredStops :
                                /\ PoolOf(u) = PoolOf(s) /\ ZoneOf[u] = ZoneOf[s]
                                /\ DayOf(PayInstant(stop, u)) = DayOf(PayInstant(stop, s))}
    <2>1. ScoredStops = Scored(stop)
      BY DEF ScoredStops, Scored
    <2>2. same = {u \in Scored(stop) : Same(stop, u, s)}
      BY <2>1 DEF Same
    <2>3. LedgerInv /\ OneTapEach(stop) /\ FirstIsEarliest(stop)
      BY <1>1 DEF OrderInv, TapsInOrder, FirstsInOrder
    <2> HIDE DEF same
    <2>4. Cardinality({u \in same : stop[u].award = "first"}) = 1
      BY <2>1, <2>2, <2>3, EarliestIsOne
    <2> QED BY <2>4 DEF same
  <1> QED BY <1>1, OrderInvariant, PTL

-----------------------------------------------------------------------------
(* What a proposal comes to, and that it stands.                           *)

\* The points on a stop: what its award is worth.
Points(st, s) ==
    IF st[s].award = "first" THEN st[s].zonePoints ELSE IF st[s].award = "repeat" THEN 1 ELSE 0

\* A drop of a trip belongs to the group of its day, and to no other.
LEMMA OneGroupEach ==
    ASSUME NEW st, Scorable(st), NEW t \in Trips, trip[t].status # "pending"
    PROVE  \A g \in DayGroups(st, t), d \in EarnedDrops(st, t) :
              d \in g <=> g = {e \in EarnedDrops(st, t) : DayOf(e.at) = DayOf(d.at)}
  <1>1. TAKE g \in DayGroups(st, t), d \in EarnedDrops(st, t)
  <1>2. g = {e \in EarnedDrops(st, t) : DayOf(e.at) = DayOf(Anchor(g))}
    BY GroupFacts
  <1> QED BY <1>2

\* The points a proposal awards to a stop are what its drop is worth on its day.
LEMMA AwardWorth ==
    ASSUME NEW st, Scorable(st), NEW t \in Trips, trip[t].status # "pending",
           NEW s \in StopsOf(t), Earns(st, s), NEW g \in DayGroups(st, t), LedgerDrop(st, s) \in g
    PROVE  /\ Points(Awarded(st, t), s) = Worth(g \cup Prior(st, t, g))[LedgerDrop(st, s)]
           /\ Points(Awarded(st, t), s) \in Nat
  <1> DEFINE d == LedgerDrop(st, s)
             new == Awarded(st, t)
             all == g \cup Prior(st, t, g)
  <1>1. s \in Stops /\ TripOf[s] = t /\ st \in [Stops -> Stop]
    BY DEF StopsOf, Scorable
  <1>2. PICK h \in DayGroups(st, t) :
            d \in h /\ new[s].award = IF IsRepeat(d, h \cup Prior(st, t, h)) THEN "repeat" ELSE "first"
    BY AwardOf
  <1>3. d \in EarnedDrops(st, t)
    BY <1>1 DEF EarnedDrops
  <1>4. h = g
    <2> HIDE DEF d
    <2>1. d \in g /\ d \in h
      BY <1>2 DEF d
    <2>2. \A k \in DayGroups(st, t) : d \in k => k = {e \in EarnedDrops(st, t) : DayOf(e.at) = DayOf(d.at)}
      BY <1>3, OneGroupEach
    <2> QED BY <2>1, <2>2
  <1>5. d.points = st[s].zonePoints /\ d.points \in Nat /\ new[s].zonePoints = st[s].zonePoints
    BY <1>1, DropOf, AwardsOnly
  <1>6. new[s].award = IF IsRepeat(d, all) THEN "repeat" ELSE "first"
    BY <1>2, <1>4
  <1>7. d \in all
    OBVIOUS
  <1> HIDE DEF d, new, all
  <1>8. Worth(all)[d] = IF IsRepeat(d, all) THEN 1 ELSE d.points
    BY <1>7 DEF Worth
  <1>9. Points(new, s) = Worth(all)[d] /\ Points(new, s) \in Nat
    BY <1>5, <1>6, <1>8 DEF Points
  <1> QED BY <1>9 DEF d, new, all

\* What the stops of a proposed trip are worth, taken day by day.
LEMMA PointsByDay ==
    ASSUME NEW st, Scorable(st), NEW t \in Trips, trip[t].status # "pending",
           \A s \in StopsOf(t) : st[s].award = "none",
           NEW P, \A s \in StopsOf(t) : P[s] = Points(Awarded(st, t), s),
           NEW A, \A g \in DayGroups(st, t) : A[g] = Added(g, Prior(st, t, g))
    PROVE  /\ SumFunctionOnSet(P, StopsOf(t)) = SumFunctionOnSet(A, DayGroups(st, t))
           /\ IsFiniteSet(StopsOf(t)) /\ \A s \in StopsOf(t) : P[s] \in Nat
  <1> DEFINE E == {s \in StopsOf(t) : Earns(st, s)}
             N == StopsOf(t) \ E
             D == EarnedDrops(st, t)
             C == DayGroups(st, t)
             W == [d \in D |-> P[d.stop]]
             n == [s \in E |-> LedgerDrop(st, s)]
             p == [d \in D |-> {e \in D : DayOf(e.at) = DayOf(d.at)}]
  <1>1. /\ StopsOf(t) \subseteq Stops /\ (\A s \in StopsOf(t) : TripOf[s] = t)
        /\ IsFiniteSet(StopsOf(t)) /\ IsFiniteSet(E) /\ IsFiniteSet(N)
        /\ IsFiniteSet(C) /\ IsFiniteSet(D) /\ st \in [Stops -> Stop]
    BY GroupsFinite, PaydayAssumption, FS_Subset DEF StopsOf, Scorable
  <1>2. \A s \in E : LedgerDrop(st, s).stop = s /\ LedgerDrop(st, s) \in D
    BY <1>1, DropOf DEF EarnedDrops
  <1>3. \A d \in D : d.stop \in E /\ d = LedgerDrop(st, d.stop)
    BY <1>1, DropOf DEF EarnedDrops
  <1>4. \A d \in D : p[d] \in C /\ d \in p[d]
    BY DEF DayGroups
  <1>5. \A s \in E : P[s] \in Nat
    <2>1. TAKE s \in E
    <2>2. Points(Awarded(st, t), s) \in Nat
      BY <1>2, <1>4, AwardWorth
    <2> QED BY <2>2
  <1>6. \A s \in N : P[s] = 0
    <2>1. TAKE s \in N
    <2>2. Awarded(st, t)[s] = st[s]
      BY <1>1, AwardsOnly
    <2> QED BY <2>2 DEF Points
  <1>7. SumFunctionOnSet(P, StopsOf(t)) = SumFunctionOnSet(P, E)
    <2>1. StopsOf(t) = E \cup N /\ E \cap N = {} /\ \A s \in E \cup N : P[s] \in Int
      BY <1>5, <1>6
    <2> HIDE DEF E, N
    <2>2. SumFunctionOnSet(P, E \cup N) = SumFunctionOnSet(P, E) + SumFunctionOnSet(P, N)
      BY <1>1, <2>1, TotalUnion
    <2>3. SumFunctionOnSet(P, N) = SumFunctionOnSet(P, N) * 0
      <3>1. \A s \in N : P[s] \in Int /\ P[s] = P[s] * 0
        BY <1>6
      <3> QED BY <1>1, <3>1, TotalTimes
    <2>4. SumFunctionOnSet(P, N) \in Int /\ SumFunctionOnSet(P, E) \in Int
      BY <1>1, <2>1, TotalInt
    <2> QED BY <2>1, <2>2, <2>3, <2>4
  <1>8. SumFunctionOnSet(P, E) = SumFunctionOnSet(W, D)
    <2>1. \A s \in E : n[s] \in D /\ W[n[s]] = P[s]
      BY <1>2
    <2>2. \A x \in E, y \in E : n[x] = n[y] => x = y
      BY <1>2
    <2>3. \A d \in D : \E s \in E : n[s] = d
      BY <1>3
    <2>4. \A s \in E : P[s] \in Int
      BY <1>5
    <2>5. IsFiniteSet(E) /\ IsFiniteSet(D)
      BY <1>1
    <2> HIDE DEF E, N, D, C, W, n, p
    <2>6. \A s \in E : n[s] \in D
      BY <2>1
    <2>7. \A s \in E : W[n[s]] = P[s]
      BY <2>1
    <2> QED BY <2>2, <2>3, <2>4, <2>5, <2>6, <2>7, TotalRenamed
  <1>9. \A g \in C : A[g] = SumFunctionOnSet(W, Fibre(D, p, g))
    <2>1. TAKE g \in C
    <2>2. g \subseteq D /\ IsFiniteSet(g)
      BY GroupFacts DEF Countable
    <2>3. Fibre(D, p, g) = g
      BY <2>2, OneGroupEach DEF Fibre
    <2>4. \A d \in g : W[d] = Worth(g \cup Prior(st, t, g))[d] /\ W[d] \in Int
      <3>1. TAKE d \in g
      <3>2. d \in D /\ d.stop \in E /\ d = LedgerDrop(st, d.stop)
        BY <1>3, <2>2
      <3>3. Points(Awarded(st, t), d.stop) = Worth(g \cup Prior(st, t, g))[d]
            /\ Points(Awarded(st, t), d.stop) \in Nat
        <4>1. d.stop \in StopsOf(t) /\ Earns(st, d.stop) /\ LedgerDrop(st, d.stop) \in g
          BY <3>2
        <4> QED BY <3>2, <4>1, AwardWorth
      <3> QED BY <3>2, <3>3
    <2> DEFINE w == Worth(g \cup Prior(st, t, g))
    <2>5. SumFunctionOnSet(W, g) = SumFunctionOnSet(w, g)
      <3> HIDE DEF W, w
      <3>1. \A d \in g : W[d] \in Int /\ W[d] = w[d]
        BY <2>4 DEF w
      <3> QED BY <2>2, <3>1, TotalSame
    <2> QED BY <2>3, <2>5 DEF Added
  <1>10. SumFunctionOnSet(W, D) = SumFunctionOnSet(A, C)
    <2>1. (\A d \in D : W[d] \in Int) /\ (\A d \in D : p[d] \in C)
      BY <1>3, <1>4, <1>5
    <2>2. IsFiniteSet(D) /\ IsFiniteSet(C)
      BY <1>1
    <2> HIDE DEF W, D, C, p, E, N, n
    <2> QED BY <1>9, <2>1, <2>2, TotalByGroup
  <1>11. \A s \in StopsOf(t) : P[s] \in Nat
    BY <1>5, <1>6
  <1> QED BY <1>1, <1>7, <1>8, <1>10, <1>11

\* The halves a trip is paid for each of its days.
HalvesOf(st, t) == [g \in DayGroups(st, t) |-> Halves(trip[t].pool, PaidPoints(st, t, g))]

\* What the stops are worth, less the deduction and the shortfall, is what the trip is
\* paid for its days.
LEMMA BreakdownAddsUp ==
    ASSUME NEW st, Scorable(st), NEW t \in Trips, trip \in [Trips -> Trip],
           trip[t].status # "pending", trip[t].rates \in Rates,
           \A s \in StopsOf(t) : st[s].award = "none",
           NEW P, \A s \in StopsOf(t) : P[s] = Points(Awarded(st, t), s)
    PROVE  /\ 2 * (SumFunctionOnSet(P, StopsOf(t)) - DeductedPoints(st, t)) - Shortfall(st, t)
                  = SumFunctionOnSet(HalvesOf(st, t), DayGroups(st, t))
           /\ IsFiniteSet(DayGroups(st, t))
           /\ \A g \in DayGroups(st, t) : HalvesOf(st, t)[g] \in Nat /\ Rate(st, t, g) \in Nat
  <1> DEFINE C == DayGroups(st, t)
             A == [g \in C |-> Added(g, Prior(st, t, g))]
             K == [g \in C |-> Deducted(g, Prior(st, t, g), trip[t].rates["deduction"])]
             M == [g \in C |-> PaidPoints(st, t, g)]
             M2 == [g \in C |-> M[g] * 2]
             H == HalvesOf(st, t)
             S == [g \in C |-> 2 * PaidPoints(st, t, g) - Halves(trip[t].pool, PaidPoints(st, t, g))]
  <1>1. IsFiniteSet(C)
    BY GroupsFinite
  <1>2. \A g \in C : /\ A[g] \in Nat /\ K[g] \in Nat /\ M[g] \in Nat /\ H[g] \in Nat /\ S[g] \in Nat
                     /\ A[g] = M[g] + K[g] /\ M2[g] = S[g] + H[g] /\ M2[g] \in Nat
                     /\ Rate(st, t, g) \in Nat
    <2>1. TAKE g \in C
    <2> DEFINE p == PaidPoints(st, t, g)
               k == Deducted(g, Prior(st, t, g), trip[t].rates["deduction"])
               h == Halves(trip[t].pool, p)
               a == Added(g, Prior(st, t, g))
    <2>2. p \in Nat /\ k \in Nat /\ a = p + k /\ h \in p .. 2 * p /\ Rate(st, t, g) \in Nat
      BY GroupPay
    <2>3. A[g] = a /\ K[g] = k /\ M[g] = p /\ H[g] = h /\ S[g] = 2 * p - h /\ M2[g] = p * 2
      BY DEF HalvesOf
    <2> HIDE DEF p, k, h, a, A, K, M, M2, H, S
    <2> QED BY <2>2, <2>3
  <1>3. SumFunctionOnSet(P, StopsOf(t)) = SumFunctionOnSet(A, C)
    <2>1. \A g \in C : A[g] = Added(g, Prior(st, t, g))
      OBVIOUS
    <2> HIDE DEF A
    <2> QED BY <2>1, PointsByDay
  <1>4. DeductedPoints(st, t) = SumFunctionOnSet(K, C) /\ Shortfall(st, t) = SumFunctionOnSet(S, C)
    BY DEF DeductedPoints, Shortfall, SumFunction
  <1>5. \A g \in C : M2[g] = M[g] * 2
    OBVIOUS
  <1> DEFINE sum(f) == SumFunctionOnSet(f, C)
  <1> HIDE DEF C, A, K, M, M2, H, S
  <1>6. SumFunctionOnSet(A, C) = SumFunctionOnSet(M, C) + SumFunctionOnSet(K, C)
    BY <1>1, <1>2, TotalSum
  <1>7. SumFunctionOnSet(M2, C) = SumFunctionOnSet(S, C) + SumFunctionOnSet(H, C)
    BY <1>1, <1>2, TotalSum
  <1>8. SumFunctionOnSet(M2, C) = SumFunctionOnSet(M, C) * 2
    BY <1>1, <1>2, <1>5, TotalTimes
  <1>9. /\ SumFunctionOnSet(M, C) \in Int /\ SumFunctionOnSet(K, C) \in Int
        /\ SumFunctionOnSet(S, C) \in Int /\ SumFunctionOnSet(H, C) \in Int
    BY <1>1, <1>2, TotalInt
  <1>10. 2 * (SumFunctionOnSet(P, StopsOf(t)) - DeductedPoints(st, t)) - Shortfall(st, t)
             = SumFunctionOnSet(H, C)
    BY <1>3, <1>4, <1>6, <1>7, <1>8, <1>9
  <1> QED BY <1>1, <1>2, <1>10 DEF C, H

\* The points on a proposed trip account for its amount.
LEMMA ProposalAccounts ==
    ASSUME NEW st, Scorable(st), NEW t \in Trips, trip \in [Trips -> Trip],
           trip[t].status # "pending", trip[t].rates \in Rates,
           \A s \in StopsOf(t) : st[s].award = "none",
           NEW P, \A s \in StopsOf(t) : P[s] = Points(Awarded(st, t), s),
           NEW points, points = 2 * (SumFunctionOnSet(P, StopsOf(t)) - DeductedPoints(st, t))
                                    - Shortfall(st, t)
    PROVE  LET weekday == trip[t].rates["weekday"]
               offpeak == trip[t].rates["offpeak"]
           IN /\ points \in Nat
              /\ SingleTier(st, t) # None =>
                    Incentive(st, t) = points * (IF SingleTier(st, t) THEN offpeak ELSE weekday)
              /\ weekday <= offpeak => Incentive(st, t) \in points * weekday .. points * offpeak
  <1> DEFINE C == DayGroups(st, t)
             H == HalvesOf(st, t)
             weekday == trip[t].rates["weekday"]
             offpeak == trip[t].rates["offpeak"]
             tier == SingleTier(st, t)
             rate == IF tier THEN offpeak ELSE weekday
             amount == [g \in C |-> Halves(trip[t].pool, PaidPoints(st, t, g)) * Rate(st, t, g)]
             low == [g \in C |-> H[g] * weekday]
             high == [g \in C |-> H[g] * offpeak]
  <1>1. points = SumFunctionOnSet(H, C) /\ IsFiniteSet(C) /\ \A g \in C : H[g] \in Nat
    BY BreakdownAddsUp
  <1>2. weekday \in Nat /\ offpeak \in Nat
    BY PaydayAssumption, RatesType
  <1>3. Incentive(st, t) = SumFunctionOnSet(amount, C)
    BY DEF Incentive, SumFunction
  <1>4. \A g \in C : /\ Rate(st, t, g) = IF OffPeak(RateAnchor(st, g)) THEN offpeak ELSE weekday
                     /\ amount[g] = H[g] * Rate(st, t, g)
    BY DEF Rate, HalvesOf
  <1>5. \A g \in C : low[g] = H[g] * weekday /\ high[g] = H[g] * offpeak
    OBVIOUS
  <1>6. tier # None => /\ tier \in BOOLEAN
                       /\ \A g \in C : OffPeak(RateAnchor(st, g)) <=> tier
    <2>1. ASSUME tier # None PROVE \E g : C = {g}
      <3>1. Cardinality(C) = 1
        BY <2>1 DEF SingleTier
      <3> HIDE DEF C
      <3> QED BY <1>1, <3>1, FS_Singleton
    <2>2. ASSUME tier # None PROVE tier = \A g \in C : OffPeak(RateAnchor(st, g))
      BY <2>2 DEF SingleTier
    <2> HIDE DEF C, tier
    <2> QED BY <2>1, <2>2
  <1> HIDE DEF C, H, weekday, offpeak, tier, amount, low, high
  <1>7. \A g \in C : Rate(st, t, g) \in {weekday, offpeak}
    BY <1>4
  <1>8. points \in Nat
    BY <1>1, TotalNat
  <1>9. ASSUME tier # None PROVE Incentive(st, t) = points * rate
    <2>1. rate \in Int
      BY <1>2
    <2>2. \A g \in C : Rate(st, t, g) = rate
      BY <1>4, <1>6, <1>9
    <2> HIDE DEF rate
    <2>3. \A g \in C : H[g] \in Int /\ amount[g] = H[g] * rate
      BY <1>1, <1>4, <2>2
    <2> QED BY <1>1, <1>3, <2>1, <2>3, TotalTimes
  <1>10. ASSUME weekday <= offpeak
         PROVE  Incentive(st, t) \in points * weekday .. points * offpeak
    <2>1. SumFunctionOnSet(low, C) = points * weekday /\ SumFunctionOnSet(high, C) = points * offpeak
      <3>1. /\ \A g \in C : H[g] \in Int /\ low[g] = H[g] * weekday
            /\ \A g \in C : H[g] \in Int /\ high[g] = H[g] * offpeak
            /\ weekday \in Int /\ offpeak \in Int /\ IsFiniteSet(C)
        BY <1>1, <1>2, <1>5
      <3>2. SumFunctionOnSet(low, C) = SumFunctionOnSet(H, C) * weekday
        BY <3>1, TotalTimes
      <3>3. SumFunctionOnSet(high, C) = SumFunctionOnSet(H, C) * offpeak
        BY <3>1, TotalTimes
      <3> QED BY <1>1, <3>2, <3>3
    <2>2. \A g \in C : /\ low[g] \in Int /\ high[g] \in Int /\ amount[g] \in Int
                       /\ low[g] <= amount[g] /\ amount[g] <= high[g]
      <3>1. TAKE g \in C
      <3> DEFINE h == H[g]
                 r == Rate(st, t, g)
      <3>2. h \in Nat /\ r \in Nat /\ weekday <= r /\ r <= offpeak
        BY <1>1, <1>2, <1>7, <1>10
      <3>3. low[g] = h * weekday /\ high[g] = h * offpeak /\ amount[g] = h * r
        BY <1>4, <1>5
      <3> HIDE DEF h, r
      <3>4. h * weekday <= h * r /\ h * r <= h * offpeak
            /\ h * weekday \in Int /\ h * r \in Int /\ h * offpeak \in Int
        BY <1>2, <3>2
      <3> QED BY <3>3, <3>4
    <2>3. /\ SumFunctionOnSet(low, C) <= SumFunctionOnSet(amount, C)
          /\ SumFunctionOnSet(amount, C) <= SumFunctionOnSet(high, C)
          /\ SumFunctionOnSet(amount, C) \in Int
      BY <1>1, <2>2, TotalMonotone, TotalInt
    <2>4. points * weekday \in Int /\ points * offpeak \in Int
      BY <1>2, <1>8
    <2> QED BY <1>3, <2>1, <2>3, <2>4
  <1> QED BY <1>8, <1>9, <1>10 DEF weekday, offpeak, tier

\* What a proposal rests on stands in a step.
ProposalStands(t) ==
    /\ trip'[t].earned = trip[t].earned /\ trip'[t].offpeak = trip[t].offpeak
    /\ trip'[t].deducted = trip[t].deducted /\ trip'[t].shortfall = trip[t].shortfall
    /\ trip'[t].rates = trip[t].rates /\ trip'[t].pool = trip[t].pool
    /\ \A s \in StopsOf(t) :
          /\ stop'[s].award = stop[s].award /\ stop'[s].zonePoints = stop[s].zonePoints
          /\ PayInstant(stop', s) = PayInstant(stop, s) /\ Instants(stop', s) = Instants(stop, s)
          /\ stop'[s].deliveredAt = stop[s].deliveredAt

\* Nothing is said of a trip by a step that has nothing to do with it.
LEMMA OthersProposalsStand ==
    ASSUME NEW t \in Trips, trip'[t] = trip[t], \A s \in StopsOf(t) : stop'[s] = stop[s]
    PROVE  ProposalStands(t)
  BY DEF ProposalStands, PayInstant, Instants

\* A proposal once made stands until a delivery of its trip is undone.
LEMMA ProposalsStand ==
    ASSUME LedgerInv, TapsInOrder, [Next]_vars, NEW t \in Trips,
           trip[t].earned # None, trip'[t].earned # None
    PROVE  ProposalStands(t)
  <1>1. /\ trip \in [Trips -> Trip] /\ stop \in [Stops -> Stop] /\ trip[t] \in Trip
        /\ trip[t].status \in Finished /\ t \notin Out
    BY DEF LedgerInv, TypeOK, BooksInv, Filed, Finished, Out
  <1>2. \A s \in StopsOf(t) : s \in Stops /\ stop[s] \in Stop /\ TripOf[s] = t
    BY <1>1 DEF StopsOf
  <1>3. CASE OfficeHours \/ NextDay \/ UNCHANGED vars
    BY <1>3 DEF OfficeHours, NextDay, vars, ledgerVars, ProposalStands, PayInstant, Instants
  <1>4. ASSUME NEW u \in Trips, Assign(u) \/ Unassign(u) \/ Start(u)
        PROVE  ProposalStands(t)
    <2>1. u # t
      BY <1>1, <1>4 DEF Assign, Unassign, Start, Finished
    <2>2. trip'[t] = trip[t]
      BY <1>1, <1>4, <2>1 DEF Assign, Unassign, Start
    <2>3. \A s \in StopsOf(t) : stop'[s] = stop[s]
      <3>1. \A s \in StopsOf(t) : s \notin StopsOf(u)
        BY <2>1 DEF StopsOf
      <3> QED BY <1>2, <1>4, <3>1 DEF Assign, Unassign, Start
    <2> QED BY <2>2, <2>3, OthersProposalsStand
  <1>5. ASSUME NEW u \in Trips, NEW own \in OwnAmounts \cup {None}, Approve(u, own)
        PROVE  ProposalStands(t)
    <2>1. stop' = stop
      BY <1>5 DEF Approve
    <2> DEFINE final == IF own = None THEN Payable(u) ELSE own
               word == IF final = trip[u].earned THEN "none"
                       ELSE IF own = None THEN "overtime" ELSE "office"
    <2>2. trip' = [trip EXCEPT ![u].status = "completed", ![u].final = final, ![u].override = word]
      BY <1>5 DEF Approve
    <2> HIDE DEF final, word
    <2>3. \/ trip'[t] = trip[t]
          \/ trip'[t] = [trip[t] EXCEPT !.status = "completed", !.final = final, !.override = word]
      BY <1>1, <2>2
    <2> QED BY <1>1, <2>1, <2>3 DEF ProposalStands, Trip, PayInstant, Instants
  <1>6. ASSUME NEW u \in Trips, NEW st, SendsOn(u, st)
        PROVE  ProposalStands(t)
    <2>1. u # t /\ u \in Out /\ Touched(u, st)
      BY <1>1, <1>6 DEF SendsOn
    <2>2. PICK status \in {"in_progress", "pending_approval", "cancelled"} : Becomes(u, st, status)
      BY <1>6 DEF SendsOn
    <2>3. trip'[t] = trip[t]
      BY <2>1, <2>2, BecomesTrip
    <2>4. \A s \in StopsOf(t) : s \in Stops /\ s \notin StopsOf(u)
      BY <2>1 DEF StopsOf
    <2>5. \A s \in StopsOf(t) : stop'[s] = stop[s]
      <3>1. stop' = IF status = "pending_approval" THEN Awarded(st, u) ELSE st
        BY <2>2 DEF Becomes
      <3> QED BY <2>1, <2>4, <3>1, NewlyScored DEF Touched
    <2> QED BY <2>3, <2>5, OthersProposalsStand
  <1>7. ASSUME NEW s \in Stops, Arrive(s) \/ UndoArrived(s)
        PROVE  ProposalStands(t)
    <2>1. trip' = trip /\ s \notin StopsOf(t)
      BY <1>1, <1>2, <1>7 DEF Arrive, Tap, UndoArrived
    <2>2. \A v \in StopsOf(t) : stop'[v] = stop[v]
      BY <1>1, <1>2, <1>7, <2>1 DEF Arrive, UndoArrived
    <2> QED BY <2>1, <2>2, OthersProposalsStand
  <1>8. ASSUME NEW s \in Stops, RejectLate(s)
        PROVE  ProposalStands(t)
    <2>1. /\ trip' = trip
          /\ \A v \in StopsOf(t) : stop'[v] = stop[v] \/ stop'[v] = [stop[v] EXCEPT !.verdict = "vetoed"]
      BY <1>1, <1>2, <1>8 DEF RejectLate
    <2> QED BY <1>2, <2>1 DEF ProposalStands, Stop, PayInstant, Instants
  <1>9. ASSUME NEW s \in Stops, UndoDelivered(s)
        PROVE  ProposalStands(t)
    <2> DEFINE u == TripOf[s]
    <2>1. /\ stop' = Reverted(u, s) /\ u \in Trips /\ s \in StopsOf(u)
          /\ trip' = [trip EXCEPT ![u].status = "in_progress", ![u].earned = None,
                                  ![u].offpeak = None, ![u].deducted = 0, ![u].shortfall = 0]
      BY <1>9, PaydayAssumption DEF UndoDelivered, StopsOf
    <2>2. u # t
      <3>1. ASSUME u = t PROVE trip'[t].earned = None
        <4>1. trip'[t] = [trip[t] EXCEPT !.status = "in_progress", !.earned = None,
                                         !.offpeak = None, !.deducted = 0, !.shortfall = 0]
          BY <1>1, <2>1, <3>1
        <4> QED BY <1>1, <4>1 DEF Trip
      <3> QED BY <3>1
    <2> HIDE DEF u
    <2>3. trip'[t] = trip[t]
      BY <1>1, <2>1, <2>2
    <2>4. \A v \in StopsOf(t) : v \notin StopsOf(u) /\ v # s
      BY <2>1, <2>2 DEF StopsOf
    <2>5. \A v \in StopsOf(t) : stop'[v] = stop[v]
      BY <1>2, <2>1, <2>4 DEF Reverted
    <2> QED BY <2>3, <2>5, OthersProposalsStand
  <1>10. ASSUME NEW u \in Trips, Abort(u)
         PROVE  ProposalStands(t)
    BY <1>6, <1>10, AbortSends
  <1>11. ASSUME NEW s \in Stops,
                Deliver(s) \/ \E verdict \in {"settled", "vetoed"} : Adjudicate(s, verdict)
         PROVE  ProposalStands(t)
    BY <1>6, <1>11, DeliverSends, AdjudicateSends, PaydayAssumption
  <1> QED BY <1>3, <1>4, <1>5, <1>7, <1>8, <1>9, <1>10, <1>11 DEF Next

\* A proposal is made when its trip is sent on.
LEMMA ProposalIsMade ==
    ASSUME LedgerInv, TapsInOrder, [Next]_vars, NEW t \in Trips,
           trip[t].earned = None, trip'[t].earned # None
    PROVE  \E st : SendsOn(t, st) /\ Becomes(t, st, "pending_approval")
  <1>1. /\ trip \in [Trips -> Trip] /\ stop \in [Stops -> Stop] /\ trip[t] \in Trip
    BY DEF LedgerInv, TypeOK
  <1>2. ~(OfficeHours \/ NextDay \/ UNCHANGED vars)
    BY DEF OfficeHours, NextDay, vars, ledgerVars
  <1>3. ASSUME NEW u \in Trips, Assign(u) \/ Unassign(u) \/ Start(u)
        PROVE  FALSE
    <2>1. \/ trip'[t] = trip[t]
          \/ trip'[t] = [trip[t] EXCEPT !.status = "assigned", !.rates = TruckRateSnapshot(u),
                                        !.assignedOn = today]
          \/ trip'[t] = [trip[t] EXCEPT !.status = "pending", !.rates = None, !.assignedOn = 0]
          \/ trip'[t] = [trip[t] EXCEPT !.status = "in_progress"]
      BY <1>1, <1>3 DEF Assign, Unassign, Start
    <2> QED BY <1>1, <2>1 DEF Trip
  <1>4. ASSUME NEW u \in Trips, NEW own \in OwnAmounts \cup {None}, Approve(u, own)
        PROVE  FALSE
    <2> DEFINE final == IF own = None THEN Payable(u) ELSE own
               word == IF final = trip[u].earned THEN "none"
                       ELSE IF own = None THEN "overtime" ELSE "office"
    <2>1. trip' = [trip EXCEPT ![u].status = "completed", ![u].final = final, ![u].override = word]
      BY <1>4 DEF Approve
    <2> HIDE DEF final, word
    <2>2. \/ trip'[t] = trip[t]
          \/ trip'[t] = [trip[t] EXCEPT !.status = "completed", !.final = final, !.override = word]
      BY <1>1, <2>1
    <2> QED BY <1>1, <2>2 DEF Trip
  <1>5. ASSUME NEW u \in Trips, NEW st, SendsOn(u, st)
        PROVE  SendsOn(t, st) /\ Becomes(t, st, "pending_approval")
    <2>1. u \in Out /\ Touched(u, st)
      BY <1>5 DEF SendsOn
    <2>2. PICK status \in {"in_progress", "pending_approval", "cancelled"} : Becomes(u, st, status)
      BY <1>5 DEF SendsOn
    <2>3. /\ trip'[u].earned # None <=> status = "pending_approval"
          /\ \A v \in Trips \ {u} : trip'[v] = trip[v]
      BY <2>1, <2>2, BecomesTrip
    <2> QED BY <1>5, <2>2, <2>3
  <1>6. ASSUME NEW s \in Stops, Arrive(s) \/ UndoArrived(s) \/ RejectLate(s)
        PROVE  FALSE
    BY <1>6 DEF Arrive, UndoArrived, RejectLate
  <1>7. ASSUME NEW s \in Stops, UndoDelivered(s)
        PROVE  FALSE
    <2>1. \/ trip'[t] = trip[t]
          \/ trip'[t] = [trip[t] EXCEPT !.status = "in_progress", !.earned = None,
                                        !.offpeak = None, !.deducted = 0, !.shortfall = 0]
      BY <1>1, <1>7, PaydayAssumption DEF UndoDelivered
    <2> QED BY <1>1, <2>1 DEF Trip
  <1>8. ASSUME NEW u \in Trips, Abort(u)
        PROVE  \E st : SendsOn(t, st) /\ Becomes(t, st, "pending_approval")
    BY <1>5, <1>8, AbortSends
  <1>9. ASSUME NEW s \in Stops,
               Deliver(s) \/ \E verdict \in {"settled", "vetoed"} : Adjudicate(s, verdict)
        PROVE  \E st : SendsOn(t, st) /\ Becomes(t, st, "pending_approval")
    BY <1>5, <1>9, DeliverSends, AdjudicateSends, PaydayAssumption
  <1> QED BY <1>2, <1>3, <1>4, <1>6, <1>7, <1>8, <1>9 DEF Next

\* The points on a proposed trip account for its amount.
Accounted(t) ==
    trip[t].earned # None =>
        LET weekday == trip[t].rates["weekday"]
            offpeak == trip[t].rates["offpeak"]
            points == StoredPoints(t)
        IN /\ points \in Nat
           /\ trip[t].offpeak # None =>
                 trip[t].earned = points * (IF trip[t].offpeak THEN offpeak ELSE weekday)
           /\ weekday <= offpeak => trip[t].earned \in points * weekday .. points * offpeak

\* A trip's points as a sum over its stops.
LEMMA StoredPointsSum ==
    ASSUME stop \in [Stops -> Stop], NEW t \in Trips
    PROVE  /\ StoredPoints(t) = 2 * (SumFunctionOnSet([s \in StopsOf(t) |-> Points(stop, s)], StopsOf(t))
                                       - trip[t].deducted) - trip[t].shortfall
           /\ \A s \in Stops : PointsOf(s) = Points(stop, s)
  <1>1. \A s \in Stops : PointsOf(s) = Points(stop, s)
    BY DEF PointsOf, Points, Stop
  <1>2. [s \in StopsOf(t) |-> PointsOf(s)] = [s \in StopsOf(t) |-> Points(stop, s)]
    BY <1>1 DEF StopsOf
  <1> QED BY <1>1, <1>2 DEF StoredPoints, SumFunction

\* The points on a new proposal are those its awards, deduction and shortfall come to.
LEMMA NewlyStored ==
    ASSUME LedgerInv, LedgerInv', NEW t \in Trips, NEW st, SendsOn(t, st),
           Becomes(t, st, "pending_approval"),
           NEW P, P = [s \in StopsOf(t) |-> Points(stop', s)]
    PROVE  /\ StoredPoints(t)' = 2 * (SumFunctionOnSet(P, StopsOf(t)) - DeductedPoints(st, t)) - Shortfall(st, t)
           /\ \A s \in StopsOf(t) : P[s] = Points(Awarded(st, t), s)
           /\ stop' = Awarded(st, t)
           /\ trip'[t].earned = Incentive(st, t) /\ trip'[t].offpeak = SingleTier(st, t)
           /\ trip'[t].rates = trip[t].rates /\ trip'[t].pool = trip[t].pool
           /\ trip \in [Trips -> Trip] /\ trip[t].status # "pending" /\ Scorable(st)
           /\ trip[t].rates \in Rates /\ \A s \in StopsOf(t) : st[s].award = "none"
  <1>1. t \in Out /\ Touched(t, st) /\ trip \in [Trips -> Trip] /\ trip[t].status = "in_progress"
        /\ trip[t] \in Trip /\ Scorable(st) /\ trip[t].rates \in Rates
    BY TouchedScorable DEF SendsOn, Out, LedgerInv, TypeOK, BooksInv, Filed
  <1>2. \A s \in StopsOf(t) : st[s].award = "none"
    BY <1>1, NewlyScored DEF Scored, Touched
  <1>3. /\ stop' = Awarded(st, t)
        /\ trip' = [trip EXCEPT ![t].status = "pending_approval", ![t].earned = Incentive(st, t),
                                ![t].offpeak = SingleTier(st, t), ![t].deducted = DeductedPoints(st, t),
                                ![t].shortfall = Shortfall(st, t)]
    BY DEF Becomes
  <1>4. \A s \in StopsOf(t) : P[s] = Points(Awarded(st, t), s)
    BY <1>3
  <1>5. StoredPoints(t)' = 2 * (SumFunctionOnSet(P, StopsOf(t)) - trip'[t].deducted) - trip'[t].shortfall
    <2>1. stop' \in [Stops -> Stop]
      BY DEF LedgerInv, TypeOK
    <2>2. \A s \in Stops : PointsOf(s)' = Points(stop', s)
      BY <2>1 DEF PointsOf, Points, Stop
    <2>3. [s \in StopsOf(t) |-> PointsOf(s)'] = P
      BY <2>2 DEF StopsOf
    <2>4. StoredPoints(t)' = 2 * (SumFunctionOnSet([s \in StopsOf(t) |-> PointsOf(s)'], StopsOf(t))
                                    - trip'[t].deducted) - trip'[t].shortfall
      BY DEF StoredPoints, SumFunction, StopsOf
    <2> QED BY <2>3, <2>4
  <1>6. /\ trip'[t].earned = Incentive(st, t) /\ trip'[t].offpeak = SingleTier(st, t)
        /\ trip'[t].deducted = DeductedPoints(st, t) /\ trip'[t].shortfall = Shortfall(st, t)
        /\ trip'[t].rates = trip[t].rates /\ trip'[t].pool = trip[t].pool
    <2> DEFINE a == Incentive(st, t)
               b == SingleTier(st, t)
               c == DeductedPoints(st, t)
               d == Shortfall(st, t)
    <2>1. trip'[t] = [trip[t] EXCEPT !.status = "pending_approval", !.earned = a, !.offpeak = b,
                                    !.deducted = c, !.shortfall = d]
      BY <1>1, <1>3
    <2> HIDE DEF a, b, c, d
    <2>2. /\ trip'[t].earned = a /\ trip'[t].offpeak = b /\ trip'[t].deducted = c
          /\ trip'[t].shortfall = d /\ trip'[t].rates = trip[t].rates /\ trip'[t].pool = trip[t].pool
      BY <1>1, <2>1 DEF Trip
    <2> QED BY <2>2 DEF a, b, c, d
  <1> QED BY <1>1, <1>2, <1>3, <1>4, <1>5, <1>6

\* A new proposal is accounted for.
LEMMA NewlyAccounted ==
    ASSUME LedgerInv, LedgerInv', NEW t \in Trips, NEW st, SendsOn(t, st),
           Becomes(t, st, "pending_approval")
    PROVE  Accounted(t)'
  <1> DEFINE P == [s \in StopsOf(t) |-> Points(stop', s)]
             weekday == trip[t].rates["weekday"]
             offpeak == trip[t].rates["offpeak"]
             points == 2 * (SumFunctionOnSet(P, StopsOf(t)) - DeductedPoints(st, t)) - Shortfall(st, t)
  <1>1. /\ StoredPoints(t)' = points
        /\ \A s \in StopsOf(t) : P[s] = Points(Awarded(st, t), s)
        /\ trip'[t].earned = Incentive(st, t) /\ trip'[t].offpeak = SingleTier(st, t)
        /\ trip'[t].rates = trip[t].rates
        /\ trip \in [Trips -> Trip] /\ trip[t].status # "pending" /\ Scorable(st)
        /\ trip[t].rates \in Rates /\ \A s \in StopsOf(t) : st[s].award = "none"
    BY NewlyStored
  <1>2. /\ points \in Nat
        /\ SingleTier(st, t) # None =>
              Incentive(st, t) = points * (IF SingleTier(st, t) THEN offpeak ELSE weekday)
        /\ weekday <= offpeak => Incentive(st, t) \in points * weekday .. points * offpeak
    <2> HIDE DEF P
    <2> QED BY <1>1, ProposalAccounts
  <1> HIDE DEF points, P
  <1> QED BY <1>1, <1>2 DEF Accounted

\* A proposal that stands is still accounted for.
LEMMA StillAccounted ==
    ASSUME stop \in [Stops -> Stop], NEW t \in Trips, Accounted(t), ProposalStands(t)
    PROVE  Accounted(t)' /\ StoredPoints(t)' = StoredPoints(t)
  <1>1. \A s \in StopsOf(t) : PointsOf(s)' = PointsOf(s)
    BY DEF PointsOf, ProposalStands
  <1>2. [s \in StopsOf(t) |-> PointsOf(s)'] = [s \in StopsOf(t) |-> PointsOf(s)]
    BY <1>1
  <1>3. StoredPoints(t)' = 2 * (SumFunctionOnSet([s \in StopsOf(t) |-> PointsOf(s)'], StopsOf(t))
                                  - trip'[t].deducted) - trip'[t].shortfall
    BY DEF StoredPoints, SumFunction, StopsOf
  <1>4. StoredPoints(t)' = StoredPoints(t)
    BY <1>2, <1>3 DEF StoredPoints, SumFunction, ProposalStands
  <1> QED BY <1>4 DEF Accounted, ProposalStands

\* What a proposal comes to stands for as long as the proposal does.
LEMMA AccountsInvariant == Spec => [](OrderInv /\ \A t \in Trips : Accounted(t))
  <1>1. Init => \A t \in Trips : Accounted(t)
    BY DEF Init, Accounted
  <1>2. ASSUME OrderInv, OrderInv', [Next]_vars, \A t \in Trips : Accounted(t), NEW t \in Trips
        PROVE  Accounted(t)'
    <2>1. LedgerInv /\ LedgerInv' /\ TapsInOrder /\ Accounted(t) /\ stop \in [Stops -> Stop]
      BY <1>2 DEF OrderInv, LedgerInv, TypeOK
    <2>2. CASE trip'[t].earned = None
      BY <2>2 DEF Accounted
    <2>3. CASE trip'[t].earned # None /\ trip[t].earned # None
      BY <1>2, <2>1, <2>3, ProposalsStand, StillAccounted
    <2>4. CASE trip'[t].earned # None /\ trip[t].earned = None
      BY <1>2, <2>1, <2>4, ProposalIsMade, NewlyAccounted
    <2> QED BY <2>2, <2>3, <2>4
  <1>3. (\A t \in Trips : Accounted(t)) /\ OrderInv /\ OrderInv' /\ [Next]_vars
           => (\A t \in Trips : Accounted(t))'
    BY <1>2
  <1>4. Init => OrderInv
    BY InitBooks, InitOrder DEF OrderInv
  <1> QED BY <1>1, <1>3, OrderInvariant, PTL DEF Spec

\* The points stored on the stops of a proposed trip, less its breakdown, times its
\* rates, are its proposal, for good: exactly where one rate paid for the trip, and
\* between the two rates otherwise (services/tripFinalize.ts).
THEOREM PointsAccountForPay == Spec => []StoredPointsAgree
  <1>1. ASSUME \A t \in Trips : Accounted(t), TypeOK PROVE StoredPointsAgree
    <2> SUFFICES ASSUME NEW t \in Trips, trip[t].earned # None
                 PROVE  LET rates == trip[t].rates
                            points == StoredPoints(t)
                        IN /\ trip[t].offpeak # None =>
                                 trip[t].earned = points * rates[IF trip[t].offpeak THEN "offpeak" ELSE "weekday"]
                           /\ rates["weekday"] <= rates["offpeak"] =>
                                 trip[t].earned \in points * rates["weekday"] .. points * rates["offpeak"]
      BY DEF StoredPointsAgree, Proposed
    <2>1. Accounted(t) /\ trip[t].offpeak \in BOOLEAN \cup {None}
      BY <1>1 DEF TypeOK, Trip
    <2> QED BY <2>1 DEF Accounted
  <1>2. OrderInv => TypeOK
    BY DEF OrderInv, LedgerInv
  <1> QED BY <1>1, <1>2, AccountsInvariant, PTL

-----------------------------------------------------------------------------
(* The ledger of a trip: what it was when the trip was scored.             *)

\* What the stops are worth by their awards.
Worths(st) == [s \in Stops |-> Points(st, s)]

\* The drops scored on a day for a trip, and before it in its ledger.
DropsOf(st, t, day) == {s \in StopsOf(t) : s \in Scored(st) /\ DayOf(PayInstant(st, s)) = day}

\* A stop's drop comes before some tap of a trip.
Precedes(st, s, t) == \E v \in StopsOf(t) : \E at \in Instants(st, v) : PayInstant(st, s) < at

\* The drops scored on a day, of the trip's ledger and before it.
DropsBefore(st, t, day) ==
    {s \in Scored(st) \ StopsOf(t) : /\ PoolOf(s) = trip[t].pool
                                     /\ DayOf(PayInstant(st, s)) = day
                                     /\ Precedes(st, s, t)}

\* Stops in a zone have the same points.
Uniform(st, S) == \A s, u \in S : ZoneOf[s] = ZoneOf[u] => st[s].zonePoints = st[u].zonePoints

\* Of things with numbers of their own one has the smallest.
LEMMA SmallestOf ==
    ASSUME NEW C, C # {}, NEW k, \A x \in C : k[x] \in Nat, \A x, y \in C : k[x] = k[y] => x = y
    PROVE  \E x \in C : \A y \in C \ {x} : k[x] < k[y]
  <1> DEFINE K == {k[x] : x \in C}
  <1>1. K \in SUBSET Nat /\ K # {}
    OBVIOUS
  <1>2. Min(K) \in K /\ \A n \in K : Min(K) <= n
    <2> HIDE DEF K
    <2> QED BY <1>1, LeastOf
  <1>3. PICK x \in C : k[x] = Min(K)
    BY <1>2
  <1>4. \A y \in C : k[x] <= k[y]
    BY <1>2, <1>3
  <1> HIDE DEF K
  <1>5. \A y \in C \ {x} : k[x] # k[y] /\ k[y] \in Nat /\ k[x] \in Nat
    OBVIOUS
  <1> QED BY <1>4, <1>5

\* Drops of a day sort by instants of their own, in the ledger too, where those that
\* lost their pay come before all others.
LEMMA LedgerSorts ==
    ASSUME NEW st, Scorable(st), OneTapEach(st), NEW now, NEW day,
           NEW s \in Stops, NEW u \in Stops, s # u,
           trip[TripOf[s]].status # "pending", trip[TripOf[u]].status # "pending",
           Stamped(st, now, s), Stamped(st, now, u), PayInstant(st, s) # 0, PayInstant(st, u) # 0,
           DayOf(PayInstant(st, s)) = day, DayOf(PayInstant(st, u)) = day
    PROVE  LedgerDrop(st, s).at # LedgerDrop(st, u).at
  <1> DEFINE p == PayInstant(st, s)
             q == PayInstant(st, u)
             k == TapsADay + 1
  <1>1. st \in [Stops -> Stop]
    BY DEF Scorable
  <1>2. p \in Instants(st, s) /\ q \in Instants(st, u) /\ p \in Nat /\ q \in Nat
    BY <1>1, PayIsTap
  <1>3. p # q
    BY <1>2 DEF OneTapEach
  <1>4. k \in Nat /\ k > 0
    BY PaydayAssumption
  <1>5. p >= k /\ q >= k
    <2>1. p \in k .. now /\ q \in k .. now
      BY <1>2 DEF Stamped, Tapped, Instants
    <2> HIDE DEF p, q, k
    <2> QED BY <1>2, <1>4, <2>1
  <1>6. p \div k = q \div k
    BY DEF DayOf
  <1>7. LedgerDrop(st, s).at = (IF Earns(st, s) THEN p ELSE p % k)
        /\ LedgerDrop(st, u).at = (IF Earns(st, u) THEN q ELSE q % k)
    BY DEF LedgerDrop, Drop
  <1> HIDE DEF p, q, k
  <1>8. p % k < k /\ q % k < k /\ p % k \in Nat /\ q % k \in Nat
    BY <1>2, <1>4
  <1>9. p % k # q % k
    BY <1>2, <1>3, <1>4, <1>6
  <1> QED BY <1>2, <1>3, <1>4, <1>5, <1>7, <1>8, <1>9

\* The ledger's points are what its stops were awarded, although a drop that lost its
\* pay takes the first place in its zone there: the zone has its points but once.
LEMMA LedgerTotal ==
    ASSUME NEW st, Scorable(st), OneTapEach(st), NEW now, NEW day,
           NEW S \in SUBSET Scored(st), Uniform(st, S),
           \A s \in S : /\ trip[TripOf[s]].status # "pending" /\ Stamped(st, now, s)
                        /\ PayInstant(st, s) # 0 /\ DayOf(PayInstant(st, s)) = day,
           \A s \in S : st[s].award = "first" <=>
                            \A u \in S : ZoneOf[u] = ZoneOf[s] => PayInstant(st, s) <= PayInstant(st, u)
    PROVE  Total({LedgerDrop(st, s) : s \in S}) = SumFunctionOnSet(Worths(st), S)
  <1> DEFINE D == {LedgerDrop(st, s) : s \in S}
             W == Worth(D)
             V == [s \in S |-> W[LedgerDrop(st, s)]]
             P == Worths(st)
             n == [s \in S |-> LedgerDrop(st, s)]
             Z == {ZoneOf[s] : s \in S}
             C(z) == Fibre(S, ZoneOf, z)
             VZ == [z \in Z |-> SumFunctionOnSet(V, C(z))]
             PZ == [z \in Z |-> SumFunctionOnSet(P, C(z))]
  <1>1. S \subseteq Stops /\ IsFiniteSet(S) /\ st \in [Stops -> Stop]
    BY PaydayAssumption, FS_Subset DEF Scored, Scorable
  <1>2. \A s \in S : /\ LedgerDrop(st, s).stop = s /\ LedgerDrop(st, s).zone = ZoneOf[s]
                     /\ LedgerDrop(st, s).points = st[s].zonePoints
                     /\ LedgerDrop(st, s).at \in Nat /\ st[s].zonePoints \in Nat
                     /\ PayInstant(st, s) \in Nat
    BY <1>1, DropOf
  <1>3. Countable(D)
    BY <1>1, DropsCountable
  <1>4. Total(D) = SumFunctionOnSet(W, D) /\ \A d \in D : W[d] \in Nat
    <2> HIDE DEF D
    <2> QED BY <1>3, TotalOfDrops
  <1>5. \A s \in S : V[s] = IF \E u \in S : ZoneOf[u] = ZoneOf[s]
                                            /\ LedgerDrop(st, u).at < LedgerDrop(st, s).at
                            THEN 1 ELSE st[s].zonePoints
    <2>1. TAKE s \in S
    <2>2. IsRepeat(LedgerDrop(st, s), D)
              <=> \E u \in S : ZoneOf[u] = ZoneOf[s] /\ LedgerDrop(st, u).at < LedgerDrop(st, s).at
      BY <1>2 DEF IsRepeat
    <2>3. V[s] = IF IsRepeat(LedgerDrop(st, s), D) THEN 1 ELSE LedgerDrop(st, s).points
      BY DEF Worth
    <2> QED BY <1>2, <2>2, <2>3
  <1>6. \A s \in S : P[s] = IF st[s].award = "first" THEN st[s].zonePoints ELSE 1
    <2>1. TAKE s \in S
    <2>2. st[s].award \in {"first", "repeat"} /\ s \in Stops
      BY <1>1 DEF Scored, Stop
    <2> QED BY <2>2 DEF Worths, Points
  <1>7. \A s \in S : V[s] \in Int /\ P[s] \in Int
    BY <1>2, <1>5, <1>6
  <1>8. SumFunctionOnSet(V, S) = SumFunctionOnSet(W, D)
    <2>1. (\A s \in S : n[s] \in D) /\ (\A s \in S : W[n[s]] = V[s])
      OBVIOUS
    <2>2. \A x \in S, y \in S : n[x] = n[y] => x = y
      BY <1>2
    <2>3. \A d \in D : \E s \in S : n[s] = d
      OBVIOUS
    <2>4. IsFiniteSet(S) /\ IsFiniteSet(D) /\ \A s \in S : V[s] \in Int
      BY <1>1, <1>3, <1>7 DEF Countable
    <2> HIDE DEF D, W, V, P, n, Z, C, VZ, PZ
    <2> QED BY <2>1, <2>2, <2>3, <2>4, TotalRenamed
  <1>9. IsFiniteSet(Z) /\ \A s \in S : ZoneOf[s] \in Z
    <2>1. IsFiniteSet(Z)
      BY <1>1, FiniteImage
    <2> QED BY <2>1
  <1>10. \A z \in Z : VZ[z] = SumFunctionOnSet(V, Fibre(S, ZoneOf, z))
                      /\ PZ[z] = SumFunctionOnSet(P, Fibre(S, ZoneOf, z))
    OBVIOUS
  <1>11. ASSUME NEW z \in Z PROVE VZ[z] = PZ[z] /\ VZ[z] \in Int
    <2> DEFINE B == Fibre(S, ZoneOf, z)
               k == [s \in B |-> LedgerDrop(st, s).at]
               l == [s \in B |-> PayInstant(st, s)]
    <2>1. B \subseteq S /\ B # {} /\ IsFiniteSet(B) /\ \A s \in B : ZoneOf[s] = z
      BY <1>1, FS_Subset DEF Fibre
    <2>2. \A s \in S : ZoneOf[s] = z => s \in B
      BY DEF Fibre
    <2>3. PICK x \in B : \A y \in B \ {x} : k[x] < k[y]
      <3>1. \A s \in B : k[s] \in Nat
        BY <1>2, <2>1
      <3>2. ASSUME NEW s \in B, NEW u \in B, k[s] = k[u], s # u PROVE FALSE
        <4>1. s \in S /\ u \in S /\ s \in Stops /\ u \in Stops
          BY <1>1, <2>1
        <4>2. k[s] = LedgerDrop(st, s).at /\ k[u] = LedgerDrop(st, u).at
          OBVIOUS
        <4>3. /\ trip[TripOf[s]].status # "pending" /\ Stamped(st, now, s)
              /\ PayInstant(st, s) # 0 /\ DayOf(PayInstant(st, s)) = day
              /\ trip[TripOf[u]].status # "pending" /\ Stamped(st, now, u)
              /\ PayInstant(st, u) # 0 /\ DayOf(PayInstant(st, u)) = day
          BY <4>1
        <4> HIDE DEF B, k, l, V, P, VZ, PZ, W, D, n, Z, C
        <4>4. LedgerDrop(st, s).at # LedgerDrop(st, u).at
          BY <3>2, <4>1, <4>3, LedgerSorts
        <4> QED BY <3>2, <4>2, <4>4
      <3> HIDE DEF B, k
      <3> QED BY <2>1, <3>1, <3>2, SmallestOf
    <2>4. PICK y \in B : \A v \in B \ {y} : l[y] < l[v]
      <3>1. \A s \in B : l[s] \in Nat
        BY <1>2, <2>1
      <3>2. \A s, u \in B : l[s] = l[u] => s = u
        <4>1. \A s \in B : PayInstant(st, s) \in Instants(st, s) /\ s \in Stops
          BY <1>1, <2>1, PayIsTap
        <4> QED BY <4>1 DEF OneTapEach
      <3> HIDE DEF B, l
      <3> QED BY <2>1, <3>1, <3>2, SmallestOf
    <2> DEFINE c == st[x].zonePoints
    <2>5. c \in Int /\ \A s \in B : st[s].zonePoints = c
      BY <1>2, <2>1 DEF Uniform
    <2>6. V[x] = c /\ \A s \in B \ {x} : V[s] = 1
      <3>1. \A s \in B : k[s] = LedgerDrop(st, s).at /\ k[s] \in Nat
        BY <1>2, <2>1
      <3>2. \A u \in S : ZoneOf[u] = z => k[x] <= k[u] /\ k[u] = LedgerDrop(st, u).at
        BY <2>2, <2>3, <3>1
      <3>3. ~\E u \in S : ZoneOf[u] = ZoneOf[x] /\ LedgerDrop(st, u).at < LedgerDrop(st, x).at
        <4> HIDE DEF k, B
        <4>1. ASSUME NEW u \in S, ZoneOf[u] = z PROVE ~(LedgerDrop(st, u).at < LedgerDrop(st, x).at)
          <5>1. u \in B /\ k[x] <= k[u] /\ k[u] = LedgerDrop(st, u).at /\ k[x] = LedgerDrop(st, x).at
                /\ k[x] \in Nat /\ k[u] \in Nat
            BY <2>2, <3>1, <3>2, <4>1
          <5> QED BY <5>1
        <4> QED BY <2>1, <4>1
      <3>4. ASSUME NEW s \in B \ {x}
            PROVE  \E u \in S : ZoneOf[u] = ZoneOf[s] /\ LedgerDrop(st, u).at < LedgerDrop(st, s).at
        <4> HIDE DEF k, B
        <4>1. x \in S /\ ZoneOf[x] = ZoneOf[s] /\ k[x] < k[s]
          BY <2>1, <2>3
        <4>2. k[x] = LedgerDrop(st, x).at /\ k[s] = LedgerDrop(st, s).at
          BY <3>1
        <4> QED BY <4>1, <4>2
      <3> HIDE DEF V, B, k
      <3> QED BY <1>5, <2>1, <2>5, <3>3, <3>4
    <2>7. P[y] = c /\ \A s \in B \ {y} : P[s] = 1
      <3>1. \A s \in B : l[s] = PayInstant(st, s) /\ l[s] \in Nat
        BY <1>2, <2>1
      <3> HIDE DEF B, l, P, c
      <3>2. st[y].award = "first"
        <4>1. ASSUME NEW u \in S, ZoneOf[u] = ZoneOf[y] PROVE PayInstant(st, y) <= PayInstant(st, u)
          <5>1. u \in B /\ l[u] = PayInstant(st, u) /\ l[y] = PayInstant(st, y) /\ l[u] \in Nat /\ l[y] \in Nat
            BY <2>1, <2>2, <3>1, <4>1
          <5> QED BY <2>4, <5>1
        <4> QED BY <2>1, <4>1
      <3>3. ASSUME NEW s \in B \ {y} PROVE st[s].award # "first"
        <4>1. y \in S /\ s \in S /\ ZoneOf[y] = ZoneOf[s] /\ ~(PayInstant(st, s) <= PayInstant(st, y))
          <5>1. l[y] < l[s] /\ l[y] = PayInstant(st, y) /\ l[s] = PayInstant(st, s) /\ l[y] \in Nat /\ l[s] \in Nat
            BY <2>4, <3>1
          <5> QED BY <2>1, <5>1
        <4> QED BY <4>1
      <3> QED BY <1>6, <2>1, <2>5, <3>2, <3>3
    <2>8. \A s \in B : V[s] \in Int
      BY <1>7, <2>1
    <2>9. VZ[z] = SumFunctionOnSet(V, B) /\ PZ[z] = SumFunctionOnSet(P, B)
      BY <1>10
    <2> HIDE DEF B, k, l, c, V, P, VZ, PZ, W, D, n, Z, C
    <2>10. SumFunctionOnSet(V, B) = SumFunctionOnSet(P, B)
      BY <2>1, <2>5, <2>6, <2>7, TotalOneOff
    <2>11. SumFunctionOnSet(V, B) \in Int
      BY <2>1, <2>8, TotalInt
    <2> QED BY <2>9, <2>10, <2>11
  <1> HIDE DEF D, W, V, P, n, Z, C, VZ, PZ
  <1>12. SumFunctionOnSet(V, S) = SumFunctionOnSet(VZ, Z)
    <2>1. (\A s \in S : V[s] \in Int) /\ (\A z \in Z : VZ[z] = SumFunctionOnSet(V, Fibre(S, ZoneOf, z)))
      BY <1>7, <1>10
    <2> QED BY <1>1, <1>9, <2>1, TotalByGroup
  <1>13. SumFunctionOnSet(P, S) = SumFunctionOnSet(PZ, Z)
    <2>1. (\A s \in S : P[s] \in Int) /\ (\A z \in Z : PZ[z] = SumFunctionOnSet(P, Fibre(S, ZoneOf, z)))
      BY <1>7, <1>10
    <2> QED BY <1>1, <1>9, <2>1, TotalByGroup
  <1>14. SumFunctionOnSet(VZ, Z) = SumFunctionOnSet(PZ, Z)
    BY <1>9, <1>11, TotalSame
  <1>15. Total(D) = SumFunctionOnSet(P, S)
    BY <1>4, <1>8, <1>12, <1>13, <1>14
  <1> QED BY <1>15 DEF D, P

\* What was unwound stays so.
LEMMA UnwoundStays == [Next]_vars /\ unwound => unwound'
  <1> SUFFICES ASSUME [Next]_vars, unwound PROVE unwound'
    OBVIOUS
  <1>1. CASE OfficeHours \/ NextDay \/ UNCHANGED vars
    BY <1>1 DEF OfficeHours, NextDay, vars, ledgerVars
  <1>2. ASSUME NEW t \in Trips, \/ Assign(t) \/ Unassign(t) \/ Start(t) \/ Abort(t)
                                \/ \E own \in OwnAmounts \cup {None} : Approve(t, own)
        PROVE  unwound'
    BY <1>2 DEF Assign, Unassign, Start, Abort, Approve
  <1>3. ASSUME NEW s \in Stops,
               \/ Arrive(s) \/ Deliver(s) \/ UndoArrived(s) \/ UndoDelivered(s) \/ RejectLate(s)
               \/ \E verdict \in {"settled", "vetoed"} : Adjudicate(s, verdict)
        PROVE  unwound'
    BY <1>3 DEF Arrive, Deliver, Tap, UndoArrived, UndoDelivered, RejectLate, Adjudicate
  <1> QED BY <1>1, <1>2, <1>3 DEF Next

\* A proposal is taken back when a delivery of its trip is undone.
LEMMA ProposalIsUndone ==
    ASSUME LedgerInv, TapsInOrder, [Next]_vars, NEW t \in Trips,
           trip[t].earned # None, trip'[t].earned = None
    PROVE  \E s \in StopsOf(t) : UndoDelivered(s)
  <1>1. /\ trip \in [Trips -> Trip] /\ stop \in [Stops -> Stop] /\ trip[t] \in Trip
        /\ trip[t].status \in Finished /\ t \notin Out
    BY DEF LedgerInv, TypeOK, BooksInv, Filed, Finished, Out
  <1>2. ~(OfficeHours \/ NextDay \/ UNCHANGED vars)
    BY DEF OfficeHours, NextDay, vars, ledgerVars
  <1>3. ASSUME NEW u \in Trips, Assign(u) \/ Unassign(u) \/ Start(u)
        PROVE  FALSE
    <2>1. u # t
      BY <1>1, <1>3 DEF Assign, Unassign, Start, Finished
    <2> QED BY <1>1, <1>3, <2>1 DEF Assign, Unassign, Start
  <1>4. ASSUME NEW u \in Trips, NEW own \in OwnAmounts \cup {None}, Approve(u, own)
        PROVE  FALSE
    <2> DEFINE final == IF own = None THEN Payable(u) ELSE own
               word == IF final = trip[u].earned THEN "none"
                       ELSE IF own = None THEN "overtime" ELSE "office"
    <2>1. trip' = [trip EXCEPT ![u].status = "completed", ![u].final = final, ![u].override = word]
      BY <1>4 DEF Approve
    <2> HIDE DEF final, word
    <2>2. \/ trip'[t] = trip[t]
          \/ trip'[t] = [trip[t] EXCEPT !.status = "completed", !.final = final, !.override = word]
      BY <1>1, <2>1
    <2> QED BY <1>1, <2>2 DEF Trip
  <1>5. ASSUME NEW u \in Trips, NEW st, SendsOn(u, st)
        PROVE  FALSE
    <2>1. u \in Out /\ Touched(u, st) /\ u # t
      BY <1>1, <1>5 DEF SendsOn
    <2>2. PICK status \in {"in_progress", "pending_approval", "cancelled"} : Becomes(u, st, status)
      BY <1>5 DEF SendsOn
    <2>3. \A v \in Trips \ {u} : trip'[v] = trip[v]
      BY <2>1, <2>2, BecomesTrip
    <2> QED BY <2>1, <2>3
  <1>6. ASSUME NEW s \in Stops, Arrive(s) \/ UndoArrived(s) \/ RejectLate(s)
        PROVE  FALSE
    BY <1>6 DEF Arrive, UndoArrived, RejectLate
  <1>7. ASSUME NEW s \in Stops, UndoDelivered(s)
        PROVE  s \in StopsOf(t)
    <2>1. TripOf[s] = t \/ trip'[t] = trip[t]
      BY <1>1, <1>7, PaydayAssumption DEF UndoDelivered
    <2> QED BY <2>1 DEF StopsOf
  <1>8. ASSUME NEW u \in Trips, Abort(u)
        PROVE  FALSE
    BY <1>5, <1>8, AbortSends
  <1>9. ASSUME NEW s \in Stops,
               Deliver(s) \/ \E verdict \in {"settled", "vetoed"} : Adjudicate(s, verdict)
        PROVE  FALSE
    BY <1>5, <1>9, DeliverSends, AdjudicateSends, PaydayAssumption
  <1> QED BY <1>2, <1>3, <1>4, <1>6, <1>7, <1>8, <1>9 DEF Next

\* A scored stop is of a proposed trip, and was tapped when it is paid.
LEMMA ScoredIsProposed ==
    ASSUME LedgerInv, NEW s \in Scored(stop)
    PROVE  /\ TripOf[s] \in Trips /\ trip[TripOf[s]].earned # None
           /\ s \in Stops /\ PayInstant(stop, s) # 0 /\ PayInstant(stop, s) \in Instants(stop, s)
  <1>1. s \in Stops /\ stop[s].award # "none" /\ TripOf[s] \in Trips /\ stop \in [Stops -> Stop]
    BY PaydayAssumption DEF Scored, LedgerInv, TypeOK
  <1>2. AwardStands(s) /\ Filed(TripOf[s])
    BY <1>1 DEF LedgerInv, BooksInv
  <1> QED BY <1>1, <1>2, PayIsTap DEF AwardStands, Filed

\* What came before a proposed trip in its ledger stands while the proposal does, and so
\* do its own drops: later trips that are proposed come after it, and a delivery can be
\* undone, without unwinding anything, only if its trip came last.
LEMMA LedgerBeforeStands ==
    ASSUME LedgerInv, LedgerInv', TapsInOrder, [Next]_vars, ~unwound', NEW t \in Trips,
           trip[t].earned # None, trip'[t].earned # None, NEW day
    PROVE  /\ ProposalStands(t)
           /\ DropsOf(stop', t, day) = DropsOf(stop, t, day)
           /\ DropsBefore(stop, t, day)' = DropsBefore(stop, t, day)
           /\ \A s \in DropsBefore(stop, t, day) :
                 stop'[s].award = stop[s].award /\ stop'[s].zonePoints = stop[s].zonePoints
  <1>1. ProposalStands(t) /\ ~unwound
    BY ProposalsStand, UnwoundStays
  <1>2. DropsOf(stop', t, day) = DropsOf(stop, t, day)
    BY <1>1 DEF ProposalStands, DropsOf, Scored, DayOf
  <1>3. \A s \in Stops : s \in Scored(stop') => trip'[TripOf[s]].earned # None
    <2>1. TAKE s \in Stops
    <2>2. AwardStands(s)' /\ Filed(TripOf[s])'
      BY PaydayAssumption DEF LedgerInv, BooksInv
    <2> QED BY <2>2 DEF AwardStands, Filed, Scored
  <1>4. ASSUME NEW s \in Stops \ StopsOf(t), trip[TripOf[s]].earned # None, trip'[TripOf[s]].earned # None
        PROVE  /\ s \in Scored(stop') <=> s \in Scored(stop)
               /\ stop'[s].award = stop[s].award /\ stop'[s].zonePoints = stop[s].zonePoints
               /\ PayInstant(stop', s) = PayInstant(stop, s)
               /\ PoolOf(s)' = PoolOf(s) /\ (Precedes(stop', s, t) <=> Precedes(stop, s, t))
    <2>1. TripOf[s] \in Trips /\ s \in StopsOf(TripOf[s]) /\ ProposalStands(TripOf[s])
      BY <1>4, ProposalsStand, PaydayAssumption DEF StopsOf
    <2>2. \A v \in StopsOf(t) : Instants(stop', v) = Instants(stop, v)
      BY <1>1 DEF ProposalStands
    <2>3. PayInstant(stop', s) = PayInstant(stop, s)
      BY <2>1 DEF ProposalStands
    <2>4. Precedes(stop', s, t) <=> Precedes(stop, s, t)
      BY <2>2, <2>3 DEF Precedes
    <2> QED BY <2>1, <2>3, <2>4 DEF ProposalStands, Scored, PoolOf
  <1>5. ASSUME NEW s \in Scored(stop') \ StopsOf(t), s \in Stops, trip[TripOf[s]].earned = None
        PROVE  ~Precedes(stop', s, t)
    <2> DEFINE u == TripOf[s]
    <2>1. u \in Trips /\ s \in StopsOf(u) /\ u # t /\ trip'[u].earned # None
      BY <1>3, <1>5, PaydayAssumption DEF StopsOf
    <2>2. PICK st : SendsOn(u, st) /\ Becomes(u, st, "pending_approval")
      BY <1>5, <2>1, ProposalIsMade
    <2>3. u \in Out /\ Touched(u, st) /\ Before(st, t, u) /\ \A v \in Stops : Stamped(st, At(taps)', v)
      BY <1>1, <2>1, <2>2 DEF SendsOn
    <2>4. stop' = Awarded(st, u) /\ st \in [Stops -> Stop]
      BY <2>2, <2>3 DEF Becomes, Touched
    <2>5. PayInstant(stop', s) = PayInstant(st, s) /\ Earns(st, s)
      BY <1>5, <2>1, <2>3, <2>4, NewlyScored
    <2>6. PayInstant(st, s) \in Instants(st, s) /\ PayInstant(st, s) \in Nat
      BY <1>5, <2>3, <2>4, <2>5, EarnsTapped, PayIsTap
    <2>7. \A v \in StopsOf(t) : v \in Stops /\ Instants(stop', v) = Instants(stop, v)
                                /\ Instants(st, v) = Instants(stop, v) /\ Instants(st, v) \subseteq Nat
      <3>1. TAKE v \in StopsOf(t)
      <3>2. v \in Stops \ StopsOf(u)
        BY <2>1 DEF StopsOf
      <3>3. st[v] = stop[v]
        BY <2>3, <3>2 DEF Touched
      <3> QED BY <1>1, <2>4, <3>2, <3>3, PayIsTap DEF ProposalStands, Instants
    <2>8. \A v \in StopsOf(t) : \A at \in Instants(stop', v) : at \in Nat /\ at < PayInstant(st, s)
      BY <2>1, <2>3, <2>6, <2>7 DEF Before
    <2> QED BY <2>5, <2>6, <2>8 DEF Precedes
  <1>6. ASSUME NEW s \in Scored(stop) \ StopsOf(t), trip'[TripOf[s]].earned = None
        PROVE  ~Precedes(stop, s, t)
    <2> DEFINE u == TripOf[s]
    <2>1. /\ u \in Trips /\ s \in Stops /\ s \in StopsOf(u) /\ u # t /\ trip[u].earned # None
          /\ PayInstant(stop, s) \in Instants(stop, s)
      BY <1>6, ScoredIsProposed DEF StopsOf
    <2>2. PICK v \in StopsOf(u) : UndoDelivered(v)
      BY <1>6, <2>1, ProposalIsUndone
    <2>3. Before(stop, t, u)
      <3>1. v \in Stops /\ TripOf[v] = u
        BY <2>2 DEF StopsOf
      <3> QED BY <2>1, <2>2, <3>1, UndoneOrder
    <2>4. \A w \in StopsOf(t) : Instants(stop, w) \subseteq Nat
      BY PayIsTap DEF LedgerInv, TypeOK, StopsOf
    <2>5. PayInstant(stop, s) \in Nat
      BY <2>1, PayIsTap DEF LedgerInv, TypeOK
    <2>6. \A w \in StopsOf(t) : \A at \in Instants(stop, w) : at \in Nat /\ at < PayInstant(stop, s)
      BY <2>1, <2>3, <2>4 DEF Before
    <2> QED BY <2>5, <2>6 DEF Precedes
  <1>7. \A s \in DropsBefore(stop, t, day) :
            s \in Stops \ StopsOf(t) /\ trip[TripOf[s]].earned # None /\ trip'[TripOf[s]].earned # None
    BY <1>6, ScoredIsProposed DEF DropsBefore
  <1>8. ASSUME NEW s \in Stops \ StopsOf(t)
        PROVE  s \in DropsBefore(stop, t, day)' <=> s \in DropsBefore(stop, t, day)
    <2>1. s \in DropsBefore(stop, t, day)' <=>
             /\ s \in Scored(stop') /\ PoolOf(s)' = trip'[t].pool
             /\ DayOf(PayInstant(stop', s)) = day /\ Precedes(stop', s, t)
      BY DEF DropsBefore, Scored, Precedes, Instants, PayInstant, StopsOf, DayOf
    <2>2. s \in DropsBefore(stop, t, day) <=>
             /\ s \in Scored(stop) /\ PoolOf(s) = trip[t].pool
             /\ DayOf(PayInstant(stop, s)) = day /\ Precedes(stop, s, t)
      BY DEF DropsBefore
    <2>3. trip'[t].pool = trip[t].pool
      BY <1>1 DEF ProposalStands
    <2>4. s \in Scored(stop) => trip[TripOf[s]].earned # None
      BY ScoredIsProposed
    <2>5. s \in Scored(stop') => trip'[TripOf[s]].earned # None
      BY <1>3
    <2>6. CASE trip[TripOf[s]].earned # None /\ trip'[TripOf[s]].earned # None
      BY <1>4, <2>1, <2>2, <2>3, <2>6
    <2>7. CASE trip[TripOf[s]].earned = None
      BY <1>5, <2>1, <2>2, <2>4, <2>7
    <2>8. CASE trip'[TripOf[s]].earned = None
      BY <1>6, <2>1, <2>2, <2>5, <2>8
    <2> QED BY <2>6, <2>7, <2>8
  <1>9. DropsBefore(stop, t, day) \subseteq Stops \ StopsOf(t)
        /\ DropsBefore(stop, t, day)' \subseteq Stops \ StopsOf(t)
    BY DEF DropsBefore, Scored, StopsOf
  <1>10. DropsBefore(stop, t, day)' = DropsBefore(stop, t, day)
    <2> DEFINE A == DropsBefore(stop, t, day)'
               B == DropsBefore(stop, t, day)
               C == Stops \ StopsOf(t)
    <2>1. A \subseteq C /\ B \subseteq C /\ \A s \in C : s \in A <=> s \in B
      BY <1>8, <1>9
    <2> HIDE DEF A, B, C
    <2>2. A = B
      BY <2>1
    <2> QED BY <2>2 DEF A, B
  <1> QED BY <1>1, <1>2, <1>4, <1>7, <1>10

\* He is out with one trip, which all others came before, and its stops are as in st.
LastOut(t, st, now) ==
    /\ t \in Out /\ Out = {t} /\ Touched(t, st)
    /\ \A s \in Stops : Stamped(st, now, s)
    /\ \A u \in Trips \ {t} : Before(st, u, t)

\* The ledger before a day of the trip he is out with is what was scored before.
LEMMA PriorIsLedger ==
    ASSUME LedgerInv, NEW t, NEW st, NEW now, LastOut(t, st, now), NEW g \in DayGroups(st, t)
    PROVE  LET before == DropsBefore(Awarded(st, t), t, DayOf(Anchor(g)))
           IN /\ Prior(st, t, g) = {LedgerDrop(stop, s) : s \in before}
              /\ before \subseteq Scored(stop) \ StopsOf(t)
              /\ \A s \in before : PoolOf(s) = trip[t].pool
                                   /\ DayOf(PayInstant(stop, s)) = DayOf(Anchor(g))
              /\ \A s \in Scored(stop) \ StopsOf(t) :
                    PoolOf(s) = trip[t].pool /\ DayOf(PayInstant(stop, s)) = DayOf(Anchor(g))
                        => s \in before
  <1> DEFINE new == Awarded(st, t)
             anchor == Anchor(g)
             day == DayOf(Anchor(g))
             before == DropsBefore(new, t, day)
             In(u) == /\ PoolOf(u) = trip[t].pool /\ trip[TripOf[u]].status \in LedgerStatuses
                      /\ InLedger(st, u) /\ DayOf(PayInstant(st, u)) = day /\ PayInstant(st, u) < anchor
             Mine(u) == u \in Scored(stop) /\ PoolOf(u) = trip[t].pool /\ DayOf(PayInstant(stop, u)) = day
  <1>1. /\ t \in Trips /\ Out = {t} /\ t \in Out /\ Touched(t, st) /\ \A s \in Stops : Stamped(st, now, s)
        /\ \A u \in Trips \ {t} : Before(st, u, t)
        /\ trip[t].status # "pending" /\ Scorable(st) /\ st \in [Stops -> Stop]
    BY TouchedScorable DEF LastOut, LedgerInv, Out, Touched
  <1>2. /\ anchor \in Nat /\ Prior(st, t, g) = PriorDrops(st, t, anchor)
        /\ \A d \in g : d.stop \in StopsOf(t) /\ Earns(st, d.stop) /\ d.at = PayInstant(st, d.stop)
        /\ \E d \in g : d.at = anchor
    BY <1>1, GroupFacts, PriorOfGroup
  <1>3. PICK v \in StopsOf(t) : v \in Stops /\ PayInstant(st, v) = anchor /\ anchor \in Instants(st, v)
    <2>1. PICK d \in g : d.at = anchor
      BY <1>2
    <2>2. d.stop \in StopsOf(t) /\ d.stop \in Stops /\ PayInstant(st, d.stop) = anchor /\ Earns(st, d.stop)
      BY <1>2, <2>1 DEF StopsOf
    <2> HIDE DEF anchor
    <2>3. PayInstant(st, d.stop) # 0
      BY <1>1, <2>2, EarnsTapped
    <2> QED BY <1>1, <2>2, <2>3, PayIsTap
  <1> HIDE DEF anchor, day
  <1>4. ASSUME NEW u \in Stops \ StopsOf(t)
        PROVE  /\ st[u] = stop[u] /\ PayInstant(st, u) = PayInstant(stop, u) /\ PayInstant(st, u) \in Nat
               /\ PayInstant(new, u) = PayInstant(stop, u) /\ (u \in Scored(new) <=> u \in Scored(stop))
               /\ TripOf[u] \in Trips /\ TripOf[u] # t /\ u \in StopsOf(TripOf[u])
               /\ (InLedger(st, u) <=> InLedger(stop, u)) /\ AwardStands(u)
    <2>1. st[u] = stop[u] /\ TripOf[u] \in Trips /\ TripOf[u] # t /\ u \in StopsOf(TripOf[u])
      BY <1>1, PaydayAssumption DEF Touched, StopsOf
    <2>2. PayInstant(st, u) = PayInstant(stop, u) /\ (InLedger(st, u) <=> InLedger(stop, u))
      BY <2>1 DEF PayInstant, InLedger, Earns, Adjudicated
    <2> QED BY <1>1, <2>1, <2>2, NewlyScored, PayIsTap DEF LedgerInv, BooksInv
  <1>5. ASSUME NEW u \in Stops \ StopsOf(t), In(u)
        PROVE  Mine(u)
    <2>1. TripOf[u] \notin Out
      BY <1>1, <1>4
    <2>2. trip[TripOf[u]].status \in Finished
      BY <1>4, <1>5, <2>1 DEF LedgerStatuses, Finished, Out
    <2>3. u \in Scored(stop)
      BY <1>4, <1>5, <2>2 DEF InLedger, AwardStands, Scored
    <2> QED BY <1>4, <1>5, <2>3
  <1>6. ASSUME NEW u \in Stops \ StopsOf(t), Mine(u)
        PROVE  In(u)
    <2>1. trip[TripOf[u]].status \in Finished /\ PayInstant(stop, u) # 0
      BY <1>4, <1>6 DEF Scored, AwardStands
    <2>2. InLedger(stop, u)
      BY <1>6, <2>1 DEF InLedger, Earns, Scored, PayInstant
    <2>3. PayInstant(st, u) < anchor
      <3>1. PayInstant(st, u) \in Instants(st, u)
        BY <1>1, <1>4, <2>1, PayIsTap
      <3> QED BY <1>1, <1>3, <1>4, <3>1 DEF Before
    <2> QED BY <1>4, <1>6, <2>1, <2>2, <2>3 DEF Finished, LedgerStatuses
  <1>7. ASSUME NEW u \in Stops \ StopsOf(t)
        PROVE  /\ u \in before <=> Mine(u)
               /\ LedgerDrop(st, u) = LedgerDrop(stop, u)
    <2>1. Mine(u) => Precedes(new, u, t)
      <3>1. Instants(new, v) = Instants(st, v)
        BY <1>1, <1>3, AwardsOnly DEF Instants
      <3>2. Mine(u) => PayInstant(new, u) < anchor
        BY <1>4, <1>6
      <3> QED BY <1>3, <3>1, <3>2 DEF Precedes
    <2>2. u \in before <=> /\ u \in Scored(new) /\ PoolOf(u) = trip[t].pool
                           /\ DayOf(PayInstant(new, u)) = day /\ Precedes(new, u, t)
      BY DEF DropsBefore
    <2>3. LedgerDrop(st, u) = LedgerDrop(stop, u)
      BY <1>4 DEF LedgerDrop, PayInstant, Earns, Adjudicated
    <2> QED BY <1>4, <2>1, <2>2, <2>3
  <1>8. before \subseteq Stops \ StopsOf(t)
    BY DEF DropsBefore, Scored
  <1>9. Prior(st, t, g) = {LedgerDrop(st, s) : s \in {u \in Stops \ StopsOf(t) : In(u)}}
    BY <1>2 DEF PriorDrops, day, anchor
  <1> HIDE DEF before, In
  <1>10. {u \in Stops \ StopsOf(t) : In(u)} = before
    BY <1>5, <1>6, <1>7, <1>8
  <1>11. Prior(st, t, g) = {LedgerDrop(stop, s) : s \in before}
    BY <1>7, <1>8, <1>9, <1>10
  <1>12. \A s \in Scored(stop) \ StopsOf(t) : s \in Stops \ StopsOf(t)
    BY DEF Scored
  <1> QED BY <1>7, <1>8, <1>11, <1>12 DEF before, day, new

-----------------------------------------------------------------------------
(* What a trip is paid for each of its days.                               *)

\* What the rules pay a trip for a day: the day's points with its drops above the
\* deduction, less those without them.
PaidFor(st, t, day) ==
    LET before == SumFunctionOnSet(Worths(st), DropsBefore(st, t, day))
        own == SumFunctionOnSet(Worths(st), DropsOf(st, t, day))
    IN Above(before + own, trip[t].rates["deduction"]) - Above(before, trip[t].rates["deduction"])

\* The points of the ledger before a day of the trip are those of the stops in it.
LEMMA LedgerWorth ==
    ASSUME LedgerInv, OneTapEach(stop), FirstIsEarliest(stop),
           NEW t, NEW st, NEW now, LastOut(t, st, now), NEW g \in DayGroups(st, t),
           NEW before, before = DropsBefore(Awarded(st, t), t, DayOf(Anchor(g))),
           Uniform(Awarded(st, t), before)
    PROVE  Total(Prior(st, t, g)) = SumFunctionOnSet(Worths(Awarded(st, t)), before)
  <1> DEFINE new == Awarded(st, t)
             day == DayOf(Anchor(g))
  <1>1. /\ Prior(st, t, g) = {LedgerDrop(stop, s) : s \in before}
        /\ before \subseteq Scored(stop) \ StopsOf(t)
        /\ \A s \in before : PoolOf(s) = trip[t].pool /\ DayOf(PayInstant(stop, s)) = day
        /\ \A s \in Scored(stop) \ StopsOf(t) :
              PoolOf(s) = trip[t].pool /\ DayOf(PayInstant(stop, s)) = day => s \in before
    BY PriorIsLedger
  <1> HIDE DEF new, day
  <1>2. /\ t \in Out /\ Touched(t, st) /\ t \in Trips /\ trip[t].status = "in_progress"
        /\ stop \in [Stops -> Stop] /\ Scorable(stop)
    <2>1. t \in Out /\ Touched(t, st) /\ t \in Trips /\ stop \in [Stops -> Stop]
      BY DEF LastOut, Out, LedgerInv, TypeOK
    <2>2. Touched(t, stop)
      BY <2>1 DEF Touched
    <2> QED BY <2>1, <2>2, TouchedScorable DEF LedgerInv, Out
  <1>3. \A s \in before : s \in Stops /\ s \in Scored(stop) /\ s \notin StopsOf(t) /\ new[s] = stop[s]
    BY <1>1, <1>2, NewlyScored DEF new, Scored
  <1>4. Uniform(stop, before)
    BY <1>3 DEF Uniform, new
  <1>5. \A s \in before :
           /\ trip[TripOf[s]].status # "pending" /\ Stamped(stop, At(taps), s)
           /\ PayInstant(stop, s) # 0 /\ DayOf(PayInstant(stop, s)) = day
    BY <1>1, <1>3 DEF LedgerInv, BooksInv, AwardStands, Scored, Finished
  <1>6. \A s \in before : stop[s].award = "first" <=>
              \A u \in before : ZoneOf[u] = ZoneOf[s] => PayInstant(stop, s) <= PayInstant(stop, u)
    <2>1. TAKE s \in before
    <2>2. \A u \in Scored(stop) : Same(stop, s, u) <=>
              PoolOf(u) = trip[t].pool /\ DayOf(PayInstant(stop, u)) = day /\ ZoneOf[u] = ZoneOf[s]
      BY <1>1 DEF Same
    <2>3. \A u \in Scored(stop) : Same(stop, s, u) => u \in before
      <3>1. SUFFICES ASSUME NEW u \in Scored(stop), Same(stop, s, u) PROVE u \notin StopsOf(t)
        BY <1>1, <2>2
      <3>2. ASSUME u \in StopsOf(t) PROVE FALSE
        BY <1>2, <3>1, <3>2, NewlyScored
      <3> QED BY <3>2
    <2>4. s \in Scored(stop)
      BY <1>3
    <2> QED BY <1>1, <1>3, <2>2, <2>3, <2>4 DEF FirstIsEarliest
  <1>7. before \in SUBSET Scored(stop)
    BY <1>1
  <1>8. Total({LedgerDrop(stop, s) : s \in before}) = SumFunctionOnSet(Worths(stop), before)
    BY <1>2, <1>4, <1>5, <1>6, <1>7, LedgerTotal
  <1> DEFINE P == Worths(stop)
             Q == Worths(new)
  <1>9. SumFunctionOnSet(P, before) = SumFunctionOnSet(Q, before)
    <2>1. IsFiniteSet(before)
      <3>1. before \subseteq Stops
        BY <1>3
      <3> QED BY <3>1, PaydayAssumption, FS_Subset
    <2>2. \A s \in before : P[s] \in Int /\ P[s] = Q[s]
      <3>1. TAKE s \in before
      <3>2. P[s] = Points(stop, s) /\ Q[s] = Points(new, s)
        BY <1>3 DEF Worths
      <3>3. stop[s].zonePoints \in Nat
        BY <1>2, <1>3, <1>5, PaydayAssumption DEF Scorable
      <3> QED BY <1>3, <3>2, <3>3 DEF Points
    <2> HIDE DEF P, Q
    <2> QED BY <2>1, <2>2, TotalSame
  <1> QED BY <1>1, <1>8, <1>9 DEF new

\* What the trip's drops of a day add is what their stops are worth.
LEMMA OwnWorth ==
    ASSUME LedgerInv, NEW t, NEW st, NEW now, LastOut(t, st, now), NEW g \in DayGroups(st, t),
           NEW own, own = DropsOf(Awarded(st, t), t, DayOf(Anchor(g)))
    PROVE  /\ Added(g, Prior(st, t, g)) = SumFunctionOnSet(Worths(Awarded(st, t)), own)
           /\ own # {}
  <1> DEFINE new == Awarded(st, t)
             day == DayOf(Anchor(g))
             w == Worth(g \cup Prior(st, t, g))
             Q == Worths(new)
             n == [s \in own |-> LedgerDrop(st, s)]
  <1>1. /\ t \in Out /\ Touched(t, st) /\ t \in Trips /\ trip[t].status # "pending"
        /\ st \in [Stops -> Stop] /\ Scorable(st) /\ \A s \in Stops : Stamped(st, now, s)
    <2>1. t \in Out /\ Touched(t, st) /\ t \in Trips /\ \A s \in Stops : Stamped(st, now, s)
      BY DEF LastOut, Out
    <2> QED BY <2>1, TouchedScorable DEF LedgerInv, Out, Touched
  <1>2. /\ IsFiniteSet(g) /\ g # {}
        /\ \A d \in g : d.stop \in StopsOf(t) /\ Earns(st, d.stop) /\ d = LedgerDrop(st, d.stop)
                        /\ d.at = PayInstant(st, d.stop) /\ DayOf(d.at) = day
        /\ g = {e \in EarnedDrops(st, t) : DayOf(e.at) = day}
    BY <1>1, GroupFacts DEF Countable
  <1> HIDE DEF day, new
  <1>3. \A s \in StopsOf(t) : /\ s \in Stops /\ TripOf[s] = t
                              /\ s \in own <=> Earns(st, s) /\ DayOf(PayInstant(st, s)) = day
    <2>1. TAKE s \in StopsOf(t)
    <2>2. s \in Stops /\ TripOf[s] = t
      BY DEF StopsOf
    <2>3. PayInstant(new, s) = PayInstant(st, s) /\ (s \in Scored(new) <=> Earns(st, s))
      BY <1>1, <2>2, NewlyScored DEF new
    <2> QED BY <2>2, <2>3 DEF DropsOf, new, day
  <1>4. own \subseteq StopsOf(t) /\ IsFiniteSet(own)
    <2>1. own \subseteq StopsOf(t)
      BY DEF DropsOf
    <2>2. StopsOf(t) \subseteq Stops
      BY DEF StopsOf
    <2> QED BY <2>1, <2>2, PaydayAssumption, FS_Subset
  <1>5. \A s \in own : LedgerDrop(st, s) \in g /\ LedgerDrop(st, s).stop = s
    <2>1. TAKE s \in own
    <2>2. Earns(st, s) /\ DayOf(PayInstant(st, s)) = day /\ s \in StopsOf(t)
      BY <1>3, <1>4
    <2>3. LedgerDrop(st, s).stop = s /\ LedgerDrop(st, s).at = PayInstant(st, s)
      BY <1>1, <1>3, <2>2, DropOf
    <2>4. LedgerDrop(st, s) \in EarnedDrops(st, t)
      BY <2>2 DEF EarnedDrops
    <2> QED BY <1>2, <2>2, <2>3, <2>4
  <1>6. \A d \in g : d.stop \in own /\ LedgerDrop(st, d.stop) = d
    BY <1>2, <1>3
  <1>7. \A s \in own : w[LedgerDrop(st, s)] = Q[s] /\ Q[s] \in Nat
    <2>1. TAKE s \in own
    <2>2. s \in StopsOf(t) /\ Earns(st, s) /\ LedgerDrop(st, s) \in g /\ s \in Stops
      BY <1>3, <1>4, <1>5
    <2>3. Points(new, s) = w[LedgerDrop(st, s)] /\ Points(new, s) \in Nat
      BY <1>1, <2>2, AwardWorth DEF new
    <2> QED BY <2>2, <2>3 DEF Worths
  <1>8. SumFunctionOnSet(Q, own) = SumFunctionOnSet(w, g)
    <2>1. (\A s \in own : n[s] \in g) /\ (\A s \in own : w[n[s]] = Q[s])
      BY <1>5, <1>7
    <2>2. \A x \in own, y \in own : n[x] = n[y] => x = y
      BY <1>5
    <2>3. \A d \in g : \E s \in own : n[s] = d
      BY <1>6
    <2>4. \A s \in own : Q[s] \in Int
      BY <1>7
    <2> HIDE DEF w, Q, n
    <2> QED BY <1>2, <1>4, <2>1, <2>2, <2>3, <2>4, TotalRenamed
  <1>9. Added(g, Prior(st, t, g)) = SumFunctionOnSet(w, g)
    BY DEF Added
  <1>10. own # {}
    BY <1>2, <1>6
  <1> QED BY <1>8, <1>9, <1>10 DEF new

\* A trip is paid for a day what the rules say.
LEMMA DayPaid ==
    ASSUME LedgerInv, OneTapEach(stop), FirstIsEarliest(stop),
           NEW t, NEW st, NEW now, LastOut(t, st, now), NEW g \in DayGroups(st, t),
           Uniform(Awarded(st, t), DropsBefore(Awarded(st, t), t, DayOf(Anchor(g))))
    PROVE  PaidPoints(st, t, g) = PaidFor(Awarded(st, t), t, DayOf(Anchor(g)))
  <1> DEFINE prior == Prior(st, t, g)
             new == Awarded(st, t)
             day == DayOf(Anchor(g))
             before == DropsBefore(new, t, day)
             own == DropsOf(new, t, day)
             b == SumFunctionOnSet(Worths(new), before)
             o == SumFunctionOnSet(Worths(new), own)
  <1>1. t \in Trips /\ trip[t].status # "pending" /\ Scorable(st)
    <2>1. t \in Out /\ Touched(t, st) /\ t \in Trips
      BY DEF LastOut, Out
    <2> QED BY <2>1, TouchedScorable DEF LedgerInv, Out
  <1>2. Total(prior) = b
    <2>1. before = DropsBefore(new, t, day) /\ Uniform(new, before)
      OBVIOUS
    <2> HIDE DEF before
    <2> QED BY <2>1, LedgerWorth
  <1>3. Added(g, prior) = o
    <2>1. own = DropsOf(new, t, day)
      OBVIOUS
    <2> HIDE DEF own
    <2> QED BY <2>1, OwnWorth
  <1>4. Total(g \cup prior) = Total(prior) + Added(g, prior)
    <2>1. Countable(g) /\ Countable(prior) /\ \A p \in prior, d \in g : p.at < d.at
      BY <1>1, PriorOfGroup
    <2> HIDE DEF prior
    <2> QED BY <2>1, TotalSplits
  <1>5. PaidPoints(st, t, g) = Above(b + o, trip[t].rates["deduction"]) - Above(b, trip[t].rates["deduction"])
    BY <1>2, <1>3, <1>4 DEF PaidPoints, Marginal
  <1> QED BY <1>5 DEF PaidFor

\* What a trip is paid for each day, in halves.
PaidDays(st, t) == [day \in Day |-> Halves(trip[t].pool, PaidFor(st, t, day))]

\* What stops are worth is a number.
LEMMA WorthsNat ==
    ASSUME NEW st, Scorable(st), NEW S \in SUBSET Stops,
           \A s \in S : trip[TripOf[s]].status # "pending"
    PROVE  /\ IsFiniteSet(S) /\ \A s \in S : Worths(st)[s] \in Nat
           /\ SumFunctionOnSet(Worths(st), S) \in Nat
  <1> DEFINE P == Worths(st)
  <1>1. IsFiniteSet(S)
    BY PaydayAssumption, FS_Subset
  <1>2. \A s \in S : P[s] \in Nat
    <2>1. TAKE s \in S
    <2>2. st[s].zonePoints \in Nat /\ P[s] = Points(st, s)
      BY PaydayAssumption DEF Scorable, Worths
    <2> QED BY <2>2 DEF Points
  <1> HIDE DEF P
  <1>3. SumFunctionOnSet(P, S) \in Nat
    BY <1>1, <1>2, TotalNat
  <1> QED BY <1>1, <1>2, <1>3 DEF P

\* A trip that scored nothing on a day is paid nothing for it.
LEMMA NothingForNothing ==
    ASSUME NEW st, Scorable(st), NEW t \in Trips, trip[t].rates \in Rates, NEW day,
           \A s \in DropsBefore(st, t, day) : trip[TripOf[s]].status # "pending",
           DropsOf(st, t, day) = {}
    PROVE  PaidFor(st, t, day) = 0 /\ Halves(trip[t].pool, PaidFor(st, t, day)) = 0
  <1> DEFINE before == DropsBefore(st, t, day)
             b == SumFunctionOnSet(Worths(st), before)
             k == trip[t].rates["deduction"]
  <1>1. before \in SUBSET Stops /\ \A s \in before : trip[TripOf[s]].status # "pending"
    BY DEF DropsBefore, Scored
  <1>2. b \in Nat
    <2> HIDE DEF before
    <2> QED BY <1>1, WorthsNat
  <1>3. k \in Nat
    BY PaydayAssumption, RatesType
  <1>4. SumFunctionOnSet(Worths(st), DropsOf(st, t, day)) = 0
    BY TotalEmpty
  <1>5. PaidFor(st, t, day) = Above(b + 0, k) - Above(b, k)
    BY <1>4 DEF PaidFor
  <1> HIDE DEF b, k
  <1>6. PaidFor(st, t, day) = 0
    BY <1>2, <1>3, <1>5 DEF Above
  <1> QED BY <1>6 DEF Halves

\* What the trip he is out with is paid for its groups, taken day by day.
LEMMA PaidByDay ==
    ASSUME LedgerInv, OneTapEach(stop), FirstIsEarliest(stop),
           NEW t, NEW st, NEW now, LastOut(t, st, now),
           \A s \in Stops : PayInstant(st, s) # 0 => DayOf(PayInstant(st, s)) \in Day,
           \A day \in Day : Uniform(Awarded(st, t), DropsBefore(Awarded(st, t), t, day))
    PROVE  SumFunctionOnSet(HalvesOf(st, t), DayGroups(st, t))
               = SumFunctionOnSet(PaidDays(Awarded(st, t), t), Day)
  <1> DEFINE new == Awarded(st, t)
             C == DayGroups(st, t)
             p == [g \in C |-> DayOf(Anchor(g))]
             T == {p[g] : g \in C}
             H == HalvesOf(st, t)
             M == PaidDays(new, t)
  <1>1. /\ t \in Out /\ Touched(t, st) /\ t \in Trips /\ trip[t].status # "pending"
        /\ trip[t].status = "in_progress" /\ trip \in [Trips -> Trip]
        /\ st \in [Stops -> Stop] /\ Scorable(st) /\ trip[t].rates \in Rates
        /\ \A s \in Stops : Stamped(st, now, s)
    <2>1. t \in Out /\ Touched(t, st) /\ t \in Trips /\ \A s \in Stops : Stamped(st, now, s)
      BY DEF LastOut, Out
    <2> QED BY <2>1, TouchedScorable DEF LedgerInv, TypeOK, BooksInv, Filed, Out, Touched
  <1>2. Scorable(new) /\ \A s \in Stops : PayInstant(new, s) = PayInstant(st, s)
    <2>1. ASSUME NEW s \in Stops
          PROVE  PayInstant(new, s) = PayInstant(st, s) /\ new[s].zonePoints = st[s].zonePoints
      BY <1>1, AwardsOnly
    <2>2. new \in [Stops -> Stop]
      BY <1>1, AwardedType
    <2> HIDE DEF new
    <2> QED BY <1>1, <2>1, <2>2 DEF Scorable
  <1>3. IsFiniteSet(C) /\ IsFiniteSet(T) /\ IsFiniteSet(Day)
    <2>1. IsFiniteSet(C)
      BY <1>1, GroupsFinite
    <2>2. IsFiniteSet(T)
      <3> HIDE DEF C, p
      <3> QED BY <2>1, FiniteImage
    <2>3. IsFiniteSet(Day)
      BY RatesAssumption, FS_Interval DEF Day
    <2> QED BY <2>1, <2>2, <2>3
  <1>4. \A g \in C : p[g] \in Day /\ M[p[g]] = H[g] /\ H[g] \in Nat
    <2>1. TAKE g \in C
    <2>2. PICK d \in g : d.stop \in StopsOf(t) /\ Earns(st, d.stop) /\ d.at = PayInstant(st, d.stop)
                         /\ d.at = Anchor(g)
      BY <1>1, GroupFacts
    <2>3. p[g] \in Day
      <3>1. d.stop \in Stops
        BY <2>2 DEF StopsOf
      <3>2. PayInstant(st, d.stop) # 0
        BY <1>1, <2>2, <3>1, EarnsTapped
      <3> QED BY <2>2, <3>1, <3>2
    <2>4. PaidPoints(st, t, g) = PaidFor(new, t, p[g])
      <3>1. Uniform(Awarded(st, t), DropsBefore(Awarded(st, t), t, DayOf(Anchor(g))))
        BY <2>3
      <3> QED BY <3>1, DayPaid
    <2>5. H[g] \in Nat
      <3>1. Halves(trip[t].pool, PaidPoints(st, t, g)) \in PaidPoints(st, t, g) .. 2 * PaidPoints(st, t, g)
            /\ PaidPoints(st, t, g) \in Nat
        BY <1>1, GroupPay
      <3> QED BY <3>1 DEF HalvesOf
    <2> QED BY <2>3, <2>4, <2>5 DEF HalvesOf, PaidDays
  <1>5. \A g \in C, h \in C : p[g] = p[h] => g = h
    <2>1. \A g \in C : g = {e \in EarnedDrops(st, t) : DayOf(e.at) = p[g]}
      BY <1>1, GroupFacts
    <2> QED BY <2>1
  <1>6. \A day \in Day \ T : M[day] = 0
    <2>1. TAKE day \in Day \ T
    <2>2. ASSUME NEW s \in DropsOf(new, t, day) PROVE FALSE
      <3>1. s \in StopsOf(t) /\ s \in Scored(new) /\ DayOf(PayInstant(new, s)) = day
        BY DEF DropsOf
      <3>2. s \in Stops /\ TripOf[s] = t
        BY <3>1 DEF StopsOf
      <3>3. Earns(st, s)
        BY <1>1, <3>1, NewlyScored
      <3> DEFINE d == LedgerDrop(st, s)
                 g == {e \in EarnedDrops(st, t) : DayOf(e.at) = DayOf(d.at)}
      <3>4. d.at = PayInstant(st, s) /\ d \in EarnedDrops(st, t)
        BY <1>1, <3>1, <3>2, <3>3, DropOf DEF EarnedDrops
      <3>5. g \in C /\ d \in g
        BY <3>4 DEF DayGroups
      <3> HIDE DEF d, g
      <3>6. DayOf(d.at) = DayOf(Anchor(g))
        BY <1>1, <3>5, GroupFacts
      <3>7. p[g] = day
        BY <1>2, <3>1, <3>2, <3>4, <3>5, <3>6
      <3> QED BY <2>1, <3>5, <3>7
    <2>3. \A s \in DropsBefore(new, t, day) : trip[TripOf[s]].status # "pending"
      <3>1. TAKE s \in DropsBefore(new, t, day)
      <3>2. s \in Scored(new) /\ s \in Stops \ StopsOf(t)
        BY DEF DropsBefore, Scored
      <3>3. s \in Scored(stop)
        BY <1>1, <3>2, NewlyScored
      <3> QED BY <3>2, <3>3 DEF LedgerInv, BooksInv, AwardStands, Scored, Finished
    <2>4. Halves(trip[t].pool, PaidFor(new, t, day)) = 0
      <3> HIDE DEF new
      <3>1. DropsOf(new, t, day) = {}
        BY <2>2
      <3> QED BY <1>1, <1>2, <2>3, <3>1, NothingForNothing
    <2> QED BY <2>4 DEF PaidDays
  <1>7. (\A g \in C : p[g] \in T) /\ (\A c \in T : \E g \in C : p[g] = c)
    OBVIOUS
  <1>8. T \in SUBSET Day
    BY <1>4
  <1>9. \A day \in T : M[day] \in Int
    BY <1>4
  <1> HIDE DEF C, p, T, H, M, new
  <1>10. SumFunctionOnSet(H, C) = SumFunctionOnSet(M, T)
    <2>1. (\A g \in C : H[g] \in Int) /\ (\A g \in C : M[p[g]] = H[g])
      BY <1>4
    <2> QED BY <1>3, <1>5, <1>7, <2>1, TotalRenamed
  <1>11. SumFunctionOnSet(M, Day) = SumFunctionOnSet(M, T)
    BY <1>3, <1>6, <1>8, <1>9, TotalOfRest
  <1> QED BY <1>10, <1>11 DEF H, C, M, new

\* A proposal comes to what the rules pay for its days, if a zone has one price.
PaidInDays(t) ==
    /\ trip[t].earned # None
    /\ \A day \in Day : Uniform(stop, DropsBefore(stop, t, day))
    => StoredPoints(t) = SumFunctionOnSet(PaidDays(stop, t), Day)

\* What is paid for a day is computed from the same drops and rates after a step.
LEMMA PaidTheSame ==
    ASSUME NEW t, NEW st, trip'[t].pool = trip[t].pool, trip'[t].rates = trip[t].rates,
           \A day \in Day :
              /\ DropsBefore(stop, t, day)' = DropsBefore(st, t, day)
              /\ DropsOf(stop', t, day) = DropsOf(st, t, day)
              /\ SumFunctionOnSet(Worths(stop'), DropsBefore(st, t, day))
                     = SumFunctionOnSet(Worths(st), DropsBefore(st, t, day))
              /\ SumFunctionOnSet(Worths(stop'), DropsOf(st, t, day))
                     = SumFunctionOnSet(Worths(st), DropsOf(st, t, day))
    PROVE  PaidDays(stop, t)' = PaidDays(st, t)
  <1>1. ASSUME NEW day \in Day PROVE PaidFor(stop, t, day)' = PaidFor(st, t, day)
    <2> DEFINE b == SumFunctionOnSet(Worths(stop'), DropsBefore(stop, t, day)')
               o == SumFunctionOnSet(Worths(stop'), DropsOf(stop', t, day))
               k == trip'[t].rates["deduction"]
    <2>1. PaidFor(stop, t, day)' = Above(b + o, k) - Above(b, k)
      BY DEF PaidFor, Worths, Points, DropsOf, Scored, PayInstant, DayOf, StopsOf, Above
    <2>2. /\ b = SumFunctionOnSet(Worths(st), DropsBefore(st, t, day))
          /\ o = SumFunctionOnSet(Worths(st), DropsOf(st, t, day))
          /\ k = trip[t].rates["deduction"]
      OBVIOUS
    <2> HIDE DEF b, o, k
    <2> QED BY <2>1, <2>2 DEF PaidFor
  <1>2. PaidDays(stop, t)' = [day \in Day |-> Halves(trip'[t].pool, PaidFor(stop, t, day)')]
    BY DEF PaidDays, Halves
  <1> QED BY <1>1, <1>2 DEF PaidDays

\* A new proposal comes to what the rules pay for its days.
LEMMA NewlyPaid ==
    ASSUME OrderInv, OrderInv', [Next]_vars, ~unwound, NEW t \in Trips, NEW st, SendsOn(t, st),
           Becomes(t, st, "pending_approval"),
           \A day \in Day : Uniform(stop, DropsBefore(stop, t, day))'
    PROVE  StoredPoints(t)' = SumFunctionOnSet(PaidDays(stop, t), Day)'
  <1> DEFINE P == [s \in StopsOf(t) |-> Points(stop', s)]
             new == Awarded(st, t)
  <1>1. LedgerInv /\ LedgerInv' /\ TapsInOrder /\ FirstIsEarliest(stop) /\ OneTapEach(stop)
    BY DEF OrderInv, FirstsInOrder, TapsInOrder
  <1>2. /\ StoredPoints(t)' = 2 * (SumFunctionOnSet(P, StopsOf(t)) - DeductedPoints(st, t)) - Shortfall(st, t)
        /\ \A s \in StopsOf(t) : P[s] = Points(Awarded(st, t), s)
        /\ stop' = new
        /\ trip'[t].rates = trip[t].rates /\ trip'[t].pool = trip[t].pool
        /\ trip \in [Trips -> Trip] /\ trip[t].status # "pending" /\ Scorable(st)
        /\ trip[t].rates \in Rates /\ \A s \in StopsOf(t) : st[s].award = "none"
    BY <1>1, NewlyStored
  <1>3. StoredPoints(t)' = SumFunctionOnSet(HalvesOf(st, t), DayGroups(st, t))
    <2> HIDE DEF P
    <2> QED BY <1>2, BreakdownAddsUp
  <1>4. LastOut(t, st, At(taps)') /\ t \in Out /\ Touched(t, st)
    BY <1>1 DEF SendsOn, LastOut, TapsInOrder, OneOut
  <1>5. PoolsStand
    BY <1>1, <1>4, BecomesPools
  <1>6. \A day \in Day : DropsBefore(stop, t, day)' = DropsBefore(new, t, day)
    <2>1. TAKE day \in Day
    <2>2. DropsBefore(stop, t, day)' =
              {s \in Scored(stop') \ StopsOf(t) : /\ PoolOf(s)' = trip'[t].pool
                                                  /\ DayOf(PayInstant(stop', s)) = day
                                                  /\ Precedes(stop', s, t)}
      BY DEF DropsBefore, Scored, Precedes, Instants, PayInstant, StopsOf, DayOf
    <2>3. \A s \in Scored(stop') : PoolOf(s)' = PoolOf(s)
      BY <1>5 DEF PoolsStand, Scored
    <2> QED BY <1>2, <2>2, <2>3 DEF DropsBefore
  <1>7. \A s \in Stops : PayInstant(st, s) # 0 => DayOf(PayInstant(st, s)) \in Day
    <2>1. TAKE s \in Stops
    <2> DEFINE at == PayInstant(st, s)
               last == At(taps)'
    <2>2. Stamped(st, last, s)
      BY DEF SendsOn
    <2>3. Tapped(at, last)
      BY <2>2 DEF Stamped, PayInstant
    <2>4. today' \in Day /\ taps' \in 0 .. TapsADay /\ last = today' * (TapsADay + 1) + taps'
      BY <1>1 DEF LedgerInv, TypeOK, RatesTypeOK, At
    <2> HIDE DEF at, last
    <2> QED BY <2>3, <2>4, InstantDay DEF at
  <1>8. \A day \in Day : Uniform(new, DropsBefore(new, t, day))
    <2>1. TAKE day \in Day
    <2>2. Uniform(stop', DropsBefore(stop, t, day)')
      BY DEF Uniform
    <2> QED BY <1>2, <1>6, <2>2
  <1>9. SumFunctionOnSet(HalvesOf(st, t), DayGroups(st, t)) = SumFunctionOnSet(PaidDays(new, t), Day)
    BY <1>1, <1>4, <1>7, <1>8, PaidByDay
  <1>10. PaidDays(stop, t)' = PaidDays(new, t)
    <2> HIDE DEF new
    <2> QED BY <1>2, <1>6, PaidTheSame
  <1> QED BY <1>3, <1>9, <1>10

\* A proposal that stands comes to the same.
LEMMA StillPaid ==
    ASSUME OrderInv, OrderInv', [Next]_vars, ~unwound', NEW t \in Trips, Accounted(t), PaidInDays(t),
           trip[t].earned # None, trip'[t].earned # None,
           \A day \in Day : Uniform(stop, DropsBefore(stop, t, day))'
    PROVE  StoredPoints(t)' = SumFunctionOnSet(PaidDays(stop, t), Day)'
  <1>1. LedgerInv /\ LedgerInv' /\ TapsInOrder /\ stop \in [Stops -> Stop] /\ Scorable(stop)
    <2>1. LedgerInv /\ LedgerInv' /\ TapsInOrder /\ stop \in [Stops -> Stop]
      BY DEF OrderInv, LedgerInv, TypeOK
    <2>2. Touched(t, stop)
      BY <2>1 DEF Touched
    <2> QED BY <2>1, <2>2, TouchedScorable DEF LedgerInv
  <1>2. \A day \in Day :
           /\ DropsOf(stop', t, day) = DropsOf(stop, t, day)
           /\ DropsBefore(stop, t, day)' = DropsBefore(stop, t, day)
           /\ \A s \in DropsBefore(stop, t, day) :
                 stop'[s].award = stop[s].award /\ stop'[s].zonePoints = stop[s].zonePoints
    BY <1>1, LedgerBeforeStands
  <1>3. ProposalStands(t)
    BY <1>1, ProposalsStand
  <1>4. StoredPoints(t)' = StoredPoints(t)
    BY <1>1, <1>3, StillAccounted
  <1>5. \A day \in Day : Uniform(stop, DropsBefore(stop, t, day))
    <2>1. TAKE day \in Day
    <2>2. Uniform(stop', DropsBefore(stop, t, day)')
      BY DEF Uniform
    <2> QED BY <1>2, <2>2 DEF Uniform
  <1>6. ASSUME NEW S \in SUBSET Scored(stop),
               \A s \in S : stop'[s].award = stop[s].award /\ stop'[s].zonePoints = stop[s].zonePoints
        PROVE  SumFunctionOnSet(Worths(stop'), S) = SumFunctionOnSet(Worths(stop), S)
    <2> DEFINE P == Worths(stop)
               Q == Worths(stop')
    <2>1. S \in SUBSET Stops /\ \A s \in S : trip[TripOf[s]].status # "pending"
      BY <1>1 DEF LedgerInv, BooksInv, AwardStands, Scored, Finished
    <2>2. \A s \in S : P[s] = Q[s]
      BY <1>6, <2>1 DEF Worths, Points
    <2>3. IsFiniteSet(S) /\ \A s \in S : P[s] \in Nat
      BY <1>1, <2>1, WorthsNat
    <2> HIDE DEF P, Q
    <2>4. \A s \in S : P[s] \in Int /\ P[s] = Q[s]
      BY <2>2, <2>3
    <2>5. SumFunctionOnSet(P, S) = SumFunctionOnSet(Q, S)
      BY <2>3, <2>4, TotalSame
    <2> QED BY <2>5 DEF P, Q
  <1>7. \A day \in Day :
           /\ SumFunctionOnSet(Worths(stop'), DropsBefore(stop, t, day))
                  = SumFunctionOnSet(Worths(stop), DropsBefore(stop, t, day))
           /\ SumFunctionOnSet(Worths(stop'), DropsOf(stop, t, day))
                  = SumFunctionOnSet(Worths(stop), DropsOf(stop, t, day))
    <2>1. TAKE day \in Day
    <2> DEFINE B == DropsBefore(stop, t, day)
               O == DropsOf(stop, t, day)
    <2>2. B \in SUBSET Scored(stop) /\ O \in SUBSET Scored(stop) /\ O \subseteq StopsOf(t)
      BY DEF DropsBefore, DropsOf
    <2>3. \A s \in O : stop'[s].award = stop[s].award /\ stop'[s].zonePoints = stop[s].zonePoints
      BY <1>3, <2>2 DEF ProposalStands
    <2>4. \A s \in B : stop'[s].award = stop[s].award /\ stop'[s].zonePoints = stop[s].zonePoints
      BY <1>2
    <2> HIDE DEF B, O
    <2>5. SumFunctionOnSet(Worths(stop'), B) = SumFunctionOnSet(Worths(stop), B)
          /\ SumFunctionOnSet(Worths(stop'), O) = SumFunctionOnSet(Worths(stop), O)
      BY <1>6, <2>2, <2>3, <2>4
    <2> QED BY <2>5 DEF B, O
  <1>8. PaidDays(stop, t)' = PaidDays(stop, t)
    BY <1>2, <1>3, <1>7, PaidTheSame DEF ProposalStands
  <1>9. StoredPoints(t) = SumFunctionOnSet(PaidDays(stop, t), Day)
    BY <1>5 DEF PaidInDays
  <1> QED BY <1>4, <1>8, <1>9

\* Everything above, and every proposal by its days.
PaidInv ==
    /\ OrderInv
    /\ \A t \in Trips : Accounted(t)
    /\ ~unwound => \A t \in Trips : PaidInDays(t)

\* Every proposal is, and stays, what the rules pay for its days.
LEMMA PaidInvariant == Spec => []PaidInv
  <1>1. Init => (~unwound => \A t \in Trips : PaidInDays(t))
    BY DEF Init, PaidInDays
  <1>2. ASSUME PaidInv, OrderInv', [Next]_vars, ~unwound', NEW t \in Trips
        PROVE  PaidInDays(t)'
    <2>1. ~unwound /\ PaidInDays(t) /\ OrderInv /\ Accounted(t) /\ LedgerInv /\ LedgerInv' /\ TapsInOrder
      BY <1>2, UnwoundStays DEF PaidInv, OrderInv
    <2>2. SUFFICES ASSUME trip'[t].earned # None,
                          \A day \in Day : Uniform(stop, DropsBefore(stop, t, day))'
                   PROVE  StoredPoints(t)' = SumFunctionOnSet(PaidDays(stop, t), Day)'
      BY DEF PaidInDays
    <2>3. CASE trip[t].earned # None
      BY <1>2, <2>1, <2>2, <2>3, StillPaid
    <2>4. CASE trip[t].earned = None
      <3>1. PICK st : SendsOn(t, st) /\ Becomes(t, st, "pending_approval")
        BY <1>2, <2>1, <2>2, <2>4, ProposalIsMade
      <3> QED BY <1>2, <2>1, <2>2, <3>1, NewlyPaid
    <2> QED BY <2>3, <2>4
  <1>3. PaidInv /\ OrderInv' /\ [Next]_vars => (~unwound => \A t \in Trips : PaidInDays(t))'
    BY <1>2
  <1>4. Spec => []OrderInv /\ [](\A t \in Trips : Accounted(t))
    BY AccountsInvariant, PTL
  <1> QED BY <1>1, <1>3, <1>4, PTL DEF Spec, PaidInv

-----------------------------------------------------------------------------
(* The trips of a day in line, and what they are paid in all.              *)

\* The stops scored on a day in a pool.
ScoredOn(day, pool) ==
    {s \in Scored(stop) : PoolOf(s) = pool /\ DayOf(PayInstant(stop, s)) = day}

\* Scored stops are of proposed trips, and have prices.
LEMMA ScoredFacts ==
    ASSUME OrderInv
    PROVE  /\ stop \in [Stops -> Stop] /\ trip \in [Trips -> Trip] /\ Scorable(stop)
           /\ Scored(stop) \subseteq Stops
           /\ \A s \in Scored(stop) :
                 /\ TripOf[s] \in Proposed /\ s \in StopsOf(TripOf[s])
                 /\ trip[TripOf[s]].status # "pending"
                 /\ PayInstant(stop, s) \in Nat /\ PayInstant(stop, s) \in Instants(stop, s)
           /\ \A t \in Proposed : t \in Trips /\ trip[t].rates \in Rates
  <1>1. stop \in [Stops -> Stop] /\ trip \in [Trips -> Trip] /\ LedgerInv
    BY DEF OrderInv, LedgerInv, TypeOK
  <1>2. Scorable(stop)
    <2>1. \A s \in Stops : trip[TripOf[s]].status # "pending" => stop[s].zonePoints \in Values
      BY PaydayAssumption DEF LedgerInv, OrderInv, BooksInv, Filed, StopsOf
    <2> QED BY <1>1, <2>1 DEF Scorable
  <1>3. ASSUME NEW s \in Scored(stop)
        PROVE  /\ TripOf[s] \in Proposed /\ s \in StopsOf(TripOf[s]) /\ s \in Stops
               /\ trip[TripOf[s]].status # "pending"
               /\ PayInstant(stop, s) \in Nat /\ PayInstant(stop, s) \in Instants(stop, s)
    <2>1. s \in Stops /\ TripOf[s] \in Trips /\ trip[TripOf[s]].earned # None
          /\ PayInstant(stop, s) \in Instants(stop, s)
      BY <1>1, ScoredIsProposed
    <2>2. trip[TripOf[s]].status # "pending"
      BY <1>1, <2>1 DEF LedgerInv, BooksInv, Filed, Finished
    <2> QED BY <1>1, <2>1, <2>2, PayIsTap DEF Proposed, StopsOf
  <1>4. \A t \in Proposed : t \in Trips /\ trip[t].rates \in Rates
    BY <1>1 DEF Proposed, LedgerInv, BooksInv, Filed, Finished
  <1> QED BY <1>1, <1>2, <1>3, <1>4

\* The points of a day's drops are what its stops are worth.
LEMMA DayScored ==
    ASSUME OrderInv, ~unwound, NEW day, NEW pool
    PROVE  /\ Total(DropsOn(day, pool)) = SumFunctionOnSet(Worths(stop), ScoredOn(day, pool))
           /\ IsFiniteSet(ScoredOn(day, pool))
           /\ \A s \in ScoredOn(day, pool) : Worths(stop)[s] \in Nat
           /\ SumFunctionOnSet(Worths(stop), ScoredOn(day, pool)) \in Nat
  <1> DEFINE S == ScoredOn(day, pool)
             D == DropsOn(day, pool)
             drop(s) == Drop(s, ZoneOf[s], stop[s].zonePoints, PayInstant(stop, s))
             W == Worth(D)
             P == Worths(stop)
             n == [s \in S |-> drop(s)]
  <1>1. /\ FirstIsEarliest(stop) /\ Scorable(stop) /\ stop \in [Stops -> Stop]
        /\ \A s \in S : s \in Scored(stop) /\ s \in Stops /\ trip[TripOf[s]].status # "pending"
                        /\ PayInstant(stop, s) \in Nat
    BY ScoredFacts DEF OrderInv, FirstsInOrder, ScoredOn
  <1>2. /\ IsFiniteSet(S) /\ \A s \in S : P[s] \in Nat
        /\ SumFunctionOnSet(P, S) \in Nat
    <2>1. S \in SUBSET Stops /\ \A s \in S : trip[TripOf[s]].status # "pending"
      BY <1>1
    <2> HIDE DEF S
    <2> QED BY <1>1, <2>1, WorthsNat
  <1>3. D = {drop(s) : s \in S}
    <2>1. S = {u \in ScoredStops : PoolOf(u) = pool /\ DayOf(PayInstant(stop, u)) = day}
      BY DEF ScoredOn, ScoredStops, Scored
    <2> QED BY <2>1 DEF DropsOn
  <1>4. \A s \in S : /\ drop(s).stop = s /\ drop(s).zone = ZoneOf[s] /\ drop(s).at = PayInstant(stop, s)
                     /\ drop(s).points = stop[s].zonePoints /\ stop[s].zonePoints \in Nat
                     /\ drop(s) \in D
    BY <1>1, <1>3, PaydayAssumption DEF Drop, Scorable
  <1>5. Countable(D)
    <2>1. D = {n[s] : s \in S}
      BY <1>3
    <2>2. IsFiniteSet({n[s] : s \in S})
      <3> HIDE DEF S, n
      <3> QED BY <1>2, FiniteImage
    <2> HIDE DEF D
    <2>3. \A d \in D : d.points \in Nat /\ d.at \in Nat
      BY <1>1, <1>3, <1>4
    <2> QED BY <2>1, <2>2, <2>3 DEF Countable
  <1>6. \A s \in S : W[n[s]] = P[s]
    <2>1. TAKE s \in S
    <2>2. IsRepeat(drop(s), D) <=>
              \E u \in S : ZoneOf[u] = ZoneOf[s] /\ PayInstant(stop, u) < PayInstant(stop, s)
      <3> HIDE DEF S, D, drop
      <3> QED BY <1>3, <1>4 DEF IsRepeat
    <2>3. stop[s].award = "first" <=>
              \A u \in Scored(stop) : Same(stop, s, u) => PayInstant(stop, s) <= PayInstant(stop, u)
      BY <1>1 DEF FirstIsEarliest
    <2>4. \A u \in Scored(stop) : Same(stop, s, u) <=> u \in S /\ ZoneOf[u] = ZoneOf[s]
      BY DEF Same, ScoredOn
    <2>5. stop[s].award = "first" <=> ~IsRepeat(drop(s), D)
      <3>1. \A u \in S : u \in Scored(stop) /\ PayInstant(stop, u) \in Nat
        BY <1>1
      <3> HIDE DEF S, D
      <3> QED BY <2>2, <2>3, <2>4, <3>1
    <2>6. stop[s].award \in {"first", "repeat"}
      BY <1>1 DEF Scored, Stop
    <2>7. W[n[s]] = IF IsRepeat(drop(s), D) THEN 1 ELSE drop(s).points
      BY <1>4 DEF Worth
    <2>8. P[s] = IF stop[s].award = "first" THEN stop[s].zonePoints ELSE 1
      BY <1>1, <2>6 DEF Worths, Points
    <2> QED BY <1>4, <2>5, <2>7, <2>8
  <1>7. SumFunctionOnSet(P, S) = SumFunctionOnSet(W, D)
    <2>1. (\A s \in S : n[s] \in D) /\ (\A d \in D : \E s \in S : n[s] = d)
      BY <1>3
    <2>2. \A x \in S, y \in S : n[x] = n[y] => x = y
      <3>1. \A s \in S : n[s].stop = s
        BY <1>4
      <3> QED BY <3>1
    <2>3. IsFiniteSet(D) /\ \A s \in S : P[s] \in Int
      BY <1>2, <1>5 DEF Countable
    <2> HIDE DEF S, D, W, P, n
    <2> QED BY <1>2, <1>6, <2>1, <2>2, <2>3, TotalRenamed
  <1>8. Total(D) = SumFunctionOnSet(W, D)
    <2> HIDE DEF D
    <2> QED BY <1>5, TotalOfDrops
  <1> QED BY <1>2, <1>7, <1>8

\* The trips of a pool that scored on a day, ranked by an instant of theirs on it.
Ranked(Y, r, pool, day) ==
    /\ Y = {t \in ProposedIn(pool) : DropsOf(stop, t, day) # {}}
    /\ \A t \in Y : \E s \in DropsOf(stop, t, day) : r[t] = PayInstant(stop, s)

\* They stand in a line, by whichever instant.
LEMMA DayInLine ==
    ASSUME OrderInv, ~unwound, NEW pool, NEW day, NEW Y, NEW r, Ranked(Y, r, pool, day)
    PROVE  /\ \A t \in Y : r[t] \in Nat
           /\ \A t \in Y, u \in Y : r[t] = r[u] => t = u
           /\ \A t \in Y : \A s \in Scored(stop) :
                 s \in DropsBefore(stop, t, day) <=>
                    TripOf[s] \in Y /\ s \in DropsOf(stop, TripOf[s], day) /\ r[TripOf[s]] < r[t]
  <1>1. /\ OneAfterTheOther(stop) /\ stop \in [Stops -> Stop]
        /\ \A s \in Scored(stop) : s \in Stops /\ TripOf[s] \in Proposed /\ s \in StopsOf(TripOf[s])
                                   /\ PayInstant(stop, s) \in Nat /\ PayInstant(stop, s) \in Instants(stop, s)
    BY ScoredFacts DEF OrderInv, TapsInOrder
  <1>2. \A t \in Y : t \in Trips /\ trip[t].pool = pool /\ t \in ProposedIn(pool)
    BY DEF Ranked, ProposedIn, Proposed
  <1>3. \A t \in Y : \A s \in DropsOf(stop, t, day) :
            s \in Scored(stop) /\ s \in StopsOf(t) /\ DayOf(PayInstant(stop, s)) = day
    BY DEF DropsOf
  <1>4. ASSUME NEW t \in Y
        PROVE  \E s \in DropsOf(stop, t, day) : /\ r[t] = PayInstant(stop, s) /\ r[t] \in Nat
                                                /\ s \in StopsOf(t) /\ r[t] \in Instants(stop, s)
    BY <1>1, <1>3 DEF Ranked
  <1>5. ASSUME NEW t \in Y, NEW u \in Y, Before(stop, t, u)
        PROVE  r[t] < r[u]
    <2>1. PICK s \in StopsOf(t) : r[t] \in Instants(stop, s)
      BY <1>4
    <2>2. PICK v \in StopsOf(u) : r[u] \in Instants(stop, v)
      BY <1>4
    <2> QED BY <1>5, <2>1, <2>2 DEF Before
  <1>6. \A t \in Y : r[t] \in Nat
    BY <1>4
  <1>7. \A t \in Y, u \in Y : t # u => (Before(stop, t, u) /\ r[t] < r[u]) \/ (Before(stop, u, t) /\ r[u] < r[t])
    BY <1>1, <1>2, <1>5 DEF OneAfterTheOther
  <1>8. \A t \in Y, u \in Y : r[t] = r[u] => t = u
    BY <1>6, <1>7
  <1>9. ASSUME NEW t \in Y, NEW s \in Scored(stop)
        PROVE  s \in DropsBefore(stop, t, day) <=>
                  TripOf[s] \in Y /\ s \in DropsOf(stop, TripOf[s], day) /\ r[TripOf[s]] < r[t]
    <2> DEFINE u == TripOf[s]
    <2>1. /\ s \in Stops /\ u \in Trips /\ u \in Proposed /\ s \in StopsOf(u)
          /\ PayInstant(stop, s) \in Nat /\ PayInstant(stop, s) \in Instants(stop, s)
      BY <1>1 DEF Proposed
    <2>2. ASSUME s \in DropsBefore(stop, t, day)
          PROVE  u \in Y /\ s \in DropsOf(stop, u, day) /\ r[u] < r[t]
      <3>1. s \notin StopsOf(t) /\ trip[u].pool = pool /\ DayOf(PayInstant(stop, s)) = day
            /\ Precedes(stop, s, t)
        BY <1>2, <2>2 DEF DropsBefore, PoolOf
      <3>2. u # t
        BY <2>1, <3>1
      <3>3. s \in DropsOf(stop, u, day)
        BY <2>1, <3>1 DEF DropsOf
      <3>4. u \in Y
        BY <2>1, <3>1, <3>3 DEF Ranked, ProposedIn
      <3>5. ~Before(stop, t, u)
        <4>1. PICK v \in StopsOf(t) : \E at \in Instants(stop, v) : PayInstant(stop, s) < at
          BY <3>1 DEF Precedes
        <4>2. v \in Stops /\ Instants(stop, v) \subseteq Nat
          BY <1>1, PayIsTap DEF StopsOf
        <4>3. PICK at \in Instants(stop, v) : PayInstant(stop, s) < at
          BY <4>1
        <4>4. ~(at < PayInstant(stop, s))
          BY <2>1, <4>2, <4>3
        <4> QED BY <2>1, <4>4 DEF Before
      <3> HIDE DEF u
      <3>6. r[u] < r[t]
        BY <1>7, <3>2, <3>4, <3>5
      <3> QED BY <3>3, <3>4, <3>6
    <2>3. ASSUME u \in Y, s \in DropsOf(stop, u, day), r[u] < r[t]
          PROVE  s \in DropsBefore(stop, t, day)
      <3>1. u # t /\ Before(stop, u, t)
        <4> HIDE DEF u
        <4>1. r[u] \in Nat /\ r[t] \in Nat
          BY <1>6, <2>3
        <4>2. u # t /\ ~(r[t] < r[u])
          BY <2>3, <4>1
        <4> QED BY <1>7, <2>3, <4>2
      <3>2. PICK v \in StopsOf(t) : r[t] \in Instants(stop, v)
        BY <1>4
      <3>3. PayInstant(stop, s) < r[t]
        BY <2>1, <3>1, <3>2 DEF Before
      <3>4. Precedes(stop, s, t)
        BY <3>2, <3>3 DEF Precedes
      <3>5. s \notin StopsOf(t)
        BY <3>1 DEF StopsOf
      <3>6. PoolOf(s) = trip[t].pool /\ DayOf(PayInstant(stop, s)) = day
        BY <1>2, <1>3, <2>3 DEF PoolOf
      <3> QED BY <3>4, <3>5, <3>6 DEF DropsBefore
    <2> QED BY <2>2, <2>3
  <1> QED BY <1>6, <1>8, <1>9

\* The shares of a day's points that the trips of a pool are paid for add up to what
\* the rules pay for the day.
LEMMA DayShares ==
    ASSUME OrderInv, ~unwound, NEW pool \in Pools, NEW day, NEW k \in Nat,
           NEW X, X = ProposedIn(pool), IsFiniteSet(X),
           \A t \in X : trip[t].rates["deduction"] = k,
           NEW m, \A t \in X : m[t] = PaidFor(stop, t, day)
    PROVE  /\ SumFunctionOnSet(m, X) = Above(Total(DropsOn(day, pool)), k)
           /\ \A t \in X : m[t] \in Int
  <1> DEFINE P == Worths(stop)
             Y == {t \in X : DropsOf(stop, t, day) # {}}
             w == [t \in Y |-> SumFunctionOnSet(P, DropsOf(stop, t, day))]
             r == [t \in Y |-> PayInstant(stop, CHOOSE s : s \in DropsOf(stop, t, day))]
             b == [t \in Y |-> SumFunctionOnSet(P, DropsBefore(stop, t, day))]
             F == [n \in Nat |-> Above(n, k)]
             S == ScoredOn(day, pool)
  <1>1. /\ stop \in [Stops -> Stop] /\ Scorable(stop) /\ Scored(stop) \subseteq Stops
        /\ \A s \in Scored(stop) : /\ TripOf[s] \in Proposed /\ s \in StopsOf(TripOf[s])
                                   /\ trip[TripOf[s]].status # "pending"
        /\ \A t \in X : t \in Trips /\ trip[t].rates \in Rates /\ trip[t].pool = pool
    BY ScoredFacts DEF ProposedIn
  <1>2. ASSUME NEW U \in SUBSET Scored(stop)
        PROVE  /\ IsFiniteSet(U) /\ \A s \in U : P[s] \in Nat
               /\ SumFunctionOnSet(P, U) \in Nat
    <2>1. U \in SUBSET Stops /\ \A s \in U : trip[TripOf[s]].status # "pending"
      BY <1>1
    <2> QED BY <1>1, <2>1, WorthsNat
  <1>3. /\ IsFiniteSet(Y) /\ Y \subseteq X
        /\ \A t \in X : DropsOf(stop, t, day) \in SUBSET Scored(stop)
                        /\ DropsBefore(stop, t, day) \in SUBSET Scored(stop)
    <2>1. \A t \in X : DropsOf(stop, t, day) \in SUBSET Scored(stop)
                       /\ DropsBefore(stop, t, day) \in SUBSET Scored(stop)
      BY DEF DropsOf, DropsBefore
    <2>2. Y \subseteq X
      OBVIOUS
    <2> QED BY <2>1, <2>2, FS_Subset
  <1>4. \A t \in Y : w[t] \in Nat /\ b[t] \in Nat
    <2>1. TAKE t \in Y
    <2>2. SumFunctionOnSet(P, DropsOf(stop, t, day)) \in Nat
          /\ SumFunctionOnSet(P, DropsBefore(stop, t, day)) \in Nat
      <3> HIDE DEF P
      <3> QED BY <1>2, <1>3
    <2> QED BY <2>2
  <1>5. /\ \A t \in Y : r[t] \in Nat
        /\ \A t \in Y, u \in Y : r[t] = r[u] => t = u
        /\ \A t \in Y : \A s \in Scored(stop) :
              s \in DropsBefore(stop, t, day) <=>
                 TripOf[s] \in Y /\ s \in DropsOf(stop, TripOf[s], day) /\ r[TripOf[s]] < r[t]
    <2>1. Ranked(Y, r, pool, day)
      BY DEF Ranked
    <2> HIDE DEF Y, r
    <2> QED BY <2>1, DayInLine
  <1>6. \A t \in Y : b[t] = SumFunctionOnSet(w, RankedBefore(Y, r, t))
    <2>1. TAKE t \in Y
    <2> DEFINE C == {u \in Y : r[u] < r[t]}
               B == DropsBefore(stop, t, day)
    <2>0. RankedBefore(Y, r, t) = C
      BY DEF RankedBefore
    <2>2. IsFiniteSet(C) /\ B \in SUBSET Scored(stop) /\ C \subseteq Y
      BY <1>3, FS_Subset
    <2>3. \A s \in B : TripOf[s] \in C
      BY <1>5, <2>2
    <2>4. \A u \in C : w[u] = SumFunctionOnSet(P, Fibre(B, TripOf, u))
      <3>1. TAKE u \in C
      <3>2. u \in Y /\ r[u] < r[t] /\ u \in X
        BY <1>3
      <3>3. \A s \in DropsOf(stop, u, day) : s \in Scored(stop) /\ TripOf[s] = u
        BY DEF DropsOf, StopsOf
      <3> HIDE DEF C, r
      <3>4. Fibre(B, TripOf, u) = DropsOf(stop, u, day)
        <4>1. \A s \in B : TripOf[s] = u => s \in DropsOf(stop, u, day)
          BY <1>5, <2>2
        <4>2. \A s \in DropsOf(stop, u, day) : s \in B
          BY <1>5, <3>2, <3>3
        <4> HIDE DEF B
        <4> QED BY <3>3, <4>1, <4>2 DEF Fibre
      <3> HIDE DEF B, P
      <3> QED BY <3>2, <3>4
    <2>5. IsFiniteSet(B) /\ \A s \in B : P[s] \in Int
      <3> HIDE DEF B, P
      <3> QED BY <1>2, <2>2
    <2> HIDE DEF B, C, P, w, Y, r
    <2>6. SumFunctionOnSet(P, B) = SumFunctionOnSet(w, C)
      BY <2>2, <2>3, <2>4, <2>5, TotalByGroup
    <2> QED BY <2>0, <2>6 DEF B
  <1>7. \A t \in Y : m[t] = F[b[t] + w[t]] - F[b[t]]
    <2>1. TAKE t \in Y
    <2>2. m[t] = Above(SumFunctionOnSet(P, DropsBefore(stop, t, day)) + SumFunctionOnSet(P, DropsOf(stop, t, day)), k)
                 - Above(SumFunctionOnSet(P, DropsBefore(stop, t, day)), k)
      BY DEF PaidFor
    <2>3. m[t] = Above(b[t] + w[t], k) - Above(b[t], k)
      BY <2>2
    <2>4. w[t] \in Nat /\ b[t] \in Nat
      BY <1>4
    <2> HIDE DEF b, w, Y
    <2>5. b[t] + w[t] \in Nat
      BY <2>4
    <2> QED BY <2>3, <2>4, <2>5
  <1>8. \A t \in X \ Y : m[t] = 0
    <2>1. TAKE t \in X \ Y
    <2>2. DropsOf(stop, t, day) = {}
      OBVIOUS
    <2>3. \A s \in DropsBefore(stop, t, day) : trip[TripOf[s]].status # "pending"
      BY <1>1, <1>3
    <2>4. PaidFor(stop, t, day) = 0
      BY <1>1, <2>2, <2>3, NothingForNothing
    <2> QED BY <2>4
  <1>9. \A n \in Nat : F[n] \in Int /\ F[n] = Above(n, k)
    BY DEF Above
  <1>10. F[0] = 0
    BY DEF Above
  <1>11. SumFunctionOnSet(w, Y) = SumFunctionOnSet(P, S) /\ IsFiniteSet(S) /\ SumFunctionOnSet(P, S) \in Nat
    <2>1. S \in SUBSET Scored(stop)
      BY DEF ScoredOn
    <2>2. \A s \in S : TripOf[s] \in Y
      <3>1. TAKE s \in S
      <3>2. s \in DropsOf(stop, TripOf[s], day)
        BY <1>1 DEF ScoredOn, DropsOf
      <3>3. TripOf[s] \in X
        BY <1>1 DEF ScoredOn, ProposedIn, PoolOf
      <3> QED BY <3>2, <3>3
    <2>3. \A t \in Y : w[t] = SumFunctionOnSet(P, Fibre(S, TripOf, t))
      <3>1. TAKE t \in Y
      <3>2. Fibre(S, TripOf, t) = DropsOf(stop, t, day)
        <4>1. \A s \in S : TripOf[s] = t => s \in DropsOf(stop, t, day)
          BY <1>1 DEF ScoredOn, DropsOf
        <4>2. \A s \in DropsOf(stop, t, day) : s \in S /\ TripOf[s] = t
          BY <1>1, <1>3 DEF ScoredOn, DropsOf, PoolOf, StopsOf
        <4> HIDE DEF S
        <4> QED BY <4>1, <4>2 DEF Fibre
      <3> HIDE DEF P, S
      <3> QED BY <3>2
    <2>4. IsFiniteSet(S) /\ (\A s \in S : P[s] \in Int) /\ SumFunctionOnSet(P, S) \in Nat
      <3> HIDE DEF S, P
      <3> QED BY <1>2, <2>1
    <2> HIDE DEF S, P, w, Y
    <2> QED BY <1>3, <2>2, <2>3, <2>4, TotalByGroup
  <1> HIDE DEF P, Y, w, r, b, F, S
  <1>12. SumFunctionOnSet(m, Y) = F[SumFunctionOnSet(w, Y)] - F[0]
    <2>1. (\A t \in Y : w[t] \in Nat) /\ (\A t \in Y : r[t] \in Nat) /\ (\A n \in Nat : F[n] \in Int)
      BY <1>4, <1>5, <1>9
    <2>2. \A t \in Y, u \in Y : r[t] = r[u] => t = u
      BY <1>5
    <2> QED BY <1>3, <1>6, <1>7, <2>1, <2>2, TotalTelescopes
  <1>13. \A t \in X : m[t] \in Int
    <2>1. TAKE t \in X
    <2>2. CASE t \in Y
      <3>1. b[t] \in Nat /\ b[t] + w[t] \in Nat /\ m[t] = F[b[t] + w[t]] - F[b[t]]
        BY <1>4, <1>7, <2>2
      <3>2. F[b[t] + w[t]] \in Int /\ F[b[t]] \in Int
        BY <1>9, <3>1
      <3> QED BY <3>1, <3>2
    <2>3. CASE t \notin Y
      BY <1>8, <2>3
    <2> QED BY <2>2, <2>3
  <1>14. SumFunctionOnSet(m, X) = SumFunctionOnSet(m, Y)
    BY <1>3, <1>8, <1>13, TotalOfRest
  <1>15. Total(DropsOn(day, pool)) = SumFunctionOnSet(P, S)
    BY DayScored DEF P, S
  <1>16. F[SumFunctionOnSet(P, S)] \in Int /\ F[SumFunctionOnSet(P, S)] = Above(SumFunctionOnSet(P, S), k)
    BY <1>9, <1>11
  <1> QED BY <1>10, <1>11, <1>12, <1>13, <1>14, <1>15, <1>16

\* One tariff: the proposals of a pool have the same rates.
LEMMA OneTariffOf ==
    ASSUME OrderInv, OneTariff, NEW pool \in Pools, ProposedIn(pool) # {}
    PROVE  /\ IsFiniteSet(ProposedIn(pool)) /\ RatesOf(pool)["deduction"] \in Nat
           /\ \A t \in ProposedIn(pool) : trip[t].rates = RatesOf(pool)
  <1> DEFINE X == ProposedIn(pool)
             Q == {trip[t].rates : t \in X}
             c == CHOOSE t \in X : TRUE
  <1>1. X \subseteq Trips /\ X \subseteq Proposed
    BY DEF ProposedIn, Proposed
  <1>2. IsFiniteSet(X) /\ IsFiniteSet(Q)
    <2>1. IsFiniteSet(X)
      BY <1>1, PaydayAssumption, FS_Subset
    <2> DEFINE f == [t \in X |-> trip[t].rates]
    <2>2. Q = {f[t] : t \in X}
      OBVIOUS
    <2>3. IsFiniteSet({f[t] : t \in X})
      <3> HIDE DEF X, f
      <3> QED BY <2>1, FiniteImage
    <2> QED BY <2>1, <2>2, <2>3
  <1>3. Cardinality(Q) <= 1
    BY DEF OneTariff
  <1>4. c \in X
    OBVIOUS
  <1>5. \A t \in X : trip[t].rates \in Q
    OBVIOUS
  <1>6. \E q : Q = {q}
    <2> HIDE DEF Q
    <2>1. Cardinality(Q) \in Nat /\ Cardinality(Q) # 0
      BY <1>2, <1>4, <1>5, FS_CardinalityType, FS_EmptySet
    <2>2. Cardinality(Q) = 1
      BY <1>3, <2>1
    <2> QED BY <1>2, <2>2, FS_Singleton
  <1>7. RatesOf(pool) = trip[c].rates
    BY DEF RatesOf
  <1>8. \A t \in X : trip[t].rates = trip[c].rates
    <2> HIDE DEF Q, X, c
    <2> QED BY <1>4, <1>5, <1>6
  <1>9. trip[c].rates["deduction"] \in Nat
    BY <1>1, <1>4, ScoredFacts, PaydayAssumption, RatesType
  <1> QED BY <1>2, <1>7, <1>8, <1>9

\* Every proposal of a pool comes to what it is paid for its days.
LEMMA PaidUnderOneTariff ==
    ASSUME PaidInv, ~unwound, OneTariff, NEW t \in Proposed
    PROVE  StoredPoints(t) = SumFunctionOnSet(PaidDays(stop, t), Day)
  <1>1. t \in Trips /\ trip[t].earned # None /\ PaidInDays(t)
    BY DEF Proposed, PaidInv
  <1>2. ASSUME NEW day PROVE Uniform(stop, DropsBefore(stop, t, day))
    <2>1. \A s \in DropsBefore(stop, t, day) : s \in ScoredStops /\ PoolOf(s) = trip[t].pool
      BY DEF DropsBefore, Scored, ScoredStops
    <2> QED BY <2>1 DEF OneTariff, Uniform
  <1> QED BY <1>1, <1>2 DEF PaidInDays

\* A day's points of a pool are what its trips are paid for that day, in halves.
LEMMA DayAddsUp ==
    ASSUME OrderInv, ~unwound, OneTariff, NEW pool \in Pools, ProposedIn(pool) # {}, NEW day \in Day,
           NEW c, \A t \in ProposedIn(pool) : c[t] = PaidDays(stop, t)[day]
    PROVE  /\ SumFunctionOnSet(c, ProposedIn(pool)) = DayPoints(day, pool)
           /\ \A t \in ProposedIn(pool) : c[t] \in Int
  <1> DEFINE X == ProposedIn(pool)
             k == RatesOf(pool)["deduction"]
             m == [t \in X |-> PaidFor(stop, t, day)]
             n == IF pool = "interplant" THEN 1 ELSE 2
             sum == Above(Total(DropsOn(day, pool)), k)
  <1>1. IsFiniteSet(X) /\ k \in Nat /\ \A t \in X : trip[t].rates["deduction"] = k
    BY OneTariffOf
  <1>2. \A t \in X : trip[t].pool = pool
    BY DEF ProposedIn
  <1>3. SumFunctionOnSet(m, X) = sum /\ \A t \in X : m[t] \in Int
    <2>1. X = ProposedIn(pool) /\ \A t \in X : m[t] = PaidFor(stop, t, day)
      OBVIOUS
    <2> HIDE DEF m, k, X
    <2> QED BY <1>1, <2>1, DayShares
  <1>4. \A t \in X : c[t] = Halves(pool, m[t])
    BY <1>2 DEF PaidDays
  <1>5. \A t \in X : c[t] = m[t] * n
    <2>1. TAKE t \in X
    <2>2. c[t] = Halves(pool, m[t]) /\ m[t] \in Int
      BY <1>3, <1>4
    <2> HIDE DEF m, X
    <2> QED BY <2>2 DEF Halves
  <1>6. n \in Int
    OBVIOUS
  <1> HIDE DEF X, m, n, sum
  <1>7. SumFunctionOnSet(c, X) = sum * n
    <2>1. \A t \in X : m[t] \in Int /\ c[t] = m[t] * n
      BY <1>3, <1>5
    <2>2. SumFunctionOnSet(c, X) = SumFunctionOnSet(m, X) * n
      BY <1>1, <1>6, <2>1, TotalTimes
    <2> QED BY <1>3, <2>2
  <1>8. sum \in Int
    BY <1>1, <1>3, TotalInt
  <1>9. Halves(pool, sum) = sum * n
    BY <1>8 DEF Halves, n
  <1>10. DayPoints(day, pool) = Halves(pool, sum)
    BY DEF DayPoints, sum
  <1>11. \A t \in X : c[t] \in Int
    BY <1>3, <1>5, <1>6
  <1> QED BY <1>7, <1>9, <1>10, <1>11 DEF X

\* DayTotal: for any number of trips and stops, the points that a pool's trips are paid
\* for add up to what the rules pay for its days, whatever the order of deliveries,
\* late settlements, undone taps, midnights and approvals.
THEOREM DayTelescopes == Spec => []DayTotal
  <1>1. ASSUME PaidInv PROVE DayTotal
    <2> SUFFICES ASSUME ~unwound, OneTariff, NEW pool \in {trip[t].pool : t \in Proposed}
                 PROVE  SumFunction([t \in ProposedIn(pool) |-> StoredPoints(t)]) =
                            SumFunction([day \in Day |-> DayPoints(day, pool)])
      BY DEF DayTotal
    <2>1. OrderInv /\ trip \in [Trips -> Trip]
      BY <1>1 DEF PaidInv, OrderInv, LedgerInv, TypeOK
    <2>2. pool \in Pools /\ ProposedIn(pool) # {}
      BY <2>1 DEF Proposed, ProposedIn, Trip
    <2> DEFINE X == ProposedIn(pool)
               f == [t \in X |-> PaidDays(stop, t)]
               row == [t \in X |-> StoredPoints(t)]
               col == [day \in Day |-> DayPoints(day, pool)]
               c(day) == [t \in X |-> f[t][day]]
    <2>3. IsFiniteSet(X) /\ IsFiniteSet(Day)
      BY <2>1, <2>2, OneTariffOf, RatesAssumption, FS_Interval DEF Day
    <2>4. \A day \in Day : col[day] = SumFunctionOnSet(c(day), X) /\ \A t \in X : c(day)[t] \in Int
      <3>1. TAKE day \in Day
      <3> DEFINE d == c(day)
      <3>2. \A t \in ProposedIn(pool) : d[t] = PaidDays(stop, t)[day]
        OBVIOUS
      <3> HIDE DEF d
      <3>3. /\ SumFunctionOnSet(d, ProposedIn(pool)) = DayPoints(day, pool)
            /\ \A t \in ProposedIn(pool) : d[t] \in Int
        BY <2>1, <2>2, <3>2, DayAddsUp
      <3> QED BY <3>3 DEF d
    <2>5. \A t \in X : row[t] = SumFunctionOnSet(f[t], Day)
      <3>1. TAKE t \in X
      <3>2. t \in Proposed
        BY DEF ProposedIn
      <3> QED BY <1>1, <3>2, PaidUnderOneTariff
    <2>6. \A t \in X, day \in Day : f[t][day] \in Int
      BY <2>4
    <2>7. \A day \in Day : col[day] = SumFunctionOnSet(Column(f, X, day), X)
      BY <2>4 DEF Column
    <2>8. SumFunction(row) = SumFunctionOnSet(row, X) /\ SumFunction(col) = SumFunctionOnSet(col, Day)
      BY DEF SumFunction
    <2> HIDE DEF X, f, row, col
    <2>9. TableTotals(X, Day, f, row, col)
      BY <2>5, <2>6, <2>7 DEF TableTotals
    <2>10. SumFunctionOnSet(row, X) = SumFunctionOnSet(col, Day)
      BY <2>3, <2>9, TotalSwap
    <2> QED BY <2>8, <2>10 DEF row, col, X
  <1> QED BY <1>1, PaidInvariant, PTL

-----------------------------------------------------------------------------
(* The tier of a proposal.                                                  *)

\* A proposal without a single tier is nothing, or has drops of two days.
TierKnown(t) ==
    trip[t].earned # None /\ trip[t].offpeak = None =>
        \/ trip[t].earned = 0
        \/ \E s, u \in StopsOf(t) : /\ PayInstant(stop, s) # 0 /\ PayInstant(stop, u) # 0
                                    /\ DayOf(PayInstant(stop, s)) # DayOf(PayInstant(stop, u))

\* A trip proposed without a single tier has no day, or two.
LEMMA NoTier ==
    ASSUME NEW st, Scorable(st), NEW t \in Trips, trip[t].status # "pending",
           SingleTier(st, t) = None
    PROVE  \/ Incentive(st, t) = 0
           \/ \E s, u \in StopsOf(t) : /\ Earns(st, s) /\ Earns(st, u)
                                       /\ DayOf(PayInstant(st, s)) # DayOf(PayInstant(st, u))
  <1>1. Cardinality(DayGroups(st, t)) # 1
    <2> SUFFICES ASSUME Cardinality(DayGroups(st, t)) = 1 PROVE FALSE
      OBVIOUS
    <2>1. SingleTier(st, t) \in BOOLEAN
      BY DEF SingleTier
    <2> QED BY <2>1, PaydayAssumption
  <1>2. CASE DayGroups(st, t) = {}
    <2> DEFINE amount == [g \in DayGroups(st, t) |->
                             Halves(trip[t].pool, PaidPoints(st, t, g)) * Rate(st, t, g)]
    <2>1. Incentive(st, t) = SumFunctionOnSet(amount, DayGroups(st, t))
      BY DEF Incentive, SumFunction
    <2> HIDE DEF amount
    <2>2. SumFunctionOnSet(amount, {}) = 0
      BY TotalEmpty
    <2> QED BY <1>2, <2>1, <2>2
  <1>3. CASE DayGroups(st, t) # {}
    <2>1. PICK g \in DayGroups(st, t) : TRUE
      BY <1>3
    <2>2. DayGroups(st, t) # {g}
      BY <1>1, FS_Singleton
    <2>3. PICK h \in DayGroups(st, t) : h # g
      BY <2>1, <2>2
    <2>4. /\ g = {e \in EarnedDrops(st, t) : DayOf(e.at) = DayOf(Anchor(g))}
          /\ h = {e \in EarnedDrops(st, t) : DayOf(e.at) = DayOf(Anchor(h))}
      BY GroupFacts
    <2>5. DayOf(Anchor(g)) # DayOf(Anchor(h))
      BY <2>3, <2>4
    <2>6. PICK d \in g : d.stop \in StopsOf(t) /\ Earns(st, d.stop)
                         /\ PayInstant(st, d.stop) = Anchor(g)
      BY GroupFacts
    <2>7. PICK e \in h : e.stop \in StopsOf(t) /\ Earns(st, e.stop)
                         /\ PayInstant(st, e.stop) = Anchor(h)
      BY GroupFacts
    <2> QED BY <2>5, <2>6, <2>7
  <1> QED BY <1>2, <1>3

\* So has the proposal made of it.
LEMMA NewlyTiered ==
    ASSUME LedgerInv, LedgerInv', NEW t \in Trips, NEW st, SendsOn(t, st),
           Becomes(t, st, "pending_approval")
    PROVE  TierKnown(t)'
  <1> DEFINE P == [s \in StopsOf(t) |-> Points(stop', s)]
  <1>1. /\ stop' = Awarded(st, t)
        /\ trip'[t].earned = Incentive(st, t) /\ trip'[t].offpeak = SingleTier(st, t)
        /\ trip[t].status # "pending" /\ Scorable(st)
    BY NewlyStored
  <1> HIDE DEF P
  <1>2. ASSUME NEW s \in StopsOf(t), Earns(st, s)
        PROVE  PayInstant(stop', s) = PayInstant(st, s) /\ PayInstant(stop', s) # 0
    <2>1. s \in Stops /\ st \in [Stops -> Stop] /\ Stamped(st, At(taps)', s)
      BY <1>1 DEF StopsOf, SendsOn, Scorable
    <2>2. PayInstant(st, s) # 0
      BY <1>2, <2>1, EarnsTapped
    <2> QED BY <1>1, <2>1, <2>2, AwardsOnly
  <1> SUFFICES ASSUME SingleTier(st, t) = None, Incentive(st, t) # 0
               PROVE  \E s, u \in StopsOf(t) :
                          /\ PayInstant(stop', s) # 0 /\ PayInstant(stop', u) # 0
                          /\ DayOf(PayInstant(stop', s)) # DayOf(PayInstant(stop', u))
    BY <1>1 DEF TierKnown, StopsOf, DayOf, PayInstant
  <1>3. PICK s \in StopsOf(t), u \in StopsOf(t) :
            Earns(st, s) /\ Earns(st, u) /\ DayOf(PayInstant(st, s)) # DayOf(PayInstant(st, u))
    BY <1>1, NoTier
  <1> QED BY <1>2, <1>3

\* Proposals stand, with what is known of their tier.
LEMMA NextTiered ==
    ASSUME LedgerInv, LedgerInv', TapsInOrder, [Next]_vars, NEW t \in Trips, TierKnown(t)
    PROVE  TierKnown(t)'
  <1>1. CASE trip'[t].earned = None
    BY <1>1 DEF TierKnown
  <1>2. CASE trip'[t].earned # None /\ trip[t].earned = None
    BY <1>2, ProposalIsMade, NewlyTiered
  <1>3. CASE trip'[t].earned # None /\ trip[t].earned # None
    <2>1. ProposalStands(t)
      BY <1>3, ProposalsStand
    <2>2. \A s \in StopsOf(t) : PayInstant(stop, s)' = PayInstant(stop, s)
      BY <2>1 DEF ProposalStands, PayInstant
    <2> QED BY <1>3, <2>1, <2>2 DEF TierKnown, ProposalStands, StopsOf, DayOf
  <1> QED BY <1>1, <1>2, <1>3

-----------------------------------------------------------------------------
(* The life of a trip, and the days its taps are of.                        *)

\* A tap is of its day, and null is of none.
LEMMA TapOfDay ==
    ASSUME RatesTypeOK
    PROVE  /\ \A n \in 0 .. TapsADay : DayOf(At(n)) = today
           /\ DayOf(0) \notin Day
  <1>1. today \in Nat /\ TapsADay \in Nat /\ DayOf(0) = 0 /\ 0 \notin Day
    BY PaydayAssumption DEF RatesTypeOK, Day, DayOf
  <1>2. ASSUME NEW n \in 0 .. TapsADay PROVE DayOf(At(n)) = today
    <2> DEFINE k == TapsADay + 1
    <2>1. k \in Nat \ {0} /\ n \in Nat /\ n < k
      BY <1>1
    <2>2. (today * k + n) \div k = today
      <3> HIDE DEF k
      <3> QED BY <1>1, <2>1
    <2> QED BY <2>2 DEF DayOf, At
  <1> QED BY <1>1, <1>2

\* The trips out on a day, by the taps of st.
OutIn(st, day) ==
    {TripOf[s] : s \in {u \in Stops : day \in {DayOf(st[u].arrivedAt), DayOf(st[u].deliveredAt)}}}

\* They are those with a tap that day.
LEMMA OutOnTaps ==
    ASSUME RatesTypeOK, NEW day \in Day, NEW t, NEW st
    PROVE  t \in OutIn(st, day) <=>
               \E s \in Stops : TripOf[s] = t /\ \E at \in Instants(st, s) : DayOf(at) = day
  BY TapOfDay DEF Instants, OutIn

\* What a step may do to the life of a trip.
LifeGoesOn(t) ==
    /\ trip[t].status = "cancelled" => trip'[t].status = "cancelled"
    /\ trip[t].status = "completed" => trip'[t] = trip[t]
    /\ trip[t].status \in LedgerStatuses => trip'[t].status \in LedgerStatuses \cup {"cancelled"}
    /\ trip'[t].status \in LedgerStatuses => trip[t].status \in LedgerStatuses \cup {"assigned"}
    /\ trip'[t].status = "completed" =>
          trip[t].status = "completed" \/ \E own \in OwnAmounts \cup {None} : Approve(t, own)

\* A trip that was cancelled or completed stays so; and exempt days stay exempt.
LEMMA NextLife ==
    ASSUME LedgerInv, TapsInOrder, [Next]_vars, NEW t \in Trips
    PROVE  LifeGoesOn(t) /\ exempt \subseteq exempt'
  <1>1. /\ trip \in [Trips -> Trip] /\ stop \in [Stops -> Stop] /\ trip[t] \in Trip
    BY DEF LedgerInv, TypeOK
  <1>2. CASE OfficeHours \/ NextDay \/ UNCHANGED vars
    BY <1>2 DEF OfficeHours, NextDay, vars, ledgerVars, LifeGoesOn
  <1>3. ASSUME NEW u \in Trips, Assign(u) \/ Unassign(u) \/ Start(u)
        PROVE  LifeGoesOn(t) /\ exempt' = exempt
    <2>1. exempt' = exempt /\ trip[u].status \in {"pending", "assigned"}
      BY <1>3 DEF Assign, Unassign, Start
    <2>2. \/ u # t /\ trip'[t] = trip[t]
          \/ u = t /\ trip'[t] = [trip[t] EXCEPT !.status = "assigned", !.rates = TruckRateSnapshot(u),
                                        !.assignedOn = today]
          \/ u = t /\ trip'[t] = [trip[t] EXCEPT !.status = "pending", !.rates = None, !.assignedOn = 0]
          \/ u = t /\ trip[t].status = "assigned" /\ trip'[t] = [trip[t] EXCEPT !.status = "in_progress"]
      BY <1>1, <1>3 DEF Assign, Unassign, Start
    <2>3. \/ trip'[t] = trip[t]
          \/ trip[t].status \in {"pending", "assigned"} /\ trip'[t].status \in {"assigned", "pending"}
          \/ trip[t].status = "assigned" /\ trip'[t].status = "in_progress"
      BY <1>1, <2>1, <2>2 DEF Trip
    <2> QED BY <2>1, <2>3 DEF LifeGoesOn, LedgerStatuses
  <1>4. ASSUME NEW u \in Trips, NEW own \in OwnAmounts \cup {None}, Approve(u, own)
        PROVE  LifeGoesOn(t) /\ exempt \subseteq exempt'
    <2>1. /\ exempt \subseteq exempt' /\ trip[u].status = "pending_approval"
          /\ trip'[u].status = "completed" /\ \A v \in Trips \ {u} : trip'[v] = trip[v]
      <3> DEFINE final == IF own = None THEN Payable(u) ELSE own
                 word == IF final = trip[u].earned THEN "none"
                         ELSE IF own = None THEN "overtime" ELSE "office"
      <3>1. trip' = [trip EXCEPT ![u].status = "completed", ![u].final = final, ![u].override = word]
        BY <1>4 DEF Approve
      <3>2. exempt \subseteq exempt' /\ trip[u].status = "pending_approval"
        BY <1>4 DEF Approve
      <3> HIDE DEF final, word
      <3> QED BY <1>1, <3>1, <3>2 DEF Trip
    <2> QED BY <1>4, <2>1 DEF LifeGoesOn, LedgerStatuses
  <1>5. ASSUME NEW u \in Trips, NEW st, SendsOn(u, st)
        PROVE  LifeGoesOn(t)
    <2>1. u \in Out /\ Touched(u, st)
      BY <1>5 DEF SendsOn
    <2>2. PICK status \in {"in_progress", "pending_approval", "cancelled"} : Becomes(u, st, status)
      BY <1>5 DEF SendsOn
    <2>3. /\ trip[u].status = "in_progress" /\ trip'[u].status = status
          /\ \A v \in Trips \ {u} : trip'[v] = trip[v]
      BY <2>1, <2>2, BecomesTrip DEF Out
    <2> QED BY <2>3 DEF LifeGoesOn, LedgerStatuses
  <1>6. ASSUME NEW s \in Stops, Arrive(s) \/ UndoArrived(s) \/ RejectLate(s)
        PROVE  LifeGoesOn(t) /\ exempt \subseteq exempt'
    BY <1>6 DEF Arrive, Tap, UndoArrived, RejectLate, Reopens, LifeGoesOn
  <1>7. ASSUME NEW s \in Stops, UndoDelivered(s)
        PROVE  LifeGoesOn(t) /\ exempt \subseteq exempt'
    <2> DEFINE u == TripOf[s]
    <2>1. u \in Trips /\ trip[u].status \in {"in_progress", "pending_approval"} /\ exempt \subseteq exempt'
      BY <1>7, PaydayAssumption DEF UndoDelivered, Reopens
    <2>2. trip' = [trip EXCEPT ![u].status = "in_progress", ![u].earned = None,
                               ![u].offpeak = None, ![u].deducted = 0, ![u].shortfall = 0]
      BY <1>7 DEF UndoDelivered
    <2> HIDE DEF u
    <2>3. trip'[u].status = "in_progress" /\ \A v \in Trips \ {u} : trip'[v] = trip[v]
      BY <1>1, <2>1, <2>2 DEF Trip
    <2> QED BY <2>1, <2>3 DEF LifeGoesOn, LedgerStatuses
  <1>8. ASSUME NEW u \in Trips, Abort(u)
        PROVE  LifeGoesOn(t) /\ exempt' = exempt
    BY <1>5, <1>8, AbortSends DEF Abort
  <1>9. ASSUME NEW s \in Stops,
               Deliver(s) \/ \E verdict \in {"settled", "vetoed"} : Adjudicate(s, verdict)
        PROVE  LifeGoesOn(t) /\ exempt \subseteq exempt'
    <2>1. exempt \subseteq exempt'
      BY <1>9 DEF Deliver, Tap, Reopens, Adjudicate
    <2> QED BY <1>5, <1>9, <2>1, DeliverSends, AdjudicateSends, PaydayAssumption
  <1> QED BY <1>2, <1>3, <1>4, <1>6, <1>7, <1>8, <1>9 DEF Next

\* A tap that a step makes or takes back reopens its day.
Reopening(s) ==
    \A at \in (Instants(stop, s) \ Instants(stop', s)) \cup (Instants(stop', s) \ Instants(stop, s)) :
        Reopens(DayOf(at))

\* The taps are what they were.
SameTaps(s) == Instants(stop', s) = Instants(stop, s)

\* An arrival, and the undo of one.
LEMMA ArrivalReopens ==
    ASSUME LedgerInv, NEW s \in Stops, Arrive(s) \/ UndoArrived(s), NEW u \in Stops
    PROVE  Reopening(u)
  <1>1. stop \in [Stops -> Stop] /\ stop[s] \in Stop /\ Stamped(stop, At(taps), s) /\ RatesTypeOK
    BY DEF LedgerInv, TypeOK, BooksInv
  <1>2. CASE Arrive(s)
    <2> DEFINE now == At(taps + 1)
    <2>1. taps + 1 \in 0 .. TapsADay /\ Reopens(today)
      BY <1>2, PaydayAssumption DEF Arrive, Tap, LedgerInv, TypeOK
    <2>2. DayOf(now) = today
      BY <1>1, <2>1, TapOfDay
    <2>3. stop' = [stop EXCEPT ![s].status = "arrived", ![s].arrivedAt = now] /\ stop[s].arrivedAt = 0
      BY <1>1, <1>2 DEF Arrive, Stamped
    <2> HIDE DEF now
    <2>4. \A v \in Stops \ {s} : stop'[v] = stop[v]
      BY <1>1, <2>3
    <2>5. stop'[s].arrivedAt = now /\ stop'[s].deliveredAt = stop[s].deliveredAt
      BY <1>1, <2>3 DEF Stop
    <2>6. \A at \in (Instants(stop, u) \ Instants(stop', u)) \cup (Instants(stop', u) \ Instants(stop, u)) :
              at = now
      <3>1. CASE u = s
        BY <2>3, <2>5, <3>1 DEF Instants
      <3>2. CASE u # s
        BY <2>4, <3>2 DEF Instants
      <3> QED BY <3>1, <3>2
    <2> QED BY <2>1, <2>2, <2>6 DEF Reopening
  <1>3. CASE UndoArrived(s)
    <2>1. /\ Reopens(DayOf(stop[s].arrivedAt))
          /\ stop' = [stop EXCEPT ![s].status = "pending", ![s].arrivedAt = 0]
      BY <1>3 DEF UndoArrived
    <2>2. \A v \in Stops \ {s} : stop'[v] = stop[v]
      BY <1>1, <2>1
    <2>3. stop'[s].arrivedAt = 0 /\ stop'[s].deliveredAt = stop[s].deliveredAt
      BY <1>1, <2>1 DEF Stop
    <2>4. \A at \in (Instants(stop, u) \ Instants(stop', u)) \cup (Instants(stop', u) \ Instants(stop, u)) :
              at = stop[s].arrivedAt
      <3>1. CASE u = s
        BY <2>3, <3>1 DEF Instants
      <3>2. CASE u # s
        BY <2>2, <3>2 DEF Instants
      <3> QED BY <3>1, <3>2
    <2> QED BY <2>1, <2>4 DEF Reopening
  <1> QED BY <1>2, <1>3

\* A delivery.
LEMMA DeliveryReopens ==
    ASSUME LedgerInv, TapsInOrder, NEW s \in Stops, Deliver(s), NEW u \in Stops
    PROVE  Reopening(u)
  <1> DEFINE now == At(taps + 1)
             st == [stop EXCEPT ![s].status = "delivered", ![s].deliveredAt = now]
             t == TripOf[s]
  <1>1. stop \in [Stops -> Stop] /\ stop[s] \in Stop /\ Stamped(stop, At(taps), s) /\ RatesTypeOK
    BY DEF LedgerInv, TypeOK, BooksInv
  <1>2. /\ taps + 1 \in 0 .. TapsADay /\ Reopens(today) /\ t \in Out /\ now \in Instant
        /\ stop[s].deliveredAt = 0
    BY <1>1, TapBooks, PaydayAssumption DEF Deliver, Tap, LedgerInv, TypeOK, Stamped
  <1>3. DayOf(now) = today
    BY <1>1, <1>2, TapOfDay
  <1>4. \E status \in {"in_progress", "pending_approval", "cancelled"} : Becomes(t, st, status)
    BY DEF Deliver, Conclude
  <1> HIDE DEF now
  <1>5. /\ st[s] = [stop[s] EXCEPT !.status = "delivered", !.deliveredAt = now]
        /\ \A v \in Stops \ {s} : st[v] = stop[v]
    BY <1>1
  <1>6. /\ st[s] \in Stop /\ st[s].deliveredAt = now
        /\ st[s].arrivedAt = stop[s].arrivedAt /\ st[s].award = stop[s].award
        /\ st[s].zonePoints = stop[s].zonePoints
    BY <1>1, <1>2, <1>5 DEF Stop
  <1>7. st \in [Stops -> Stop] /\ s \in StopsOf(t)
    BY <1>1, <1>5, <1>6 DEF StopsOf
  <1> HIDE DEF st
  <1>8. Touched(t, st)
    BY <1>5, <1>6, <1>7 DEF Touched
  <1>9. \A v \in Stops : Instants(stop', v) = Instants(st, v)
    <2> HIDE DEF t
    <2> QED BY <1>2, <1>4, <1>8, BecomesOrder
  <1>10. \A at \in (Instants(stop, u) \ Instants(st, u)) \cup (Instants(st, u) \ Instants(stop, u)) :
             at = now
    <2>1. CASE u = s
      BY <1>2, <1>6, <2>1 DEF Instants
    <2>2. CASE u # s
      BY <1>5, <2>2 DEF Instants
    <2> QED BY <2>1, <2>2
  <1> QED BY <1>2, <1>3, <1>9, <1>10 DEF Reopening

\* The undo of a delivery.
LEMMA UndoReopens ==
    ASSUME LedgerInv, NEW s \in Stops, UndoDelivered(s), NEW u \in Stops
    PROVE  Reopening(u)
  <1>1. stop \in [Stops -> Stop] /\ stop[s] \in Stop /\ stop[u] \in Stop
    BY DEF LedgerInv, TypeOK
  <1>2. /\ stop' = Reverted(TripOf[s], s) /\ Reopens(DayOf(stop[s].deliveredAt))
    BY DEF UndoDelivered
  <1>3. CASE u = s
    <2>1. stop'[s] = [stop[s] EXCEPT !.status = "arrived", !.deliveredAt = 0, !.award = "none"]
      BY <1>2 DEF Reverted
    <2>2. stop'[s].arrivedAt = stop[s].arrivedAt /\ stop'[s].deliveredAt = 0
      BY <1>1, <2>1 DEF Stop
    <2> QED BY <1>2, <1>3, <2>2 DEF Reopening, Instants
  <1>4. CASE u # s
    <2>1. stop'[u] = stop[u] \/ stop'[u] = [stop[u] EXCEPT !.award = "none"]
      BY <1>2, <1>4 DEF Reverted
    <2>2. stop'[u].arrivedAt = stop[u].arrivedAt /\ stop'[u].deliveredAt = stop[u].deliveredAt
      BY <1>1, <2>1 DEF Stop
    <2> QED BY <2>2 DEF Reopening, Instants
  <1> QED BY <1>3, <1>4

\* No other step makes or takes back a tap.
LEMMA OthersTapNothing ==
    ASSUME LedgerInv, TapsInOrder, NEW u \in Stops,
           \/ OfficeHours \/ NextDay \/ UNCHANGED vars
           \/ \E t \in Trips : \/ Assign(t) \/ Unassign(t) \/ Start(t) \/ Abort(t)
                               \/ \E own \in OwnAmounts \cup {None} : Approve(t, own)
           \/ \E s \in Stops : \/ RejectLate(s)
                               \/ \E verdict \in {"settled", "vetoed"} : Adjudicate(s, verdict)
    PROVE  SameTaps(u)
  <1>1. stop \in [Stops -> Stop] /\ stop[u] \in Stop
    BY DEF LedgerInv, TypeOK
  <1>2. CASE OfficeHours \/ NextDay \/ UNCHANGED vars
    BY <1>2 DEF OfficeHours, NextDay, vars, ledgerVars, SameTaps
  <1>3. ASSUME NEW t \in Trips, Assign(t) \/ Unassign(t)
        PROVE  SameTaps(u)
    <2>1. stop'[u] = stop[u] \/ \E points : stop'[u] = [stop[u] EXCEPT !.zonePoints = points]
      BY <1>3 DEF Assign, Unassign
    <2> QED BY <1>1, <2>1 DEF Stop, SameTaps, Instants
  <1>4. ASSUME NEW t \in Trips, Start(t) \/ \E own \in OwnAmounts \cup {None} : Approve(t, own)
        PROVE  SameTaps(u)
    BY <1>4 DEF Start, Approve, SameTaps
  <1>5. ASSUME NEW t \in Trips, Abort(t)
        PROVE  SameTaps(u)
    <2>1. t \in Out /\ Touched(t, stop)
      BY <1>1, <1>5 DEF Abort, Touched
    <2>2. \E status \in {"in_progress", "pending_approval", "cancelled"} : Becomes(t, stop, status)
      BY <1>5 DEF Abort
    <2> QED BY <2>1, <2>2, BecomesOrder DEF SameTaps
  <1>6. ASSUME NEW s \in Stops, RejectLate(s)
        PROVE  SameTaps(u)
    <2>1. stop'[u] = stop[u] \/ stop'[u] = [stop[u] EXCEPT !.verdict = "vetoed"]
      BY <1>1, <1>6 DEF RejectLate
    <2> QED BY <1>1, <2>1 DEF Stop, SameTaps, Instants
  <1>7. ASSUME NEW s \in Stops, NEW verdict \in {"settled", "vetoed"}, Adjudicate(s, verdict)
        PROVE  SameTaps(u)
    <2> DEFINE st == [stop EXCEPT ![s].verdict = verdict]
               t == TripOf[s]
    <2>1. t \in Out /\ \E status \in {"in_progress", "pending_approval", "cancelled"} : Becomes(t, st, status)
      BY <1>7 DEF Adjudicate, Conclude
    <2>2. st[s] = [stop[s] EXCEPT !.verdict = verdict] /\ \A v \in Stops \ {s} : st[v] = stop[v]
      BY <1>1
    <2>3. /\ st[s] \in Stop /\ st[s].deliveredAt = stop[s].deliveredAt
          /\ st[s].arrivedAt = stop[s].arrivedAt /\ st[s].award = stop[s].award
          /\ st[s].zonePoints = stop[s].zonePoints
      BY <1>1, <2>2 DEF Stop, LedgerInv, TypeOK
    <2>4. st \in [Stops -> Stop] /\ s \in StopsOf(t)
      BY <1>1, <2>2, <2>3 DEF StopsOf
    <2> HIDE DEF st
    <2>5. Touched(t, st)
      BY <2>2, <2>3, <2>4 DEF Touched
    <2> HIDE DEF t
    <2>6. Instants(stop', u) = Instants(st, u)
      BY <2>1, <2>5, BecomesOrder
    <2> QED BY <2>2, <2>3, <2>6 DEF SameTaps, Instants
  <1> QED BY <1>2, <1>3, <1>4, <1>5, <1>6, <1>7

\* Every step that makes or takes back a tap reopens its day.
LEMMA NextReopens ==
    ASSUME LedgerInv, TapsInOrder, [Next]_vars, NEW u \in Stops
    PROVE  Reopening(u)
  <1>1. SameTaps(u) => Reopening(u)
    BY DEF SameTaps, Reopening
  <1>2. ASSUME NEW s \in Stops, Arrive(s) \/ UndoArrived(s) \/ Deliver(s) \/ UndoDelivered(s)
        PROVE  Reopening(u)
    BY <1>2, ArrivalReopens, DeliveryReopens, UndoReopens
  <1> QED BY <1>1, <1>2, OthersTapNothing DEF Next

-----------------------------------------------------------------------------
(* The approval: a trip is paid what the rules make of its proposal.        *)

\* A completed trip of one day that is not exempt, and on which no trip ended unpaid,
\* was approved at what the rules make of its proposal now.
Settled(t) ==
    \A day \in Day :
        /\ trip[t].status = "completed"
        /\ InstantsOf(t) # {} /\ \A at \in InstantsOf(t) : DayOf(at) = day
        /\ day \notin exempt
        /\ \A u \in OutOn(day) : trip[u].status # "cancelled"
        => trip[t].final = Payable(t)

\* The taps of a trip are those of its stops.
LEMMA TapsOfTrip ==
    ASSUME NEW t, NEW at
    PROVE  /\ at \in InstantsOf(t) <=> \E s \in StopsOf(t) : at \in Instants(stop, s)
           /\ at \in InstantsOf(t)' <=> \E s \in StopsOf(t) : at \in Instants(stop', s)
  BY DEF InstantsOf, Instants, StopsOf

\* What a proposal is payable for depends on what it was paid for and whether he went out again.
LEMMA PayableStands ==
    ASSUME NEW t, ProposalStands(t), StoredPoints(t)' = StoredPoints(t),
           WentOutAgain(t)' <=> WentOutAgain(t)
    PROVE  Payable(t)' = Payable(t)
  <1>1. WeekdayEquivalents(t)' = WeekdayEquivalents(t)
    BY DEF WeekdayEquivalents, ProposalStands
  <1> QED BY <1>1 DEF Payable, ProposalStands

\* Whether he went out again depends on the taps of one day.
LEMMA WentOutStands ==
    ASSUME NEW t, NEW day, Deliveries(t)' = Deliveries(t),
           Deliveries(t) # {} => DayOf(Max(Deliveries(t))) = day,
           \A u \in Trips \ {t} : \A at :
               DayOf(at) = day =>
                   /\ at \in InstantsOf(u)' <=> at \in InstantsOf(u)
                   /\ at \in InstantsOf(u) => (trip'[u].status \in LedgerStatuses <=>
                                               trip[u].status \in LedgerStatuses)
    PROVE  WentOutAgain(t)' <=> WentOutAgain(t)
  <1> DEFINE last == Max(Deliveries(t))
             Went(u, at) == at > last /\ DayOf(at) = DayOf(last)
  <1>1. WentOutAgain(t) <=>
            /\ Deliveries(t) # {}
            /\ \E u \in Trips \ {t} : /\ trip[u].status \in LedgerStatuses
                                      /\ \E at \in InstantsOf(u) : Went(u, at)
    BY DEF WentOutAgain
  <1>2. WentOutAgain(t)' <=>
            /\ Deliveries(t) # {}
            /\ \E u \in Trips \ {t} : /\ trip'[u].status \in LedgerStatuses
                                      /\ \E at \in InstantsOf(u)' : Went(u, at)
    BY DEF WentOutAgain, LedgerStatuses, DayOf
  <1>3. Deliveries(t) # {} => \A u, at : Went(u, at) => DayOf(at) = day
    OBVIOUS
  <1> HIDE DEF Went, last
  <1> QED BY <1>1, <1>2, <1>3

\* The deliveries of a trip are taps of it, and there is a last one.
LEMMA LastDelivery ==
    ASSUME stop \in [Stops -> Stop], NEW t
    PROVE  /\ Deliveries(t) \subseteq InstantsOf(t)
           /\ Deliveries(t) # {} => /\ Max(Deliveries(t)) \in Deliveries(t)
                                    /\ Max(Deliveries(t)) \in Nat
                                    /\ \A at \in Deliveries(t) : at <= Max(Deliveries(t))
  <1> DEFINE f == [s \in Stops |-> stop[s].deliveredAt]
             D == {f[s] : s \in StopsOf(t)}
  <1>1. Deliveries(t) = D \ {0}
    BY DEF Deliveries, StopsOf
  <1>2. IsFiniteSet(StopsOf(t))
    BY PaydayAssumption, FS_Subset DEF StopsOf
  <1>3. D \subseteq Nat
    BY DEF StopsOf, Stop, Instant
  <1>4. IsFiniteSet(D)
    <2> HIDE DEF f
    <2> QED BY <1>2, FiniteImage
  <1> HIDE DEF D
  <1>5. Deliveries(t) \in SUBSET Nat /\ IsFiniteSet(Deliveries(t))
    BY <1>1, <1>3, <1>4, FS_Subset
  <1>6. Deliveries(t) # {} => /\ Max(Deliveries(t)) \in Deliveries(t)
                              /\ \A at \in Deliveries(t) : at <= Max(Deliveries(t))
    BY <1>5, GreatestOf
  <1>7. Deliveries(t) \subseteq InstantsOf(t)
    BY DEF Deliveries, InstantsOf
  <1> QED BY <1>5, <1>6, <1>7

\* While no day of a completed trip is reopened, the taps of the day stand.
LEMMA DayStands ==
    ASSUME LedgerInv, TapsInOrder, [Next]_vars, NEW day \in Day, NEW t \in OutOn(day),
           trip[t].status = "completed", day \notin exempt'
    PROVE  /\ \A s \in Stops : \A at : DayOf(at) = day =>
                  (at \in Instants(stop', s) <=> at \in Instants(stop, s))
           /\ OutOn(day)' = OutOn(day)
  <1>1. ~Reopens(day)
    BY DEF Reopens
  <1>2. ASSUME NEW s \in Stops, NEW at, DayOf(at) = day
        PROVE  at \in Instants(stop', s) <=> at \in Instants(stop, s)
    BY <1>1, <1>2, NextReopens DEF Reopening
  <1>3. RatesTypeOK
    BY DEF LedgerInv, TypeOK
  <1>4. OutOn(day) = OutIn(stop, day) /\ OutOn(day)' = OutIn(stop', day)
    BY DEF OutOn, OutIn, DayOf
  <1>5. ASSUME NEW u PROVE u \in OutIn(stop', day) <=> u \in OutIn(stop, day)
    <2>1. u \in OutIn(stop, day) <=>
              \E s \in Stops : TripOf[s] = u /\ \E at \in Instants(stop, s) : DayOf(at) = day
      BY <1>3, OutOnTaps
    <2>2. u \in OutIn(stop', day) <=>
              \E s \in Stops : TripOf[s] = u /\ \E at \in Instants(stop', s) : DayOf(at) = day
      BY <1>3, OutOnTaps
    <2> QED BY <1>2, <2>1, <2>2
  <1>6. OutIn(stop', day) = OutIn(stop, day)
    BY <1>5 DEF OutIn
  <1> QED BY <1>2, <1>4, <1>6

\* A trip with a tap on a day was out on it; a trip that was not started has none.
LEMMA TappedIsOut ==
    ASSUME LedgerInv, NEW day \in Day, NEW u \in Trips, NEW at \in InstantsOf(u), DayOf(at) = day
    PROVE  /\ u \in OutOn(day)
           /\ trip[u].status \notin {"pending", "assigned"}
  <1>1. PICK s \in StopsOf(u) : at \in Instants(stop, s)
    BY TapsOfTrip
  <1>2. s \in Stops /\ TripOf[s] = u
    BY DEF StopsOf
  <1>3. u \in OutOn(day)
    <2>1. u \in OutIn(stop, day)
      BY <1>1, <1>2, OutOnTaps DEF LedgerInv, TypeOK
    <2> QED BY <2>1 DEF OutOn, OutIn
  <1>4. Stamped(stop, At(taps), s) /\ Filed(u)
    BY <1>2 DEF LedgerInv, BooksInv
  <1> QED BY <1>1, <1>3, <1>4 DEF Stamped, Filed, Instants

\* A completed trip stays settled.
LEMMA StaysSettled ==
    ASSUME LedgerInv, LedgerInv', TapsInOrder, [Next]_vars, NEW t \in Trips, Accounted(t),
           Settled(t), trip[t].status = "completed"
    PROVE  Settled(t)'
  <1>1. trip'[t] = trip[t] /\ exempt \subseteq exempt' /\ \A u \in Trips : LifeGoesOn(u)
    BY NextLife DEF LifeGoesOn
  <1>2. trip[t].earned # None /\ stop \in [Stops -> Stop]
    BY DEF LedgerInv, TypeOK, BooksInv, Filed, Finished
  <1>3. ProposalStands(t) /\ StoredPoints(t)' = StoredPoints(t)
    BY <1>1, <1>2, ProposalsStand, StillAccounted
  <1>4. InstantsOf(t)' = InstantsOf(t)
    <2>1. ASSUME NEW at PROVE at \in InstantsOf(t)' <=> at \in InstantsOf(t)
      BY <1>3, TapsOfTrip DEF ProposalStands
    <2> QED BY <2>1 DEF InstantsOf
  <1>5. Deliveries(t)' = Deliveries(t)
    BY <1>3 DEF Deliveries, ProposalStands, StopsOf
  <1> SUFFICES ASSUME NEW day \in Day,
                      InstantsOf(t) # {}, \A at \in InstantsOf(t) : DayOf(at) = day,
                      day \notin exempt', \A u \in OutOn(day)' : trip'[u].status # "cancelled"
               PROVE  trip'[t].final = Payable(t)'
    BY <1>4 DEF Settled, DayOf, Day
  <1>6. t \in OutOn(day)
    BY TappedIsOut
  <1>7. /\ \A s \in Stops : \A at : DayOf(at) = day =>
               (at \in Instants(stop', s) <=> at \in Instants(stop, s))
        /\ OutOn(day)' = OutOn(day)
    BY <1>6, DayStands
  <1>8. OutOn(day) \subseteq Trips
    BY PaydayAssumption DEF OutOn
  <1>9. trip[t].final = Payable(t)
    BY <1>1, <1>7, <1>8 DEF Settled, LifeGoesOn
  <1>10. Deliveries(t) # {} => DayOf(Max(Deliveries(t))) = day
    BY <1>2, LastDelivery
  <1>11. ASSUME NEW u \in Trips \ {t}, NEW at, DayOf(at) = day
         PROVE  /\ at \in InstantsOf(u)' <=> at \in InstantsOf(u)
                /\ at \in InstantsOf(u) => (trip'[u].status \in LedgerStatuses <=>
                                            trip[u].status \in LedgerStatuses)
    <2>1. at \in InstantsOf(u)' <=> at \in InstantsOf(u)
      <3>1. \A s \in StopsOf(u) : at \in Instants(stop', s) <=> at \in Instants(stop, s)
        BY <1>7, <1>11 DEF StopsOf
      <3> QED BY <3>1, TapsOfTrip
    <2>2. ASSUME at \in InstantsOf(u)
          PROVE  trip'[u].status \in LedgerStatuses <=> trip[u].status \in LedgerStatuses
      <3>1. u \in OutOn(day) /\ trip[u].status # "assigned"
        BY <1>11, <2>2, TappedIsOut
      <3>2. trip'[u].status # "cancelled"
        BY <1>7, <3>1
      <3> QED BY <1>1, <3>1, <3>2 DEF LifeGoesOn
    <2> QED BY <2>1, <2>2
  <1>12. WentOutAgain(t)' <=> WentOutAgain(t)
    BY <1>5, <1>10, <1>11, WentOutStands
  <1> QED BY <1>1, <1>3, <1>9, <1>12, PayableStands

\* An approval by the rules settles its trip.
LEMMA ApprovalSettles ==
    ASSUME LedgerInv, LedgerInv', TapsInOrder, [Next]_vars, NEW t \in Trips, Accounted(t),
           trip[t].status # "completed"
    PROVE  Settled(t)'
  <1> SUFFICES ASSUME trip'[t].status = "completed", NEW day \in Day,
                      InstantsOf(t)' # {}, \A at \in InstantsOf(t)' : DayOf(at) = day,
                      day \notin exempt'
               PROVE  trip'[t].final = Payable(t)'
    BY DEF Settled, DayOf, Day
  <1>1. PICK own \in OwnAmounts \cup {None} : Approve(t, own)
    BY NextLife DEF LifeGoesOn
  <1> DEFINE final == IF own = None THEN Payable(t) ELSE own
             word == IF final = trip[t].earned THEN "none"
                     ELSE IF own = None THEN "overtime" ELSE "office"
  <1>2. /\ trip' = [trip EXCEPT ![t].status = "completed", ![t].final = final, ![t].override = word]
        /\ stop' = stop /\ trip[t].status = "pending_approval"
        /\ exempt' = IF own = None THEN exempt ELSE exempt \cup {DayOf(at) : at \in InstantsOf(t)}
    BY <1>1 DEF Approve
  <1>3. trip \in [Trips -> Trip] /\ stop \in [Stops -> Stop] /\ trip[t] \in Trip
    BY DEF LedgerInv, TypeOK
  <1>4. \A u : InstantsOf(u)' = InstantsOf(u)
    BY <1>2 DEF InstantsOf, StopsOf
  <1>5. own = None
    BY <1>2, <1>4
  <1>6. final = Payable(t)
    BY <1>5
  <1> HIDE DEF final, word
  <1>7. trip'[t].final = final /\ \A u \in Trips \ {t} : trip'[u] = trip[u]
    BY <1>2, <1>3 DEF Trip
  <1>8. trip[t].earned # None /\ trip'[t].earned # None
    <2>1. Filed(t) /\ Filed(t)'
      BY DEF LedgerInv, BooksInv
    <2> QED BY <1>2, <2>1 DEF Filed, Finished
  <1>9. ProposalStands(t) /\ StoredPoints(t)' = StoredPoints(t)
    BY <1>3, <1>8, ProposalsStand, StillAccounted
  <1>10. Deliveries(t)' = Deliveries(t)
    BY <1>2 DEF Deliveries, StopsOf
  <1>11. Deliveries(t) # {} => DayOf(Max(Deliveries(t))) = day
    BY <1>3, <1>4, LastDelivery
  <1>12. WentOutAgain(t)' <=> WentOutAgain(t)
    BY <1>4, <1>7, <1>10, <1>11, WentOutStands
  <1> QED BY <1>6, <1>7, <1>9, <1>12, PayableStands

\* With its tier known and its approval settled, in every state.
PayoutInv == PaidInv /\ \A t \in Trips : TierKnown(t) /\ Settled(t)

\* The invariant holds in every state.
LEMMA PayoutInvariant == Spec => []PayoutInv
  <1>2. Init => \A t \in Trips : TierKnown(t) /\ Settled(t)
    BY DEF Init, TierKnown, Settled
  <1>3. ASSUME PaidInv, PaidInv', [Next]_vars, NEW t \in Trips, TierKnown(t), Settled(t)
        PROVE  TierKnown(t)' /\ Settled(t)'
    <2>1. LedgerInv /\ LedgerInv' /\ TapsInOrder /\ Accounted(t)
      BY <1>3 DEF PaidInv, OrderInv
    <2> QED BY <1>3, <2>1, NextTiered, StaysSettled, ApprovalSettles
  <1>4. PaidInv /\ PaidInv' /\ [Next]_vars /\ (\A t \in Trips : TierKnown(t) /\ Settled(t))
            => (\A t \in Trips : TierKnown(t) /\ Settled(t))'
    BY <1>3
  <1> QED BY <1>2, <1>4, PaidInvariant, PTL DEF Spec, PayoutInv

-----------------------------------------------------------------------------
(* What a settled day is paid.                                              *)

\* A trip that was out has a last tap.
LEMMA LastInstant ==
    ASSUME stop \in [Stops -> Stop], NEW t, InstantsOf(t) # {}
    PROVE  /\ Max(InstantsOf(t)) \in InstantsOf(t) /\ InstantsOf(t) \subseteq Nat
           /\ \A at \in InstantsOf(t) : at <= Max(InstantsOf(t))
  <1> DEFINE f == [s \in Stops |-> stop[s].arrivedAt]
             g == [s \in Stops |-> stop[s].deliveredAt]
             A == {f[s] : s \in StopsOf(t)}
             D == {g[s] : s \in StopsOf(t)}
  <1>1. InstantsOf(t) = (A \cup D) \ {0}
    BY DEF InstantsOf, StopsOf
  <1>2. IsFiniteSet(StopsOf(t))
    BY PaydayAssumption, FS_Subset DEF StopsOf
  <1>3. A \subseteq Nat /\ D \subseteq Nat
    BY DEF StopsOf, Stop, Instant
  <1>4. IsFiniteSet(A) /\ IsFiniteSet(D)
    <2> HIDE DEF f, g
    <2> QED BY <1>2, FiniteImage
  <1> HIDE DEF A, D
  <1>5. IsFiniteSet(A \cup D)
    BY <1>4, FS_Union
  <1>6. InstantsOf(t) \in SUBSET Nat /\ IsFiniteSet(InstantsOf(t))
    BY <1>1, <1>3, <1>5, FS_Subset
  <1> QED BY <1>6, GreatestOf

\* Of some trips that were out, one came back last.
LEMMA LastOfTrips ==
    ASSUME stop \in [Stops -> Stop], NEW out \in SUBSET Trips, out # {},
           \A t \in out : InstantsOf(t) # {}
    PROVE  /\ LastOf(out) \in out
           /\ \A u \in out : Max(InstantsOf(u)) <= Max(InstantsOf(LastOf(out)))
  <1> DEFINE f == [t \in out |-> Max(InstantsOf(t))]
             S == {f[t] : t \in out}
  <1>1. \A t \in out : f[t] \in Nat
    BY LastInstant
  <1>2. IsFiniteSet(out)
    BY PaydayAssumption, FS_Subset
  <1>3. S \in SUBSET Nat /\ S # {}
    BY <1>1
  <1>4. IsFiniteSet(S)
    <2> HIDE DEF f
    <2> QED BY <1>2, FiniteImage
  <1>5. Max(S) \in S /\ \A y \in S : y <= Max(S)
    <2> HIDE DEF S
    <2> QED BY <1>3, <1>4, GreatestOf
  <1>6. \E t \in out : \A u \in out : f[u] <= f[t]
    BY <1>5
  <1> QED BY <1>6 DEF LastOf

\* The trip that came back last came after the others.
LEMMA CameAfter ==
    ASSUME stop \in [Stops -> Stop], OneAfterTheOther(stop), NEW t \in Trips, NEW u \in Trips, t # u,
           NEW at \in InstantsOf(t), NEW by \in InstantsOf(u),
           Max(InstantsOf(t)) <= Max(InstantsOf(u))
    PROVE  at < by
  <1>1. \A v \in {t, u} : \A x \in InstantsOf(v) : \E s \in StopsOf(v) : x \in Instants(stop, s)
    BY TapsOfTrip
  <1>2. Before(stop, t, u) => \A x \in InstantsOf(t), y \in InstantsOf(u) : x < y
    BY <1>1 DEF Before
  <1>3. Before(stop, u, t) => \A x \in InstantsOf(t), y \in InstantsOf(u) : y < x
    BY <1>1 DEF Before
  <1>4. /\ Max(InstantsOf(t)) \in InstantsOf(t) /\ Max(InstantsOf(t)) \in Nat
        /\ Max(InstantsOf(u)) \in InstantsOf(u) /\ Max(InstantsOf(u)) \in Nat
    BY LastInstant
  <1>5. ~Before(stop, u, t)
    BY <1>3, <1>4
  <1> QED BY <1>2, <1>5 DEF OneAfterTheOther

\* Demoted, an off-peak proposal is paid at the weekday rate.
LEMMA Demoted ==
    ASSUME NEW t, NEW points \in Nat, points = StoredPoints(t),
           NEW w \in Nat, w = trip[t].rates["weekday"], NEW o \in Nat, o = trip[t].rates["offpeak"],
           0 < w, w <= o, trip[t].earned = points * o
    PROVE  Min({trip[t].earned} \cup WeekdayEquivalents(t)) = w * points
  <1> DEFINE other == 2 * (trip[t].earned \div (2 * o))
             S == {trip[t].earned} \cup WeekdayEquivalents(t)
  <1>1. WeekdayEquivalents(t) = {p * w : p \in {q \in {points, other} : q * o = trip[t].earned}}
    BY DEF WeekdayEquivalents
  <1>2. other \in Int
    OBVIOUS
  <1> HIDE DEF other
  <1>3. \A q \in {points, other} : q * o = points * o => q = points
    BY <1>2
  <1>4. WeekdayEquivalents(t) = {points * w}
    BY <1>1, <1>3
  <1>5. S = {points * o, points * w}
    BY <1>4
  <1>6. points * w \in Nat /\ points * o \in Nat /\ points * w <= points * o /\ points * w = w * points
    OBVIOUS
  <1> DEFINE a == points * w
             b == points * o
  <1> HIDE DEF S, a, b
  <1>7. S = {b, a} /\ a \in Nat /\ b \in Nat /\ a <= b
    BY <1>5, <1>6 DEF a, b
  <1>8. Min(S) \in S /\ \A y \in S : Min(S) <= y
    BY <1>7, LeastOf
  <1>9. Min(S) = a
    BY <1>7, <1>8
  <1> QED BY <1>6, <1>9 DEF S, a

\* A day the last-trip rule settles: he was out, in order, and all was approved afterwards.
SettledDay(day) ==
    /\ day \in Day /\ OutOn(day) # {} /\ ApprovedAfterwards(OutOn(day), day)
    /\ ~unwound

\* The trips of such a day were tapped on it only, and are completed.
LEMMA OfTheDay ==
    ASSUME PayoutInv, NEW day, SettledDay(day), NEW t \in OutOn(day)
    PROVE  /\ t \in Trips /\ t \in Proposed /\ trip[t].status = "completed"
           /\ InstantsOf(t) # {} /\ \A at \in InstantsOf(t) : DayOf(at) = day
           /\ trip[t].rates \in Rates
  <1>1. LedgerInv /\ RatesTypeOK /\ day \in Day
    BY DEF PayoutInv, PaidInv, OrderInv, LedgerInv, TypeOK, SettledDay
  <1>2. t \in OutIn(stop, day)
    BY DEF OutOn, OutIn
  <1>3. PICK s \in Stops : TripOf[s] = t /\ \E at \in Instants(stop, s) : DayOf(at) = day
    BY <1>1, <1>2, OutOnTaps
  <1>4. t \in Trips /\ s \in StopsOf(t)
    BY <1>3, PaydayAssumption DEF StopsOf
  <1>5. InstantsOf(t) # {}
    BY <1>3, <1>4, TapsOfTrip
  <1>6. trip[t].status = "completed" /\ \A at \in InstantsOf(t) : DayOf(at) = day
    BY DEF SettledDay, ApprovedAfterwards
  <1>7. Filed(t)
    BY <1>1, <1>4 DEF LedgerInv, BooksInv
  <1>8. trip[t].earned # None /\ trip[t].rates \in Rates
    BY <1>6, <1>7 DEF Filed, Finished
  <1> QED BY <1>4, <1>5, <1>6, <1>8 DEF Proposed

\* The last trip of such a day, and that it came after the others.
LEMMA LastOfDay ==
    ASSUME PayoutInv, NEW day, SettledDay(day)
    PROVE  /\ LastOf(OutOn(day)) \in OutOn(day)
           /\ \A t \in OutOn(day) \ {LastOf(OutOn(day))} :
                 \A at \in InstantsOf(t), by \in InstantsOf(LastOf(OutOn(day))) : at < by
  <1> DEFINE out == OutOn(day)
             last == LastOf(out)
  <1>1. stop \in [Stops -> Stop] /\ OneAfterTheOther(stop)
    BY DEF PayoutInv, PaidInv, OrderInv, LedgerInv, TypeOK, TapsInOrder, SettledDay
  <1>2. \A t \in out : t \in Trips /\ InstantsOf(t) # {}
    BY OfTheDay
  <1>3. out # {}
    BY DEF SettledDay
  <1> HIDE DEF out
  <1>4. last \in out /\ \A t \in out : Max(InstantsOf(t)) <= Max(InstantsOf(last))
    BY <1>1, <1>2, <1>3, LastOfTrips
  <1> HIDE DEF last
  <1>5. ASSUME NEW t \in out \ {last}, NEW at \in InstantsOf(t), NEW by \in InstantsOf(last)
        PROVE  at < by
    BY <1>1, <1>2, <1>4, CameAfter
  <1> QED BY <1>4, <1>5 DEF out, last

\* He went out again after every trip of the day but the last.
LEMMA WentOutOrNot ==
    ASSUME PayoutInv, NEW day, SettledDay(day), NEW t \in OutOn(day), Deliveries(t) # {}
    PROVE  WentOutAgain(t) <=> t # LastOf(OutOn(day))
  <1> DEFINE last == LastOf(OutOn(day))
             end == Max(Deliveries(t))
  <1>1. LedgerInv /\ stop \in [Stops -> Stop] /\ day \in Day
    BY DEF PayoutInv, PaidInv, OrderInv, LedgerInv, TypeOK, SettledDay
  <1>2. end \in InstantsOf(t) /\ end \in Nat
    BY <1>1, LastDelivery
  <1>3. /\ last \in OutOn(day)
        /\ \A u \in OutOn(day) \ {last} : \A at \in InstantsOf(u), by \in InstantsOf(last) : at < by
    BY LastOfDay
  <1> HIDE DEF last, end
  <1>4. DayOf(end) = day
    BY <1>2, OfTheDay
  <1>5. ASSUME t # last PROVE WentOutAgain(t)
    <2>1. PICK by \in InstantsOf(last) : DayOf(by) = day
      BY <1>3, OfTheDay
    <2>2. by > end
      <3>1. end < by
        BY <1>2, <1>3, <1>5, <2>1
      <3> QED BY <3>1
    <2>3. last \in Trips \ {t} /\ trip[last].status \in LedgerStatuses
      BY <1>3, <1>5, OfTheDay DEF LedgerStatuses
    <2> QED BY <1>4, <2>1, <2>2, <2>3 DEF WentOutAgain, end
  <1>6. ASSUME t = last, WentOutAgain(t) PROVE FALSE
    <2>1. PICK u \in Trips \ {t} : \E at \in InstantsOf(u) : at > end /\ DayOf(at) = DayOf(end)
      BY <1>6 DEF WentOutAgain, end
    <2>2. PICK at \in InstantsOf(u) : at > end /\ DayOf(at) = day
      BY <1>4, <2>1
    <2>3. u \in OutOn(day)
      BY <1>1, <2>2, TappedIsOut
    <2>4. at < end
      BY <1>2, <1>3, <1>6, <2>2, <2>3
    <2>5. at \in Nat
      BY <1>1, <2>2, LastInstant
    <2> QED BY <1>2, <2>2, <2>4, <2>5
  <1> QED BY <1>5, <1>6 DEF last

\* What the trips of such a day are finally paid: the weekday rate for their points,
\* and the premium for the last one if that is off-peak.
LEMMA DayFinals ==
    ASSUME PayoutInv, NEW day, SettledDay(day), NEW t \in OutOn(day),
           NEW points, points = StoredPoints(t),
           NEW w, w = trip[t].rates["weekday"], NEW o, o = trip[t].rates["offpeak"]
    PROVE  /\ points \in Nat /\ w \in Nat /\ o \in Nat /\ o - w \in Nat
           /\ t # LastOf(OutOn(day)) => trip[t].final = w * points
           /\ t = LastOf(OutOn(day)) =>
                 trip[t].final = w * points + (IF trip[t].offpeak = TRUE THEN o - w ELSE 0) * points
  <1>1. /\ t \in Trips /\ t \in Proposed /\ trip[t].status = "completed"
        /\ InstantsOf(t) # {} /\ \A at \in InstantsOf(t) : DayOf(at) = day
        /\ trip[t].rates \in Rates
    BY OfTheDay
  <1>2. w \in Nat /\ o \in Nat
    BY <1>1, RatesType, PaydayAssumption
  <1>3. 0 < w /\ w <= o /\ day \in Day
    BY DEF SettledDay, ApprovedAfterwards
  <1>4. trip[t].final = Payable(t)
    <2>1. Settled(t)
      BY <1>1 DEF PayoutInv
    <2>2. day \notin exempt /\ \A u \in OutOn(day) : trip[u].status # "cancelled"
      BY DEF SettledDay, ApprovedAfterwards
    <2> QED BY <1>1, <1>3, <2>1, <2>2 DEF Settled
  <1>5. /\ points \in Nat
        /\ trip[t].offpeak # None => trip[t].earned = points * (IF trip[t].offpeak THEN o ELSE w)
        /\ trip[t].earned \in points * w .. points * o
    BY <1>1, <1>3 DEF PayoutInv, PaidInv, Accounted, Proposed
  <1>6. trip[t].offpeak \in BOOLEAN \cup {None} /\ None \notin BOOLEAN
    BY <1>1, PaydayAssumption DEF PayoutInv, PaidInv, OrderInv, LedgerInv, TypeOK, Trip
  <1>7. CASE trip[t].offpeak = None
    <2>1. trip[t].earned = 0
      <3>1. ASSUME NEW s \in StopsOf(t), PayInstant(stop, s) # 0
            PROVE  DayOf(PayInstant(stop, s)) = day
        <4>1. PayInstant(stop, s) \in InstantsOf(t)
          BY <3>1 DEF PayInstant, InstantsOf
        <4> QED BY <1>1, <4>1
      <3>2. TierKnown(t)
        BY <1>1 DEF PayoutInv
      <3> QED BY <1>1, <1>7, <3>1, <3>2 DEF TierKnown, Proposed
    <2>2. points = 0
      BY <1>2, <1>3, <1>5, <2>1
    <2>3. trip[t].offpeak # TRUE
      BY <1>6, <1>7
    <2>4. trip[t].final = 0
      BY <1>4, <2>1, <2>3 DEF Payable
    <2> QED BY <1>2, <1>3, <2>2, <2>3, <2>4
  <1>8. CASE trip[t].offpeak = FALSE
    <2>1. trip[t].earned = points * w
      BY <1>5, <1>6, <1>8
    <2>2. trip[t].final = points * w
      BY <1>4, <1>8, <2>1 DEF Payable
    <2> QED BY <1>2, <1>3, <1>5, <1>8, <2>2
  <1>9. CASE trip[t].offpeak = TRUE
    <2>1. trip[t].earned = points * o
      BY <1>5, <1>6, <1>9
    <2>2. CASE t = LastOf(OutOn(day))
      <3>1. ~WentOutAgain(t)
        BY <2>2, WentOutOrNot DEF WentOutAgain
      <3>2. trip[t].final = points * o
        BY <1>4, <2>1, <3>1 DEF Payable
      <3>3. points * o = w * points + (o - w) * points
        BY <1>2, <1>5
      <3> QED BY <1>2, <1>3, <1>5, <1>9, <2>2, <3>2, <3>3
    <2>3. CASE t # LastOf(OutOn(day)) /\ Deliveries(t) # {}
      <3>1. WentOutAgain(t)
        BY <2>3, WentOutOrNot
      <3>2. trip[t].final = Min({trip[t].earned} \cup WeekdayEquivalents(t))
        BY <1>4, <1>9, <3>1 DEF Payable
      <3>3. Min({trip[t].earned} \cup WeekdayEquivalents(t)) = w * points
        BY <1>2, <1>3, <1>5, <2>1, Demoted
      <3> QED BY <1>2, <1>3, <1>5, <2>3, <3>2, <3>3
    <2>4. CASE t # LastOf(OutOn(day)) /\ Deliveries(t) = {}
      <3>1. trip[t].earned = 0 /\ ~WentOutAgain(t)
        BY <2>4 DEF SettledDay, ApprovedAfterwards, WentOutAgain
      <3>2. points = 0
        BY <1>2, <1>3, <1>5, <2>1, <3>1
      <3>3. trip[t].final = 0
        BY <1>4, <3>1 DEF Payable
      <3> QED BY <1>2, <1>3, <2>4, <3>2, <3>3
    <2> QED BY <2>2, <2>3, <2>4
  <1> QED BY <1>6, <1>7, <1>8, <1>9

\* A trip without a tap on a day is paid nothing for it.
LEMMA OfAnotherDay ==
    ASSUME OrderInv, NEW t \in Proposed, NEW day, \A at \in InstantsOf(t) : DayOf(at) # day
    PROVE  PaidFor(stop, t, day) = 0 /\ Halves(trip[t].pool, PaidFor(stop, t, day)) = 0
  <1>1. /\ Scorable(stop) /\ t \in Trips /\ trip[t].rates \in Rates
        /\ \A s \in Scored(stop) : /\ trip[TripOf[s]].status # "pending"
                                   /\ PayInstant(stop, s) \in Instants(stop, s)
    BY ScoredFacts
  <1>2. \A s \in DropsBefore(stop, t, day) : trip[TripOf[s]].status # "pending"
    BY <1>1 DEF DropsBefore
  <1>3. ASSUME NEW s \in DropsOf(stop, t, day) PROVE FALSE
    <2>1. s \in StopsOf(t) /\ s \in Scored(stop) /\ DayOf(PayInstant(stop, s)) = day
      BY <1>3 DEF DropsOf
    <2>2. PayInstant(stop, s) \in InstantsOf(t)
      BY <1>1, <2>1, TapsOfTrip
    <2> QED BY <2>1, <2>2
  <1>4. DropsOf(stop, t, day) = {}
    BY <1>3
  <1> QED BY <1>1, <1>2, <1>4, NothingForNothing

\* The points of a trip of such a day are what it is paid for the day.
LEMMA PointsOfTheDay ==
    ASSUME PayoutInv, OneTariff, NEW day, SettledDay(day), NEW t \in OutOn(day)
    PROVE  StoredPoints(t) = PaidDays(stop, t)[day]
  <1> DEFINE f == PaidDays(stop, t)
             pool == trip[t].pool
             c == [u \in ProposedIn(pool) |-> PaidDays(stop, u)[day]]
  <1>1. PaidInv /\ OrderInv /\ ~unwound /\ day \in Day /\ trip \in [Trips -> Trip]
    BY DEF PayoutInv, PaidInv, OrderInv, LedgerInv, TypeOK, SettledDay
  <1>2. t \in Trips /\ t \in Proposed /\ \A at \in InstantsOf(t) : DayOf(at) = day
    BY OfTheDay
  <1>3. StoredPoints(t) = SumFunctionOnSet(f, Day)
    BY <1>1, <1>2, PaidUnderOneTariff
  <1>4. \A d \in Day \ {day} : f[d] = 0
    <2>1. TAKE d \in Day \ {day}
    <2>2. \A at \in InstantsOf(t) : DayOf(at) # d
      BY <1>2
    <2> QED BY <1>1, <1>2, <2>2, OfAnotherDay DEF PaidDays
  <1>5. f[day] \in Int
    <2>1. pool \in Pools /\ t \in ProposedIn(pool)
      BY <1>1, <1>2 DEF Trip, ProposedIn
    <2>2. \A u \in ProposedIn(pool) : c[u] = PaidDays(stop, u)[day]
      OBVIOUS
    <2>3. c[t] = f[day]
      BY <2>1
    <2> HIDE DEF c, f
    <2>4. \A u \in ProposedIn(pool) : c[u] \in Int
      BY <1>1, <2>1, <2>2, DayAddsUp
    <2> QED BY <2>1, <2>3, <2>4
  <1> HIDE DEF f
  <1>6. SumFunctionOnSet(f, Day) = SumFunctionOnSet(f, {day})
    <2>1. IsFiniteSet(Day) /\ {day} \in SUBSET Day
      BY <1>1, RatesAssumption, FS_Interval DEF Day
    <2> QED BY <1>4, <1>5, <2>1, TotalOfRest
  <1>7. SumFunctionOnSet(f, {} \cup {day}) = f[day] + SumFunctionOnSet(f, {})
    <2>1. IsFiniteSet({}) /\ day \notin {} /\ \A i \in {} \cup {day} : f[i] \in Int
      BY <1>5, FS_EmptySet
    <2> QED BY <2>1, TotalAdd
  <1>8. SumFunctionOnSet(f, {}) = 0 /\ {} \cup {day} = {day}
    BY TotalEmpty
  <1>9. StoredPoints(t) = f[day]
    BY <1>3, <1>5, <1>6, <1>7, <1>8
  <1> QED BY <1>9 DEF f

\* The trips of such a day in a pool.
OutWith(day, pool) == {t \in OutOn(day) : trip[t].pool = pool}

\* At the weekday rates they come to what the day's drops of the pool come to.
LEMMA DayAtWeekdayRates ==
    ASSUME PayoutInv, OneTariff, NEW day, SettledDay(day), NEW pool, OutWith(day, pool) # {},
           NEW b, \A t \in OutOn(day) : b[t] = trip[t].rates["weekday"] * StoredPoints(t)
    PROVE  SumFunctionOnSet(b, OutWith(day, pool)) = RatesOf(pool)["weekday"] * DayPoints(day, pool)
  <1> DEFINE X == ProposedIn(pool)
             Y == OutWith(day, pool)
             c == [t \in X |-> PaidDays(stop, t)[day]]
             w == RatesOf(pool)["weekday"]
  <1>1. PaidInv /\ OrderInv /\ LedgerInv /\ ~unwound /\ day \in Day /\ trip \in [Trips -> Trip]
    BY DEF PayoutInv, PaidInv, OrderInv, LedgerInv, TypeOK, SettledDay
  <1>2. \A t \in Y : t \in OutOn(day) /\ t \in Trips /\ t \in Proposed /\ trip[t].pool = pool
    BY OfTheDay DEF OutWith
  <1>3. Y \in SUBSET X /\ X # {} /\ pool \in Pools /\ X \subseteq Trips
    <2>1. Y \in SUBSET X /\ X # {}
      BY <1>2 DEF ProposedIn
    <2> QED BY <1>1, <1>2, <2>1 DEF Trip, ProposedIn, Proposed
  <1>4. IsFiniteSet(X) /\ \A t \in X : trip[t].rates = RatesOf(pool)
    BY <1>1, <1>3, OneTariffOf
  <1>5. SumFunctionOnSet(c, X) = DayPoints(day, pool) /\ \A t \in X : c[t] \in Int
    <2>1. \A t \in ProposedIn(pool) : c[t] = PaidDays(stop, t)[day]
      OBVIOUS
    <2> HIDE DEF c
    <2> QED BY <1>1, <1>3, <2>1, DayAddsUp
  <1>6. \A t \in X \ Y : c[t] = 0
    <2>1. TAKE t \in X \ Y
    <2>2. t \in Proposed /\ t \in Trips /\ t \notin OutOn(day)
      BY DEF ProposedIn, Proposed, OutWith
    <2>3. \A at \in InstantsOf(t) : DayOf(at) # day
      BY <1>1, <2>2, TappedIsOut
    <2>4. Halves(trip[t].pool, PaidFor(stop, t, day)) = 0
      BY <1>1, <2>2, <2>3, OfAnotherDay
    <2> QED BY <1>1, <2>4 DEF PaidDays
  <1>7. w \in Int
    <2>1. PICK t \in Y : TRUE
      OBVIOUS
    <2>2. trip[t].rates \in Rates /\ trip[t].rates = RatesOf(pool)
      BY <1>1, <1>2, <1>3, <1>4, <2>1, ScoredFacts
    <2> QED BY <2>2, RatesType, PaydayAssumption
  <1>8. \A t \in Y : b[t] = c[t] * w
    <2>1. TAKE t \in Y
    <2>2. StoredPoints(t) = c[t]
      BY <1>2, <1>3, PointsOfTheDay
    <2>3. b[t] = w * c[t]
      BY <1>2, <1>3, <1>4, <2>2
    <2>4. c[t] \in Int
      BY <1>3, <1>5
    <2> HIDE DEF c, w
    <2> QED BY <1>7, <2>3, <2>4
  <1>9. IsFiniteSet(Y) /\ \A t \in Y : c[t] \in Int
    BY <1>3, <1>4, <1>5, FS_Subset
  <1>10. SumFunctionOnSet(c, X) \in Int
    <2> HIDE DEF c, X
    <2> QED BY <1>4, <1>5, TotalInt
  <1> HIDE DEF c, w, X, Y
  <1>11. SumFunctionOnSet(b, Y) = SumFunctionOnSet(c, Y) * w
    BY <1>7, <1>8, <1>9, TotalTimes
  <1>12. SumFunctionOnSet(c, X) = SumFunctionOnSet(c, Y)
    BY <1>3, <1>4, <1>6, <1>9, TotalOfRest
  <1>13. SumFunctionOnSet(b, Y) = w * DayPoints(day, pool)
    BY <1>5, <1>7, <1>10, <1>11, <1>12
  <1> QED BY <1>13 DEF w, Y

\* OvertimeOnce: for any number of trips and stops, a settled day's trips are finally
\* paid what its drops come to at the weekday rates and one premium, on the points of
\* the trip he came back from last.
THEOREM PremiumOnce == Spec => []OvertimeOnce
  <1>1. ASSUME PayoutInv PROVE OvertimeOnce
    <2> SUFFICES ASSUME NEW day \in Day, OutOn(day) # {}, ApprovedAfterwards(OutOn(day), day),
                        ~unwound, OneTariff
                 PROVE  LET last == LastOf(OutOn(day))
                            rates == trip[last].rates
                            premium == IF trip[last].offpeak = TRUE
                                       THEN rates["offpeak"] - rates["weekday"] ELSE 0
                        IN SumFunction([t \in OutOn(day) |-> trip[t].final]) =
                               SumFunction([pool \in {trip[t].pool : t \in OutOn(day)} |->
                                   RatesOf(pool)["weekday"] * DayPoints(day, pool)])
                                   + premium * StoredPoints(last)
      BY DEF OvertimeOnce
    <2> DEFINE S == OutOn(day)
               last == LastOf(S)
               rates == trip[last].rates
               premium == IF trip[last].offpeak = TRUE
                          THEN rates["offpeak"] - rates["weekday"] ELSE 0
               v == premium * StoredPoints(last)
               b == [t \in S |-> trip[t].rates["weekday"] * StoredPoints(t)]
               f == [t \in S |-> trip[t].final]
               p == [t \in S |-> trip[t].pool]
               C == {p[t] : t \in S}
               F == [pool \in C |-> RatesOf(pool)["weekday"] * DayPoints(day, pool)]
    <2>1. SettledDay(day)
      BY DEF SettledDay
    <2>2. IsFiniteSet(S)
      <3>1. S \subseteq Trips
        BY PaydayAssumption DEF OutOn
      <3> QED BY <3>1, PaydayAssumption, FS_Subset
    <2>3. last \in S
      BY <1>1, <2>1, LastOfDay
    <2>4. ASSUME NEW t \in S
          PROVE  /\ b[t] \in Int
                 /\ t # last => f[t] = b[t]
                 /\ t = last => f[t] = b[t] + v /\ v \in Int
      <3> DEFINE points == StoredPoints(t)
                 w == trip[t].rates["weekday"]
                 o == trip[t].rates["offpeak"]
      <3>1. /\ points \in Nat /\ w \in Nat /\ o \in Nat /\ o - w \in Nat
            /\ t # last => trip[t].final = w * points
            /\ t = last =>
                  trip[t].final = w * points + (IF trip[t].offpeak = TRUE THEN o - w ELSE 0) * points
        BY <1>1, <2>1, DayFinals
      <3>2. b[t] = w * points /\ f[t] = trip[t].final
        OBVIOUS
      <3>3. t = last => v = (IF trip[t].offpeak = TRUE THEN o - w ELSE 0) * points
        OBVIOUS
      <3>4. w * points \in Int /\ (o - w) * points \in Int /\ 0 * points \in Int
        BY <3>1
      <3> HIDE DEF b, f, v, w, o, points, last, S
      <3> QED BY <3>1, <3>2, <3>3, <3>4
    <2>5. SumFunctionOnSet(f, S) = SumFunctionOnSet(b, S) + v
      <3>1. (\A t \in S : b[t] \in Int) /\ (\A t \in S \ {last} : f[t] = b[t])
            /\ f[last] = b[last] + v /\ v \in Int
        BY <2>3, <2>4
      <3> HIDE DEF S, b, f, v, last
      <3> QED BY <2>2, <2>3, <3>1, TotalBump
    <2>6. IsFiniteSet(C)
      <3> HIDE DEF S, p
      <3> QED BY <2>2, FiniteImage
    <2>7. ASSUME NEW pool \in C PROVE F[pool] = SumFunctionOnSet(b, Fibre(S, p, pool))
      <3>1. Fibre(S, p, pool) = OutWith(day, pool) /\ OutWith(day, pool) # {}
        BY DEF Fibre, OutWith
      <3>2. \A t \in OutOn(day) : b[t] = trip[t].rates["weekday"] * StoredPoints(t)
        OBVIOUS
      <3>3. F[pool] = RatesOf(pool)["weekday"] * DayPoints(day, pool)
        OBVIOUS
      <3> HIDE DEF b, F
      <3> QED BY <1>1, <2>1, <3>1, <3>2, <3>3, DayAtWeekdayRates
    <2>8. SumFunctionOnSet(b, S) = SumFunctionOnSet(F, C)
      <3>1. \A t \in S : p[t] \in C /\ b[t] \in Int
        BY <2>4
      <3> HIDE DEF S, b, p, C, F
      <3> QED BY <2>2, <2>6, <2>7, <3>1, TotalByGroup
    <2>9. C = {trip[t].pool : t \in OutOn(day)}
      OBVIOUS
    <2>10. SumFunction(f) = SumFunctionOnSet(f, S) /\ SumFunction(F) = SumFunctionOnSet(F, C)
      BY DEF SumFunction
    <2>11. SumFunction(f) = SumFunction(F) + v
      BY <2>5, <2>8, <2>10
    <2> QED BY <2>9, <2>11
  <1> QED BY <1>1, PayoutInvariant, PTL

=============================================================================
