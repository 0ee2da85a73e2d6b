----------------------------- MODULE StagedRates -----------------------------
(***************************************************************************)
(* Pay rates with a next-day cutoff: an edit is staged for tomorrow, read  *)
(* through a merge once its day has come, and folded into the live columns *)
(* by a sweep that runs once a minute (services/pendingRates.ts; the       *)
(* editors in routes/trucks.ts and routes/rates.ts).                       *)
(*                                                                         *)
(* A row is a lorry, with its claim rates and daily deduction as fields,   *)
(* or a zone, whose destination rows are always staged together and have   *)
(* one field, the points.  The sweep reads the matured rows and then       *)
(* updates them one by one, so an edit may come in between.                *)
(***************************************************************************)
EXTENDS Naturals

CONSTANTS
    Rows,           \* lorries and zones
    Fields,         \* rate fields
    FieldsOf,       \* the fields a row has
    Values,         \* the values of a rate field
    Submitted,      \* those the office enters
    SpecOf,         \* the company's rate table, which the database is seeded from
    ResetRows,      \* the rows reset-rates covers: the lorries
    None,           \* a column that is null, a field that is not submitted
    LastDay,        \* bound: days
    MaxEdits        \* bound: edits of the office

Tariff == [Fields -> Values]
Staged == [Fields -> Values \cup {None}]
SubmissionTo(r) == [FieldsOf[r] -> Submitted \cup {None}]

ASSUME RatesAssumption ==
    /\ FieldsOf \in [Rows -> SUBSET Fields]
    /\ Submitted \subseteq Values
    /\ SpecOf \in [Rows -> Tariff]
    /\ ResetRows \subseteq Rows
    /\ None \notin Values \cup Tariff
    /\ LastDay \in Nat \ {0}
    /\ MaxEdits \in Nat

VARIABLES
    base,           \* the live columns of a row
    pending,        \* its pending_* columns
    effective,      \* pending_rates_effective, pending_points_effective; 0 is null
    today,          \* the MYT day
    sweep,          \* what the running sweep is about to write to each row it found
    edits,          \* edits so far
    promised,       \* ghost: the last value submitted for a field, and its first day
    tangled         \* ghost: rows edited after their staged day came, before the fold

rateVars == <<base, pending, effective, today, sweep, edits, promised, tangled>>

Day == 1 .. LastDay
NoSweep == [r \in Rows |-> None]

Matured(r, day) == effective[r] # 0 /\ effective[r] <= day

\* Mistake: a staged value counts from the moment it is entered.
Effective_Immediate(r, day) ==
    [f \in Fields |-> IF pending[r][f] # None THEN pending[r][f] ELSE base[r][f]]

\* effectiveTruckRates, effectiveZonePoints: the rates in force on a day.
Effective(r, day) ==
    [f \in Fields |->
        IF Matured(r, day) /\ pending[r][f] # None THEN pending[r][f] ELSE base[r][f]]

RatesInit ==
    /\ base = SpecOf
    /\ pending = [r \in Rows |-> [f \in Fields |-> None]]
    /\ effective = [r \in Rows |-> 0]
    /\ today = 1
    /\ sweep = NoSweep
    /\ edits = 0
    /\ promised = [r \in Rows |-> [f \in Fields |-> [value |-> SpecOf[r][f], from |-> 1]]]
    /\ tangled = {}

-----------------------------------------------------------------------------
\* Mistake: off by one day.
Submit_DayAfter(rows, edit) ==
    /\ pending' = [r \in Rows |->
                     IF r \notin rows THEN pending[r]
                     ELSE [f \in Fields |-> IF edit[r][f] = None THEN pending[r][f] ELSE edit[r][f]]]
    /\ effective' = [r \in Rows |-> IF r \in rows THEN today + 2 ELSE effective[r]]

\* The submitted fields of some rows are staged for tomorrow, with whatever
\* was staged before.
Submit(rows, edit) ==
    /\ pending' = [r \in Rows |->
                     IF r \notin rows THEN pending[r]
                     ELSE [f \in Fields |-> IF edit[r][f] = None THEN pending[r][f] ELSE edit[r][f]]]
    /\ effective' = [r \in Rows |-> IF r \in rows THEN today + 1 ELSE effective[r]]

\* What the answer of the editor tells the office.
Promise(rows, edit) ==
    /\ promised' = [r \in Rows |->
                      IF r \notin rows THEN promised[r]
                      ELSE [f \in Fields |->
                              IF edit[r][f] = None THEN promised[r][f]
                              ELSE [value |-> edit[r][f], from |-> today + 1]]]
    /\ tangled' = tangled \cup {r \in rows : Matured(r, today)}

Edit(rows, edit) ==
    /\ edits < MaxEdits
    /\ edits' = edits + 1
    /\ Submit(rows, edit)
    /\ Promise(rows, edit)
    /\ UNCHANGED <<base, today, sweep>>

\* PATCH /trucks/:plate/rates and PATCH /rates/destinations/:id.
EditRow(r, submission) ==
    /\ \E f \in FieldsOf[r] : submission[f] # None
    /\ Edit({r}, [u \in Rows |->
                    [f \in Fields |-> IF f \in FieldsOf[r] THEN submission[f] ELSE None]])

\* POST /trucks/reset-rates: the lorries whose rates will not be the table's
\* tomorrow are staged back to it.
ResetRates ==
    LET off == {r \in ResetRows : Effective(r, today + 1) # SpecOf[r]}
    IN off # {} /\ Edit(off, SpecOf)

-----------------------------------------------------------------------------
(* The maturation sweep (applyMaturedPendingRates).                        *)

SweepRead ==
    /\ sweep = NoSweep
    /\ sweep' = [r \in Rows |-> IF Matured(r, today) THEN Effective(r, today) ELSE None]
    /\ sweep' # NoSweep
    /\ UNCHANGED <<base, pending, effective, today, edits, promised, tangled>>

\* Mistake: the staging columns are cleared, the live ones not written.
Fold_KeepsBase(r) ==
    /\ UNCHANGED base
    /\ pending' = [pending EXCEPT ![r] = [f \in Fields |-> None]]
    /\ effective' = [effective EXCEPT ![r] = 0]

Fold(r) ==
    /\ base' = [base EXCEPT ![r] = sweep[r]]
    /\ pending' = [pending EXCEPT ![r] = [f \in Fields |-> None]]
    /\ effective' = [effective EXCEPT ![r] = 0]

SweepWrite(r) ==
    /\ sweep[r] # None
    /\ Fold(r)
    /\ sweep' = [sweep EXCEPT ![r] = None]
    /\ UNCHANGED <<today, edits, promised, tangled>>

\* The server restarts, or the database refuses an update.
SweepStops ==
    /\ sweep # NoSweep
    /\ sweep' = NoSweep
    /\ UNCHANGED <<base, pending, effective, today, edits, promised, tangled>>

Midnight ==
    /\ today < LastDay
    /\ today' = today + 1
    /\ UNCHANGED <<base, pending, effective, sweep, edits, promised, tangled>>

RatesNext ==
    \/ \E r \in Rows : \E submission \in SubmissionTo(r) : EditRow(r, submission)
    \/ ResetRates
    \/ SweepRead \/ SweepStops
    \/ \E r \in Rows : SweepWrite(r)
    \/ Midnight

RatesSpec == RatesInit /\ [][RatesNext]_rateVars

-----------------------------------------------------------------------------
\* The columns, the day and the sweep hold what the code can put there.
RatesTypeOK ==
    /\ base \in [Rows -> Tariff]
    /\ pending \in [Rows -> Staged]
    /\ effective \in [Rows -> 0 .. LastDay + 1]
    /\ today \in Day
    /\ sweep \in [Rows -> Tariff \cup {None}]
    /\ edits \in 0 .. MaxEdits
    /\ promised \in [Rows -> [Fields -> [value : Values, from : 1 .. LastDay + 1]]]
    /\ tangled \subseteq Rows

\* "A new rate takes effect the NEXT day, not immediately" and the sweep "only
\* keeps the DISPLAYED base columns fresh" (pendingRates.ts): the rates in
\* force change at midnight and at no other moment, whatever is edited, read
\* by the sweep or folded in the meantime; unless a row was edited between its
\* day's midnight and its fold, when the edit takes the matured values with it
\* into tomorrow.
RatesHoldAllDay ==
    [][today' = today =>
          \A r \in Rows \ tangled' : Effective(r, today)' = Effective(r, today)]_rateVars

\* The office's last value for every field is in force from the day the editor
\* answered it would be, whether or not a sweep has folded it, and whatever was
\* staged, folded or read by a sweep in between; under the same exception,
\* where the fold wipes the newer edit.
PromisesKept ==
    \A r \in Rows \ tangled : \A f \in FieldsOf[r] :
        today >= promised[r][f].from => Effective(r, today)[f] = promised[r][f].value

=============================================================================
