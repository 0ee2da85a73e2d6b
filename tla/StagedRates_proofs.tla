-------------------------- MODULE StagedRates_proofs --------------------------
(***************************************************************************)
(* For all rows, fields, values, days and numbers of edits: the rates in   *)
(* force hold all day, and an edit is in force when the office was told it *)
(* would be.                                                               *)
(*                                                                         *)
(* The argument is about one row that is not tangled.  What the sweep is   *)
(* about to write there is what is in force; and a field whose last value  *)
(* is for tomorrow, and no other, is staged in a row staged for tomorrow.  *)
(***************************************************************************)
EXTENDS StagedRates, TLAPS

\* A row that is not staged has nothing in its staging columns.
Clear == \A r \in Rows : effective[r] = 0 => \A f \in Fields : pending[r][f] = None

\* Nothing is staged for a later day than tomorrow.
Near == \A r \in Rows : effective[r] <= today + 1

\* What the sweep holds is in force.
SweepIsFresh ==
    \A r \in Rows \ tangled :
        sweep[r] # None => Matured(r, today) /\ sweep[r] = Effective(r, today)

\* A promise that has come is in force; one for tomorrow is what is staged.
Kept(r, f) ==
    IF promised[r][f].from <= today
    THEN /\ Effective(r, today)[f] = promised[r][f].value
         /\ effective[r] = today + 1 => pending[r][f] = None
    ELSE /\ promised[r][f].from = today + 1
         /\ effective[r] = today + 1
         /\ pending[r][f] = promised[r][f].value

AllKept == \A r \in Rows \ tangled : \A f \in Fields : Kept(r, f)

RatesInv == RatesTypeOK /\ Clear /\ Near /\ SweepIsFresh /\ AllKept

-----------------------------------------------------------------------------
\* An edit of some rows is well typed, if the submission is.
LEMMA EditType ==
    ASSUME RatesTypeOK, NEW rows \in SUBSET Rows, NEW edit \in [Rows -> Staged], Edit(rows, edit)
    PROVE  RatesTypeOK'
  <1> USE RatesAssumption DEF RatesTypeOK, Edit, Submit, Promise, Staged, Tariff, Day
  <1>1. pending' \in [Rows -> Staged]
    OBVIOUS
  <1>2. effective' \in [Rows -> 0 .. LastDay + 1]
    OBVIOUS
  <1>3. promised' \in [Rows -> [Fields -> [value : Values, from : 1 .. LastDay + 1]]]
    <2>1. \A r \in Rows \ rows : promised'[r] = promised[r]
      OBVIOUS
    <2>2. ASSUME NEW r \in rows
          PROVE  promised'[r] \in [Fields -> [value : Values, from : 1 .. LastDay + 1]]
      <3>1. \A f \in Fields : edit[r][f] # None => edit[r][f] \in Values
        OBVIOUS
      <3> QED BY <3>1
    <2> QED BY <2>1, <2>2
  <1>4. edits' \in 0 .. MaxEdits
    OBVIOUS
  <1>5. tangled' \subseteq Rows
    OBVIOUS
  <1> QED BY <1>1, <1>2, <1>3, <1>4, <1>5

\* Every edit the office can make is of some rows, with a well-typed submission.
LEMMA EditForms ==
    ASSUME \/ \E r \in Rows : \E submission \in SubmissionTo(r) : EditRow(r, submission)
           \/ ResetRates
    PROVE  \E rows \in SUBSET Rows : \E edit \in [Rows -> Staged] : Edit(rows, edit)
  <1>1. CASE ResetRates
    <2>1. SpecOf \in [Rows -> Staged]
      BY RatesAssumption DEF Tariff, Staged
    <2> QED BY <1>1, <2>1, RatesAssumption DEF ResetRates
  <1>2. CASE \E r \in Rows : \E submission \in SubmissionTo(r) : EditRow(r, submission)
    <2>1. PICK r \in Rows : \E submission \in SubmissionTo(r) : EditRow(r, submission)
      BY <1>2
    <2>2. PICK submission \in SubmissionTo(r) : EditRow(r, submission)
      BY <2>1
    <2> DEFINE edit == [u \in Rows |-> [f \in Fields |-> IF f \in FieldsOf[r] THEN submission[f] ELSE None]]
    <2>3. edit \in [Rows -> Staged]
      BY RatesAssumption DEF SubmissionTo, Staged
    <2>4. Edit({r}, edit)
      BY <2>2 DEF EditRow
    <2>5. {r} \in SUBSET Rows
      OBVIOUS
    <2> HIDE DEF edit
    <2> QED BY <2>3, <2>4, <2>5
  <1> QED BY <1>1, <1>2

\* An edit leaves the rates in force today as they are, unless it tangles.
LEMMA EditHolds ==
    ASSUME RatesTypeOK, NEW rows \in SUBSET Rows, NEW edit \in [Rows -> Staged],
           Edit(rows, edit), NEW r \in Rows \ tangled'
    PROVE  /\ r \notin tangled
           /\ Effective(r, today)' = Effective(r, today)
           /\ r \in rows => ~Matured(r, today)
  <1>1. r \notin tangled /\ (r \in rows => ~Matured(r, today))
    BY DEF Edit, Promise
  <1>2. CASE r \notin rows
    BY <1>1, <1>2 DEF Edit, Submit, Effective, Matured, RatesTypeOK
  <1>3. CASE r \in rows
    <2>1. effective'[r] = today + 1 /\ today' = today /\ today \in Nat
      BY <1>3 DEF Edit, Submit, RatesTypeOK, Day
    <2>2. ~Matured(r, today)'
      BY <2>1 DEF Matured
    <2> QED BY <1>1, <1>3, <2>2 DEF Edit, Effective
  <1> QED BY <1>1, <1>2, <1>3

\* At first nothing is staged, and the promises are the table's.
LEMMA InitInv == RatesInit => RatesInv
  <1> SUFFICES ASSUME RatesInit PROVE RatesInv
    OBVIOUS
  <1> USE RatesAssumption DEF RatesInit
  <1>1. RatesTypeOK
    BY DEF RatesTypeOK, Tariff, Staged, Day, NoSweep
  <1>2. Clear /\ Near
    BY DEF Clear, Near
  <1>3. SweepIsFresh
    BY DEF SweepIsFresh, NoSweep
  <1>4. AllKept
    BY DEF AllKept, Kept, Effective, Matured, Tariff
  <1> QED BY <1>1, <1>2, <1>3, <1>4 DEF RatesInv

\* An edit preserves the invariant.
LEMMA EditInv ==
    ASSUME RatesInv, NEW rows \in SUBSET Rows, NEW edit \in [Rows -> Staged], Edit(rows, edit)
    PROVE  RatesInv'
  <1> USE DEF RatesInv
  <1>1. RatesTypeOK'
    BY EditType
  <1>2. Clear' /\ Near'
    BY DEF Edit, Submit, Clear, Near, RatesTypeOK, Day
  <1>3. SweepIsFresh'
    <2> SUFFICES ASSUME NEW r \in Rows \ tangled', sweep'[r] # None
                 PROVE  Matured(r, today)' /\ sweep'[r] = Effective(r, today)'
      BY DEF SweepIsFresh
    <2>1. r \notin tangled /\ Effective(r, today)' = Effective(r, today) /\ (r \in rows => ~Matured(r, today))
      BY EditHolds
    <2>2. sweep'[r] = sweep[r] /\ Matured(r, today) /\ sweep[r] = Effective(r, today)
      BY <2>1 DEF SweepIsFresh, Edit
    <2>3. effective'[r] = effective[r] /\ today' = today
      BY <2>1, <2>2 DEF Edit, Submit, RatesTypeOK
    <2> QED BY <2>1, <2>2, <2>3 DEF Matured
  <1>4. AllKept'
    <2> SUFFICES ASSUME NEW r \in Rows \ tangled', NEW f \in Fields
                 PROVE  Kept(r, f)'
      BY DEF AllKept
    <2>1. r \notin tangled /\ Effective(r, today)' = Effective(r, today) /\ (r \in rows => ~Matured(r, today))
      BY EditHolds
    <2>2. Kept(r, f)
      BY <2>1 DEF AllKept
    <2>3. CASE r \notin rows
      BY <2>1, <2>2, <2>3 DEF Kept, Edit, Submit, Promise, RatesTypeOK
    <2>4. CASE r \in rows
      <3>1. /\ effective'[r] = today + 1 /\ today' = today
            /\ pending'[r][f] = IF edit[r][f] = None THEN pending[r][f] ELSE edit[r][f]
            /\ promised'[r][f] = IF edit[r][f] = None THEN promised[r][f]
                                 ELSE [value |-> edit[r][f], from |-> today + 1]
        BY <2>4 DEF Edit, Submit, Promise, RatesTypeOK
      <3>2. effective[r] = 0 \/ effective[r] = today + 1
        BY <2>1, <2>4 DEF Matured, Near, RatesTypeOK, Day
      <3>3. today \in Nat /\ promised[r][f].from \in Nat
        BY DEF RatesTypeOK, Day
      <3>4. CASE edit[r][f] = None
        <4>1. promised'[r][f] = promised[r][f] /\ pending'[r][f] = pending[r][f]
          BY <3>1, <3>4
        <4>2. CASE promised[r][f].from <= today
          <5>1. pending[r][f] = None
            BY <2>2, <3>2, <4>2 DEF Kept, Clear
          <5> QED BY <2>1, <2>2, <3>1, <4>1, <4>2, <5>1 DEF Kept
        <4>3. CASE ~(promised[r][f].from <= today)
          BY <2>2, <3>1, <4>1, <4>3 DEF Kept
        <4> QED BY <4>2, <4>3
      <3>5. CASE edit[r][f] # None
        BY <3>1, <3>3, <3>5 DEF Kept
      <3> QED BY <3>4, <3>5
    <2> QED BY <2>3, <2>4
  <1> QED BY <1>1, <1>2, <1>3, <1>4

\* A fold preserves the invariant, and the rates in force.
LEMMA FoldInv ==
    ASSUME RatesInv, NEW r \in Rows, SweepWrite(r)
    PROVE  RatesInv' /\ \A u \in Rows \ tangled : Effective(u, today)' = Effective(u, today)
  <1> USE DEF RatesInv
  <1>1. /\ base' = [base EXCEPT ![r] = sweep[r]]
        /\ pending' = [pending EXCEPT ![r] = [f \in Fields |-> None]]
        /\ effective' = [effective EXCEPT ![r] = 0]
        /\ sweep' = [sweep EXCEPT ![r] = None]
        /\ sweep[r] # None
        /\ UNCHANGED <<today, edits, promised, tangled>>
    BY DEF SweepWrite, Fold
  <1>2. RatesTypeOK'
    BY <1>1, RatesAssumption DEF RatesTypeOK, Staged
  <1>3. Clear' /\ Near'
    BY <1>1 DEF Clear, Near, RatesTypeOK, Day
  <1>4. ASSUME NEW u \in Rows \ {r}
        PROVE  /\ Effective(u, today)' = Effective(u, today)
               /\ effective'[u] = effective[u] /\ pending'[u] = pending[u] /\ sweep'[u] = sweep[u]
    BY <1>1 DEF Effective, Matured, RatesTypeOK
  <1>5. ~Matured(r, today)' /\ base'[r] = sweep[r] /\ effective'[r] = 0 /\ sweep'[r] = None
    BY <1>1 DEF Matured, RatesTypeOK
  <1>6. ASSUME r \notin tangled
        PROVE  Effective(r, today)' = Effective(r, today)
    <2>1. sweep[r] = Effective(r, today)
      BY <1>1, <1>6 DEF SweepIsFresh
    <2>2. Effective(r, today)' = [f \in Fields |-> sweep[r][f]]
      BY <1>5 DEF Effective
    <2>3. sweep[r] = [f \in Fields |-> sweep[r][f]]
      BY <1>1 DEF RatesTypeOK, Tariff
    <2> QED BY <2>1, <2>2, <2>3
  <1>7. SweepIsFresh'
    <2> SUFFICES ASSUME NEW u \in Rows \ tangled', sweep'[u] # None
                 PROVE  Matured(u, today)' /\ sweep'[u] = Effective(u, today)'
      BY DEF SweepIsFresh
    <2>1. u # r /\ u \notin tangled
      BY <1>1, <1>5
    <2> QED BY <1>1, <1>4, <2>1 DEF SweepIsFresh, Matured
  <1>8. AllKept'
    <2> SUFFICES ASSUME NEW u \in Rows \ tangled', NEW f \in Fields
                 PROVE  Kept(u, f)'
      BY DEF AllKept
    <2>1. Kept(u, f) /\ u \notin tangled
      BY <1>1 DEF AllKept
    <2>2. CASE u # r
      BY <1>1, <1>4, <2>1, <2>2 DEF Kept
    <2>3. CASE u = r
      <3>1. effective[r] <= today /\ today \in Nat /\ effective[r] \in Nat
        BY <1>1, <2>1, <2>3 DEF SweepIsFresh, Matured, RatesTypeOK, Day
      <3>2. promised[r][f].from <= today
        BY <2>1, <2>3, <3>1 DEF Kept
      <3> QED BY <1>1, <1>5, <1>6, <2>1, <2>3, <3>1, <3>2 DEF Kept
    <2> QED BY <2>2, <2>3
  <1> QED BY <1>1, <1>2, <1>3, <1>4, <1>6, <1>7, <1>8

\* Midnight preserves the invariant: what was promised for tomorrow is in force.
LEMMA MidnightInv == RatesInv /\ Midnight => RatesInv'
  <1> SUFFICES ASSUME RatesInv, Midnight PROVE RatesInv'
    OBVIOUS
  <1> USE DEF RatesInv
  <1>1. /\ today' = today + 1 /\ today \in Nat /\ today < LastDay
        /\ UNCHANGED <<base, pending, effective, sweep, edits, promised, tangled>>
    BY DEF Midnight, RatesTypeOK, Day
  <1>2. RatesTypeOK'
    BY <1>1, RatesAssumption DEF RatesTypeOK, Day
  <1>3. Clear' /\ Near'
    BY <1>1 DEF Clear, Near, RatesTypeOK
  <1>4. ASSUME NEW r \in Rows, Matured(r, today)
        PROVE  Matured(r, today)' /\ Effective(r, today)' = Effective(r, today)
    BY <1>1, <1>4 DEF Matured, Effective, RatesTypeOK
  <1>5. SweepIsFresh'
    BY <1>1, <1>4 DEF SweepIsFresh
  <1>6. AllKept'
    <2> SUFFICES ASSUME NEW r \in Rows \ tangled, NEW f \in Fields
                 PROVE  Kept(r, f)'
      BY <1>1 DEF AllKept
    <2>1. Kept(r, f)
      BY DEF AllKept
    <2>2. effective[r] \in Nat /\ promised[r][f].from \in Nat /\ promised[r][f].value \in Values
      BY DEF RatesTypeOK
    <2>3. promised[r][f].from <= today + 1 /\ effective'[r] # today' + 1
      <3>1. effective[r] <= today + 1
        BY DEF Near
      <3> QED BY <1>1, <2>1, <2>2, <3>1 DEF Kept
    <2>4. Effective(r, today)'[f] = promised[r][f].value
      <3>1. CASE promised[r][f].from <= today /\ Matured(r, today)
        BY <1>4, <2>1, <3>1 DEF Kept
      <3>2. CASE promised[r][f].from <= today /\ ~Matured(r, today)
        <4>1. pending[r][f] = None
          BY <1>1, <2>1, <2>2, <3>2 DEF Kept, Matured, Near, Clear
        <4> QED BY <1>1, <2>1, <3>2, <4>1 DEF Kept, Effective
      <3>3. CASE ~(promised[r][f].from <= today)
        <4>1. Matured(r, today)'
          BY <1>1, <2>1, <3>3 DEF Kept, Matured
        <4>2. pending'[r][f] = promised[r][f].value /\ pending'[r][f] # None
          BY <1>1, <2>1, <2>2, <3>3, RatesAssumption DEF Kept
        <4> QED BY <4>1, <4>2 DEF Effective
      <3> QED BY <3>1, <3>2, <3>3
    <2> QED BY <1>1, <2>3, <2>4 DEF Kept
  <1> QED BY <1>2, <1>3, <1>5, <1>6

\* So do the sweep's other steps, and a stutter; the rates in force stay.
LEMMA SweepInv ==
    ASSUME RatesInv, SweepRead \/ SweepStops \/ UNCHANGED rateVars
    PROVE  RatesInv' /\ \A r \in Rows : Effective(r, today)' = Effective(r, today)
  <1> USE DEF RatesInv
  <1>1. UNCHANGED <<base, pending, effective, today, edits, promised, tangled>>
    BY DEF SweepRead, SweepStops, rateVars
  <1>2. \A r \in Rows : Effective(r, today)' = Effective(r, today) /\ Matured(r, today)' = Matured(r, today)
    BY <1>1 DEF Effective, Matured
  <1>3. RatesTypeOK'
    <2>1. \A r \in Rows : Effective(r, today) \in Tariff
      BY DEF RatesTypeOK, Effective, Tariff, Staged
    <2>2. sweep' \in [Rows -> Tariff \cup {None}]
      BY <2>1 DEF SweepRead, SweepStops, rateVars, NoSweep, RatesTypeOK
    <2> QED BY <1>1, <2>2 DEF RatesTypeOK
  <1>4. Clear' /\ Near' /\ AllKept'
    BY <1>1, <1>2 DEF Clear, Near, AllKept, Kept
  <1>5. SweepIsFresh'
    BY <1>1, <1>2 DEF SweepIsFresh, SweepRead, SweepStops, rateVars, NoSweep
  <1> QED BY <1>2, <1>3, <1>4, <1>5

\* Every step preserves the invariant, and the rates in force all day.
LEMMA StepInv ==
    ASSUME RatesInv, [RatesNext]_rateVars
    PROVE  /\ RatesInv'
           /\ today' = today =>
                \A r \in Rows \ tangled' : Effective(r, today)' = Effective(r, today)
  <1>1. CASE \/ \E r \in Rows : \E submission \in SubmissionTo(r) : EditRow(r, submission)
             \/ ResetRates
    <2>1. PICK rows \in SUBSET Rows, edit \in [Rows -> Staged] : Edit(rows, edit)
      BY <1>1, EditForms
    <2>2. RatesTypeOK
      BY DEF RatesInv
    <2> QED BY <2>1, <2>2, EditInv, EditHolds
  <1>2. CASE SweepRead \/ SweepStops \/ UNCHANGED rateVars
    BY <1>2, SweepInv
  <1>3. ASSUME NEW r \in Rows, SweepWrite(r)
        PROVE  /\ RatesInv'
               /\ \A u \in Rows \ tangled' : Effective(u, today)' = Effective(u, today)
    <2>1. tangled' = tangled
      BY <1>3 DEF SweepWrite
    <2> QED BY <1>3, <2>1, FoldInv
  <1>4. CASE Midnight
    <2>1. today' # today
      BY <1>4 DEF Midnight, RatesInv, RatesTypeOK, Day
    <2> QED BY <1>4, <2>1, MidnightInv
  <1> QED BY <1>1, <1>2, <1>3, <1>4 DEF RatesNext

-----------------------------------------------------------------------------
\* The invariant, and with it the types of the columns, hold of every
\* behaviour of the editors, the sweep and the clock (pendingRates.ts).
THEOREM RatesInvariant == RatesSpec => []RatesInv
  <1>1. RatesInv /\ [RatesNext]_rateVars => RatesInv'
    BY StepInv
  <1> QED BY <1>1, InitInv, PTL DEF RatesSpec

\* The columns, the day and the sweep are well typed.
THEOREM RatesTypeSafety == RatesSpec => []RatesTypeOK
  <1>1. RatesInv => RatesTypeOK
    BY DEF RatesInv
  <1> QED BY <1>1, RatesInvariant, PTL

\* The rates in force change at midnight and at no other moment, rows edited
\* between their day and its fold excepted (effectiveTruckRates).
THEOREM HoldAllDay == RatesSpec => RatesHoldAllDay
  <1>1. RatesInv /\ [RatesNext]_rateVars =>
          [today' = today =>
             \A r \in Rows \ tangled' : Effective(r, today)' = Effective(r, today)]_rateVars
    BY StepInv
  <1> QED BY <1>1, RatesInvariant, PTL DEF RatesSpec, RatesHoldAllDay

\* Every edit is in force from the day the office was told, whatever the sweep
\* has done (applyMaturedPendingRates), with the same exception.
THEOREM PromisesAreKept == RatesSpec => []PromisesKept
  <1>1. RatesInv => PromisesKept
    <2> SUFFICES ASSUME RatesInv, NEW r \in Rows \ tangled, NEW f \in FieldsOf[r],
                        today >= promised[r][f].from
                 PROVE  Effective(r, today)[f] = promised[r][f].value
      BY DEF PromisesKept
    <2>1. f \in Fields
      BY RatesAssumption
    <2>2. today \in Nat /\ promised[r][f].from \in Nat
      BY <2>1 DEF RatesInv, RatesTypeOK, Day
    <2>3. Kept(r, f)
      BY <2>1 DEF RatesInv, AllKept
    <2> QED BY <2>2, <2>3 DEF Kept
  <1> QED BY <1>1, RatesInvariant, PTL

=============================================================================
