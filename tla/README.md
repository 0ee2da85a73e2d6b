# UWC Fleet: a verification of the trip life cycle

UWC Fleet books, dispatches, tracks and pays lorry trips. This directory holds
TLA+ models of the parts of it where several people, timers and phones write
the same rows, the TLC configurations that check them on small instances, and
TLAPS proofs of the invariants for every instance. Paths below are relative to
the repository.

## 1. The system

One Express server (`api/`) over one PostgreSQL database, one Expo client
(`mobile/`) for three roles, and two timers inside the server. Everything that
lasts is in the database or in a phone's storage; processes interact only
through the database, through HTTP calls that may be repeated or lost, and
through queues on the driver's phone.

| Component | State | Operations | What makes it hard | Modelled |
|---|---|---|---|---|
| Trip delivery and approval (`routes/trips.ts`, `services/tripCompletion.ts`, `tripFinalize.ts`, `undeliveredPay.ts`) | `Trip.status`, `driver_id`, `open_exception_id`, `incentive_earned`, `incentive_final`; `TripStop.status`, `arrived_at`, `delivered_at`, `points_awarded` | start, arrived, delivered, undo, abort, reassign, approve-incentive | four finishing paths, an undo that crosses a finalization, approval that reads outside its write | `TripDelivery` |
| Failed-delivery reports (`services/exceptionWorkflow.ts`, `routes/exceptions.ts`) | `TripException.current_state`, `resolution`, its actions; the trip's blocking pointer | report, evidence, continue, request more, verify, reject, resume, resolve | several open reports on one trip, closed in any order; the review decides pay | `ExceptionWorkflow`, `TripDelivery` |
| Dispatch (`routes/trips.ts`, `services/tripAssignment.ts`, `dispatchEngine.ts`) | `Trip.status`, `driver_id`/`truck_plate`, `pickup_datetime`, cargo, `auto_dispatch_paused`, `auto_dispatch_failed` | book, edit, approve, reassign, unassign, outsource, reject, cancel, auto-dispatch | requests that read, wait and write; an engine that competes with the office | `TripAssignment` |
| Sweeps (`services/pendingTripAlerts.ts`, `staleTicketSweep.ts`) | lists held across awaits | retry, flag as expired, alert; cancel yesterday's trips at 3am | act on lists read earlier; lost at a restart | `TripAssignment` |
| Booking requests and change requests (`routes/trips.ts` 425-1013, 2498-2928) | `Trip.client_request_id`; `TripChangeRequest` | book, retry, edit, propose, supersede, withdraw, approve, reject | retries that race the attempt they repeat; an approval that applies an old proposal outside Serializable | `BookingDesk` |
| Rates (`services/rateSnapshot.ts`, `pendingRates.ts`) | current and staged rates, snapshots on trips | stage, merge, mature, fold, reset, snapshot, release | a cutoff at midnight against a sweep a minute later and trips in flight | `StagedRates`, `Payday` |
| Day ledger, incentive engine, last-trip overtime (`services/incentiveEngine.ts`, `dayLedger.ts`, `tripFinalize.ts`, `lastTripOt.ts`) | none of its own: computed from a day's stops, stored on trip and stops | score drops, first-drop rule, daily deduction, interplant halving, rate tier, demotion at approval | depends on what else the driver did that day and when each trip was finalized | `Payday` |
| Delivery outbox (`mobile/src/lib/podOutbox*.ts`, `hooks/usePodOutbox.ts`) | one JSON list in phone storage | enqueue, tidy up, flush, checkpoint, quarantine | lost answers, kills during a flush, a tap during a flush, storage that fails | `HandsetOutbox` |
| Dispatch guards (`services/operatingWindow.ts`, `schedulingConflict.ts`, `truckEligibility.ts`, `driverLeave.ts`, `lib/bookingCutoff.ts`) | none | predicates | rules written twice, once for the office and once for the engine; windows past midnight | `DispatchGuards`; as refusals in `TripAssignment` |
| Report outbox, location queue, sign-in, adjustments and payroll, users, trucks, consignees, settings, notifications, reports, user interface, seeds and scripts | queues, records | plain reads and writes | - | no: see section 8 |

## 2. The modules

    ExceptionWorkflow    the report's state machine (pure)
      ^ EXTENDS
    TripDelivery         from assignment to the approved incentive
      ^ TripRefinement         the mapping to TripContract
          ^ MCTripDelivery         instances
          ^ TripDelivery_proofs    theorems, the refinement among them
    TripContract         what delivery promises: out, back, owed, paid once
    TripAssignment       from booking to the road, with the engine and the sweeps
      ^ MCTripAssignment       instances
      ^ TripAssignment_proofs  theorems (with Totals_proofs)
    DispatchGuards       operating hours, conflicts, roadworthiness, cut-offs (pure)
      ^ DispatchGuards_proofs  theorems
    StagedRates          rates with a next-day cutoff, and the sweep that folds them
      ^ StagedRates_proofs     theorems
      ^ BookingDesk            bookings, retries, changes, priced by staged points
          ^ MCBookingDesk          instance
          ^ BookingDesk_proofs     theorems (with StagedRates_proofs, Totals_proofs)
      ^ Payday                 a driver's days: snapshots, ledger, proposal, approval
          ^ MCPayday               instance
          ^ Payday_proofs          theorems (with StagedRates_proofs, Totals_proofs)
    HandsetOutbox        the phone's queue of taps and photos against the server
      ^ MCHandsetOutbox        instances
      ^ HandsetOutbox_proofs   theorems
    Totals_proofs        lemmas about sums over finite sets, for the others

Operators are named after the function or the handler they stand for and carry
its name in a comment. An operator whose comment begins with *Mistake* is a
plausible wrong version of the one below it. It is not part of the model; the
properties are shown to detect it when it replaces the right one.

### TripDelivery

One action is one transaction. Handlers that take the trip's row lock
(`lockTripRow`), that run Serializable, or that compare and set one row re-read
what they decide on, so nothing can come between their reads and their writes.
A report's `version` column makes each review action atomic although its first
read is outside. `approve-incentive` is the exception: it reads the proposal,
checks the request and writes later, so it is `ReadForApproval` and
`ApproveOrRefuse`, with any step of anyone in between.

- *Money* is the set of stops an amount was computed from. That is what
  separates right from wrong here: who is paid for which stop. Rates, points
  per zone and the day's deduction do not change which stops are in.
- *Time* is the age of a tap: `"never"`, `"fresh"` (within the two-minute
  undo window), `"old"`. Ages advance only while a trip can be undone; nothing
  reads them elsewhere.
- `Propose` is `proposeDeliveredStopsIncentive` with its compare-and-set
  `proposeTripIncentiveOnce` (`CanPropose`); it is reached from the last
  delivery, from a closing review and from abort, with the guards of each.
- `Outstanding` (what the driver still owes) and `Earning` (what he is paid
  for) differ on purpose: a rejected report closes a stop without paying it.
- Left out: the document gate of the delivered tap (a refusal), truck capacity
  and the like (refusals; see TripAssignment), notifications and audit rows.
  Requests refused with an error change nothing and are not steps.

### TripAssignment

Here the unit is a read or a write, because several handlers keep what they
read across a wait:

- `approve` and `reassign` read pickup, status and driver before their
  Serializable transaction and use the pickup in it (`ReadForApproval`,
  `Approve`). Inside, cargo and the lorry's other trips are read afresh.
- an automatic attempt reads the booking (`Begin`), claims inside its own
  Serializable transaction (`AutoAssign`), and writes a failure after it
  (`FindNone`, then `WriteFailure`). It may lose to a serialization conflict,
  a faster claim or a restart (`LoseAttempt`).
- the alert sweep collects expired bookings, awaits pushes, then flags them
  (`FindExpired`, `FlagExpired`); the 3am sweep lists and then cancels one by
  one (`FindStale`, `CancelStale`). A restart forgets both (`LoseSweep`).

A driver stands for the pair of driver and lorry: approve and reassign refuse a
pair that is not seated together, and the engine picks lorries with their
driver. Days stand for pickup times, which is the grain of the capacity rule.
The rest of the guard ladder is `Refuse` and `FindNone`, which may always
happen. A status column that holds `rejected` is `cancelled` here, and
everything after the road is `done`; TripDelivery has that part in full.

### DispatchGuards

The predicates behind those refusals, as operators of the same names. They keep
no state, so there is nothing to run: what they promise is a theorem about each.
An instant is a number of milliseconds on the Malaysian clock, a day its date's
number. Two rules exist twice in the code, and both forms are here:
`OfficeConflicts` and `EligibleCandidates` (the office's check and the engine's
query), `truckExpiryIssues` and `roadworthyWhere`. An estimate's minutes per
stop are not summed here: a run is its pickup and its estimated completion.

### TripContract

The abstract specification: a trip waits, goes out, comes back with exactly
what is earned at that moment owed, is paid once or sent back out before that,
and ends unpaid only with nothing earned. `TripRefinement` maps a delivery to
it: the statuses fall into five phases, `earned` is what the trip's stops and
reviewed reports earn now, `owed` is the stored proposal and `paid` the final
amount. That every behaviour of TripDelivery is one of the contract is checked
by TLC on one trip and proved for any number.

### StagedRates

A row is a lorry (claim rates, deduction) or a zone (points); an edit merges
into the row's staging columns for tomorrow. `Effective` is the merge every
reader goes through, `SweepRead` and `SweepWrite` the minute's sweep, which
reads the matured rows and folds them one at a time, with edits in between. The
ghost `promised` is what the editor answered: value and first day, per field.
`tangled` holds the rows edited between their staged day's midnight and its
fold, when the code takes the matured value along to tomorrow or wipes the newer
one (section 7, b); the properties except them.

### Payday

EXTENDS StagedRates with one driver's trips on one lorry. `Assign` takes the
snapshots; the taps, reviews, undo and abort move the stops; `Becomes` is the
proposal with its breakdown; `Approve` applies the last-trip rule. Instants are
tap numbers, so a day, an order and the two-minute window can be read off them.
The ledger is what `priorDeliveredDropsWhere` selects: delivered drops and those
scored undelivered, of trips in three statuses, of the same pool of work, before
the group's anchor. Amounts are in halves, because interplant work is paid by
the half point. One trip is out at a time. Two ghosts say what the properties
except: `unwound`, that a delivery was undone after the driver had gone on
(section 7, a), and `exempt`, the days tapped or undone after one of their trips
was approved, or approved at an amount of the admin's own. An own amount that
equals the proposal is stored like an approval by the rules
(`routes/trips.ts`, approve-incentive), so the trip's columns alone do not tell.

### BookingDesk

EXTENDS StagedRates; a row is a zone. A booking request is a read of its key
and a create; a change request a read outside and a write under the row's lock;
an approval two steps under that lock, checks and claim; an assignment begins
and commits, and fails if what it read was written by another Serializable one.
Answers may be lost at any time and the server may restart. `overlapped` marks
runs in which an approval overlapped another decision: capacity is checked at
READ COMMITTED there and may be exceeded (section 7, i). `folded` marks zones
whose points of a later day were folded after a trip's assignment (7, f).

### HandsetOutbox

Two threads on one phone share the stored list: the screen, one tap at a time,
and the flush. Each reads, works and writes, so each is several steps; a write
that empties the list comes after the erase guard's look at the storage, a step
of its own (`ScreenErases`, `CheckpointErases`); storage operations fail, requests are lost on the way out or back, the app is killed
between any two steps. `mergeOutboxItem`, `reconcileOutboxAfterFlush` and the
erase guard are operators of the same names; `FlushCommitted`, `FlushRefused`,
`FlushUnanswered`, `FlushOrphaned` are the outcomes of the request in hand. The
server is its answers to three requests, driven by `ReportOpens`, `TripEnds`
and the requests that reach it.

Two ghosts. `saved` is what the driver was told is kept and nothing has given up
since; every stored tap enters it. `missed` is what of that the flush under way
may not know of: taps on any stop stored after its checkpoint re-read the list
and before it wrote, and taps stored into an item it has in hand. A checkpoint
that writes a list without a missed tap takes it out of `saved`: the code loses
that tap, which is the finding of section 6. Nothing else excuses a checkpoint:
a missed tap that no checkpoint overwrites stays in `saved`.

## 3. The runs

| Run | Instance | Checks |
|---|---|---|
| `delivery_one_trip` | 1 trip, 2 stops, 2 drivers, 2 reports, 1 approval in flight (317k states) | types; `BlockerIsOpen`; `ScoredMatchesProposal`; `DeliveredIsProposed`; `UnpaidExitOwesNothing`; implements TripContract |
| `delivery_two_trips` | 2 trips of 1 stop, 1 driver, 1 report, 2 approvals in flight (234k) | `CompletedIsFinal`; liveness `StartedTripComesBack` |
| `assignment_two_lorries` | 2 bookings that each fill a lorry, 2 lorries, 2 days, 1 office request, 1 automatic attempt, both sweeps (1.9M) | types; `DriverFollowsStatus`; `LorryFits`; `PinnedStaysManual`; `NeverCancelledOnTheRoad` |
| `assignment_persistence` | 1 booking, 2 sizes, 1 lorry, 2 attempts, 1 office request (97k) | liveness `NoBookingForgotten` |
| `payday` | 2 trips with 3 stops, 2 zones, 2 taps a day, up to 3 days and 2 edits (95k) | types; `PromisesKept`; `RatesHoldAllDay`; `OneTariffADay`; `OneFirstDropPerZone`; `DayTotal`; `StoredPointsAgree`; `OvertimeOnce` |
| `booking_desk` | 2 bookings, 2 keys, 2 calls, 2 change requests, 2 days, 1 edit (105k) | types; `OneTripPerBooking`; `LorryFits`; `OneEraPerTrip`; `NoLostEdit`; `ChangesAreDecided`; `LockedPrices` |
| `handset_offline` | 2 stops, 3 taps, a budget of 2 refusals (371k) | types; `NoTapVanishes`; `NoPhotoVanishes`; `EveryItemHasWork`; liveness `QueueDrains` |
| `two_out`, `late_arrival`, `reassigned_pay`, `overloaded`, `handset_mid_flush_tap` | as above | each refutes one statement of a comment in the code; see section 6 |

Why these bounds are enough to mean something.

*Delivery.* The rules never relate more than two stops of one trip, and two
reports are the least that can be closed in the wrong order or disagree about
one stop; both can be filed on one stop, on two, or on the trip. Two drivers are
what reassignment needs. Two trips are what the one-trip-at-a-time rule and a
shared driver need. Reports are not reused, so their number also bounds how
often a driver may report.

*Assignment.* Two bookings that fill a lorry each are the least that overload
one, and two days are the least for a stale pickup and for the 3am rule.
`LastDay` bounds the pickup days and the clock; it bounds nothing in the code.

*Payday.* A trip of two stops and one of one, with two drops in one zone, are
the least in which a first drop is in the same trip or in another; two taps a
day let a trip straddle midnight, and one tap's undo window reaches the tap
before. The constraint `Explored` splits the instance: three days with every
edit while nothing is assigned; without edits, two days of trips with reports,
undone arrivals and deliveries, approvals, the trip of one stop cancelled, and
interplant work (the second trip or both; no reviews then); with one edit, two
days of deliveries without reviews, cancellations or approvals, edited before,
between and after the assignments, the sweep running while no trip is out. A state
with an `unwound` delivery, an `exempt` day or an amount of the admin's own is
checked and not followed further. The constraint only keeps TLC's work down: each
of the run's properties is also a theorem of section 5, of every instance and
without it.

*Booking desk.* Two calls are what a retry that races its first attempt needs,
two requests what supersession and a stale proposal need. `Explored` splits it:
retries while nothing else happens; two bookings on the first day whose loads
change; one booking over both days with everything but its load changing, with
two change requests, or with one and an edit of the zone's points; a change is not
drafted when no request is left that could be made of it.

*Handset.* Two stops are what a queue with an order needs. `MaxTaps` bounds the
clock, which starts at 1, so a run has two taps, after an Arrived and a photo
that the initial state may already hold: Arrived and then a photo, a photo and
its retake, a photo and Delivered, or a tap on each stop, against any number of
flushes. A budget of two tells the first refusal from the last. With two stops the trim of the queue (`MaxOutbox` is 2) never
happens.

Symmetry is used where ids are interchangeable and no liveness is checked.
Deadlock is not checked: with every trip paid or cancelled, every report used
and every day over the system rightly stops.

## 4. Fairness

- `Diligence` (TripDelivery) is about people. The code forces nobody to tap or
  to review, so `StartedTripComesBack` assumes that a driver stops undoing at
  some point, delivers a stop that he can deliver again and again (strong
  fairness, since reports keep disabling it), and that the office closes every
  open report. What the run then shows is that the *code* leaves no state from
  which such people cannot end a trip: no stale blocker, no lost finalization
  that a further delivery or abort could not make up for.
- `Persistence` (TripAssignment) is about the minute's sweep, which calls the
  engine again for every booking that is pending and not paused while the mode
  is auto. Beginning, choosing and writing a failure are strongly fair per
  booking: an attempt may lose any number of times, but not for ever, which is
  what retrying every minute against occasional conflicts gives. The run
  assumes dispatch mode `auto`, as the code's default.
- `Fairness` (HandsetOutbox) is about the phone. The mount, reconnect,
  foreground and 45-second triggers keep starting flushes, and a running flush
  goes on (weak fairness). The signal comes back again and again: a flush that
  consumes the budget gets an answer infinitely often if it asks infinitely
  often (strong fairness), and some day the storage stops failing and the app is
  no longer killed in the middle. Nothing is assumed of the driver, the office
  or of what the server answers.

## 5. What is proved

For every set of trips, stops, drivers, reports, requests, bookings and
attempts, keys, calls, change requests, rows, fields and values, any capacity
and any number of days and edits. Assumptions: the null values are distinct from
ids, numbers and booleans; each stop has a trip; capacities, loads, rates and
points are naturals; and where something is added up, the trips, bookings and
stops it is added over are finitely many.

`Totals_proofs`: what `SumFunctionOnSet` of the community modules comes to. Its
fold is defined by choice, so the first lemmas show that the function it chooses
exists on a finite set (`UnfoldsExists`, `TotalUnfold`). Induction over the set
is stated without an operator for the induction hypothesis: a *family* of
subsets that has the empty set, and each set all of whose one-smaller sets it
has, has the whole set (`SetInduction`, by the well-foundedness of strict
inclusion). From it: a total is taken in any order (`TotalRemove`), element by
element, set by set, group by group (`TotalByGroup`), under another name
(`TotalRenamed`), by rows or by columns (`TotalSwap`), and shares that are each
what F gains by one's own weight add up to F of the total (`TotalTelescopes`).

`TripDelivery_proofs`:

- `TypeCorrect`. The tap steps need more than types, namely that a report in
  an open state has a trip. `Ground` carries that together with "a filed report
  has a trip and its stop belongs to it" and "a proposal exists exactly when a
  trip is pending approval or completed"; the rest builds on it.
- `NeverWedged`: `[]BlockerIsOpen`. Inductive over `Ground`: only `Report` sets
  the pointer, to a report it makes open, and `Close` clears it in the same
  step as it closes.
- `PointsMatchAmount`: `[]ScoredMatchesProposal`. Every step either finalizes
  one trip, reopens one, or moves no money (`MoneySteps`); each is shown once.
- `PaidOnce`: `[][CompletedIsFinal]`, from the same split and `Ground`.
- `DeliveredIsPaid`: `[]DeliveredIsProposed`. Uses that a stop becomes
  delivered only by a tap on a trip in progress.
- `NothingEarnedIsLost`: `[]UnpaidExitOwesNothing`. Not inductive by itself: a
  report still open after the trip ended could be resumed. `OffRoadIsIdle`
  strengthens it: a trip off the road has no delivered stop, and its stops are
  either never reached or have no open report, which is what abort's guard
  `hasOpenException` (and not the blocking pointer) secures.
- `DeliveryKeepsContract`: `Spec => ImplementsContract`. Each group of actions
  moves one trip and leaves what the others have earned alone (`DispatchMoves`,
  `StopMoves`, `ReportMoves`, `ApprovalMoves`, over `EarningFrame`), and each
  move is one action of the contract or none (`MoveIsPromised`). Needed beside
  `Ground`: `UnpaidExitOwesNothing` before and after the step, since the contract
  lets a trip end unpaid only with nothing earned, and `RequestIsOwn`, that an
  approval in flight carries an amount of its own trip.

`TripAssignment_proofs`:

- `TypeCorrect`, and `DriverIsReleased`: `[]DriverFollowsStatus`.
- `UnassignedStaysManual`: `PinnedStaysManual`, an action property. `AutoAssign`
  is the only automatic claim and re-reads the pin in the claim itself.
- `RoadIsSafeFromSweep`: `NeverCancelledOnTheRoad`.
- `LorriesFit`: `[]LorryFits`. Beside it holds `ReadIsCurrent`: what a request or
  an attempt in flight has read of a booking that was never edited is still so.
  Then a claim adds its pallets to exactly the sum it compared with the
  capacity, and every other step adds nothing.

`DispatchGuards_proofs` (no assumption on constants: there are none):

- `WithinHoursIsOneShift`: a run is within hours exactly when one shift covers
  it, for windows of one day and for windows past midnight. The shift is that of
  the pickup's date or of the one before, by the half the pickup is in.
- `EngineAndOfficeAgree`, `QueryFormAgrees`: the two forms of the conflict rule,
  and of the roadworthiness rule while `DAILY_RESET_HOUR` is 0 (see (m)), accept
  the same lorries.
- `ClosedSlotStaysClosed`, `EarliestDayIsOpen`: under unchanged settings a slot
  past its cut-off does not reopen, and the day a refusal names may be booked.
  A calendar without a working day in a fortnight is excepted: the code then
  names today.

`StagedRates_proofs`:

- `HoldAllDay`: `RatesHoldAllDay`, and `PromisesAreKept`: `[]PromisesKept`.
  `RatesInv` is the strengthening: what the sweep holds for a row is in force
  already, nothing is staged for later than tomorrow, and a promise that has
  come is in force while one for tomorrow is exactly what is staged.

`BookingDesk_proofs` (every step of the desk is one of the rates or leaves them
alone, so the rates' invariant carries over):

- `TypeSafety`; `OneBookingPerKey`: `[]OneTripPerBooking`, inductive with "no
  two bookings have one key".
- `OneEra`: `[]OneEraPerTrip`, from `EraInv`, that a stop's points are those in
  force on the day of its trip's assignment, and `FoldsInOrder`.
- `EditsAreKept`: `NoLostEdit`; `OnlyByApproval`: `ChangesAreDecided`;
  `PricesStayLocked`: `LockedPrices`. The core is `Locked`: between an
  approval's checks and its claim the booking is what the author of the change
  saw, because the row's lock is held.
- `LorryIsNotOverfilled`: `[]LorryFits`. `RoomKept` strengthens it to the
  decisions on their way: while none overlapped, the day has room for every
  assignment that has begun and for the change of an approval between its checks
  and its claim.

`Payday_proofs`, the rates:

- `OneTariffOnADay`: `[]OneTariffADay`. A snapshot taken today is the tariff in
  force today (`PayInv`), which a step of the rates cannot change within the
  day; every ledger step leaves the snapshots alone, stores one trip's or
  releases it (`LedgerStep`).
- `RatesHoldOnPaydays` and `PromisesKeptOnPaydays`: the two theorems of
  StagedRates for the composition, whose steps are steps of the rates or leave
  them alone.

`Payday_proofs`, the money, in the order the arguments build on each other:

- `TypeCorrect`: `[]TypeOK`. A proposal is a natural number: a group's marginal
  is never negative, since its drops add at least nothing to the ledger before
  them and the deduction is taken from both totals. `LedgerInv` says how the
  records go together: a trip that is out has rates and points, a finished one a
  proposal; taps are stamped in order; an award is only on a proposed trip.
- `OneFirstPerZone`: `[]OneFirstDropPerZone`. `OrderInv`: unless `unwound`, all
  taps of one trip come before all taps of another (`TapsInOrder`), so awards
  given to the trip that is out come after all others, and the first of a zone
  is its earliest drop (`FirstsInOrder`).
- `PointsAccountForPay`: `[]StoredPointsAgree`. The points put on the stops, the
  deduction and the shortfall add up, group by group, to the points paid
  (`BreakdownAddsUp`), which times one rate, or between the two, are the
  proposal; it then stands until it is undone whole (`ProposalsStand`).
- `DayTelescopes`: `[]DayTotal`. A proposal is, day by day, what its drops add
  to those before it in its ledger (`PaidInDays`). That is still so later: a later
  trip comes after it, and only the trip proposed last can be undone without
  `unwound`. With a day's trips in line the shares telescope to the day's points
  above one deduction (`DayAddsUp`); trips by days is a table, whose rows and
  columns have one total.
- `PremiumOnce`: `[]OvertimeOnce`. What the rules make of a proposal depends on
  the taps of its day only, so a completed trip's final amount is what they would
  make of it now, unless its day was tapped or undone afterwards, or a trip of it
  was cancelled (`Settled`). A proposal without a tier is nothing or has drops of
  two days (`TierKnown`). On a settled day he went out again after every trip but
  the one he came back from last (`WentOutOrNot`), so each is paid the weekday
  rate for its points and that one the premium (`DayFinals`).

`HandsetOutbox_proofs` (any number of stops, taps and failures, any trim):

- `TypeCorrect`; `QueuedMeansPending`: `[]EveryItemHasWork`. `QueueInv` adds that
  every item in the stored queue, in what the screen or a checkpoint has read,
  and still to be settled by the flush has a step to send and budget left, so
  that whichever copy is written back does.
- `TapsSurvive`: `[]NoTapVanishes`, with the exceptions its comment lists: the
  trim, the spent budget, a refused quarantine, tidying up, and a `missed` tap
  that a checkpoint overwrote. A tap is *owed* while it is saved and neither
  recorded, quarantined nor of a finished trip. What a flush has in hand and what
  its checkpoint has read answer for the owed taps that it can know of
  (`Known == saved \ missed`), the stored queue and the screen's copy for all;
  the missed ones a checkpoint writes back or takes out of `saved`. `TapInv`: each copy of the queue
  (stored, read by the screen, read by the checkpoint) holds what is owed; where
  a copy's item is the one the flush works on, so does the flush's version; a
  synced item is recorded and an orphaned one in the quarantine before the
  checkpoint takes it out; a step marked as done is done. It carries over because
  the server forgets nothing (`ServerGrows`), so less and less is owed.
- `PhotosSurvive`: `[]NoPhotoVanishes`, with the same exceptions and the same
  split (`OpenKnown`, `OwedKnown`). Of photos the server does forget: it holds
  the last one put, not the newest, so what is recorded today need not stay so. A
  photo is therefore owed too while a flush has an older shot of its stop in hand
  (`Threatened`). `PhotoInv`: each copy of the queue holds the owed photos or
  newer ones (`Carries`), and nothing older than a photo that counts (`Newest`),
  so that a flush sets out with the newest of each stop and threatens none. What
  the flush shares with a copy holds what is owed (`Shares`); a photo leaves its
  item only when the server has it or the trip is locked; a merged photo is the
  driver's latest shot, and so is one uploaded directly (`ShotsTaken`,
  `NewestTap`).
- `TrimDropsTheOldest` and `OutboxIsBounded`: what MAX_OUTBOX does to a queue
  whose items came from taps of their own is to take the oldest, never the tap
  just made, and nothing while there is room; and every queue that is stored is
  such a queue, of at most MAX_OUTBOX items. `TrimInv`: so is each copy a thread
  has read, and nothing in a copy the screen will write is as new as its tap.
  A checkpoint leaves the kept items in their turn, so it needs no trim (it has
  none). Without these the exception `NoTapVanishes` makes for the trim would
  cover any loss. The runs leave room for both stops, so this is proved only.

Only checked by TLC: the liveness properties `StartedTripComesBack`,
`NoBookingForgotten` and `QueueDrains` (temporal reasoning under fairness is out
of the prover's reach). Every invariant and action property of a passing run is
a theorem.

The proofs changed two statements. `OvertimeOnce` excepted days on which an
override was stored; for an own amount that equals the proposal none is, and the
claim was false (no run has such an amount), so `exempt` records the approval
itself. And it now asks for a positive weekday claim, which the editor of rates
enforces (`routes/trucks.ts`): at zero the code has no weekday equivalent and
pays a demoted trip its off-peak amount.

## 6. What the code does that its comments deny

- `two_out`: undoing the last delivery puts a trip back on the road without
  asking whether its driver is already on another (`routes/trips.ts:3717`),
  against `services/tripAssignment.ts:345`.
- `reassigned_pay`: "nothing has been earned on the old assignment"
  (`services/tripAssignment.ts:170`) overlooks settled undelivered stops.
- `late_arrival`: a report verified and resumed before the Arrived tap leaves a
  trip with nothing outstanding and not finalized, what
  `routes/exceptions.ts:341` sets out to exclude. An admin's abort still ends it
  with its pay, which is why `StartedTripComesBack` asks for less.
- `overloaded`: capacity is checked for the pickup read before the
  transaction; an edit in between overfills the lorry of another day
  (`routes/trips.ts:1474`). `LorryFits` is the guarantee that does hold: it
  excepts edited bookings.
- `handset_mid_flush_tap`: a checkpoint loses taps the driver was told are saved,
  in two ways. "Re-read so a concurrently queued item is not clobbered"
  (`mobile/src/lib/podOutbox.ts:326`): the re-read, the quarantine and the write
  are separate awaits (lines 329 to 336), and a tap on any stop stored in between
  is overwritten when the reconciled list has an item left. When it has none the
  erase guard looks again (line 217), and a tap stored between its look and the
  write (line 218) is erased. "An item the driver re-queued mid-flush is a
  DIFFERENT intent" (`podOutboxCore.ts:311`): a tap stored into an item the flush
  has in hand keeps that item's `queuedAt` (line 150), so the checkpoint takes it
  for the item it worked on, and removes or overwrites it. One run refutes both:
  `MidFlushTapSurvives` asks that a checkpoint take out only what its flush had
  in hand or the server has.

## 7. Other disagreements met while modelling

No run refutes these; the models follow the code, and where a property does not
hold because of one it says what it excepts.

- (a) Undoing the last delivery of a trip after its driver has delivered the next
  trip's drop in that zone leaves nobody with the zone's full points, against
  `services/dayLedger.ts` (`unwound`).
- (b) A rate edited between midnight and the fold takes the matured value to
  tomorrow; if the sweep had read it already, the sweep wipes the edit
  (`services/pendingRates.ts`, `routes/trucks.ts:764`; `tangled`).
- (c) `revertFinalizeForUndo` clears the stops' `zone_code`, which the assignment
  had snapshotted (`services/tripCompletion.ts:454`).
- (d) The editor of rates says it "replaces wholesale"; it merges.
- (e) The outbox: `noteDirectPodUpload` removes an item whose Arrived tap was not
  sent; a locked trip counts as done and drops the photo; a refusal because a
  report is open spends the retry budget.
- (f) Approving a change after points of a later day were folded prices a new
  stop at those, next to stops of the assignment's era (`folded`).
- (g) `editableTripFingerprint` leaves out the pickup plant of the cargo, and
  (h) an approved change never applies the pickup plant it lists.
- (i) An approval that overlaps another decision can overload the lorry
  (`routes/trips.ts:2792`; `overlapped`).
- (j) The booking form keeps its request key after the booking was edited and
  retried, so the edit is answered with the first booking.
- (k) `is_external` survives a release and then skips the capacity check of a
  change (`services/tripAssignment.ts:113`).
- (l) The last-trip rule demotes weekend and holiday trips too; a later trip
  counts only until it is cancelled, so the result depends on when the earlier
  one is approved; a trip without a real delivery is never demoted.
- (m) `roadworthyWhere` counts days from `DAILY_RESET_HOUR`, `isDocExpired` from
  midnight (`services/truckEligibility.ts:68` and `:31`): with another hour than
  0 the engine takes a lorry before that hour whose document ran out the day
  before and which the office refuses.
- (n) An edit is held to the cut-offs only if it moves the pickup
  (`routes/trips.ts:1046`): changing a return or interplant booking to a customer
  delivery keeps a slot that is closed to one.
- (o) A retake uploaded directly while a flush has the stop's queued photo in
  hand is overwritten by that older photo (`noteDirectPodUpload` tidies only the
  stored queue, `mobile/src/lib/podOutbox.ts:273`); `NoPhotoVanishes` is about
  what was queued.

## 8. What is not modelled, and why

- Amounts in TripDelivery (a set of stops stands for them; Payday has them),
  documents and the document gate, notifications, audit and timeline rows,
  wording.
- Reports, search, analytics and public tracking only read. Users, trucks,
  consignees, settings and adjustments are records that one admin edits;
  re-seating a driver on another lorry while trips are assigned to the pair is
  taken not to happen, nor is a correction of a consignee's zone.
- The report outbox has the shape of the delivery outbox, with fewer guards: a
  failed read of the storage passes for an empty queue there
  (`mobile/src/lib/exceptionOutbox.ts:31`). Losing an item of the location queue
  costs one point of a track.
- Sign-in, sessions and password resets share no state with a trip.
- Outsourced trips in BookingDesk; overlapping runs of the same sweep.

## 9. Plan

Still to write, most important first:

1. Report outbox with its idempotency keys, composed with the report handler.
2. Documents: uploads that read a trip's status, upload, and write.
