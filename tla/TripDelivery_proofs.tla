------------------------ MODULE TripDelivery_proofs ------------------------
(***************************************************************************)
(* The safety properties of TripDelivery, and that every behaviour of it   *)
(* is a behaviour of TripContract, for any number of trips, stops,         *)
(* drivers, admins and reports.                                            *)
(***************************************************************************)
EXTENDS TripRefinement, TLAPS

-----------------------------------------------------------------------------
(* Type correctness.                                                        *)

\* Writing or taking back a proposal keeps the four fields it touches in range.
LEMMA ProposeType ==
    ASSUME TypeOK, NEW t \in Trips, Propose(t) \/ Unpropose(t)
    PROVE  /\ status' \in [Trips -> TripStatuses]
           /\ proposal' \in [Trips -> {NoProposal} \cup SUBSET Stops]
           /\ scored' \in SUBSET Stops
BY DEF TypeOK, Propose, Unpropose, Earning, StopsOf, TripStatuses

\* Types hold initially.
LEMMA InitType == Init => TypeOK
BY DEF Init, TypeOK, TripStatuses, Instants, ExceptionStates, Resolutions

\* Types hold after a step of dispatch,
LEMMA DispatchType ==
    ASSUME TypeOK, NEW t \in Trips, DispatchStep(t)
    PROVE  TypeOK'
<1> USE DEF TypeOK, TripStatuses, Instants, tripVars, stopVars, excVars
<1>1. ASSUME NEW d \in Drivers, Assign(t, d) PROVE TypeOK'
  BY <1>1 DEF Assign
<1>2. ASSUME NEW d \in Drivers, Reassign(t, d) PROVE TypeOK'
  BY <1>2 DEF Reassign
<1>3. ASSUME NEW d \in Drivers, ReassignMidTrip(t, d) PROVE TypeOK'
  BY <1>3 DEF ReassignMidTrip
<1>4. ASSUME NEW exit \in {"rejected", "cancelled"}, Withdraw(t, exit) PROVE TypeOK'
  BY <1>4 DEF Withdraw
<1>5. CASE Unassign(t) \/ CancelStale(t)
  BY <1>5 DEF Unassign, CancelStale
<1>6. CASE Start(t)
  BY <1>6 DEF Start
<1>7. CASE Abort(t)
  <2>1. CASE Propose(t)
    BY <1>7, <2>1, ProposeType DEF Abort
  <2>2. CASE status' = [status EXCEPT ![t] = "cancelled"] /\ UNCHANGED <<proposal, scored>>
    BY <1>7, <2>2 DEF Abort
  <2> QED BY <1>7, <2>1, <2>2 DEF Abort
<1> QED BY <1>1, <1>2, <1>3, <1>4, <1>5, <1>6, <1>7 DEF DispatchStep

\* ... of a stop,
LEMMA StopType ==
    ASSUME TypeOK, NEW s \in Stops, StopStep(s)
    PROVE  TypeOK'
<1> USE DEF TypeOK, TripStatuses, Instants, tripVars, stopVars, excVars
<1>t. TripOf[s] \in Trips
  BY TripOfAssumption
<1>1. CASE Arrive(s)
  BY <1>1 DEF Arrive
<1>2. CASE Deliver(s)
  BY <1>2, <1>t, ProposeType DEF Deliver
<1>3. CASE UndoArrived(s)
  BY <1>3 DEF UndoArrived
<1>4. CASE UndoDelivered(s)
  BY <1>4, <1>t, ProposeType DEF UndoDelivered
<1>5. CASE ArrivalAges(s)
  BY <1>5 DEF ArrivalAges
<1>6. CASE DeliveryAges(s)
  BY <1>6 DEF DeliveryAges
<1> QED BY <1>1, <1>2, <1>3, <1>4, <1>5, <1>6 DEF StopStep

\* A report is filed once, about one trip and at most one of its stops.
ReportsAreFiled ==
    \A e \in Exceptions :
        \/ excState[e] = "unfiled" /\ excTrip[e] = NoTrip /\ excStop[e] = NoStop
        \/ /\ excState[e] # "unfiled"
           /\ excTrip[e] \in Trips
           /\ excStop[e] \in StopsOf(excTrip[e]) \cup {NoStop}

\* Closing a report moves it to the state and the resolution it is given.
LEMMA CloseType ==
    ASSUME TypeOK, NEW e \in Exceptions, NEW action,
           NEW state \in ExceptionStates, NEW res \in Resolutions,
           Close(e, action, state, res), excTrip[e] \in Trips
    PROVE  TypeOK'
<1> DEFINE t == excTrip[e]
<1> USE DEF TypeOK, stopVars
<1>1. /\ status' \in [Trips -> TripStatuses]
      /\ proposal' \in [Trips -> {NoProposal} \cup SUBSET Stops]
      /\ scored' \in SUBSET Stops
  <2>1. CASE Propose(t)
    BY <2>1, ProposeType
  <2>2. CASE UNCHANGED <<status, proposal, scored>>
    BY <2>2
  <2> QED BY <2>1, <2>2 DEF Close, FinalizeIfNothingOutstanding
<1>2. blocker' \in [Trips -> Exceptions \cup {NoException}]
  BY DEF Close, Unblock
<1> QED BY <1>1, <1>2 DEF Close

\* No admin action is accepted for a report that was never filed.
LEMMA ActionsNeedAReport ==
    ASSUME NEW e \in Exceptions, ReportsAreFiled,
           excState[e] \in OpenStates \/ \E action \in DOMAIN AllowedFrom :
                                            excState[e] \in AllowedFrom[action]
    PROVE  excState[e] # "unfiled" /\ excTrip[e] \in Trips
BY DEF ReportsAreFiled, OpenStates, AllowedFrom

\* ... of a report,
LEMMA ReportType ==
    ASSUME TypeOK, ReportsAreFiled, NEW e \in Exceptions, ReportStep(e)
    PROVE  TypeOK'
<1> USE DEF TypeOK, ExceptionStates, Resolutions, tripVars, stopVars, excVars
<1>1. ASSUME NEW t \in Trips, NEW s \in Stops \cup {NoStop}, Report(e, t, s)
      PROVE  TypeOK'
  BY <1>1 DEF Report
<1>2. CASE AddEvidence(e)
  BY <1>2 DEF AddEvidence, StateAfterEvidence
<1>3. CASE Continue(e)
  BY <1>3 DEF Continue
<1>4. CASE RequestMoreEvidence(e)
  BY <1>4 DEF RequestMoreEvidence
<1>5. CASE Verify(e)
  BY <1>5 DEF Verify
<1>6. CASE Reject(e) \/ Resume(e) \/ Retry(e)
  <2>1. excTrip[e] \in Trips
    BY <1>6, ActionsNeedAReport DEF Reject, Resume, Retry, Close, AllowedFrom
  <2> QED BY <1>6, <2>1, CloseType DEF Reject, Resume, Retry
<1> QED BY <1>1, <1>2, <1>3, <1>4, <1>5, <1>6 DEF ReportStep

\* An amount is stored exactly while the trip is on the desk of the office or paid.
ProposedWhenOwed ==
    \A t \in Trips :
        proposal[t] # NoProposal <=> status[t] \in {"pending_approval", "completed"}

\* ... and of an approval.
LEMMA ApprovalType ==
    ASSUME TypeOK, ProposedWhenOwed, NEW a \in Admins, ApprovalStep(a)
    PROVE  TypeOK'
<1> USE DEF TypeOK, stopVars, excVars
<1>1. ASSUME NEW t \in Trips, ReadForApproval(a, t) PROVE TypeOK'
  <2>1. proposal[t] \in SUBSET Stops
    BY <1>1 DEF ReadForApproval, ProposedWhenOwed
  <2>2. request' \in [Admins -> {NoRequest} \cup [trip : Trips, amount : SUBSET Stops]]
    BY <1>1, <2>1 DEF ReadForApproval
  <2> QED BY <1>1, <2>2 DEF ReadForApproval, tripVars
<1>2. CASE ApproveOrRefuse(a)
  BY <1>2 DEF ApproveOrRefuse, TripStatuses
<1> QED BY <1>1, <1>2 DEF ApprovalStep

-----------------------------------------------------------------------------
(* Every step, seen from the money.                                         *)

Owed == {"pending_approval", "completed"}

\* A trip comes back from the road and its proposal is written.
Finalization ==
    \E t \in Trips :
        status[t] = "in_progress" /\ proposal[t] = NoProposal /\ Propose(t)

\* A trip awaiting approval goes back out and its proposal is taken back.
Reopening ==
    \E t \in Trips : status[t] = "pending_approval" /\ Unpropose(t)

\* The proposals stay as they are; a trip stays among the owed or among the
\* others, and what is completed stays completed.
NoMoneyMoves ==
    /\ UNCHANGED <<proposal, scored>>
    /\ \A t \in Trips : /\ status[t] \in Owed <=> status'[t] \in Owed
                        /\ status[t] = "completed" => status'[t] = "completed"

\* What a step of dispatch may do to the money: finalize a trip, or nothing.
LEMMA DispatchMoney ==
    ASSUME TypeOK, NEW t \in Trips, DispatchStep(t)
    PROVE  Finalization \/ NoMoneyMoves
<1> USE DEF TypeOK, NoMoneyMoves, Owed
<1>1. CASE \E d \in Drivers : Assign(t, d) \/ Reassign(t, d) \/ ReassignMidTrip(t, d)
  BY <1>1 DEF Assign, Reassign, ReassignMidTrip
<1>2. CASE \E exit \in {"rejected", "cancelled"} : Withdraw(t, exit)
  BY <1>2 DEF Withdraw
<1>3. CASE CancelStale(t) \/ Unassign(t) \/ Start(t)
  BY <1>3 DEF CancelStale, Unassign, Start
<1>4. CASE Abort(t)
  BY <1>4 DEF Abort, CanPropose, Finalization
<1> QED BY <1>1, <1>2, <1>3, <1>4 DEF DispatchStep

\* A step of a stop finalizes its trip, reopens it, or moves no money.
LEMMA StopMoney ==
    ASSUME TypeOK, NEW s \in Stops, StopStep(s)
    PROVE  Finalization \/ Reopening \/ NoMoneyMoves
<1> USE DEF TypeOK, NoMoneyMoves, Owed, tripVars
<1>t. TripOf[s] \in Trips
  BY TripOfAssumption
<1>1. CASE Arrive(s) \/ UndoArrived(s) \/ ArrivalAges(s) \/ DeliveryAges(s)
  BY <1>1 DEF Arrive, UndoArrived, ArrivalAges, DeliveryAges
<1>2. CASE Deliver(s)
  BY <1>2, <1>t DEF Deliver, CanPropose, Finalization
<1>3. CASE UndoDelivered(s)
  BY <1>3, <1>t DEF UndoDelivered, Reopening
<1> QED BY <1>1, <1>2, <1>3 DEF StopStep

\* A step of a report finalizes the trip it ends, or moves no money.
LEMMA ReportMoney ==
    ASSUME TypeOK, ReportsAreFiled, NEW e \in Exceptions, ReportStep(e)
    PROVE  Finalization \/ NoMoneyMoves
<1> USE DEF TypeOK, NoMoneyMoves, Owed, tripVars
<1>1. CASE \E t \in Trips, s \in Stops \cup {NoStop} : Report(e, t, s)
  BY <1>1 DEF Report
<1>2. CASE AddEvidence(e) \/ Continue(e) \/ RequestMoreEvidence(e) \/ Verify(e)
  BY <1>2 DEF AddEvidence, Continue, RequestMoreEvidence, Verify
<1>3. CASE Reject(e) \/ Resume(e) \/ Retry(e)
  <2>1. excTrip[e] \in Trips
    BY <1>3, ActionsNeedAReport DEF Reject, Resume, Retry, Close, AllowedFrom
  <2>2. FinalizeIfNothingOutstanding(excTrip[e])
    BY <1>3 DEF Reject, Resume, Retry, Close
  <2> QED BY <2>1, <2>2 DEF FinalizeIfNothingOutstanding, CanPropose, Finalization
<1> QED BY <1>1, <1>2, <1>3 DEF ReportStep

\* An approval moves none of the money a trip is proposed.
LEMMA ApprovalMoney ==
    ASSUME TypeOK, NEW a \in Admins, ApprovalStep(a)
    PROVE  NoMoneyMoves
BY DEF TypeOK, ApprovalStep, ReadForApproval, ApproveOrRefuse, NoMoneyMoves,
       Owed, tripVars

\* Every step finalizes a trip, reopens one, or moves no money.
LEMMA MoneySteps ==
    ASSUME TypeOK, ReportsAreFiled, [Next]_vars
    PROVE  Finalization \/ Reopening \/ NoMoneyMoves
<1>1. CASE UNCHANGED vars
  BY <1>1 DEF NoMoneyMoves, vars, tripVars
<1> QED BY <1>1, DispatchMoney, StopMoney, ReportMoney, ApprovalMoney DEF Next

\* A proposal is a set of the trip's own stops.
LEMMA EarningIsOwn ==
    ASSUME NEW t \in Trips
    PROVE  Earning(t)' \subseteq StopsOf(t) /\ Earning(t)' # NoProposal
BY NullsAssumption DEF Earning, StopsOf

\* Every step leaves a proposal exactly on the trips that are owed one.
LEMMA ProposedStep ==
    ASSUME TypeOK, ReportsAreFiled, ProposedWhenOwed, [Next]_vars
    PROVE  ProposedWhenOwed'
<1> USE DEF TypeOK, ProposedWhenOwed
<1>1. CASE Finalization
  BY <1>1, EarningIsOwn DEF Finalization, Propose
<1>2. CASE Reopening
  BY <1>2 DEF Reopening, Unpropose
<1>3. CASE NoMoneyMoves
  BY <1>3 DEF NoMoneyMoves, Owed
<1> QED BY <1>1, <1>2, <1>3, MoneySteps

-----------------------------------------------------------------------------
(* What each group of actions leaves alone.                                 *)

\* What a step of dispatch leaves alone,
LEMMA DispatchFrame ==
    ASSUME NEW t \in Trips, DispatchStep(t)
    PROVE  UNCHANGED <<blocker, final, excVars, request>>
BY DEF DispatchStep, Assign, Reassign, ReassignMidTrip, Withdraw, CancelStale, Unassign,
       Start, Abort, stopVars

\* ... a step of a stop,
LEMMA StopFrame ==
    ASSUME NEW s \in Stops, StopStep(s)
    PROVE  UNCHANGED <<driver, blocker, final, excVars, request>>
BY DEF StopStep, Arrive, Deliver, UndoArrived, UndoDelivered, ArrivalAges,
       DeliveryAges, tripVars

\* ... an approval,
LEMMA ApprovalFrame ==
    ASSUME NEW a \in Admins, ApprovalStep(a)
    PROVE  UNCHANGED <<driver, blocker, proposal, stopVars, scored, excVars>>
BY DEF ApprovalStep, ReadForApproval, ApproveOrRefuse, tripVars

\* ... and a step of a report.
LEMMA ReportFrame ==
    ASSUME NEW e \in Exceptions, ReportStep(e)
    PROVE  UNCHANGED <<driver, final, stopVars, request>>
BY DEF ReportStep, Report, AddEvidence, Continue, RequestMoreEvidence, Verify,
       Reject, Resume, Retry, Close, tripVars

\* Only the actions on reports touch reports and the blocker.
LEMMA ReportsChangeOnlyByReports ==
    ASSUME [Next]_vars
    PROVE  \/ \E e \in Exceptions : ReportStep(e)
           \/ UNCHANGED <<blocker, excVars>>
BY DispatchFrame, StopFrame, ApprovalFrame DEF Next, vars, tripVars

\* Every step leaves a report filed on a trip, and on a stop of it if on any.
LEMMA FiledStep ==
    ASSUME TypeOK, ReportsAreFiled, [Next]_vars
    PROVE  ReportsAreFiled'
<1> USE DEF TypeOK, ReportsAreFiled, StopsOf
<1>1. ASSUME NEW e \in Exceptions, ReportStep(e) PROVE ReportsAreFiled'
  <2>1. CASE \E t \in Trips, s \in Stops \cup {NoStop} : Report(e, t, s)
    BY <2>1 DEF Report
  <2>2. CASE AddEvidence(e) \/ Continue(e)
    BY <2>2 DEF AddEvidence, Continue, StateAfterEvidence, OpenStates, excVars
  <2>3. CASE RequestMoreEvidence(e) \/ Verify(e)
    BY <2>3 DEF RequestMoreEvidence, Verify, AllowedFrom
  <2>4. CASE Reject(e) \/ Resume(e) \/ Retry(e)
    BY <2>4 DEF Reject, Resume, Retry, Close, AllowedFrom
  <2> QED BY <1>1, <2>1, <2>2, <2>3, <2>4 DEF ReportStep
<1>2. CASE UNCHANGED <<blocker, excVars>>
  BY <1>2 DEF excVars
<1> QED BY <1>1, <1>2, ReportsChangeOnlyByReports

-----------------------------------------------------------------------------
(* The theorems.                                                            *)

\* The ground the other invariants stand on.
Ground == TypeOK /\ ReportsAreFiled /\ ProposedWhenOwed

\* The ground the other proofs stand on holds initially, ...
LEMMA GroundInit == Init => Ground
BY InitType DEF Ground, Init, ReportsAreFiled, ProposedWhenOwed

\* ... every step keeps it, ...
LEMMA GroundStep == Ground /\ [Next]_vars => Ground'
<1> SUFFICES ASSUME Ground, [Next]_vars PROVE Ground'
  OBVIOUS
<1> USE DEF Ground
<1>1. TypeOK'
  <2>1. CASE UNCHANGED vars
    BY <2>1 DEF TypeOK, vars, tripVars, stopVars, excVars
  <2> QED BY <2>1, DispatchType, StopType, ReportType, ApprovalType DEF Next
<1> QED BY <1>1, FiledStep, ProposedStep

\* ... and so it always holds.
LEMMA GroundHolds == Spec => []Ground
BY GroundInit, GroundStep, PTL DEF Spec

\* Every column keeps a value of its type in every reachable state: in
\* particular the amount an approval request carries is always an amount.
THEOREM TypeCorrect == Spec => []TypeOK
BY GroundHolds, PTL DEF Ground

\* However reports are filed, continued past and closed, a trip is only ever
\* blocked by an open report of its own: applyTransition never has to refuse an
\* admin because of a pointer nothing can clear.
THEOREM NeverWedged == Spec => []BlockerIsOpen
<1>1. Init => BlockerIsOpen
  BY DEF Init, BlockerIsOpen
<1>2. Ground /\ BlockerIsOpen /\ [Next]_vars => BlockerIsOpen'
  <2> SUFFICES ASSUME Ground, BlockerIsOpen, [Next]_vars PROVE BlockerIsOpen'
    OBVIOUS
  <2> USE DEF Ground, TypeOK, BlockerIsOpen
  <2>1. ASSUME NEW e \in Exceptions, ReportStep(e) PROVE BlockerIsOpen'
    <3>1. CASE \E t \in Trips, s \in Stops \cup {NoStop} : Report(e, t, s)
      BY <3>1 DEF Report, OpenStates
    <3>2. CASE AddEvidence(e)
      BY <3>2 DEF AddEvidence, StateAfterEvidence, OpenStates, tripVars
    <3>3. CASE Continue(e)
      BY <3>3 DEF Continue, excVars
    <3>4. CASE RequestMoreEvidence(e) \/ Verify(e)
      BY <3>4 DEF RequestMoreEvidence, Verify, OpenStates, tripVars
    <3>5. CASE Reject(e) \/ Resume(e) \/ Retry(e)
      <4>1. /\ \E state \in ExceptionStates : excState' = [excState EXCEPT ![e] = state]
            /\ Unblock(e)
            /\ excTrip' = excTrip
        BY <3>5 DEF Reject, Resume, Retry, Close, ExceptionStates
      <4> QED BY <4>1, NullsAssumption DEF Unblock
    <3> QED BY <2>1, <3>1, <3>2, <3>3, <3>4, <3>5 DEF ReportStep
  <2>2. CASE UNCHANGED <<blocker, excVars>>
    BY <2>2 DEF excVars
  <2> QED BY <2>1, <2>2, ReportsChangeOnlyByReports
<1> QED BY <1>1, <1>2, GroundHolds, PTL DEF Spec

\* After any sequence of finalizations, undos, aborts and approvals the points
\* on the stops are exactly those of the amount stored on their trip.
THEOREM PointsMatchAmount == Spec => []ScoredMatchesProposal
<1>1. Init => ScoredMatchesProposal
  BY DEF Init, ScoredMatchesProposal
<1>2. Ground /\ ScoredMatchesProposal /\ [Next]_vars => ScoredMatchesProposal'
  <2> SUFFICES ASSUME Ground, ScoredMatchesProposal, [Next]_vars
               PROVE  ScoredMatchesProposal'
    OBVIOUS
  <2> USE DEF Ground, TypeOK, ScoredMatchesProposal
  <2>1. CASE Finalization
    <3>1. PICK t \in Trips : proposal[t] = NoProposal /\ Propose(t)
      BY <2>1 DEF Finalization
    <3>2. StopsOf(t)' = StopsOf(t) /\ scored \cap StopsOf(t) = {}
      BY <3>1 DEF StopsOf
    <3>3. \A u \in Trips \ {t} : Earning(t)' \cap StopsOf(u) = {}
      BY EarningIsOwn DEF StopsOf
    <3> QED BY <3>1, <3>2, <3>3, EarningIsOwn DEF Propose, StopsOf
  <2>2. CASE Reopening
    BY <2>2 DEF Reopening, Unpropose, StopsOf
  <2>3. CASE NoMoneyMoves
    BY <2>3 DEF NoMoneyMoves, StopsOf
  <2> QED BY <2>1, <2>2, <2>3, MoneySteps
<1> QED BY <1>1, <1>2, GroundHolds, PTL DEF Spec

\* Only the approval of a trip that awaits it writes a final amount.
LEMMA FinalSteps ==
    ASSUME TypeOK, [Next]_vars, NEW t \in Trips, final'[t] # final[t]
    PROVE  status[t] = "pending_approval"
<1>1. CASE \E a \in Admins : ApprovalStep(a)
  BY <1>1 DEF TypeOK, ApprovalStep, ReadForApproval, ApproveOrRefuse, tripVars
<1> QED BY <1>1, DispatchFrame, StopFrame, ReportFrame DEF Next, vars, tripVars

\* A trip is paid once and for all: whatever an approval request had read, no
\* later step changes the amount, the points or the status of a completed trip.
THEOREM PaidOnce == Spec => CompletedIsFinal
<1> DEFINE Final(t) == /\ status'[t] = "completed"
                       /\ proposal'[t] = proposal[t]
                       /\ final'[t] = final[t]
                       /\ scored' \cap StopsOf(t) = scored \cap StopsOf(t)
           Frozen == \A t \in Trips : status[t] = "completed" => Final(t)
<1>1. Ground /\ [Next]_vars => Frozen
  <2> SUFFICES ASSUME Ground, [Next]_vars, NEW t \in Trips, status[t] = "completed"
               PROVE  Final(t)
    OBVIOUS
  <2> USE DEF Ground, TypeOK
  <2>1. final'[t] = final[t]
    BY FinalSteps
  <2>2. CASE Finalization
    <3>1. PICK u \in Trips : status[u] = "in_progress" /\ Propose(u)
      BY <2>2 DEF Finalization
    <3>2. Earning(u)' \cap StopsOf(t) = {}
      BY <3>1, EarningIsOwn DEF StopsOf
    <3> QED BY <2>1, <3>1, <3>2 DEF Propose
  <2>3. CASE Reopening
    BY <2>1, <2>3 DEF Reopening, Unpropose, StopsOf
  <2>4. CASE NoMoneyMoves
    BY <2>1, <2>4 DEF NoMoneyMoves
  <2> QED BY <2>2, <2>3, <2>4, MoneySteps
<1>2. Spec => [][Frozen]_vars
  BY <1>1, GroundHolds, PTL DEF Spec
<1>3. [][Frozen]_vars <=> CompletedIsFinal
  BY DEF CompletedIsFinal
<1> QED BY <1>2, <1>3

-----------------------------------------------------------------------------
(* What is delivered is paid, and what is not paid was not earned.          *)

\* The stops of a trip are tapped only while it is out, and one it takes a
\* delivery back from is out again.
LEMMA TapsAreOnTheRoad ==
    ASSUME TypeOK, [Next]_vars, NEW s \in Stops, stopStatus'[s] # stopStatus[s]
    PROVE  /\ stopStatus'[s] = "delivered" => status[TripOf[s]] = "in_progress"
           /\ stopStatus'[s] # "delivered" =>
                 status'[TripOf[s]] \in {"in_progress", "assigned"}
<1> USE TripOfAssumption DEF TypeOK
<1>1. ASSUME NEW r \in Stops, StopStep(r)
      PROVE  r = s /\ (stopStatus'[s] = "delivered" => status[TripOf[s]] = "in_progress")
                  /\ (stopStatus'[s] # "delivered" => status'[TripOf[s]] = "in_progress")
  BY <1>1 DEF StopStep, Arrive, Deliver, UndoArrived, UndoDelivered, ArrivalAges,
              DeliveryAges, Unpropose, tripVars
<1>2. ASSUME NEW t \in Trips, DispatchStep(t)
      PROVE  stopStatus'[s] = "pending" /\ status'[TripOf[s]] = "assigned"
  BY <1>2 DEF DispatchStep, Assign, Reassign, ReassignMidTrip, Withdraw, CancelStale, Unassign,
              Start, Abort, stopVars, StopsOf
<1> QED BY <1>1, <1>2, ReportFrame, ApprovalFrame DEF Next, vars, stopVars

\* Whichever of the three finalizers proposed the amount, and whatever was
\* undone and tapped again before, every delivered stop is in it.
THEOREM DeliveredIsPaid == Spec => []DeliveredIsProposed
<1>1. Init => DeliveredIsProposed
  BY DEF Init, DeliveredIsProposed
<1>2. Ground /\ DeliveredIsProposed /\ [Next]_vars => DeliveredIsProposed'
  <2> SUFFICES ASSUME Ground, DeliveredIsProposed, [Next]_vars,
                      NEW t \in Trips, status'[t] \in {"pending_approval", "completed"},
                      NEW s \in StopsOf(t), stopStatus'[s] = "delivered"
               PROVE  s \in proposal'[t]
    BY DEF DeliveredIsProposed, StopsOf
  <2> USE DEF Ground, TypeOK
  <2>s. s \in Stops /\ TripOf[s] = t
    BY DEF StopsOf
  <2>1. CASE status[t] \in {"pending_approval", "completed"}
    <3>1. stopStatus[s] = "delivered"
      BY <2>1, <2>s, TapsAreOnTheRoad
    <3>2. proposal'[t] = proposal[t]
      <4>1. CASE Finalization
        BY <2>1, <4>1 DEF Finalization, Propose
      <4>2. CASE Reopening
        BY <2>1, <4>2 DEF Reopening, Unpropose
      <4> QED BY <4>1, <4>2, MoneySteps DEF NoMoneyMoves
    <3> QED BY <2>1, <3>1, <3>2, <2>s DEF DeliveredIsProposed
  <2>2. CASE status[t] \notin {"pending_approval", "completed"}
    <3>1. Finalization
      BY <2>2, MoneySteps DEF Reopening, Unpropose, NoMoneyMoves, Owed
    <3>2. Propose(t)
      BY <2>2, <3>1 DEF Finalization, Propose
    <3> QED BY <3>2, <2>s DEF Propose, Earning, StopsOf
  <2> QED BY <2>1, <2>2
<1> QED BY <1>1, <1>2, GroundHolds, PTL DEF Spec

OffRoad(t) == status[t] \notin {"in_progress", "pending_approval", "completed"}

\* Nothing is earned at a stop and no report under review can change that: the
\* driver never reached it, or every report about it is closed.
Idle(s) ==
    /\ stopStatus[s] # "delivered"
    /\ ~Settled(s)
    /\ arrivedAt[s] = "never" \/ \A e \in ReportsOn(s) : excState[e] \notin OpenStates

\* The strengthening of UnpaidExitOwesNothing that every step preserves.
OffRoadIsIdle == \A t \in Trips : OffRoad(t) => \A s \in StopsOf(t) : Idle(s)

\* A report about a stop is a report about its trip.
LEMMA ReportsOnOwnTrip ==
    ASSUME ReportsAreFiled, NEW s \in Stops, NEW e \in ReportsOn(s)
    PROVE  excTrip[e] = TripOf[s]
BY NullsAssumption DEF ReportsAreFiled, ReportsOn, StopsOf

\* Unless the reports change, a stop stays idle as long as it is not tapped.
LEMMA IdleFrame ==
    ASSUME NEW s \in Stops, Idle(s), UNCHANGED excVars,
           stopStatus'[s] = stopStatus[s], arrivedAt'[s] = arrivedAt[s]
    PROVE  Idle(s)'
BY DEF Idle, Settled, Adjudicated, ReportsOn, excVars

\* Off the road the stops rest, after a step of dispatch,
LEMMA IdleDispatch ==
    ASSUME Ground, OffRoadIsIdle, NEW t \in Trips, DispatchStep(t)
    PROVE  OffRoadIsIdle'
<1> SUFFICES ASSUME NEW u \in Trips, OffRoad(u)', NEW s \in StopsOf(u) PROVE Idle(s)'
  BY DEF OffRoadIsIdle, StopsOf
<1> USE DEF Ground, TypeOK
<1>s. s \in Stops /\ TripOf[s] = u
  BY DEF StopsOf
<1>f. UNCHANGED excVars
  BY DispatchFrame
<1>1. CASE \E d \in Drivers : ReassignMidTrip(t, d)
  <2>1. CASE u = t
    BY <1>1, <1>s, <2>1 DEF ReassignMidTrip, Idle, Settled, Adjudicated, StopsOf
  <2>2. CASE u # t
    <3>1. OffRoad(u) /\ stopStatus'[s] = stopStatus[s] /\ arrivedAt'[s] = arrivedAt[s]
      BY <1>1, <1>s, <2>2 DEF ReassignMidTrip, OffRoad, StopsOf
    <3> QED BY <1>s, <1>f, <3>1, IdleFrame DEF OffRoadIsIdle
  <2> QED BY <2>1, <2>2
<1>2. CASE Abort(t)
  <2>1. CASE u = t
    <3>1. Earning(t) = {} /\ ~HasOpenException(t)
      BY <1>2, <2>1 DEF Abort, OffRoad, Propose
    <3>2. \A e \in ReportsOn(s) : excState[e] \notin OpenStates
      BY <1>s, <2>1, <3>1, ReportsOnOwnTrip DEF HasOpenException, ReportsOn
    <3>3. Idle(s)
      BY <1>s, <2>1, <3>1, <3>2 DEF Idle, Earning
    <3> QED BY <1>2, <1>s, <1>f, <3>3, IdleFrame DEF Abort, stopVars
  <2>2. CASE u # t
    <3>1. OffRoad(u) /\ UNCHANGED stopVars
      BY <1>2, <2>2 DEF Abort, OffRoad, Propose
    <3> QED BY <1>s, <1>f, <3>1, IdleFrame DEF OffRoadIsIdle, stopVars
  <2> QED BY <2>1, <2>2
<1>3. CASE ~Abort(t) /\ ~\E d \in Drivers : ReassignMidTrip(t, d)
  <2>1. UNCHANGED stopVars
    BY <1>3 DEF DispatchStep, Assign, Reassign, Withdraw, CancelStale, Unassign, Start
  <2>2. OffRoad(u)
    BY <1>3 DEF DispatchStep, Assign, Reassign, Withdraw, CancelStale, Unassign, Start, OffRoad
  <2> QED BY <1>s, <1>f, <2>1, <2>2, IdleFrame DEF OffRoadIsIdle, stopVars
<1> QED BY <1>1, <1>2, <1>3

\* ... of a stop,
LEMMA IdleStop ==
    ASSUME Ground, OffRoadIsIdle, NEW r \in Stops, StopStep(r)
    PROVE  OffRoadIsIdle'
<1> SUFFICES ASSUME NEW u \in Trips, OffRoad(u)', NEW s \in StopsOf(u) PROVE Idle(s)'
  BY DEF OffRoadIsIdle, StopsOf
<1> USE TripOfAssumption DEF Ground, TypeOK
<1>s. s \in Stops /\ TripOf[s] = u
  BY DEF StopsOf
<1>1. r # s /\ OffRoad(u)
  BY <1>s DEF StopStep, Arrive, Deliver, UndoArrived, UndoDelivered, ArrivalAges,
              DeliveryAges, Undoable, OffRoad, Propose, Unpropose, tripVars
<1>2. stopStatus'[s] = stopStatus[s] /\ arrivedAt'[s] = arrivedAt[s]
  BY <1>1, <1>s DEF StopStep, Arrive, Deliver, UndoArrived, UndoDelivered,
                    ArrivalAges, DeliveryAges
<1> QED BY <1>s, <1>1, <1>2, StopFrame, IdleFrame DEF OffRoadIsIdle

\* ... and of a report.
LEMMA IdleReport ==
    ASSUME Ground, OffRoadIsIdle, NEW e \in Exceptions, ReportStep(e)
    PROVE  OffRoadIsIdle'
<1> SUFFICES ASSUME NEW u \in Trips, OffRoad(u)', NEW s \in StopsOf(u) PROVE Idle(s)'
  BY DEF OffRoadIsIdle, StopsOf
<1> USE DEF Ground, TypeOK
<1>s. s \in Stops /\ TripOf[s] = u
  BY DEF StopsOf
<1>f. UNCHANGED <<stopStatus, arrivedAt>>
  BY ReportFrame DEF stopVars
<1>1. CASE \E t \in Trips, r \in Stops \cup {NoStop} : Report(e, t, r)
  <2>1. PICK t \in Trips, r \in Stops \cup {NoStop} : Report(e, t, r)
    BY <1>1
  <2>2. t # u /\ OffRoad(u)
    BY <2>1 DEF Report, OffRoad
  <2>3. r # s
    BY <1>s, <2>1, <2>2, NullsAssumption DEF Report, StopsOf
  <2>4. Idle(s)
    BY <2>2 DEF OffRoadIsIdle
  <2> QED BY <1>f, <2>1, <2>3, <2>4, <1>s, NullsAssumption
          DEF Report, Idle, Settled, Adjudicated, ReportsOn, ReportsAreFiled
<1>2. CASE ~\E t \in Trips, r \in Stops \cup {NoStop} : Report(e, t, r)
  <2>1. OffRoad(u)
    BY <1>2 DEF ReportStep, AddEvidence, Continue, RequestMoreEvidence, Verify,
                Reject, Resume, Retry, Close, FinalizeIfNothingOutstanding,
                CanPropose, Propose, OffRoad, tripVars
  <2>2. Idle(s)
    BY <2>1 DEF OffRoadIsIdle
  <2>3. UNCHANGED excStop
    BY <1>2 DEF ReportStep, AddEvidence, Continue, RequestMoreEvidence, Verify,
                Reject, Resume, Retry, Close, excVars
  <2>4. CASE UNCHANGED excVars
    BY <1>s, <1>f, <2>2, <2>4, IdleFrame
  <2>5. CASE AddEvidence(e) \/ RequestMoreEvidence(e) \/ Verify(e)
    <3>1. /\ \E state \in OpenStates : excState' = [excState EXCEPT ![e] = state]
          /\ excState[e] \in OpenStates
          /\ UNCHANGED resolution
          /\ verified' \subseteq verified \cup {e}
      BY <2>5 DEF AddEvidence, RequestMoreEvidence, Verify, OpenStates, AllowedFrom,
                  StateAfterEvidence
    <3> QED BY <1>f, <2>2, <2>3, <3>1
            DEF Idle, Settled, Adjudicated, ReportsOn, OpenStates
  <2>6. CASE Reject(e) \/ Resume(e) \/ Retry(e)
    <3>1. /\ excState[e] \in OpenStates
          /\ \E state \in {"rejected", "resolved"} :
                excState' = [excState EXCEPT ![e] = state]
          /\ \E res \in Resolutions : resolution' = [resolution EXCEPT ![e] = res]
          /\ UNCHANGED verified
      BY <2>6 DEF Reject, Resume, Retry, Close, OpenStates, AllowedFrom, Resolutions
    <3> QED BY <1>f, <2>2, <2>3, <3>1
            DEF Idle, Settled, Adjudicated, ReportsOn, OpenStates
  <2> QED BY <1>2, <2>4, <2>5, <2>6 DEF ReportStep, Continue
<1> QED BY <1>1, <1>2

\* A trip that never went out, was taken off its driver or was ended without pay
\* has earned nothing, and no review still to come can make it earn.
THEOREM NothingEarnedIsLost == Spec => []UnpaidExitOwesNothing
<1>1. Init => OffRoadIsIdle
  BY DEF Init, OffRoadIsIdle, Idle, Settled, Adjudicated, StopsOf
<1>2. Ground /\ OffRoadIsIdle /\ [Next]_vars => OffRoadIsIdle'
  <2> SUFFICES ASSUME Ground, OffRoadIsIdle, [Next]_vars PROVE OffRoadIsIdle'
    OBVIOUS
  <2>1. ASSUME UNCHANGED status, UNCHANGED <<stopVars, excVars>> PROVE OffRoadIsIdle'
    BY <2>1 DEF OffRoadIsIdle, OffRoad, StopsOf, Idle, Settled, Adjudicated, ReportsOn,
                stopVars, excVars
  <2>2. ASSUME NEW a \in Admins, ApprovalStep(a) PROVE OffRoadIsIdle'
    <3>1. \A t \in Trips : OffRoad(t)' => OffRoad(t)
      BY <2>2 DEF Ground, TypeOK, ApprovalStep, ReadForApproval, ApproveOrRefuse,
                  OffRoad, tripVars
    <3> QED BY <2>2, <3>1, ApprovalFrame, IdleFrame DEF OffRoadIsIdle, StopsOf, stopVars
  <2> QED BY <2>1, <2>2, IdleDispatch, IdleStop, IdleReport DEF Next, vars, tripVars
<1>3. OffRoadIsIdle => UnpaidExitOwesNothing
  BY DEF OffRoadIsIdle, OffRoad, Idle, UnpaidExitOwesNothing, Earning, StopsOf
<1> QED BY <1>1, <1>2, <1>3, GroundHolds, PTL DEF Spec

-----------------------------------------------------------------------------
(* What one step may do to a trip, in the words of the delivery.            *)

Waiting == {"pending", "assigned"}
Closed  == {"cancelled", "rejected"}

\* No step changes what the contract sees of a trip other than t.
OthersRest(t) ==
    /\ \E st : status' = [status EXCEPT ![t] = st]
    /\ \E amount : proposal' = [proposal EXCEPT ![t] = amount]
    /\ \E amount : final' = [final EXCEPT ![t] = amount]
    /\ \A u \in Trips \ {t} : Earning(u)' = Earning(u)

Moves(t, from, to) == status[t] \in from /\ status'[t] \in to

Leaves(t) ==
    /\ Moves(t, Waiting, {"in_progress"})
    /\ Earning(t)' = Earning(t)
    /\ UNCHANGED <<proposal, final>>

Stays(t) == PhaseOf(status'[t]) = PhaseOf(status[t]) /\ UNCHANGED <<proposal, final>>

GivenBack(t) == Moves(t, {"in_progress"}, Waiting) /\ UNCHANGED <<proposal, final>>

Ends(t) ==
    /\ Moves(t, Waiting \cup {"in_progress"}, Closed)
    /\ Earning(t) = {}
    /\ UNCHANGED <<proposal, final>>

Settles(t) ==
    /\ Moves(t, {"in_progress"}, {"pending_approval"})
    /\ proposal'[t] = Earning(t)'
    /\ UNCHANGED final

Reopens(t) ==
    /\ Moves(t, {"pending_approval"}, {"in_progress"})
    /\ proposal'[t] = NoProposal
    /\ UNCHANGED final

IsPaid(t) ==
    /\ Moves(t, {"pending_approval"}, {"completed"})
    /\ final'[t] \in {Edited} \cup SUBSET StopsOf(t)
    /\ Earning(t)' = Earning(t)
    /\ UNCHANGED proposal

Move(t) ==
    \/ Leaves(t) \/ Stays(t) \/ GivenBack(t) \/ Ends(t)
    \/ Settles(t) \/ Reopens(t) \/ IsPaid(t)

\* What one trip does is a step of the contract, as long as a trip that is owed
\* nothing has earned nothing.
LEMMA MoveIsPromised ==
    ASSUME TypeOK, TypeOK', UnpaidExitOwesNothing, UnpaidExitOwesNothing',
           NEW t \in Trips, Move(t), OthersRest(t)
    PROVE  [Contract!Next]_(Contract!vars)
<1> USE DEF TypeOK, TripStatuses
<1>1. phase' = [phase EXCEPT ![t] = PhaseOf(status'[t])]
  BY DEF OthersRest, phase
<1>2. earned' = [earned EXCEPT ![t] = Earning(t)']
  BY DEF OthersRest, earned
<1>3. Earning(t)' \in Contract!Work(t) /\ Earning(t) \in Contract!Work(t)
  BY DEF Earning, StopsOf, Contract!Work
<1>4. phase[t] = PhaseOf(status[t]) /\ earned[t] = Earning(t)
  BY DEF phase, earned
<1>5. Earning(t)' = Earning(t) => earned' = earned
  BY <1>2 DEF earned
<1>6. PhaseOf(status'[t]) = PhaseOf(status[t]) => phase' = phase
  BY <1>1 DEF phase
<1>7. CASE Leaves(t)
  BY <1>1, <1>4, <1>5, <1>7
     DEF Leaves, Moves, Waiting, PhaseOf, Contract!Next, Contract!GoOut, Contract!Becomes
<1>8. CASE Stays(t)
  <2>1. CASE PhaseOf(status[t]) \in {"out", "owed", "paid"}
    BY <1>2, <1>3, <1>4, <1>6, <1>8, <2>1
       DEF Stays, Contract!Next, Contract!Progress, Contract!Earns
  <2>2. CASE PhaseOf(status[t]) \notin {"out", "owed", "paid"}
    <3>1. Earning(t) = {} /\ Earning(t)' = {}
      BY <1>8, <2>2 DEF Stays, PhaseOf, UnpaidExitOwesNothing
    <3> QED BY <1>5, <1>6, <1>8, <3>1 DEF Stays, Contract!vars
  <2> QED BY <2>1, <2>2
<1>9. CASE GivenBack(t)
  <2>1. Earning(t)' = {}
    BY <1>9 DEF GivenBack, Moves, Waiting, UnpaidExitOwesNothing
  <2> QED BY <1>1, <1>2, <1>4, <1>9, <2>1
          DEF GivenBack, Moves, Waiting, PhaseOf, Contract!Next, Contract!ComeBackEmpty,
              Contract!Becomes, Contract!Earns
<1>10. CASE Ends(t)
  <2>1. Earning(t)' = {}
    BY <1>10 DEF Ends, Moves, Closed, UnpaidExitOwesNothing
  <2> QED BY <1>1, <1>4, <1>5, <1>10, <2>1
          DEF Ends, Moves, Waiting, Closed, PhaseOf, Contract!Next, Contract!EndUnpaid,
              Contract!Becomes
<1>11. CASE Settles(t)
  <2>1. proposal' = [proposal EXCEPT ![t] = Earning(t)']
    BY <1>11 DEF OthersRest, Settles
  <2> QED BY <1>1, <1>2, <1>3, <1>4, <1>11, <2>1
          DEF Settles, Moves, PhaseOf, Contract!Next, Contract!Settle,
              Contract!Becomes, Contract!Earns, Contract!Owes
<1>12. CASE Reopens(t)
  <2>1. proposal' = [proposal EXCEPT ![t] = NoProposal]
    BY <1>12 DEF OthersRest, Reopens
  <2> QED BY <1>1, <1>2, <1>3, <1>4, <1>12, <2>1
          DEF Reopens, Moves, PhaseOf, Contract!Next, Contract!SendBackOut,
              Contract!Becomes, Contract!Earns, Contract!Owes
<1>13. CASE IsPaid(t)
  <2>1. \E amount \in {Edited} \cup Contract!Work(t) :
           final' = [final EXCEPT ![t] = amount]
    BY <1>13 DEF OthersRest, IsPaid, StopsOf, Contract!Work
  <2> QED BY <1>1, <1>4, <1>5, <1>13, <2>1
          DEF IsPaid, Moves, PhaseOf, Contract!Next, Contract!Pay, Contract!Becomes
<1> QED BY <1>7, <1>8, <1>9, <1>10, <1>11, <1>12, <1>13 DEF Move

-----------------------------------------------------------------------------
(* Every step moves one trip and leaves the rest alone.                     *)

\* What a trip has earned depends on its own stops and the reports about them.
LEMMA EarningFrame ==
    ASSUME NEW u \in Trips,
           \A s \in StopsOf(u) :
              /\ stopStatus'[s] = stopStatus[s]
              /\ arrivedAt'[s] = "never" <=> arrivedAt[s] = "never"
              /\ ReportsOn(s)' = ReportsOn(s),
           \A s \in StopsOf(u) : \A e \in ReportsOn(s) :
              /\ excState'[e] = excState[e]
              /\ resolution'[e] = resolution[e]
              /\ e \in verified' <=> e \in verified
    PROVE  Earning(u)' = Earning(u)
<1>1. \A s \in StopsOf(u) : Settled(s)' <=> Settled(s)
  BY DEF Settled, Adjudicated
<1> QED BY <1>1 DEF Earning, StopsOf

\* A step that leaves a field of the trips alone writes it back to any trip.
LEMMA WrittenBack ==
    ASSUME TypeOK, NEW t \in Trips
    PROVE  /\ status = [status EXCEPT ![t] = status[t]]
           /\ proposal = [proposal EXCEPT ![t] = proposal[t]]
           /\ final = [final EXCEPT ![t] = final[t]]
BY DEF TypeOK

\* A step of dispatch moves one trip of the contract, or none.
LEMMA DispatchMoves ==
    ASSUME Ground, UnpaidExitOwesNothing, NEW t \in Trips, DispatchStep(t)
    PROVE  Move(t) /\ OthersRest(t)
<1> USE DEF Ground, TypeOK
<1>f. UNCHANGED <<blocker, final, excVars>>
  BY DispatchFrame
<1>1. \A u \in Trips \ {t} : Earning(u)' = Earning(u)
  <2> SUFFICES ASSUME NEW u \in Trips \ {t} PROVE Earning(u)' = Earning(u)
    OBVIOUS
  <2>1. \A s \in StopsOf(u) : stopStatus'[s] = stopStatus[s] /\ arrivedAt'[s] = arrivedAt[s]
    BY DEF DispatchStep, Assign, Reassign, ReassignMidTrip, Withdraw, CancelStale,
           Unassign, Start, Abort, stopVars, StopsOf
  <2> QED BY <1>f, <2>1, EarningFrame DEF ReportsOn, excVars
<1>2. OthersRest(t)
  <2>1. \E st : status' = [status EXCEPT ![t] = st]
    BY DEF DispatchStep, Assign, Reassign, ReassignMidTrip, Withdraw, CancelStale,
           Unassign, Start, Abort, Propose
  <2>2. \E amount : proposal' = [proposal EXCEPT ![t] = amount]
    BY WrittenBack DEF DispatchStep, Assign, Reassign, ReassignMidTrip, Withdraw, CancelStale,
           Unassign, Start, Abort, Propose
  <2> QED BY <1>f, <1>1, <2>1, <2>2, WrittenBack DEF OthersRest
<1> SUFFICES Move(t)
  BY <1>2
<1>3. CASE \E d \in Drivers : Assign(t, d) \/ Reassign(t, d)
  BY <1>f, <1>3 DEF Assign, Reassign, Move, Stays, PhaseOf
<1>4. CASE \E d \in Drivers : ReassignMidTrip(t, d)
  BY <1>f, <1>4 DEF ReassignMidTrip, Move, GivenBack, Moves, Waiting
<1>5. CASE CancelStale(t) \/ \E exit \in {"rejected", "cancelled"} : Withdraw(t, exit)
  <2>1. status[t] \in Waiting /\ Earning(t) = {}
    BY <1>5 DEF CancelStale, Withdraw, Waiting, UnpaidExitOwesNothing
  <2> QED BY <1>f, <1>5, <2>1 DEF CancelStale, Withdraw, Move, Ends, Moves, Closed
<1>6. CASE Unassign(t)
  BY <1>f, <1>6 DEF Unassign, Move, Stays, PhaseOf
<1>7. CASE Start(t)
  <2>1. Earning(t)' = Earning(t)
    BY <1>f, <1>7, EarningFrame DEF Start, ReportsOn, excVars, stopVars
  <2> QED BY <1>f, <1>7, <2>1 DEF Start, Move, Leaves, Moves, Waiting
<1>8. CASE Abort(t)
  <2>1. CASE Earning(t) = {} /\ status' = [status EXCEPT ![t] = "cancelled"] /\ UNCHANGED proposal
    BY <1>f, <1>8, <2>1 DEF Abort, Move, Ends, Moves, Closed
  <2>2. CASE Propose(t)
    BY <1>f, <1>8, <2>2 DEF Abort, Propose, Move, Settles, Moves
  <2> QED BY <1>8, <2>1, <2>2 DEF Abort
<1> QED BY <1>3, <1>4, <1>5, <1>6, <1>7, <1>8 DEF DispatchStep

\* So does a step of a stop, its own trip.
LEMMA StopMoves ==
    ASSUME Ground, NEW s \in Stops, StopStep(s)
    PROVE  Move(TripOf[s]) /\ OthersRest(TripOf[s])
<1> DEFINE t == TripOf[s]
<1> USE DEF Ground, TypeOK
<1>f. UNCHANGED <<blocker, final, excVars>>
  BY StopFrame
<1>t. t \in Trips
  BY TripOfAssumption
<1>1. \A u \in Trips \ {t} : Earning(u)' = Earning(u)
  <2> SUFFICES ASSUME NEW u \in Trips \ {t} PROVE Earning(u)' = Earning(u)
    OBVIOUS
  <2>1. \A r \in StopsOf(u) : stopStatus'[r] = stopStatus[r] /\ arrivedAt'[r] = arrivedAt[r]
    BY DEF StopStep, Arrive, Deliver, UndoArrived, UndoDelivered, ArrivalAges,
           DeliveryAges, StopsOf
  <2> QED BY <1>f, <2>1, EarningFrame DEF ReportsOn, excVars
<1>2. CASE Arrive(s) \/ UndoArrived(s) \/ ArrivalAges(s) \/ DeliveryAges(s)
  <2>1. UNCHANGED tripVars
    BY <1>2 DEF Arrive, UndoArrived, ArrivalAges, DeliveryAges
  <2> QED BY <1>1, <1>t, <2>1, WrittenBack DEF tripVars, OthersRest, Move, Stays
<1>3. CASE Deliver(s)
  <2>1. CASE UNCHANGED <<status, proposal>>
    BY <1>1, <1>f, <1>t, <2>1, WrittenBack DEF OthersRest, Move, Stays
  <2>2. CASE Propose(t)
    BY <1>1, <1>3, <1>f, <1>t, <2>2, WrittenBack DEF Deliver, Propose, OthersRest, Move, Settles, Moves
  <2> QED BY <1>3, <2>1, <2>2 DEF Deliver
<1>4. CASE UndoDelivered(s)
  <2>1. CASE UNCHANGED <<status, proposal>>
    BY <1>1, <1>f, <1>t, <2>1, WrittenBack DEF OthersRest, Move, Stays
  <2>2. CASE status[t] = "pending_approval" /\ Unpropose(t)
    BY <1>1, <1>f, <1>t, <2>2, WrittenBack DEF Unpropose, OthersRest, Move, Reopens, Moves
  <2> QED BY <1>4, <2>1, <2>2 DEF UndoDelivered
<1> QED BY <1>2, <1>3, <1>4 DEF StopStep

\* The trip a report is about when the step is over is the one that moves.
LEMMA ReportMoves ==
    ASSUME Ground, NEW e \in Exceptions, ReportStep(e)
    PROVE  \E t \in Trips : Move(t) /\ OthersRest(t)
<1> USE DEF Ground, TypeOK
<1>f. UNCHANGED <<final, stopVars>>
  BY ReportFrame
<1>1. CASE \E t \in Trips, s \in Stops \cup {NoStop} : Report(e, t, s)
  <2>1. PICK t \in Trips, s \in Stops \cup {NoStop} : Report(e, t, s)
    BY <1>1
  <2>2. \A u \in Trips : Earning(u)' = Earning(u)
    <3> SUFFICES ASSUME NEW u \in Trips PROVE Earning(u)' = Earning(u)
      OBVIOUS
    <3>1. \A r \in StopsOf(u) : Settled(r)' <=> Settled(r)
      BY <1>f, <2>1, NullsAssumption
         DEF Report, Settled, Adjudicated, ReportsOn, ReportsAreFiled, StopsOf, stopVars
    <3> QED BY <1>f, <3>1 DEF Earning, StopsOf, stopVars
  <2> QED BY <1>f, <2>1, <2>2, WrittenBack DEF Report, OthersRest, Move, Stays
<1>2. CASE ~\E t \in Trips, s \in Stops \cup {NoStop} : Report(e, t, s)
  <2> DEFINE t == excTrip[e]
  <2>t. t \in Trips
    BY <1>2, ActionsNeedAReport
       DEF ReportStep, AddEvidence, Continue, RequestMoreEvidence, Verify, Reject,
           Resume, Retry, Close, AllowedFrom
  <2>1. \A d \in Exceptions \ {e} : /\ excState'[d] = excState[d]
                                    /\ resolution'[d] = resolution[d]
                                    /\ d \in verified' <=> d \in verified
    BY <1>2 DEF ReportStep, AddEvidence, Continue, RequestMoreEvidence, Verify, Reject,
                Resume, Retry, Close, excVars
  <2>2. UNCHANGED excStop
    BY <1>2 DEF ReportStep, AddEvidence, Continue, RequestMoreEvidence, Verify, Reject,
                Resume, Retry, Close, excVars
  <2>3. \A u \in Trips \ {t} : Earning(u)' = Earning(u)
    <3> SUFFICES ASSUME NEW u \in Trips \ {t} PROVE Earning(u)' = Earning(u)
      OBVIOUS
    <3>1. \A s \in StopsOf(u) : e \notin ReportsOn(s) /\ ReportsOn(s)' = ReportsOn(s)
      BY <2>2, ReportsOnOwnTrip DEF StopsOf, ReportsOn
    <3> QED BY <1>f, <2>1, <3>1, EarningFrame DEF stopVars, ReportsOn
  <2>4. \/ UNCHANGED <<status, proposal>>
        \/ status[t] = "in_progress" /\ Propose(t)
    BY <1>2 DEF ReportStep, AddEvidence, Continue, RequestMoreEvidence, Verify, Reject,
                Resume, Retry, Close, FinalizeIfNothingOutstanding, CanPropose, tripVars
  <2>5. CASE UNCHANGED <<status, proposal>>
    BY <1>f, <2>t, <2>3, <2>5, WrittenBack DEF OthersRest, Move, Stays
  <2>6. CASE status[t] = "in_progress" /\ Propose(t)
    <3>1. OthersRest(t)
      BY <1>f, <2>t, <2>3, <2>6, WrittenBack DEF Propose, OthersRest
    <3>2. Settles(t)
      BY <1>f, <2>t, <2>6 DEF Propose, Settles, Moves
    <3> QED BY <2>t, <3>1, <3>2 DEF Move
  <2> QED BY <2>4, <2>5, <2>6
<1> QED BY <1>1, <1>2

\* An approval pays an amount of the trip it is about.
RequestIsOwn ==
    \A a \in Admins : request[a] # NoRequest =>
        request[a].amount \in SUBSET StopsOf(request[a].trip)

\* So does an approval, the trip it was read for.
LEMMA ApprovalMoves ==
    ASSUME Ground, RequestIsOwn, NEW a \in Admins, ApprovalStep(a)
    PROVE  \E t \in Trips : Move(t) /\ OthersRest(t)
<1> USE DEF Ground, TypeOK
<1>1. \A u \in Trips : Earning(u)' = Earning(u)
  BY ApprovalFrame, EarningFrame DEF stopVars, excVars, ReportsOn
<1>2. ASSUME NEW t \in Trips, UNCHANGED <<status, final>>
      PROVE  Move(t) /\ OthersRest(t)
  BY <1>1, <1>2, ApprovalFrame, WrittenBack DEF OthersRest, Move, Stays
<1>3. CASE \E t \in Trips : ReadForApproval(a, t)
  BY <1>2, <1>3 DEF ReadForApproval, tripVars
<1>4. CASE ApproveOrRefuse(a)
  <2>t. PICK t \in Trips : t = request[a].trip
    BY <1>4 DEF ApproveOrRefuse
  <2>1. CASE status[t] # "pending_approval"
    BY <1>2, <1>4, <2>t, <2>1 DEF ApproveOrRefuse
  <2>2. CASE status[t] = "pending_approval"
    <3>1. status' = [status EXCEPT ![t] = "completed"]
      BY <1>4, <2>t, <2>2 DEF ApproveOrRefuse
    <3>2. PICK amount \in {request[a].amount, Edited} : final' = [final EXCEPT ![t] = amount]
      BY <1>4, <2>t, <2>2 DEF ApproveOrRefuse
    <3>3. amount \in {Edited} \cup SUBSET StopsOf(t)
      BY <1>4, <2>t DEF ApproveOrRefuse, RequestIsOwn
    <3>4. OthersRest(t)
      <4>1. \E old : proposal' = [proposal EXCEPT ![t] = old]
        BY ApprovalFrame, WrittenBack
      <4> QED BY <1>1, <3>1, <3>2, <4>1, Zenon DEF OthersRest
    <3>5. Moves(t, {"pending_approval"}, {"completed"})
      BY <2>t, <2>2, <3>1 DEF Moves
    <3>6. final'[t] = amount
      BY <3>2
    <3>7. IsPaid(t)
      BY <1>1, <3>3, <3>5, <3>6, ApprovalFrame DEF IsPaid
    <3> QED BY <2>t, <3>4, <3>7 DEF Move
  <2> QED BY <2>1, <2>2
<1> QED BY <1>3, <1>4 DEF ApprovalStep

-----------------------------------------------------------------------------
(* The refinement.                                                          *)

\* The amount of an approval in flight is always one of its own trip's.
LEMMA RequestHolds == Spec => []RequestIsOwn
<1>1. Init => RequestIsOwn
  BY DEF Init, RequestIsOwn
<1>2. Ground /\ ScoredMatchesProposal /\ RequestIsOwn /\ [Next]_vars => RequestIsOwn'
  <2> SUFFICES ASSUME Ground, ScoredMatchesProposal, RequestIsOwn, [Next]_vars
               PROVE  RequestIsOwn'
    OBVIOUS
  <2> USE DEF Ground, TypeOK, RequestIsOwn, StopsOf
  <2>1. ASSUME NEW a \in Admins, NEW t \in Trips, ReadForApproval(a, t)
        PROVE  RequestIsOwn'
    <3>1. proposal[t] \in SUBSET StopsOf(t)
      BY <2>1 DEF ReadForApproval, ScoredMatchesProposal, ProposedWhenOwed
    <3> QED BY <2>1, <3>1 DEF ReadForApproval
  <2>2. ASSUME NEW a \in Admins, ApproveOrRefuse(a) PROVE RequestIsOwn'
    BY <2>2 DEF ApproveOrRefuse
  <2>3. CASE UNCHANGED request
    BY <2>3
  <2> QED BY <2>1, <2>2, <2>3, DispatchFrame, StopFrame, ReportFrame
          DEF Next, ApprovalStep, vars
<1> QED BY <1>1, <1>2, GroundHolds, PointsMatchAmount, PTL DEF Spec

\* Whatever is tapped, undone, reported, reviewed, aborted, reassigned and
\* approved, in whatever order, each trip does what its contract says: what is
\* owed is what was earned when it came back, it is paid once, and it ends
\* without pay only if it earned nothing.
THEOREM DeliveryKeepsContract == Spec => ImplementsContract
<1> DEFINE Inv == Ground /\ UnpaidExitOwesNothing /\ RequestIsOwn
<1>1. Init => Contract!Init
  BY DEF Init, Contract!Init, phase, earned, PhaseOf, Earning, Settled, Adjudicated, StopsOf
<1>2. Inv /\ Inv' /\ [Next]_vars => [Contract!Next]_(Contract!vars)
  <2> SUFFICES ASSUME Inv, Inv', [Next]_vars PROVE [Contract!Next]_(Contract!vars)
    OBVIOUS
  <2>1. CASE UNCHANGED vars
    <3>1. \A u \in Trips : Earning(u)' = Earning(u)
      BY <2>1, EarningFrame DEF vars, stopVars, excVars, ReportsOn
    <3> QED BY <2>1, <3>1 DEF vars, tripVars, Contract!vars, phase, earned
  <2>2. CASE \E t \in Trips : Move(t) /\ OthersRest(t)
    BY <2>2, MoveIsPromised DEF Ground
  <2> QED BY <2>1, <2>2, TripOfAssumption, DispatchMoves, StopMoves, ReportMoves,
             ApprovalMoves DEF Next
<1>3. Spec => []Inv
  BY GroundHolds, NothingEarnedIsLost, RequestHolds, PTL
<1> QED BY <1>1, <1>2, <1>3, PTL DEF Spec, ImplementsContract, Contract!Spec
=============================================================================
