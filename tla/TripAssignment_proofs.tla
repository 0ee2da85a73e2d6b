----------------------- MODULE TripAssignment_proofs -----------------------
(***************************************************************************)
(* Safety of TripAssignment, for any fleet, any number of bookings and any *)
(* number of requests, attempts and sweeps in flight.                      *)
(***************************************************************************)
EXTENDS TripAssignment, Totals_proofs, TLAPS

-----------------------------------------------------------------------------
(* Type correctness.                                                        *)

\* Types hold initially.
LEMMA InitType == Init => TypeOK
BY BoundsAssumption DEF Init, TypeOK, Statuses, Days, Sizes

\* A claim puts statuses and drivers where they belong.
LEMMA ClaimType ==
    ASSUME TypeOK, NEW t \in Trips, NEW d \in Drivers, Claim(t, d)
    PROVE  /\ status' \in [Trips -> Statuses]
           /\ driver' \in [Trips -> Drivers \cup {NoDriver}]
           /\ paused' \in [Trips -> BOOLEAN]
           /\ failed' \in [Trips -> BOOLEAN]
BY DEF TypeOK, Claim, Statuses

\* A request or an attempt that is not idle is about a trip.
LEMMA InFlight ==
    ASSUME TypeOK
    PROVE  /\ \A c \in Office : approval[c] # Idle => approval[c].trip \in Trips
           /\ \A w \in Attempts : attempt[w] # Idle => attempt[w].trip \in Trips
BY DEF TypeOK, ApprovalRequests, DispatchAttempts, DispatchFailures

\* Types hold after a step of the requestor, the office or the road,
LEMMA BookingType ==
    ASSUME TypeOK, NEW t \in Trips,
           RequestorStep(t) \/ OfficeStep(t) \/ RoadStep(t)
    PROVE  TypeOK'
<1> USE DEF TypeOK, Statuses, Sizes, bookingVars, flightVars
<1>1. ASSUME NEW k \in Days, NEW n \in Loads, Book(t, k, n) \/ Edit(t, k, n)
      PROVE  TypeOK'
  <2>1. CASE Book(t, k, n)
    BY <2>1 DEF Book
  <2>2. CASE Edit(t, k, n)
    BY <2>2 DEF Edit
  <2> QED BY <1>1, <2>1, <2>2
<1>2. ASSUME NEW c \in Office, ReadForApproval(c, t) PROVE TypeOK'
  BY <1>2 DEF ReadForApproval, ApprovalRequests
<1>3. CASE Unassign(t) \/ Outsource(t) \/ Withdraw(t)
  BY <1>3 DEF Unassign, Outsource, Withdraw
<1>4. CASE RoadStep(t)
  BY <1>4 DEF RoadStep, Start, Abort, Finish, Reopen
<1> QED BY <1>1, <1>2, <1>3, <1>4 DEF RequestorStep, OfficeStep

\* ... of an approval,
LEMMA ApprovalType ==
    ASSUME TypeOK, NEW c \in Office, ApprovalStep(c)
    PROVE  TypeOK'
<1>1. ASSUME NEW d \in Drivers, Approve(c, d) PROVE TypeOK'
  BY <1>1, InFlight, ClaimType DEF Approve, TypeOK, bookingVars
<1>2. CASE Refuse(c)
  BY <1>2 DEF Refuse, TypeOK, bookingVars
<1> QED BY <1>1, <1>2 DEF ApprovalStep

\* ... of a dispatch attempt,
LEMMA AttemptType ==
    ASSUME TypeOK, NEW w \in Attempts, AttemptStep(w)
    PROVE  TypeOK'
<1> USE DEF TypeOK, bookingVars
<1>1. ASSUME NEW t \in Trips, Begin(w, t) PROVE TypeOK'
  BY <1>1 DEF Begin, DispatchAttempts
<1>2. ASSUME NEW d \in Drivers, AutoAssign(w, d) PROVE TypeOK'
  BY <1>2, InFlight, ClaimType, NullsAssumption DEF AutoAssign
<1>3. ASSUME NEW pin \in BOOLEAN, FindNone(w, pin) PROVE TypeOK'
  BY <1>3 DEF FindNone, DispatchAttempts, DispatchFailures
<1>4. CASE LoseAttempt(w)
  BY <1>4 DEF LoseAttempt
<1>5. CASE WriteFailure(w)
  BY <1>5 DEF WriteFailure
<1> QED BY <1>1, <1>2, <1>3, <1>4, <1>5 DEF AttemptStep, Choose

\* ... and of a sweep or the change of day.
LEMMA SweepType ==
    ASSUME TypeOK, SweepStep \/ Tomorrow
    PROVE  TypeOK'
<1> USE DEF TypeOK, Statuses, bookingVars, flightVars
<1>1. ASSUME NEW S \in SUBSET Trips, FindExpired(S) PROVE TypeOK'
  BY <1>1 DEF FindExpired
<1>2. CASE FlagExpired \/ FindStale \/ LoseSweep
  BY <1>2 DEF FlagExpired, FindStale, LoseSweep
<1>3. ASSUME NEW t \in Trips, CancelStale(t) PROVE TypeOK'
  BY <1>3 DEF CancelStale
<1>4. CASE Tomorrow
  BY <1>4, BoundsAssumption DEF Tomorrow, Days
<1> QED BY <1>1, <1>2, <1>3, <1>4 DEF SweepStep

\* Whatever is in flight, every column keeps a value of its type.
THEOREM TypeCorrect == Spec => []TypeOK
<1>1. TypeOK /\ [Next]_vars => TypeOK'
  <2>1. CASE UNCHANGED vars
    BY <2>1 DEF TypeOK, vars, bookingVars, flightVars
  <2> QED BY <2>1, BookingType, ApprovalType, AttemptType, SweepType DEF Next
<1> QED BY <1>1, InitType, PTL DEF Spec

-----------------------------------------------------------------------------
(* The driver follows the status.                                           *)

\* A trip that waits has no driver, a trip on the road or back from it has one,
\* however approvals, releases, attempts and sweeps interleave.
THEOREM DriverIsReleased == Spec => []DriverFollowsStatus
<1>1. Init => DriverFollowsStatus
  BY DEF Init, DriverFollowsStatus
<1>2. TypeOK /\ DriverFollowsStatus /\ [Next]_vars => DriverFollowsStatus'
  <2> SUFFICES ASSUME TypeOK, DriverFollowsStatus, [Next]_vars
               PROVE  DriverFollowsStatus'
    OBVIOUS
  <2> USE DEF TypeOK, DriverFollowsStatus
  <2>1. ASSUME NEW t \in Trips, RequestorStep(t) \/ OfficeStep(t) \/ RoadStep(t)
        PROVE  DriverFollowsStatus'
    BY <2>1 DEF RequestorStep, Book, Edit, OfficeStep, ReadForApproval, Unassign,
                Outsource, Withdraw, RoadStep, Start, Abort, Finish, Reopen
  <2>2. ASSUME NEW c \in Office, ApprovalStep(c) PROVE DriverFollowsStatus'
    BY <2>2, InFlight, NullsAssumption DEF ApprovalStep, Approve, Refuse, Claim
  <2>3. ASSUME NEW w \in Attempts, AttemptStep(w) PROVE DriverFollowsStatus'
    BY <2>3, InFlight, NullsAssumption
    DEF AttemptStep, Begin, Choose, AutoAssign, FindNone, LoseAttempt, WriteFailure,
        Claim
  <2>4. CASE SweepStep \/ Tomorrow
    BY <2>4 DEF SweepStep, FindExpired, FlagExpired, FindStale, CancelStale,
                LoseSweep, Tomorrow
  <2>5. CASE UNCHANGED vars
    BY <2>5 DEF vars
  <2> QED BY <2>1, <2>2, <2>3, <2>4, <2>5 DEF Next
<1> QED BY <1>1, <1>2, TypeCorrect, PTL DEF Spec

-----------------------------------------------------------------------------
(* No lorry is given more than it holds.                                    *)

\* What a request or an attempt in flight has read of a booking is still so,
\* unless the booking was edited.
ReadIsCurrent ==
    /\ \A c \in Office : approval[c] # Idle =>
          LET t == approval[c].trip IN
          /\ status[t] # "unbooked"
          /\ t \notin edited => approval[c].day = day[t]
    /\ \A w \in Attempts : attempt[w] \in DispatchAttempts =>
          LET t == attempt[w].trip IN
          /\ status[t] # "unbooked"
          /\ t \notin edited => attempt[w].day = day[t] /\ attempt[w].load = load[t]

\* The trips of a lorry on a day whose cargo must fit: assigned, never edited.
Given(d, k) == {t \in Aboard(d, k) : status[t] = "assigned"} \ edited

\* The same after the step.
GivenNext(d, k) ==
    {t \in Trips : driver'[t] = d /\ status'[t] = "assigned" /\ day'[t] = k /\ t \notin edited'}

\* A booking that exists keeps its day and its cargo unless it is edited, and what
\* is in flight is kept, given up or finished.
BookingsKept ==
    \A t \in Trips : status[t] # "unbooked" =>
        /\ status'[t] # "unbooked"
        /\ t \notin edited' => t \notin edited /\ day'[t] = day[t] /\ load'[t] = load[t]

FlightsKept ==
    /\ \A c \in Office : approval'[c] = approval[c] \/ approval'[c] = Idle
    /\ \A w \in Attempts : attempt'[w] = attempt[w] \/ attempt'[w] \notin DispatchAttempts

\* What was read stays current while what is booked is only moved or loaded
\* anew as an edit, and nothing new is read.
LEMMA KeptIsCurrent ==
    ASSUME TypeOK, ReadIsCurrent, BookingsKept, FlightsKept
    PROVE  ReadIsCurrent'
<1>1. \A c \in Office : approval'[c] # Idle =>
         LET t == approval'[c].trip IN
         /\ status'[t] # "unbooked"
         /\ t \notin edited' => approval'[c].day = day'[t]
  BY InFlight DEF ReadIsCurrent, BookingsKept, FlightsKept
<1>2. \A w \in Attempts : attempt'[w] \in DispatchAttempts =>
         LET t == attempt'[w].trip IN
         /\ status'[t] # "unbooked"
         /\ t \notin edited' => attempt'[w].day = day'[t] /\ attempt'[w].load = load'[t]
  BY InFlight, NullsAssumption DEF ReadIsCurrent, BookingsKept, FlightsKept
<1> QED BY <1>1, <1>2 DEF ReadIsCurrent

\* Every step leaves what is still relied on current.
LEMMA CurrentStep ==
    ASSUME TypeOK, ReadIsCurrent, [Next]_vars
    PROVE  ReadIsCurrent'
<1> USE DEF TypeOK, bookingVars, flightVars
<1>1. ASSUME NEW t \in Trips, RequestorStep(t) PROVE ReadIsCurrent'
  <2>1. BookingsKept
    BY <1>1 DEF RequestorStep, Book, Edit, BookingsKept
  <2>2. FlightsKept
    BY <1>1 DEF RequestorStep, Book, Edit, FlightsKept
  <2> QED BY <2>1, <2>2, KeptIsCurrent
<1>2. ASSUME NEW t \in Trips, NEW c \in Office, ReadForApproval(c, t)
      PROVE  ReadIsCurrent'
  <2>1. /\ approval' = [approval EXCEPT ![c] =
                 [trip |-> t, day |-> day[t], from |-> status[t], pair |-> driver[t]]]
        /\ UNCHANGED <<status, day, load, edited, attempt>>
        /\ status[t] # "unbooked"
    BY <1>2 DEF ReadForApproval
  <2> QED BY <2>1 DEF ReadIsCurrent
<1>3. ASSUME NEW t \in Trips, Unassign(t) \/ Outsource(t) \/ Withdraw(t) \/ RoadStep(t)
      PROVE  ReadIsCurrent'
  <2>1. BookingsKept /\ FlightsKept
    BY <1>3 DEF Unassign, Outsource, Withdraw, RoadStep, Start, Abort, Finish, Reopen,
                BookingsKept, FlightsKept
  <2> QED BY <2>1, KeptIsCurrent
<1>4. ASSUME NEW c \in Office, ApprovalStep(c) PROVE ReadIsCurrent'
  <2>1. BookingsKept /\ FlightsKept
    BY <1>4, InFlight DEF ApprovalStep, Approve, Refuse, Claim, BookingsKept, FlightsKept
  <2> QED BY <2>1, KeptIsCurrent
<1>5. ASSUME NEW w \in Attempts, NEW t \in Trips, Begin(w, t) PROVE ReadIsCurrent'
  <2>1. /\ attempt' = [attempt EXCEPT ![w] =
                          [trip |-> t, day |-> day[t], load |-> load[t]]]
        /\ UNCHANGED <<status, day, load, edited, approval>>
        /\ status[t] # "unbooked"
    BY <1>5 DEF Begin
  <2> QED BY <2>1 DEF ReadIsCurrent
<1>6. ASSUME NEW w \in Attempts, Choose(w) \/ LoseAttempt(w) \/ WriteFailure(w)
      PROVE  ReadIsCurrent'
  <2>1. BookingsKept
    BY <1>6, InFlight
    DEF Choose, AutoAssign, FindNone, LoseAttempt, WriteFailure, Claim, BookingsKept
  <2>2. FlightsKept
    BY <1>6, InFlight, NullsAssumption
    DEF Choose, AutoAssign, FindNone, LoseAttempt, WriteFailure, FlightsKept,
        DispatchFailures, DispatchAttempts
  <2> QED BY <2>1, <2>2, KeptIsCurrent
<1>7. CASE SweepStep \/ Tomorrow \/ UNCHANGED vars
  <2>1. BookingsKept /\ FlightsKept
    BY <1>7 DEF SweepStep, FindExpired, FlagExpired, FindStale, CancelStale, LoseSweep,
                Tomorrow, vars, BookingsKept, FlightsKept
  <2> QED BY <2>1, KeptIsCurrent
<1> QED
  BY <1>1, <1>2, <1>3, <1>4, <1>5, <1>6, <1>7 DEF Next, OfficeStep, AttemptStep

\* What is given to a lorry is a finite set of trips, each with its load.
LEMMA GivenType ==
    ASSUME TypeOK, NEW S, S \subseteq Trips
    PROVE  /\ IsFiniteSet(S)
           /\ \A t \in S : load[t] \in Nat
           /\ Pallets(S) \in Nat
<1>1. IsFiniteSet(S)
  BY BoundsAssumption, FS_Subset
<1>2. \A t \in S : load[t] \in Nat
  <2>1. Sizes \subseteq Nat
    BY CapacityAssumption DEF Sizes
  <2>2. \A t \in Trips : load[t] \in Sizes
    BY DEF TypeOK
  <2> QED BY <2>1, <2>2
<1>3. Pallets(S) \in Nat
  BY <1>1, <1>2, TotalNat DEF Pallets
<1> QED BY <1>1, <1>2, <1>3

\* Fewer trips with the same cargo still fit.
LEMMA FewerFit ==
    ASSUME TypeOK, NEW d \in Drivers, NEW S, S \subseteq Trips, NEW U, U \subseteq S,
           Pallets(S) <= Capacity[d], \A t \in U : load'[t] = load[t]
    PROVE  SumFunctionOnSet(load', U) <= Capacity[d]
<1>1. /\ IsFiniteSet(S) /\ \A t \in S : load[t] \in Nat
      /\ IsFiniteSet(U) /\ \A t \in U : load[t] \in Int /\ load[t] = load'[t]
      /\ Pallets(S) \in Nat /\ Pallets(U) \in Nat
  BY GivenType
<1>2. Pallets(U) <= Pallets(S)
  BY <1>1, TotalPart DEF Pallets
<1>3. SumFunctionOnSet(load, U) = SumFunctionOnSet(load', U)
  <2> DEFINE f == load
             g == load'
  <2>1. \A t \in U : f[t] \in Int /\ f[t] = g[t]
    BY <1>1
  <2> HIDE DEF f, g
  <2>2. SumFunctionOnSet(f, U) = SumFunctionOnSet(g, U)
    BY <1>1, <2>1, TotalSame
  <2> QED BY <2>2 DEF f, g
<1>4. SumFunctionOnSet(load', U) = Pallets(U)
  BY <1>3 DEF Pallets
<1>5. Capacity[d] \in Nat
  BY CapacityAssumption
<1> QED BY <1>1, <1>2, <1>4, <1>5

\* The lorries are within what they hold after a step if what each is given then fits.
LEMMA FitsNext ==
    ASSUME \A d \in Drivers, k \in Days :
              SumFunctionOnSet(load', GivenNext(d, k)) <= Capacity[d]
    PROVE  LorryFits'
<1> SUFFICES ASSUME NEW d \in Drivers, NEW k \in Days
             PROVE  Pallets(Given(d, k))' <= Capacity[d]
  BY DEF LorryFits, Given, Pallets
<1>1. Given(d, k)' = GivenNext(d, k)
  BY DEF Given, GivenNext, Aboard
<1> QED BY <1>1 DEF Pallets

\* A claim keeps the lorries within what they hold, if the cargo, unless it was
\* edited, fits on the day the booking is for.
LEMMA ClaimFits ==
    ASSUME TypeOK, LorryFits, NEW t \in Trips, NEW d \in Drivers, Claim(t, d),
           UNCHANGED bookingVars, t \notin edited => Fits(t, d, day[t])
    PROVE  LorryFits'
<1> SUFFICES ASSUME NEW e \in Drivers, NEW k \in Days
             PROVE  SumFunctionOnSet(load', GivenNext(e, k)) <= Capacity[e]
  BY FitsNext
<1>1. \A u \in Trips : load'[u] = load[u] /\ day'[u] = day[u]
  BY DEF bookingVars
<1>2. Given(e, k) \subseteq Trips /\ GivenNext(e, k) \subseteq Trips
  BY DEF Given, GivenNext, Aboard
<1>3. Pallets(Given(e, k)) <= Capacity[e]
  BY DEF LorryFits, Given
<1>4. CASE t \in edited \/ e # d \/ k # day[t]
  <2>1. GivenNext(e, k) \subseteq Given(e, k)
    BY <1>4 DEF Given, GivenNext, Aboard, Claim, bookingVars, TypeOK
  <2> DEFINE S == Given(e, k)
             U == GivenNext(e, k)
  <2> HIDE DEF S, U
  <2>2. S \subseteq Trips /\ U \subseteq S /\ Pallets(S) <= Capacity[e]
    BY <1>2, <1>3, <2>1 DEF S, U
  <2>3. SumFunctionOnSet(load', U) <= Capacity[e]
    BY <2>2, <1>1, <1>2, FewerFit
  <2> QED BY <2>3 DEF U
<1>5. CASE t \notin edited /\ e = d /\ k = day[t]
  <2> DEFINE V == Aboard(d, k) \ {t}
             S == V \cup {t}
             U == GivenNext(e, k)
  <2>1. V \subseteq Trips /\ S \subseteq Trips /\ t \notin V
    BY DEF Aboard
  <2>2. U \subseteq S
    BY <1>5 DEF GivenNext, Aboard, Claim, bookingVars, TypeOK
  <2>3. Pallets(V) + load[t] <= Capacity[d]
    BY <1>5 DEF Fits
  <2> HIDE DEF V, S, U
  <2>4. IsFiniteSet(V) /\ Pallets(V) \in Nat /\ load[t] \in Nat
        /\ \A i \in V \cup {t} : load[i] \in Int
    BY <2>1, GivenType
  <2>5. Pallets(V \cup {t}) = load[t] + Pallets(V)
    BY <2>1, <2>4, TotalAdd DEF Pallets
  <2>6. Pallets(S) <= Capacity[e]
    BY <1>5, <2>3, <2>4, <2>5, CapacityAssumption DEF S
  <2>7. SumFunctionOnSet(load', U) <= Capacity[e]
    BY <1>1, <2>1, <2>2, <2>6, FewerFit
  <2> QED BY <2>7 DEF U
<1> QED BY <1>4, <1>5

\* A step that gives no lorry a trip, and changes no cargo that is given, keeps
\* them within what they hold.
LEMMA NoneGivenFits ==
    ASSUME TypeOK, LorryFits,
           \A t \in Trips : status'[t] = "assigned" /\ driver'[t] \in Drivers
                              /\ t \notin edited' =>
               /\ status[t] = "assigned" /\ driver[t] = driver'[t] /\ t \notin edited
               /\ day[t] = day'[t] /\ load[t] = load'[t]
    PROVE  LorryFits'
<1> SUFFICES ASSUME NEW d \in Drivers, NEW k \in Days
             PROVE  SumFunctionOnSet(load', GivenNext(d, k)) <= Capacity[d]
  BY FitsNext
<1> DEFINE S == Given(d, k)
           U == GivenNext(d, k)
<1>1. S \subseteq Trips
  BY DEF Given, Aboard
<1>2. U \subseteq S /\ \A t \in U : load'[t] = load[t]
  BY DEF Given, GivenNext, Aboard
<1>3. Pallets(S) <= Capacity[d]
  BY DEF LorryFits, Given
<1> HIDE DEF S, U
<1>4. SumFunctionOnSet(load', U) <= Capacity[d]
  BY <1>1, <1>2, <1>3, FewerFit
<1> QED BY <1>4 DEF U

\* Two approvals and an attempt in flight never overfill a lorry between them: each
\* counts, when it claims, what the others have claimed since it read the booking,
\* and a booking it read can have changed only by an edit.
THEOREM LorriesFit == Spec => []LorryFits
<1>1. Init => LorryFits /\ ReadIsCurrent
  <2> SUFFICES ASSUME Init PROVE LorryFits /\ ReadIsCurrent
    OBVIOUS
  <2>1. ReadIsCurrent
    BY NullsAssumption DEF Init, ReadIsCurrent
  <2>2. ASSUME NEW d \in Drivers, NEW k \in Days PROVE Pallets(Given(d, k)) <= Capacity[d]
    <3>1. Given(d, k) = {}
      BY DEF Init, Given, Aboard
    <3>2. Pallets({}) = 0
      BY TotalEmpty DEF Pallets
    <3> QED BY <3>1, <3>2, CapacityAssumption
  <2> QED BY <2>1, <2>2 DEF LorryFits, Given
<1>2. TypeOK /\ DriverFollowsStatus /\ ReadIsCurrent /\ LorryFits /\ [Next]_vars
        => LorryFits'
  <2> SUFFICES ASSUME TypeOK, DriverFollowsStatus, ReadIsCurrent, LorryFits, [Next]_vars
               PROVE  LorryFits'
    OBVIOUS
  <2> USE DEF bookingVars, flightVars
  <2>1. ASSUME NEW t \in Trips, RequestorStep(t) \/ OfficeStep(t) \/ RoadStep(t)
        PROVE  LorryFits'
    <3> USE DEF TypeOK
    <3>1. CASE RequestorStep(t)
      BY <3>1, NoneGivenFits DEF RequestorStep, Book, Edit
    <3>2. CASE OfficeStep(t)
      <4>1. ASSUME NEW c \in Office, ReadForApproval(c, t) PROVE LorryFits'
        BY <4>1, NoneGivenFits DEF ReadForApproval
      <4>2. CASE Unassign(t) \/ Withdraw(t)
        BY <4>2, NoneGivenFits, NullsAssumption DEF Unassign, Withdraw
      <4>3. CASE Outsource(t)
        <5>1. driver[t] = NoDriver
          BY <4>3 DEF Outsource, DriverFollowsStatus
        <5> QED BY <4>3, <5>1, NoneGivenFits, NullsAssumption DEF Outsource
      <4> QED BY <3>2, <4>1, <4>2, <4>3 DEF OfficeStep
    <3>3. CASE RoadStep(t)
      BY <3>3, NoneGivenFits DEF RoadStep, Start, Abort, Finish, Reopen
    <3> QED BY <2>1, <3>1, <3>2, <3>3
  <2>2. ASSUME NEW c \in Office, ApprovalStep(c) PROVE LorryFits'
    <3>1. ASSUME NEW d \in Drivers, Approve(c, d) PROVE LorryFits'
      <4> DEFINE t == approval[c].trip
      <4>1. t \in Trips /\ Claim(t, d) /\ UNCHANGED bookingVars
            /\ Fits(t, d, approval[c].day)
            /\ (t \notin edited => approval[c].day = day[t])
        BY <3>1, InFlight DEF Approve, ReadIsCurrent
      <4> HIDE DEF t
      <4> QED BY <4>1, ClaimFits
    <3>2. CASE Refuse(c)
      BY <3>2, NoneGivenFits DEF Refuse, TypeOK
    <3> QED BY <2>2, <3>1, <3>2 DEF ApprovalStep
  <2>3. ASSUME NEW w \in Attempts, AttemptStep(w) PROVE LorryFits'
    <3>1. ASSUME NEW d \in Drivers, AutoAssign(w, d) PROVE LorryFits'
      <4> DEFINE t == attempt[w].trip
      <4>1. /\ t \in Trips /\ Claim(t, d) /\ UNCHANGED bookingVars
            /\ Aboard(d, attempt[w].day) = {} /\ attempt[w].load <= Capacity[d]
            /\ t \notin edited => attempt[w].day = day[t] /\ attempt[w].load = load[t]
        BY <3>1, InFlight, NullsAssumption DEF AutoAssign, ReadIsCurrent
      <4> HIDE DEF t
      <4>2. Pallets({}) = 0 /\ load[t] \in Nat
        <5>1. load[t] \in Nat
          BY <4>1, GivenType
        <5> QED BY <5>1, TotalEmpty DEF Pallets
      <4>3. ASSUME t \notin edited PROVE Fits(t, d, day[t])
        <5>1. Aboard(d, day[t]) \ {t} = {} /\ load[t] <= Capacity[d]
          BY <4>1, <4>3
        <5> QED BY <4>2, <5>1 DEF Fits
      <4> QED BY <4>1, <4>3, ClaimFits
    <3>2. CASE \/ \E t \in Trips : Begin(w, t)
               \/ \E pin \in BOOLEAN : FindNone(w, pin)
               \/ LoseAttempt(w) \/ WriteFailure(w)
      BY <3>2, NoneGivenFits
      DEF Begin, FindNone, LoseAttempt, WriteFailure, TypeOK
    <3> QED BY <2>3, <3>1, <3>2 DEF AttemptStep, Choose
  <2>4. CASE SweepStep \/ Tomorrow \/ UNCHANGED vars
    BY <2>4, NoneGivenFits
    DEF SweepStep, FindExpired, FlagExpired, FindStale, CancelStale, LoseSweep, Tomorrow,
        vars, TypeOK
  <2> QED BY <2>1, <2>2, <2>3, <2>4 DEF Next
<1> QED BY <1>1, <1>2, CurrentStep, TypeCorrect, DriverIsReleased, PTL DEF Spec

-----------------------------------------------------------------------------
(* What a step may not do.                                                  *)

\* A trip the office took off its driver loses the pin only to an office request:
\* an automatic attempt that read the trip before it was pinned cannot claim it.
THEOREM UnassignedStaysManual == Spec => PinnedStaysManual
<1> DEFINE ByOffice(t) == \E c \in Office : /\ approval[c] # Idle
                                           /\ approval[c].trip = t
                                           /\ approval'[c] = Idle
           Manual == \A t \in Trips : (status[t] = "pending" /\ paused[t]) =>
                                       \/ paused'[t]
                                       \/ ByOffice(t)
<1>1. TypeOK /\ [Next]_vars => Manual
  <2> SUFFICES ASSUME TypeOK, [Next]_vars, NEW t \in Trips,
                      status[t] = "pending", paused[t], ~paused'[t]
               PROVE  ByOffice(t)
    OBVIOUS
  <2> USE DEF TypeOK
  <2>1. ASSUME NEW u \in Trips, RequestorStep(u) \/ OfficeStep(u) \/ RoadStep(u)
        PROVE  FALSE
    BY <2>1 DEF RequestorStep, Book, Edit, OfficeStep, ReadForApproval, Unassign,
                Outsource, Withdraw, RoadStep, Start, Abort, Finish, Reopen
  <2>2. ASSUME NEW c \in Office, ApprovalStep(c) PROVE ByOffice(t)
    BY <2>2, InFlight DEF ApprovalStep, Approve, Refuse, Claim
  <2>3. ASSUME NEW w \in Attempts, AttemptStep(w) PROVE FALSE
    BY <2>3, InFlight
    DEF AttemptStep, Begin, Choose, AutoAssign, FindNone, LoseAttempt, WriteFailure,
        Claim
  <2>4. CASE SweepStep \/ Tomorrow
    BY <2>4 DEF SweepStep, FindExpired, FlagExpired, FindStale, CancelStale,
                LoseSweep, Tomorrow
  <2>5. CASE UNCHANGED vars
    BY <2>5 DEF vars
  <2> QED BY <2>1, <2>2, <2>3, <2>4, <2>5 DEF Next
<1>2. Spec => [][Manual]_vars
  BY <1>1, TypeCorrect, PTL DEF Spec
<1>3. [][Manual]_vars <=> PinnedStaysManual
  BY DEF PinnedStaysManual
<1> QED BY <1>2, <1>3

\* However long the 3am sweep takes, a trip that was started after the sweep listed
\* it is left alone when its turn comes.
THEOREM RoadIsSafeFromSweep == Spec => NeverCancelledOnTheRoad
<1> DEFINE Spared == \A t \in stale \ stale' :
                        status[t] \in {"in_progress", "done"} => status'[t] = status[t]
<1>1. TypeOK /\ [Next]_vars => Spared
  <2> SUFFICES ASSUME TypeOK, [Next]_vars, NEW t \in stale \ stale',
                      status[t] \in {"in_progress", "done"}
               PROVE  status'[t] = status[t]
    OBVIOUS
  <2> USE DEF TypeOK, flightVars
  <2>1. SweepStep
    BY DEF Next, vars, RequestorStep, Book, Edit, OfficeStep, ReadForApproval, Unassign,
           Outsource, Withdraw, RoadStep, Start, Abort, Finish, Reopen, ApprovalStep,
           Approve, Refuse, AttemptStep, Begin, Choose, AutoAssign, FindNone,
           LoseAttempt, WriteFailure, Tomorrow
  <2> QED BY <2>1 DEF SweepStep, FindExpired, FlagExpired, FindStale, CancelStale,
                      LoseSweep
<1>2. Spec => [][Spared]_vars
  BY <1>1, TypeCorrect, PTL DEF Spec
<1>3. [][Spared]_vars <=> NeverCancelledOnTheRoad
  BY DEF NeverCancelledOnTheRoad
<1> QED BY <1>2, <1>3

=============================================================================
