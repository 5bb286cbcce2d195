---------------------------- MODULE RideStoreProofs ----------------------------
(***************************************************************************)
(* Theorems about RideStore, for every set of rides and drivers.           *)
(***************************************************************************)
EXTENDS RideStore, TLAPS

LEMMA InitType == Init => TypeOK
  BY DEF Init, TypeOK, RideStatus, Active, OfferStatus, Availability, Standing

LEMMA RideStepType ==
  ASSUME TypeOK, NEW r \in Ride, RideNext(r)
  PROVE  TypeOK'
<1> USE DEF TypeOK, RideStatus, Active, OfferStatus, Availability, Standing, driverVars
<1>1. CASE Create(r)
  BY <1>1 DEF Create
<1>2. ASSUME NEW d \in Driver, OfferDispatch(r, d) PROVE TypeOK'
  <2>1. CASE CanLease(r, d)
    <3>1. offer' \in [Ride -> [Driver -> OfferStatus]]
      BY <1>2, <2>1 DEF OfferDispatch
    <3>2. lease' \in [Ride -> Driver \cup {None}] /\ expired' \in [Ride -> BOOLEAN]
      BY <1>2, <2>1 DEF OfferDispatch
    <3> QED
      BY <3>1, <3>2, <1>2 DEF OfferDispatch
  <2>2. CASE ~CanLease(r, d)
    <3>1. lease[r] \in Driver /\ TimeOutLease(r) /\ UNCHANGED <<status, assigned, driverVars>>
      BY <1>2, <2>2 DEF OfferDispatch, DueLease
    <3>2. offer' \in [Ride -> [Driver -> OfferStatus]]
      BY <3>1 DEF TimeOutLease
    <3>3. lease' \in [Ride -> Driver \cup {None}] /\ expired' \in [Ride -> BOOLEAN]
      BY <3>1 DEF TimeOutLease, ClearLease
    <3> QED
      BY <3>1, <3>2, <3>3
  <2> QED
    BY <2>1, <2>2
<1>3. ASSUME NEW d \in Driver, NEW outcome \in {"rejected", "timed_out"},
             FinishAttempt(r, d, outcome)
      PROVE  TypeOK'
  BY <1>3 DEF FinishAttempt, CanFinish, ClearLease
<1>4. CASE Reconcile(r)
  BY <1>4 DEF Reconcile, TimeOutLease, ClearLease, DueLease
<1>5. ASSUME NEW d \in Driver, Accept(r, d) PROVE TypeOK'
  BY <1>5 DEF Accept, Consumed, ClosedOffers, ClearLease
<1>6. CASE FailDispatch(r)
  BY <1>6 DEF FailDispatch, Unleased, ClosedOffers
<1>7. CASE Cancel(r)
  BY <1>7 DEF Cancel, ClosedOffers, ClearLease, ReleasedTo
<1>8. ASSUME NEW s \in Active, Transition(r, s) PROVE TypeOK'
  BY <1>8 DEF Transition, ClosedOffers
<1>9. CASE StartTrip(r)
  BY <1>9 DEF StartTrip, ClosedOffers
<1>10. CASE Complete(r)
  BY <1>10 DEF Complete, ClosedOffers, ReleasedTo
<1>11. CASE LeaseExpires(r)
  BY <1>11 DEF LeaseExpires
<1> QED
  BY <1>1, <1>2, <1>3, <1>4, <1>5, <1>6, <1>7, <1>8, <1>9, <1>10, <1>11 DEF RideNext

LEMMA DriverStepType ==
  ASSUME TypeOK, NEW d \in Driver, DriverNext(d)
  PROVE  TypeOK'
<1> USE DEF TypeOK, Availability, Standing, rideVars
<1>1. CASE GoOnline(d) \/ GoOffline(d) \/ UpdateLocation(d) \/ MarkStale(d) \/ SetActiveVehicle(d)
  BY <1>1 DEF GoOnline, GoOffline, UpdateLocation, MarkStale, SetActiveVehicle
<1>2. CASE ReviewPending(d) \/ EditLicence(d) \/ UploadLicence(d)
  BY <1>2 DEF ReviewPending, EditLicence, UploadLicence
<1>3. CASE RemoveDriver(d)
  BY <1>3 DEF RemoveDriver, ClosedOffers, RideStatus, OfferStatus
<1>4. CASE LocationAges(d) \/ StandingLapses(d) \/ StandingRestored(d)
  BY <1>4 DEF LocationAges, StandingLapses, StandingRestored
<1> QED
  BY <1>1, <1>2, <1>3, <1>4 DEF DriverNext

LEMMA TypeStep == TypeOK /\ [Next]_vars => TypeOK'
<1> SUFFICES ASSUME TypeOK, [Next]_vars PROVE TypeOK'
  OBVIOUS
<1>1. CASE UNCHANGED vars
  BY <1>1 DEF TypeOK, vars
<1>2. CASE Next
  BY <1>2, RideStepType, DriverStepType DEF Next
<1> QED
  BY <1>1, <1>2

\* Type correctness: every column keeps a value its type and CHECK constraint allow.
THEOREM TypeCorrect == Spec => []TypeOK
<1> QED
  BY InitType, TypeStep, PTL DEF Spec

-----------------------------------------------------------------------------
(* The rows of rides and of attempts agree: the part of the inductive       *)
(* invariant that needs nothing about availability.                         *)

Agreement == ColumnsMatchStatus /\ LeaseMatchesOffer /\ AssignedByAcceptance

LEMMA TimeOutAgreement ==
  ASSUME TypeOK, Agreement, NEW r \in Ride, lease[r] \in Driver, TimeOutLease(r),
         UNCHANGED <<status, assigned>>
  PROVE  Agreement'
  BY NoneAssumption
  DEF Agreement, ColumnsMatchStatus, LeaseMatchesOffer, AssignedByAcceptance, TypeOK,
      TimeOutLease, ClearLease

LEMMA RideStepAgreement ==
  ASSUME TypeOK, Agreement, NEW r \in Ride, RideNext(r)
  PROVE  Agreement'
<1> USE NoneAssumption
    DEF Agreement, ColumnsMatchStatus, LeaseMatchesOffer, AssignedByAcceptance, TypeOK,
        RideStatus, Active, OfferStatus
<1>1. CASE Create(r)
  BY <1>1 DEF Create
<1>2. ASSUME NEW d \in Driver, OfferDispatch(r, d) PROVE Agreement'
  <2>1. CASE CanLease(r, d)
    <3>1. /\ status[r] = "searching" /\ assigned[r] = None /\ offer[r][d] = "none"
          /\ lease[r] # None => DueLease(r)
          /\ lease' = [lease EXCEPT ![r] = d] /\ expired' = [expired EXCEPT ![r] = FALSE]
          /\ UNCHANGED <<status, assigned>>
      BY <1>2, <2>1 DEF OfferDispatch, CanLease, LiveLease, DueLease
    <3>2. \A e \in Driver : offer'[r][e] =
            IF e = d THEN "offered"
            ELSE IF DueLease(r) /\ e = lease[r] /\ offer[r][e] = "offered"
              THEN "timed_out" ELSE offer[r][e]
      BY <1>2, <2>1 DEF OfferDispatch
    <3>3. \A q \in Ride \ {r} : offer'[q] = offer[q]
      BY <1>2, <2>1 DEF OfferDispatch
    <3>4. \A e \in Driver : /\ offer'[r][e] = "offered" <=> e = d
                            /\ offer'[r][e] # "accepted"
      BY <3>1, <3>2
    <3> QED
      BY <3>1, <3>3, <3>4
  <2>2. CASE ~CanLease(r, d)
    <3>1. lease[r] \in Driver /\ TimeOutLease(r) /\ UNCHANGED <<status, assigned>>
      BY <1>2, <2>2 DEF OfferDispatch, DueLease
    <3> HIDE DEF Agreement
    <3> QED
      BY <3>1, TimeOutAgreement
  <2> QED
    BY <2>1, <2>2
<1>3. ASSUME NEW d \in Driver, NEW outcome \in {"rejected", "timed_out"},
             FinishAttempt(r, d, outcome)
      PROVE  Agreement'
  BY <1>3 DEF FinishAttempt, CanFinish, ClearLease
<1>4. CASE Reconcile(r)
  <2>1. lease[r] \in Driver /\ TimeOutLease(r) /\ UNCHANGED <<status, assigned>>
    BY <1>4 DEF Reconcile, DueLease
  <2> HIDE DEF Agreement
  <2> QED
    BY <2>1, TimeOutAgreement
<1>5. ASSUME NEW d \in Driver, Accept(r, d) PROVE Agreement'
  BY <1>5 DEF Accept, Consumed, ClosedOffers, ClearLease
<1>6. CASE FailDispatch(r)
  BY <1>6 DEF FailDispatch, Unleased, ClosedOffers
<1>7. CASE Cancel(r)
  BY <1>7 DEF Cancel, Cancellable, ClosedOffers, ClearLease
<1>8. ASSUME NEW s \in Active, Transition(r, s) PROVE Agreement'
  BY <1>8 DEF Transition, ProgressEdge, ClosedOffers
<1>9. CASE StartTrip(r)
  BY <1>9 DEF StartTrip, ClosedOffers
<1>10. CASE Complete(r)
  BY <1>10 DEF Complete, ClosedOffers
<1>11. CASE LeaseExpires(r)
  BY <1>11 DEF LeaseExpires, LiveLease
<1> QED
  BY <1>1, <1>2, <1>3, <1>4, <1>5, <1>6, <1>7, <1>8, <1>9, <1>10, <1>11 DEF RideNext

LEMMA DriverStepAgreement ==
  ASSUME TypeOK, Agreement, NEW d \in Driver, DriverNext(d)
  PROVE  Agreement'
<1> USE DEF Agreement, ColumnsMatchStatus, LeaseMatchesOffer, AssignedByAcceptance
<1>1. CASE UNCHANGED rideVars
  BY <1>1 DEF rideVars
<1>2. CASE RemoveDriver(d)
  BY <1>2, NoneAssumption
  DEF RemoveDriver, ClosedOffers, Cancellable, TypeOK, RideStatus, Active, OfferStatus
<1> QED
  BY <1>1, <1>2
  DEF DriverNext, GoOnline, GoOffline, UpdateLocation, MarkStale, SetActiveVehicle,
      ReviewPending, EditLicence, UploadLicence, LocationAges, StandingLapses, StandingRestored

-----------------------------------------------------------------------------
(* Rides and availability agree. *)

Exclusion == OneRidePerDriver /\ BusyHasRide /\ AvailableIsFree

\* A step that assigns nobody and moves no driver leaves the three facts alone when every
\* active ride stays active.
LEMMA SameServing ==
  ASSUME TypeOK, Exclusion, UNCHANGED <<assigned, avail>>,
         \A q \in Ride : status'[q] \in Active <=> status[q] \in Active
  PROVE  Exclusion'
<1>1. \A d \in Driver : Serves(d)' <=> Serves(d)
  BY DEF Serves
<1>2. OneRidePerDriver'
  BY DEF Exclusion, OneRidePerDriver
<1> QED
  BY <1>1, <1>2 DEF Exclusion, BusyHasRide, AvailableIsFree

\* A ride whose driver is e ends, and e is released for it: nobody is left busy for nothing.
LEMMA EndedServing ==
  ASSUME TypeOK, Exclusion, NEW r \in Ride, assigned[r] \in Driver \cup {None},
         UNCHANGED assigned, NEW t \in RideStatus \ Active,
         status' = [status EXCEPT ![r] = t], status[r] \in Active \/ assigned[r] = None,
         avail' = [d \in Driver |->
           IF d = assigned[r] /\ Releasable(d, r) THEN ReleasedTo(d) ELSE avail[d]]
  PROVE  Exclusion'
<1> USE NoneAssumption DEF TypeOK
<1>1. \A q \in Ride : status'[q] \in Active <=> q # r /\ status[q] \in Active
  OBVIOUS
<1>2. \A d \in Driver : Serves(d)' <=> ServesOtherThan(d, r)
  BY <1>1 DEF Serves, ServesOtherThan
<1>3. OneRidePerDriver'
  BY <1>1 DEF Exclusion, OneRidePerDriver
<1>4. \A d \in Driver : d # assigned[r] => (Serves(d)' <=> Serves(d)) /\ avail'[d] = avail[d]
  BY <1>2 DEF Serves, ServesOtherThan
<1>5. ASSUME NEW d \in Driver, d = assigned[r]
      PROVE  /\ ~ServesOtherThan(d, r)
             /\ avail[d] # "available"
             /\ avail'[d] = IF avail[d] \in {"busy", "stale"} THEN ReleasedTo(d) ELSE avail[d]
  <2>1. status[r] \in Active
    BY <1>5
  <2>2. ~ServesOtherThan(d, r)
    BY <1>5, <2>1 DEF Exclusion, OneRidePerDriver, ServesOtherThan
  <2>3. Serves(d)
    BY <1>5, <2>1 DEF Serves
  <2> QED
    BY <1>5, <2>2, <2>3 DEF Exclusion, AvailableIsFree, Releasable
<1>6. ASSUME NEW d \in Driver, d = assigned[r]
      PROVE  /\ avail'[d] # "busy"
             /\ ~Serves(d)'
  BY <1>2, <1>5, <1>6 DEF ReleasedTo
<1> QED
  BY <1>3, <1>4, <1>6 DEF Exclusion, BusyHasRide, AvailableIsFree

LEMMA RideStepExclusion ==
  ASSUME TypeOK, Agreement, Exclusion, NEW r \in Ride, RideNext(r)
  PROVE  Exclusion'
<1> USE NoneAssumption DEF TypeOK
<1>1. CASE /\ UNCHANGED <<assigned, avail>>
           /\ \/ UNCHANGED status
              \/ \E t \in RideStatus \ Active :
                   status' = [status EXCEPT ![r] = t] /\ status[r] \notin Active
              \/ \E t \in Active :
                   status' = [status EXCEPT ![r] = t] /\ status[r] \in Active
  BY <1>1, SameServing
<1>2. CASE \/ Create(r)
           \/ \E d \in Driver : OfferDispatch(r, d)
           \/ \E d \in Driver, outcome \in {"rejected", "timed_out"} : FinishAttempt(r, d, outcome)
           \/ Reconcile(r) \/ FailDispatch(r) \/ LeaseExpires(r)
  BY <1>1, <1>2
  DEF Create, OfferDispatch, FinishAttempt, CanFinish, Reconcile,
      FailDispatch, Unleased, LeaseExpires, driverVars, RideStatus, Active
<1>3. CASE (\E s \in Active : Transition(r, s)) \/ StartTrip(r)
  BY <1>1, <1>3 DEF Transition, StartTrip, ProgressEdge, driverVars, Active
<1>4. ASSUME NEW d \in Driver, Accept(r, d) PROVE Exclusion'
  <2>1. /\ ~Serves(d) /\ avail' = [avail EXCEPT ![d] = "busy"]
        /\ assigned' = [assigned EXCEPT ![r] = d]
        /\ status' = [status EXCEPT ![r] = "driver_assigned"]
        /\ assigned[r] = None
    BY <1>4 DEF Accept, Dispatchable, Agreement, ColumnsMatchStatus
  <2>2. \A q \in Ride, e \in Driver :
          (assigned'[q] = e /\ status'[q] \in Active)
            <=> (q = r /\ e = d) \/ (assigned[q] = e /\ status[q] \in Active)
    BY <2>1 DEF Active
  <2>3. OneRidePerDriver'
    BY <2>1, <2>2 DEF Exclusion, OneRidePerDriver, Serves
  <2>4. \A e \in Driver : Serves(e)' <=> e = d \/ Serves(e)
    BY <2>2 DEF Serves
  <2> QED
    BY <2>1, <2>3, <2>4 DEF Exclusion, BusyHasRide, AvailableIsFree
<1>5. CASE Cancel(r)
  <2>1. status[r] \in Active \/ assigned[r] = None
    BY <1>5 DEF Cancel, Cancellable, Agreement, ColumnsMatchStatus, Active
  <2> QED
    BY <1>5, <2>1, EndedServing DEF Cancel, RideStatus, Active
<1>6. CASE Complete(r)
  <2>1. avail' = [d \in Driver |->
           IF d = assigned[r] /\ Releasable(d, r) THEN ReleasedTo(d) ELSE avail[d]]
    BY <1>6 DEF Complete
  <2> QED
    BY <1>6, <2>1, EndedServing DEF Complete, RideStatus, Active
<1> QED
  BY <1>2, <1>3, <1>4, <1>5, <1>6 DEF RideNext

LEMMA DriverStepExclusion ==
  ASSUME TypeOK, Agreement, Exclusion, NEW d \in Driver, DriverNext(d)
  PROVE  Exclusion'
<1> USE DEF TypeOK
<1>1. CASE /\ UNCHANGED <<status, assigned>>
           /\ \A e \in Driver \ {d} : avail'[e] = avail[e]
           /\ avail'[d] = "busy" => avail[d] = "busy"
           /\ avail'[d] = "available" => avail[d] = "available" \/ ~Serves(d)
  <2>1. \A e \in Driver : Serves(e)' <=> Serves(e)
    BY <1>1 DEF Serves
  <2>2. OneRidePerDriver'
    BY <1>1 DEF Exclusion, OneRidePerDriver
  <2> QED
    BY <1>1, <2>1, <2>2 DEF Exclusion, BusyHasRide, AvailableIsFree
<1>2. CASE GoOnline(d) \/ GoOffline(d) \/ UpdateLocation(d) \/ MarkStale(d) \/ SetActiveVehicle(d)
  BY <1>1, <1>2
  DEF GoOnline, GoOffline, UpdateLocation, MarkStale, SetActiveVehicle, rideVars
<1>3. CASE ReviewPending(d) \/ EditLicence(d) \/ UploadLicence(d)
  BY <1>1, <1>3 DEF ReviewPending, EditLicence, UploadLicence, rideVars
<1>4. CASE LocationAges(d) \/ StandingLapses(d) \/ StandingRestored(d)
  BY <1>1, <1>4 DEF LocationAges, StandingLapses, StandingRestored, rideVars
<1>5. CASE RemoveDriver(d)
  <2>1. /\ assigned' = assigned /\ avail' = [avail EXCEPT ![d] = "unavailable"]
        /\ \A q \in Ride : status'[q] \in Active <=> status[q] \in Active /\ assigned[q] # d
    BY <1>5 DEF RemoveDriver, Cancellable, Active
  <2>2. \A e \in Driver : Serves(e)' <=> e # d /\ Serves(e)
    BY <2>1 DEF Serves
  <2>3. OneRidePerDriver'
    BY <2>1 DEF Exclusion, OneRidePerDriver
  <2> QED
    BY <2>1, <2>2, <2>3 DEF Exclusion, BusyHasRide, AvailableIsFree
<1> QED
  BY <1>2, <1>3, <1>4, <1>5 DEF DriverNext

-----------------------------------------------------------------------------
(* The inductive invariant and the safety theorems.                         *)

IInv == TypeOK /\ Agreement /\ Exclusion

LEMMA InitIInv == Init => IInv
<1> SUFFICES ASSUME Init PROVE IInv
  OBVIOUS
<1>1. Agreement
  BY NoneAssumption
  DEF Init, Agreement, ColumnsMatchStatus, LeaseMatchesOffer, AssignedByAcceptance, Active
<1>2. Exclusion
  BY NoneAssumption
  DEF Init, Exclusion, OneRidePerDriver, BusyHasRide, AvailableIsFree, Serves, Active
<1> QED
  BY <1>1, <1>2, InitType DEF IInv

LEMMA IInvStep == IInv /\ [Next]_vars => IInv'
<1> SUFFICES ASSUME IInv, [Next]_vars PROVE IInv'
  OBVIOUS
<1>1. CASE UNCHANGED vars
  BY <1>1
  DEF vars, IInv, TypeOK, Agreement, ColumnsMatchStatus, LeaseMatchesOffer,
      AssignedByAcceptance, Exclusion, OneRidePerDriver, BusyHasRide, AvailableIsFree, Serves
<1>2. ASSUME NEW r \in Ride, RideNext(r) PROVE IInv'
  BY <1>2, RideStepType, RideStepAgreement, RideStepExclusion DEF IInv
<1>3. ASSUME NEW d \in Driver, DriverNext(d) PROVE IInv'
  BY <1>3, DriverStepType, DriverStepAgreement, DriverStepExclusion DEF IInv
<1> QED
  BY <1>1, <1>2, <1>3 DEF Next

LEMMA Invariance == Spec => []IInv
<1> QED
  BY InitIInv, IInvStep, PTL DEF Spec

\* The driver columns of a ride agree with its status, its lease with the open attempt and
\* its driver with the accepted attempt, whichever transaction wrote last.
THEOREM TablesAgree == Spec => []RowsAgree
<1>1. IInv => RowsAgree
  BY DEF IInv, Agreement, RowsAgree
<1> QED
  BY <1>1, Invariance, PTL

\* No two rides that have not ended share a driver, however acceptances, cancellations,
\* completions and driver updates interleave.
THEOREM OneRideEach == Spec => []OneRidePerDriver
<1>1. IInv => OneRidePerDriver
  BY DEF IInv, Exclusion
<1> QED
  BY <1>1, Invariance, PTL

\* A driver is busy only while on a ride, and available only while on none.
THEOREM AvailabilityTellsTheTruth == Spec => []AvailabilityIsTrue
<1>1. IInv => AvailabilityIsTrue
  BY DEF IInv, Exclusion, AvailabilityIsTrue
<1> QED
  BY <1>1, Invariance, PTL

-----------------------------------------------------------------------------
(* Offers. *)

\* Every step either leaves a live lease as it was, ends it, or is the leasing itself.
LEMMA LeaseStep ==
  ASSUME IInv, [Next]_vars, NEW q \in Ride, LiveLease(q)'
  PROVE  \/ LiveLease(q) /\ lease'[q] = lease[q]
         \/ \E d \in Driver :
              /\ lease' = [lease EXCEPT ![q] = d]
              /\ expired' = [expired EXCEPT ![q] = FALSE]
              /\ CanLease(q, d)
<1> DEFINE Kept == LiveLease(q) /\ lease'[q] = lease[q]
<1> USE DEF IInv, TypeOK, LiveLease
<1>1. CASE UNCHANGED <<lease, expired>>
  BY <1>1
<1>2. ASSUME NEW r \in Ride, ClearLease(r) PROVE Kept
  BY <1>2 DEF ClearLease
<1>3. ASSUME NEW r \in Ride, NEW d \in Driver, OfferDispatch(r, d), CanLease(r, d)
      PROVE  \/ Kept
             \/ /\ q = r
                /\ lease' = [lease EXCEPT ![q] = d]
                /\ expired' = [expired EXCEPT ![q] = FALSE]
                /\ CanLease(q, d)
  BY <1>3 DEF OfferDispatch
<1>4. ASSUME NEW r \in Ride, LeaseExpires(r) PROVE Kept
  BY <1>4 DEF LeaseExpires
<1>5. ASSUME NEW d \in Driver, RemoveDriver(d) PROVE Kept
  BY <1>5 DEF RemoveDriver
<1>6. ASSUME NEW d \in Driver, DriverNext(d), ~RemoveDriver(d) PROVE UNCHANGED <<lease, expired>>
  BY <1>6
  DEF DriverNext, GoOnline, GoOffline, UpdateLocation, MarkStale, SetActiveVehicle,
      ReviewPending, EditLicence, UploadLicence, LocationAges, StandingLapses,
      StandingRestored, rideVars
<1>7. ASSUME NEW r \in Ride, RideNext(r),
             ~(\E d \in Driver : OfferDispatch(r, d) /\ CanLease(r, d)), ~LeaseExpires(r)
      PROVE  ClearLease(r) \/ UNCHANGED <<lease, expired>>
  BY <1>7
  DEF RideNext, Create, OfferDispatch, TimeOutLease, FinishAttempt, CanFinish,
      Reconcile, Accept, FailDispatch, Unleased, Cancel, Transition, StartTrip, Complete
<1> QED
  BY <1>1, <1>2, <1>3, <1>4, <1>5, <1>6, <1>7 DEF Next, vars

LEMMA OneLiveOfferStep == IInv /\ OneLiveOfferPerDriver /\ [Next]_vars => OneLiveOfferPerDriver'
<1> SUFFICES ASSUME IInv, OneLiveOfferPerDriver, [Next]_vars,
                    NEW r \in Ride, NEW q \in Ride,
                    LiveLease(r)', LiveLease(q)', lease'[r] = lease'[q], r # q
             PROVE  FALSE
  BY DEF OneLiveOfferPerDriver
<1> USE DEF IInv, TypeOK
<1>1. ASSUME NEW a \in Ride, NEW b \in Ride, a # b, NEW d \in Driver,
             lease' = [lease EXCEPT ![a] = d], expired' = [expired EXCEPT ![a] = FALSE],
             CanLease(a, d), LiveLease(b)', lease'[b] = d
      PROVE  FALSE
  <2>1. LiveLease(b) /\ lease[b] = d
    BY <1>1 DEF LiveLease
  <2>2. status[b] = "searching"
    BY <2>1 DEF Agreement, ColumnsMatchStatus, LiveLease
  <2>3. LeasedElsewhere(d, a)
    BY <1>1, <2>1, <2>2 DEF LeasedElsewhere, LiveLease
  <2> QED
    BY <1>1, <2>3 DEF CanLease, Dispatchable
<1>2. CASE LiveLease(r) /\ lease'[r] = lease[r] /\ LiveLease(q) /\ lease'[q] = lease[q]
  BY <1>2 DEF OneLiveOfferPerDriver
<1>3. ASSUME NEW d \in Driver, lease' = [lease EXCEPT ![r] = d],
             expired' = [expired EXCEPT ![r] = FALSE], CanLease(r, d)
      PROVE  FALSE
  BY <1>1, <1>3
<1>4. ASSUME NEW d \in Driver, lease' = [lease EXCEPT ![q] = d],
             expired' = [expired EXCEPT ![q] = FALSE], CanLease(q, d)
      PROVE  FALSE
  BY <1>1, <1>4
<1> QED
  BY <1>2, <1>3, <1>4, LeaseStep

\* No driver holds two offers that can both still be accepted.
THEOREM OneOfferEach == Spec => []OneLiveOfferPerDriver
<1>1. Init => OneLiveOfferPerDriver
  BY DEF Init, OneLiveOfferPerDriver, LiveLease
<1> QED
  BY <1>1, OneLiveOfferStep, Invariance, PTL DEF Spec

\* A step of dispatch turns attempts over: an open one may be answered, an unasked one
\* opened, and nothing else changes.
LEMMA AnswerStep ==
  ASSUME IInv, [Next]_vars, NEW q \in Ride, NEW e \in Driver,
         offer[q][e] \notin {"none", "offered"}
  PROVE  offer'[q][e] = offer[q][e]
<1> USE DEF IInv, TypeOK
<1>1. ASSUME NEW r \in Ride, NEW keep, offer' = ClosedOffers(r, keep)
      PROVE  offer'[q][e] = offer[q][e]
  BY <1>1 DEF ClosedOffers
<1>2. ASSUME NEW r \in Ride, NEW d \in Driver, Accept(r, d) PROVE offer'[q][e] = offer[q][e]
  BY <1>2 DEF Accept, Consumed, ClosedOffers
<1>3. ASSUME NEW r \in Ride, lease[r] \in Driver, TimeOutLease(r) PROVE offer'[q][e] = offer[q][e]
  BY <1>3 DEF TimeOutLease
<1>4. ASSUME NEW r \in Ride, NEW d \in Driver, OfferDispatch(r, d) PROVE offer'[q][e] = offer[q][e]
  <2>1. CASE CanLease(r, d)
    BY <1>4, <2>1 DEF OfferDispatch, CanLease
  <2>2. CASE ~CanLease(r, d)
    BY <1>3, <1>4, <2>2 DEF OfferDispatch, DueLease
  <2> QED
    BY <2>1, <2>2
<1>5. ASSUME NEW r \in Ride, NEW d \in Driver, NEW outcome, FinishAttempt(r, d, outcome)
      PROVE  offer'[q][e] = offer[q][e]
  BY <1>5 DEF FinishAttempt, CanFinish
<1>6. ASSUME NEW r \in Ride, RideNext(r) PROVE offer'[q][e] = offer[q][e]
  <2>1. CASE Reconcile(r)
    BY <1>3, <2>1 DEF Reconcile, DueLease
  <2>2. CASE FailDispatch(r) \/ Cancel(r) \/ (\E s \in Active : Transition(r, s))
             \/ StartTrip(r) \/ Complete(r)
    BY <1>1, <2>2 DEF FailDispatch, Unleased, Cancel, Transition, StartTrip, Complete
  <2>3. CASE Create(r) \/ LeaseExpires(r)
    BY <2>3 DEF Create, LeaseExpires
  <2> QED
    BY <1>2, <1>4, <1>5, <1>6, <2>1, <2>2, <2>3 DEF RideNext
<1>7. ASSUME NEW d \in Driver, DriverNext(d) PROVE offer'[q][e] = offer[q][e]
  <2>1. CASE RemoveDriver(d)
    BY <2>1 DEF RemoveDriver, ClosedOffers
  <2> QED
    BY <1>7, <2>1
    DEF DriverNext, GoOnline, GoOffline, UpdateLocation, MarkStale, SetActiveVehicle,
        ReviewPending, EditLicence, UploadLicence, LocationAges, StandingLapses,
        StandingRestored, rideVars
<1> QED
  BY <1>6, <1>7 DEF Next, vars

\* An answer is final, and no driver is asked twice about one ride.
THEOREM AnswersAreFinal == Spec => AnsweredOnce
<1>1. IInv /\ [Next]_vars =>
        [\A r \in Ride, d \in Driver :
           offer[r][d] \notin {"none", "offered"} => offer'[r][d] = offer[r][d]]_vars
  BY AnswerStep
<1> QED
  BY <1>1, Invariance, PTL DEF Spec, AnsweredOnce

-----------------------------------------------------------------------------
(***************************************************************************)
(* RideStore implements DispatchContract: initial states map to initial    *)
(* states, and every transaction maps to one step of the contract or to a  *)
(* stuttering step.                                                        *)
(***************************************************************************)

\* What the contract sees of a ride that a step leaves alone, or changes invisibly.
SameView(q) == PhaseOf(q)' = PhaseOf(q) /\ PartyOf(q)' = PartyOf(q) /\ AskedOf(q)' = AskedOf(q)

SameRow(q) ==
  /\ status'[q] = status[q]
  /\ assigned'[q] = assigned[q]
  /\ lease'[q] = lease[q]
  /\ offer'[q] = offer[q]

LEMMA RowView ==
  ASSUME NEW q \in Ride, SameRow(q)
  PROVE  SameView(q)
  BY DEF SameRow, SameView, PhaseOf, PartyOf, AskedOf

LEMMA Stutters ==
  ASSUME \A q \in Ride : SameView(q)
  PROVE  UNCHANGED Contract!contractVars
  BY DEF SameView, Contract!contractVars

\* A trigger that closes offers does not change who has been asked.
LEMMA ClosedAsked ==
  ASSUME NEW r \in Ride, NEW keep, offer \in [Ride -> [Driver -> OfferStatus]],
         offer' = ClosedOffers(r, keep)
  PROVE  AskedOf(r)' = AskedOf(r) /\ \A q \in Ride \ {r} : offer'[q] = offer[q]
  BY DEF ClosedOffers, AskedOf

LEMMA CreateMaps ==
  ASSUME IInv, NEW r \in Ride, Create(r)
  PROVE  Contract!Book(r)
<1>1. \A q \in Ride \ {r} : SameView(q)
  BY RowView DEF Create, IInv, TypeOK, SameRow
<1>2. lease[r] = None
  BY DEF Create, IInv, Agreement, ColumnsMatchStatus
<1>3. PhaseOf(r) = "unborn" /\ PhaseOf(r)' = "searching" /\ PartyOf(r)' = PartyOf(r)
  BY <1>2 DEF Create, IInv, TypeOK, PhaseOf, PartyOf
<1>4. AskedOf(r)' = AskedOf(r)
  BY DEF Create, AskedOf
<1> QED
  BY <1>1, <1>3, <1>4 DEF Contract!Book, SameView

LEMMA AskMaps ==
  ASSUME TypeOK, NEW r \in Ride, NEW d \in Driver, status[r] = "searching", assigned[r] = None,
         offer[r][d] = "none", \A q \in Ride \ {r} : SameRow(q),
         UNCHANGED <<status, assigned>>, lease'[r] = d,
         \A e \in Driver : offer'[r][e] # "none" <=> e = d \/ offer[r][e] # "none"
  PROVE  Contract!Ask(r, d)
<1> USE DEF TypeOK
<1>1. \A q \in Ride \ {r} : SameView(q)
  BY RowView
<1>2. PhaseOf(r) \in {"searching", "offered"} /\ PhaseOf(r)' = "offered"
  BY NoneAssumption DEF PhaseOf
<1>3. PartyOf(r)' = d
  BY DEF PartyOf
<1>4. d \notin AskedOf(r) /\ AskedOf(r)' = AskedOf(r) \cup {d}
  BY DEF AskedOf
<1> QED
  BY <1>1, <1>2, <1>3, <1>4 DEF Contract!Ask, SameView

LEMMA OfferMaps ==
  ASSUME IInv, NEW r \in Ride, NEW d \in Driver, OfferDispatch(r, d), CanLease(r, d)
  PROVE  Contract!Ask(r, d)
<1> USE DEF IInv, TypeOK
<1>1. \A q \in Ride \ {r} : SameRow(q)
  BY DEF OfferDispatch, SameRow
<1>2. \A e \in Driver : offer'[r][e] # "none" <=> e = d \/ offer[r][e] # "none"
  BY DEF OfferDispatch
<1>3. /\ status[r] = "searching" /\ assigned[r] = None /\ offer[r][d] = "none"
      /\ UNCHANGED <<status, assigned>> /\ lease'[r] = d
  BY DEF OfferDispatch, CanLease
<1> QED
  BY <1>1, <1>2, <1>3, AskMaps

\* Ending a lease, for whatever reason, withdraws the offer.
LEMMA WithdrawMaps ==
  ASSUME TypeOK, Agreement, NEW r \in Ride, status[r] = "searching", lease[r] \in Driver,
         NEW answer \in OfferStatus \ {"none"},
         offer' = [offer EXCEPT ![r][lease[r]] = answer], ClearLease(r),
         UNCHANGED <<status, assigned>>
  PROVE  Contract!Withdraw(r)
<1> USE DEF TypeOK
<1>1. \A q \in Ride \ {r} : SameView(q)
  BY RowView DEF ClearLease, SameRow
<1>2. PhaseOf(r) = "offered" /\ PhaseOf(r)' = "searching"
  BY NoneAssumption DEF ClearLease, PhaseOf
<1>3. PartyOf(r)' = None
  BY DEF ClearLease, PartyOf, Agreement, ColumnsMatchStatus
<1>4. AskedOf(r)' = AskedOf(r)
  <2>1. offer[r][lease[r]] = "offered"
    BY DEF Agreement, LeaseMatchesOffer
  <2>2. \A e \in Driver : offer'[r][e] # "none" <=> offer[r][e] # "none"
    BY <2>1
  <2> QED
    BY <2>2 DEF AskedOf
<1> QED
  BY <1>1, <1>2, <1>3, <1>4 DEF Contract!Withdraw, SameView

LEMMA TimeOutMaps ==
  ASSUME IInv, NEW r \in Ride, DueLease(r), TimeOutLease(r), UNCHANGED <<status, assigned>>
  PROVE  Contract!Withdraw(r)
<1>1. status[r] = "searching" /\ lease[r] \in Driver
  BY DEF IInv, TypeOK, Agreement, ColumnsMatchStatus, DueLease
<1>2. offer[r][lease[r]] = "offered"
  BY <1>1 DEF IInv, Agreement, LeaseMatchesOffer
<1>3. offer' = [offer EXCEPT ![r][lease[r]] = "timed_out"]
  BY <1>1, <1>2 DEF TimeOutLease
<1> QED
  BY <1>1, <1>3, WithdrawMaps DEF TimeOutLease, OfferStatus, IInv

LEMMA FinishMaps ==
  ASSUME IInv, NEW r \in Ride, NEW d \in Driver, NEW outcome \in {"rejected", "timed_out"},
         FinishAttempt(r, d, outcome)
  PROVE  Contract!Withdraw(r)
<1> DEFINE answer == IF expired[r] THEN "timed_out" ELSE outcome
<1>1. /\ status[r] = "searching" /\ lease[r] = d
      /\ offer' = [offer EXCEPT ![r][lease[r]] = answer]
      /\ ClearLease(r) /\ UNCHANGED <<status, assigned>>
  BY DEF FinishAttempt, CanFinish
<1>2. answer \in OfferStatus \ {"none"}
  BY DEF OfferStatus
<1> HIDE DEF answer
<1> QED
  BY <1>1, <1>2, WithdrawMaps DEF IInv

LEMMA EngageMaps ==
  ASSUME TypeOK, Agreement, NEW r \in Ride, NEW d \in Driver,
         status[r] = "searching", lease[r] = d, ~Serves(d),
         status' = [status EXCEPT ![r] = "driver_assigned"],
         assigned' = [assigned EXCEPT ![r] = d], ClearLease(r), offer' = Consumed(r, d)
  PROVE  Contract!Engage(r)
<1> USE NoneAssumption DEF TypeOK
<1>1. \A q \in Ride \ {r} : SameView(q)
  BY RowView DEF Consumed, ClosedOffers, ClearLease, SameRow
<1>2. PhaseOf(r) = "offered" /\ PhaseOf(r)' = "engaged"
  BY DEF PhaseOf
<1>3. PartyOf(r) = d /\ PartyOf(r)' = d
  BY DEF PartyOf, Agreement, ColumnsMatchStatus
<1>4. AskedOf(r)' = AskedOf(r)
  <2>1. \A e \in Driver : offer'[r][e] # "none" <=> offer[r][e] # "none"
    BY DEF Consumed, ClosedOffers, Agreement, LeaseMatchesOffer
  <2> QED
    BY <2>1 DEF AskedOf
<1>5. ~(\E q \in Ride : PhaseOf(q) \in {"engaged", "riding"} /\ PartyOf(q) = d)
  <2>1. \A q \in Ride : PhaseOf(q) \in {"engaged", "riding"} =>
                          status[q] \in Active /\ PartyOf(q) = assigned[q]
    BY DEF PhaseOf, PartyOf, Active, RideStatus, Agreement, ColumnsMatchStatus
  <2> QED
    BY <2>1 DEF Serves
<1> QED
  BY <1>1, <1>2, <1>3, <1>4, <1>5 DEF Contract!Engage, Contract!Engaged, SameView

LEMMA AcceptMaps ==
  ASSUME IInv, NEW r \in Ride, NEW d \in Driver, Accept(r, d)
  PROVE  Contract!Engage(r)
  BY EngageMaps DEF IInv, Accept, Dispatchable

\* A ride is called off before pickup, together with its lease and its open offers.
LEMMA CallOffMaps ==
  ASSUME TypeOK, Agreement, NEW r \in Ride, status[r] \in Cancellable,
         \A q \in Ride \ {r} : SameRow(q),
         status'[r] = "cancelled", lease'[r] = None, UNCHANGED assigned,
         AskedOf(r)' = AskedOf(r)
  PROVE  Contract!CallOff(r)
<1> USE DEF TypeOK
<1>1. \A q \in Ride \ {r} : SameView(q)
  BY RowView
<1>2. PhaseOf(r) \in {"searching", "offered", "engaged"} /\ PhaseOf(r)' = "cancelled"
  BY DEF PhaseOf, Cancellable
<1>3. PhaseOf(r) = "engaged" => assigned[r] # None /\ lease[r] = None
  BY DEF PhaseOf, Cancellable, Active, Agreement, ColumnsMatchStatus
<1>4. PhaseOf(r) # "engaged" => assigned[r] = None
  BY DEF PhaseOf, Cancellable, Agreement, ColumnsMatchStatus
<1>5. PartyOf(r)' = IF PhaseOf(r) = "engaged" THEN PartyOf(r) ELSE None
  BY <1>3, <1>4 DEF PartyOf
<1> QED
  BY <1>1, <1>2, <1>5 DEF Contract!CallOff, SameView

\* Progress before pickup and a passing deadline are invisible to the contract.
LEMMA HiddenSteps ==
  ASSUME TypeOK, NEW r \in Ride, (\E s \in Active : Transition(r, s)) \/ LeaseExpires(r)
  PROVE  UNCHANGED Contract!contractVars
<1> USE DEF TypeOK
<1>1. CASE LeaseExpires(r)
  BY <1>1, RowView, Stutters DEF LeaseExpires, SameRow
<1>2. ASSUME NEW s \in Active, Transition(r, s) PROVE UNCHANGED Contract!contractVars
  <2>1. AskedOf(r)' = AskedOf(r) /\ \A q \in Ride \ {r} : offer'[q] = offer[q]
    BY <1>2, ClosedAsked DEF Transition
  <2>2. \A q \in Ride \ {r} : SameView(q)
    BY <1>2, <2>1, RowView DEF Transition, SameRow
  <2>3. PhaseOf(r)' = PhaseOf(r) /\ PartyOf(r)' = PartyOf(r)
    BY <1>2 DEF Transition, ProgressEdge, PhaseOf, PartyOf
  <2> QED
    BY <2>1, <2>2, <2>3, Stutters DEF SameView
<1> QED
  BY <1>1, <1>2

LEMMA TripMaps ==
  ASSUME TypeOK, NEW r \in Ride, StartTrip(r) \/ Complete(r)
  PROVE  Contract!PickUp(r) \/ Contract!Arrive(r)
<1> USE DEF TypeOK
<1>1. /\ AskedOf(r)' = AskedOf(r) /\ \A q \in Ride \ {r} : offer'[q] = offer[q]
  BY ClosedAsked DEF StartTrip, Complete
<1>2. \A q \in Ride \ {r} : SameView(q)
  BY <1>1, RowView DEF StartTrip, Complete, SameRow
<1>3. PartyOf(r)' = PartyOf(r)
  BY DEF StartTrip, Complete, PartyOf
<1>4. CASE StartTrip(r)
  <2>1. PhaseOf(r) = "engaged" /\ PhaseOf(r)' = "riding"
    BY <1>4 DEF StartTrip, PhaseOf
  <2> QED
    BY <2>1, <1>1, <1>2, <1>3 DEF Contract!PickUp, SameView
<1>5. CASE Complete(r)
  <2>1. PhaseOf(r) = "riding" /\ PhaseOf(r)' = "completed"
    BY <1>5 DEF Complete, PhaseOf
  <2> QED
    BY <2>1, <1>1, <1>2, <1>3 DEF Contract!Arrive, SameView
<1> QED
  BY <1>4, <1>5

LEMMA CancelMaps ==
  ASSUME IInv, NEW r \in Ride, Cancel(r) \/ FailDispatch(r)
  PROVE  Contract!CallOff(r)
<1> USE DEF IInv, TypeOK
<1>1. AskedOf(r)' = AskedOf(r) /\ \A q \in Ride \ {r} : offer'[q] = offer[q]
  BY ClosedAsked DEF Cancel, FailDispatch, Unleased
<1>2. /\ status[r] \in Cancellable /\ status'[r] = "cancelled" /\ lease'[r] = None
      /\ UNCHANGED assigned
  BY DEF Cancel, FailDispatch, Unleased, ClearLease, Cancellable
<1>3. \A q \in Ride \ {r} : SameRow(q)
  BY <1>1 DEF Cancel, FailDispatch, Unleased, ClearLease, SameRow
<1> QED
  BY <1>1, <1>2, <1>3, CallOffMaps DEF IInv

\* Deleting an account calls off the one ride its driver can be on.
LEMMA RemovalMaps ==
  ASSUME IInv, NEW d \in Driver, RemoveDriver(d)
  PROVE  (\E r \in Ride : Contract!CallOff(r)) \/ UNCHANGED Contract!contractVars
<1> USE DEF IInv, TypeOK
<1> DEFINE Ends(q) == assigned[q] = d /\ status[q] \in Cancellable
<1>1. ASSUME NEW q \in Ride, ~Ends(q) PROVE SameRow(q)
  BY <1>1 DEF RemoveDriver, SameRow
<1>2. ASSUME NEW q \in Ride, Ends(q) PROVE status[q] \in Active
  BY <1>2, NoneAssumption DEF Cancellable, Active, Agreement, ColumnsMatchStatus
<1>3. CASE \A q \in Ride : ~Ends(q)
  BY <1>1, <1>3, RowView, Stutters
<1>4. ASSUME NEW r \in Ride, Ends(r) PROVE Contract!CallOff(r)
  <2>1. \A q \in Ride \ {r} : ~Ends(q)
    BY <1>2, <1>4, NoneAssumption DEF Exclusion, OneRidePerDriver
  <2>2. \A q \in Ride \ {r} : SameRow(q)
    BY <1>1, <2>1
  <2>3. /\ status[r] \in Cancellable /\ status'[r] = "cancelled" /\ lease'[r] = None
        /\ UNCHANGED assigned
    BY <1>4 DEF RemoveDriver
  <2>4. offer'[r] = ClosedOffers(r, {})[r]
    BY <1>4 DEF RemoveDriver
  <2>5. AskedOf(r)' = AskedOf(r)
    BY <2>4 DEF ClosedOffers, AskedOf
  <2> QED
    BY <2>2, <2>3, <2>5, CallOffMaps
<1> QED
  BY <1>3, <1>4

LEMMA StepMaps == IInv /\ [Next]_vars => [Contract!ContractNext]_(Contract!contractVars)
<1> SUFFICES ASSUME IInv, [Next]_vars
             PROVE  (\E r \in Ride : \/ Contract!Book(r)
                                     \/ \E d \in Driver : Contract!Ask(r, d)
                                     \/ Contract!Withdraw(r)
                                     \/ Contract!Engage(r)
                                     \/ Contract!PickUp(r)
                                     \/ Contract!Arrive(r)
                                     \/ Contract!CallOff(r))
                    \/ UNCHANGED Contract!contractVars
  BY DEF Contract!ContractNext
<1>1. ASSUME UNCHANGED <<status, assigned, lease, offer>> PROVE UNCHANGED Contract!contractVars
  BY <1>1, RowView, Stutters DEF SameRow
<1>2. ASSUME NEW r \in Ride, NEW d \in Driver, OfferDispatch(r, d)
      PROVE  Contract!Ask(r, d) \/ Contract!Withdraw(r)
  BY <1>2, OfferMaps, TimeOutMaps DEF OfferDispatch
<1>3. ASSUME NEW r \in Ride, Reconcile(r) PROVE Contract!Withdraw(r)
  BY <1>3, TimeOutMaps DEF Reconcile
<1>4. ASSUME NEW d \in Driver, DriverNext(d), ~RemoveDriver(d)
      PROVE  UNCHANGED <<status, assigned, lease, offer>>
  BY <1>4
  DEF DriverNext, GoOnline, GoOffline, UpdateLocation, MarkStale, SetActiveVehicle,
      ReviewPending, EditLicence, UploadLicence, LocationAges, StandingLapses,
      StandingRestored, rideVars
<1>5. ASSUME NEW r \in Ride, RideNext(r)
      PROVE  \/ Contract!Book(r)
             \/ \E d \in Driver : Contract!Ask(r, d)
             \/ Contract!Withdraw(r)
             \/ Contract!Engage(r)
             \/ Contract!PickUp(r)
             \/ Contract!Arrive(r)
             \/ Contract!CallOff(r)
             \/ UNCHANGED Contract!contractVars
  BY <1>2, <1>3, <1>5, CreateMaps, FinishMaps, AcceptMaps, CancelMaps, TripMaps, HiddenSteps
  DEF RideNext, IInv
<1> QED
  BY <1>1, <1>4, <1>5, RemovalMaps DEF Next, vars

LEMMA InitMaps == Init => Contract!ContractInit
  BY NoneAssumption DEF Init, Contract!ContractInit, PhaseOf, PartyOf, AskedOf

\* Every behaviour of the tables is a behaviour of the dispatch contract: one driver asked
\* at a time and once, the one who accepts is the one served by, one ride per driver, and no
\* cancellation after pickup.
THEOREM Implements == Spec => ImplementsContract
<1> QED
  BY InitMaps, StepMaps, Invariance, PTL DEF Spec, ImplementsContract, Contract!ContractSpec

=============================================================================
