------------------------------ MODULE RideStore ------------------------------
(***************************************************************************)
(* The durable state of ride dispatch and one action per transaction that  *)
(* changes it: rows of `rides`, `ride_dispatch_attempts` and               *)
(* `driver_profiles`, the repositories and services that write them, and   *)
(* the triggers that fire inside those writes.                             *)
(*                                                                         *)
(* Each action is one committed transaction or one SQL statement.  The     *)
(* writers of one ride meet on its row lock and the writers of one driver  *)
(* on that driver's row lock, so a transaction is one step here.           *)
(*                                                                         *)
(* Abstractions.  Wall-clock time is two flags: a lease is `expired`, the  *)
(* last stored location of a driver is `fresh`.  Everything that makes a   *)
(* driver operationally eligible (account, licence, documents, vehicle,    *)
(* compliance) is one `standing`.  Geometry, prices and PIN digits are     *)
(* left out.                                                               *)
(***************************************************************************)

CONSTANTS
  Ride,      \* identities of rides
  Driver,    \* identities of driver profiles
  None       \* the SQL NULL of a driver column

ASSUME NoneAssumption == None \notin Driver

VARIABLES
  status,    \* rides.status, "none" before the row is inserted
  assigned,  \* rides.assigned_driver_id
  lease,     \* rides.dispatch_driver_id
  expired,   \* rides.dispatch_expires_at <= NOW()
  offer,     \* ride_dispatch_attempts.status of the only row of a ride and a driver
  avail,     \* driver_profiles.availability_status
  online,    \* driver_profiles.online_preference
  fresh,     \* driver_profiles.last_location_at is recent enough
  standing   \* operational eligibility of the driver's account and vehicle

rideVars == <<status, assigned, lease, expired, offer>>
driverVars == <<avail, online, fresh, standing>>
vars == <<status, assigned, lease, expired, offer, avail, online, fresh, standing>>

Active == {"driver_assigned", "driver_arriving", "driver_arrived", "in_progress"}
\* Mutant: the customer may cancel a trip under way.
CancellableAlways == {"searching"} \cup Active

Cancellable == {"searching", "driver_assigned", "driver_arriving", "driver_arrived"}
RideStatus == {"none", "searching", "completed", "cancelled"} \cup Active
OfferStatus == {"none", "offered", "rejected", "timed_out", "accepted", "cancelled"}
Availability == {"available", "unavailable", "busy", "stale"}
Standing == {"approved", "pending", "removed"}

TypeOK ==
  /\ status \in [Ride -> RideStatus]
  /\ assigned \in [Ride -> Driver \cup {None}]
  /\ lease \in [Ride -> Driver \cup {None}]
  /\ expired \in [Ride -> BOOLEAN]
  /\ offer \in [Ride -> [Driver -> OfferStatus]]
  /\ avail \in [Driver -> Availability]
  /\ online \in [Driver -> BOOLEAN]
  /\ fresh \in [Driver -> BOOLEAN]
  /\ standing \in [Driver -> Standing]

\* No booking exists; drivers start offline with any standing short of removal.
Init ==
  /\ status = [r \in Ride |-> "none"]
  /\ assigned = [r \in Ride |-> None]
  /\ lease = [r \in Ride |-> None]
  /\ expired = [r \in Ride |-> FALSE]
  /\ offer = [r \in Ride |-> [d \in Driver |-> "none"]]
  /\ avail = [d \in Driver |-> "unavailable"]
  /\ online = [d \in Driver |-> FALSE]
  /\ fresh = [d \in Driver |-> FALSE]
  /\ standing \in [Driver -> {"approved", "pending"}]

-----------------------------------------------------------------------------
(* Predicates the SQL evaluates. *)

\* Mutant: the snapshot is older than r's new status.
ServesStill(d, r) == \E q \in Ride : assigned[q] = d /\ status[q] \in Active

\* The ride d is on, read from a snapshot that already holds r's new status.
ServesOtherThan(d, r) == \E q \in Ride \ {r} : assigned[q] = d /\ status[q] \in Active

\* Mutant: a trip under way is not counted.
ServesBeforePickup(d) ==
  \E q \in Ride : assigned[q] = d /\ status[q] \in Active \ {"in_progress"}

Serves(d) == \E q \in Ride : assigned[q] = d /\ status[q] \in Active

LiveLease(r) == lease[r] # None /\ ~expired[r]

DueLease(r) == lease[r] # None /\ expired[r]

\* Mutant: eligibility without its last clause.
NeverLeased(d, r) == FALSE

\* A pending offer of another ride; a ride's own offer never counts against it.
LeasedElsewhere(d, r) ==
  \E q \in Ride \ {r} : status[q] = "searching" /\ lease[q] = d /\ ~expired[q]

\* driverEligibilitySql: who may be offered ride r, keep its offer, or accept it.
Dispatchable(d, r) ==
  /\ standing[d] = "approved"
  /\ avail[d] = "available"
  /\ fresh[d]
  /\ ~Serves(d)
  /\ ~LeasedElsewhere(d, r)

-----------------------------------------------------------------------------
(* Pieces shared by several transactions. *)

\* Mutant: no trigger.
OffersLeftOpen(r, keep) == offer

\* The trigger on rides.status: once a ride leaves searching, no offer of it stays
\* open, save the one its new driver is accepting in the same statement.
ClosedOffers(r, keep) ==
  [offer EXCEPT ![r] = [d \in Driver |->
     IF offer[r][d] = "offered" /\ d \notin keep THEN "cancelled" ELSE offer[r][d]]]

\* Mutant: the trigger closes the offer before acceptance can consume it.
ConsumedTooLate(r, d) == ClosedOffers(r, {})

\* Acceptance consumes the attempt of the driver it assigns.
Consumed(r, d) == [ClosedOffers(r, {d}) EXCEPT ![r][d] = "accepted"]

\* Mutant: the deadline is cleared without the driver.
ClearDeadlineOnly(r) ==
  /\ expired' = [expired EXCEPT ![r] = FALSE]
  /\ UNCHANGED lease

\* rides.dispatch_driver_id and dispatch_expires_at set to NULL.
ClearLease(r) ==
  /\ lease' = [lease EXCEPT ![r] = None]
  /\ expired' = [expired EXCEPT ![r] = FALSE]

\* Mutant: a name the attempts table does not have.
TimeOutLeaseAsExpired(r) ==
  /\ offer' = [offer EXCEPT ![r][lease[r]] = "expired"]
  /\ ClearLease(r)

\* The attempt of an expired lease becomes timed_out and the lease is cleared.
TimeOutLease(r) ==
  /\ offer' = [offer EXCEPT ![r][lease[r]] = IF @ = "offered" THEN "timed_out" ELSE @]
  /\ ClearLease(r)

\* Mutant: the ride that is ending still counts.
ReleasableWhenFree(d, r) == avail[d] \in {"busy", "stale"} /\ ~Serves(d)

\* releaseBusy succeeds once the driver serves nothing but the ride that just ended.
Releasable(d, r) == avail[d] \in {"busy", "stale"} /\ ~ServesOtherThan(d, r)

ReleasedTo(d) ==
  CASE avail[d] = "busy" /\ online[d] /\ fresh[d] /\ standing[d] = "approved" -> "available"
    [] avail[d] = "busy" /\ online[d] /\ ~(fresh[d] /\ standing[d] = "approved") -> "stale"
    [] avail[d] = "busy" /\ ~online[d] -> "unavailable"
    [] OTHER -> avail[d]

-----------------------------------------------------------------------------
(* Transactions on a ride. *)

\* A booking is inserted, already searching.
Create(r) ==
  /\ status[r] = "none"
  /\ status' = [status EXCEPT ![r] = "searching"]
  /\ UNCHANGED <<assigned, lease, expired, offer, driverVars>>

\* Mutant: a driver who let an offer run out is asked again.
CanLeaseAgain(r, d) ==
  /\ status[r] = "searching"
  /\ assigned[r] = None
  /\ ~LiveLease(r)
  /\ offer[r][d] \in {"none", "timed_out"}
  /\ Dispatchable(d, r)

\* Lease the ride to one driver for a while.  An expired lease found on the way is
\* timed out first, and stays timed out when the new offer cannot be made.
CanLease(r, d) ==
  /\ status[r] = "searching"
  /\ assigned[r] = None
  /\ ~LiveLease(r)
  /\ offer[r][d] = "none"
  /\ Dispatchable(d, r)

OfferDispatch(r, d) ==
  /\ \/ /\ CanLease(r, d)
        /\ lease' = [lease EXCEPT ![r] = d]
        /\ expired' = [expired EXCEPT ![r] = FALSE]
        /\ offer' = [offer EXCEPT ![r] = [e \in Driver |->
             IF e = d THEN "offered"
             ELSE IF DueLease(r) /\ e = lease[r] /\ offer[r][e] = "offered"
               THEN "timed_out" ELSE offer[r][e]]]
     \/ /\ ~CanLease(r, d)
        /\ DueLease(r)
        /\ TimeOutLease(r)
  /\ UNCHANGED <<status, assigned, driverVars>>

\* An open attempt may be rejected at any time, and timed out after its stored deadline.
CanFinish(r, d, outcome) ==
  /\ status[r] = "searching"
  /\ lease[r] = d
  /\ offer[r][d] = "offered"
  /\ outcome = "rejected" \/ expired[r]

\* The driver declines, cannot be reached or was found unfit ("rejected"), or the deadline
\* passed ("timed_out").  Past the deadline it is a timeout whatever the caller says.
FinishAttempt(r, d, outcome) ==
  /\ CanFinish(r, d, outcome)
  /\ offer' = [offer EXCEPT ![r][d] = IF expired[r] THEN "timed_out" ELSE outcome]
  /\ ClearLease(r)
  /\ UNCHANGED <<status, assigned, driverVars>>

\* The live offer of a ride.
Pending(r) == status[r] = "searching" /\ assigned[r] = None /\ LiveLease(r)

\* pendingDispatch finds a live offer whose driver is no longer eligible.  It withdraws it by a
\* transaction of its own, FinishAttempt, which does not look at eligibility again.
Unfit(r) == Pending(r) /\ ~Dispatchable(lease[r], r)

\* Recovery times out the lease of a searching ride.
Reconcile(r) ==
  /\ status[r] = "searching"
  /\ DueLease(r)
  /\ TimeOutLease(r)
  /\ UNCHANGED <<status, assigned, driverVars>>

\* The driver holding a live offer takes the ride and becomes busy, or nothing happens.
Accept(r, d) ==
  /\ status[r] = "searching"
  /\ lease[r] = d
  /\ ~expired[r]
  /\ offer[r][d] = "offered"
  /\ Dispatchable(d, r)
  /\ status' = [status EXCEPT ![r] = "driver_assigned"]
  /\ assigned' = [assigned EXCEPT ![r] = d]
  /\ ClearLease(r)
  /\ offer' = Consumed(r, d)
  /\ avail' = [avail EXCEPT ![d] = "busy"]
  /\ UNCHANGED <<online, fresh, standing>>

\* A ride that may be offered to somebody, or given up.
Unleased(r) == status[r] = "searching" /\ assigned[r] = None /\ lease[r] = None

\* No eligible driver is left: an unassigned, unleased ride is cancelled.
FailDispatch(r) ==
  /\ Unleased(r)
  /\ status' = [status EXCEPT ![r] = "cancelled"]
  /\ offer' = ClosedOffers(r, {})
  /\ UNCHANGED <<assigned, lease, expired, driverVars>>

\* The customer cancels before pickup; a busy driver is released with the same commit.
Cancel(r) ==
  /\ status[r] \in Cancellable
  /\ status' = [status EXCEPT ![r] = "cancelled"]
  /\ ClearLease(r)
  /\ offer' = ClosedOffers(r, {})
  /\ avail' = [d \in Driver |->
       IF d = assigned[r] /\ Releasable(d, r) THEN ReleasedTo(d) ELSE avail[d]]
  /\ UNCHANGED <<assigned, online, fresh, standing>>

\* The assigned driver reports progress; the state graph is the table's trigger.
ProgressEdge == {<<"driver_assigned", "driver_arriving">>, <<"driver_arriving", "driver_arrived">>}

Transition(r, s) ==
  /\ assigned[r] # None
  /\ <<status[r], s>> \in ProgressEdge
  /\ status' = [status EXCEPT ![r] = s]
  /\ offer' = ClosedOffers(r, {})
  /\ UNCHANGED <<assigned, lease, expired, driverVars>>

\* A correct PIN starts the trip, if the driver is still operationally eligible.
StartTrip(r) ==
  /\ status[r] = "driver_arrived"
  /\ assigned[r] # None
  /\ standing[assigned[r]] = "approved"
  /\ status' = [status EXCEPT ![r] = "in_progress"]
  /\ offer' = ClosedOffers(r, {})
  /\ UNCHANGED <<assigned, lease, expired, driverVars>>

\* The trip ends only together with the release of its driver.
Complete(r) ==
  /\ status[r] = "in_progress"
  /\ assigned[r] # None
  /\ Releasable(assigned[r], r)
  /\ status' = [status EXCEPT ![r] = "completed"]
  /\ offer' = ClosedOffers(r, {})
  /\ avail' = [avail EXCEPT ![assigned[r]] = ReleasedTo(assigned[r])]
  /\ UNCHANGED <<assigned, lease, expired, online, fresh, standing>>

-----------------------------------------------------------------------------
(* Transactions on a driver. *)

\* Mutant: going online does not look at the driver's rides.
GoOnlineAnyway(d) ==
  /\ standing[d] = "approved"
  /\ online' = [online EXCEPT ![d] = TRUE]
  /\ avail' = [avail EXCEPT ![d] = "available"]
  /\ UNCHANGED <<rideVars, fresh, standing>>

GoOnline(d) ==
  /\ standing[d] = "approved"
  /\ ~Serves(d)
  /\ online' = [online EXCEPT ![d] = TRUE]
  /\ avail' = [avail EXCEPT ![d] = "available"]
  /\ UNCHANGED <<rideVars, fresh, standing>>

\* Going offline is a preference: a driver on a ride stays busy until it ends.
GoOffline(d) ==
  /\ standing[d] # "removed"
  /\ online' = [online EXCEPT ![d] = FALSE]
  /\ avail' = [avail EXCEPT ![d] = IF @ = "busy" THEN @ ELSE "unavailable"]
  /\ UNCHANGED <<rideVars, fresh, standing>>

\* A stored location fix brings an idle driver who wants to work back online.
UpdateLocation(d) ==
  /\ standing[d] # "removed"
  /\ fresh' = [fresh EXCEPT ![d] = TRUE]
  /\ avail' = [avail EXCEPT ![d] =
       IF /\ online[d] /\ @ \in {"stale", "unavailable"}
          /\ standing[d] = "approved" /\ ~Serves(d)
       THEN "available" ELSE @]
  /\ UNCHANGED <<rideVars, online, standing>>

\* The driver's last socket is gone.
MarkStale(d) ==
  /\ avail[d] = "available"
  /\ ~Serves(d)
  /\ avail' = [avail EXCEPT ![d] = "stale"]
  /\ UNCHANGED <<rideVars, online, fresh, standing>>

\* Switching vehicles takes an idle driver offline until the next fix.
SetActiveVehicle(d) ==
  /\ avail[d] # "busy"
  /\ standing[d] = "approved"
  /\ ~Serves(d)
  /\ avail' = [avail EXCEPT ![d] = "unavailable"]
  /\ UNCHANGED <<rideVars, online, fresh, standing>>

\* A reviewer reopens the verification of a driver, whatever the driver is doing.
ReviewPending(d) ==
  /\ standing[d] # "removed"
  /\ standing' = [standing EXCEPT ![d] = "pending"]
  /\ avail' = [avail EXCEPT ![d] = "unavailable"]
  /\ UNCHANGED <<rideVars, online, fresh>>

\* The driver saves a profile with another licence number or expiry date.
EditLicence(d) ==
  /\ standing[d] # "removed"
  /\ standing' = [standing EXCEPT ![d] = "pending"]
  /\ avail' = [avail EXCEPT ![d] = "unavailable"]
  /\ UNCHANGED <<rideVars, online, fresh>>

\* The driver uploads a new licence document: reviewed again, but a busy driver stays busy.
UploadLicence(d) ==
  /\ standing[d] # "removed"
  /\ standing' = [standing EXCEPT ![d] = "pending"]
  /\ avail' = [avail EXCEPT ![d] = IF @ = "busy" THEN @ ELSE "unavailable"]
  /\ UNCHANGED <<rideVars, online, fresh>>

\* The account of a driver is deleted: its rides are cancelled and it goes offline.  The
\* status trigger refuses in_progress -> cancelled and rolls the deletion back.
RemoveDriver(d) ==
  /\ standing[d] # "removed"
  /\ \A r \in Ride : ~(assigned[r] = d /\ status[r] = "in_progress")
  /\ status' = [r \in Ride |->
       IF assigned[r] = d /\ status[r] \in Cancellable THEN "cancelled" ELSE status[r]]
  /\ offer' = [r \in Ride |->
       IF assigned[r] = d /\ status[r] \in Cancellable THEN ClosedOffers(r, {})[r] ELSE offer[r]]
  /\ lease' = [r \in Ride |->
       IF assigned[r] = d /\ status[r] \in Cancellable THEN None ELSE lease[r]]
  /\ expired' = [r \in Ride |->
       IF assigned[r] = d /\ status[r] \in Cancellable THEN FALSE ELSE expired[r]]
  /\ standing' = [standing EXCEPT ![d] = "removed"]
  /\ avail' = [avail EXCEPT ![d] = "unavailable"]
  /\ UNCHANGED <<assigned, online, fresh>>

-----------------------------------------------------------------------------
(* The world around the database. *)

\* The stored deadline of an offer passes.
LeaseExpires(r) ==
  /\ LiveLease(r)
  /\ expired' = [expired EXCEPT ![r] = TRUE]
  /\ UNCHANGED <<status, assigned, lease, offer, driverVars>>

\* No location has been stored for DRIVER_LOCATION_STALE_SECONDS.
LocationAges(d) ==
  /\ fresh[d]
  /\ fresh' = [fresh EXCEPT ![d] = FALSE]
  /\ UNCHANGED <<rideVars, avail, online, standing>>

\* A document or licence lapses, or an account or vehicle is suspended ...
StandingLapses(d) ==
  /\ standing[d] = "approved"
  /\ standing' = [standing EXCEPT ![d] = "pending"]
  /\ UNCHANGED <<rideVars, avail, online, fresh>>

\* ... and a reviewer approves again.
StandingRestored(d) ==
  /\ standing[d] = "pending"
  /\ standing' = [standing EXCEPT ![d] = "approved"]
  /\ UNCHANGED <<rideVars, avail, online, fresh>>

RideNext(r) ==
  \/ Create(r)
  \/ \E d \in Driver : OfferDispatch(r, d)
  \/ \E d \in Driver, outcome \in {"rejected", "timed_out"} : FinishAttempt(r, d, outcome)
  \/ Reconcile(r)
  \/ \E d \in Driver : Accept(r, d)
  \/ FailDispatch(r)
  \/ Cancel(r)
  \/ \E s \in Active : Transition(r, s)
  \/ StartTrip(r)
  \/ Complete(r)
  \/ LeaseExpires(r)

DriverNext(d) ==
  \/ GoOnline(d)
  \/ GoOffline(d)
  \/ UpdateLocation(d)
  \/ MarkStale(d)
  \/ SetActiveVehicle(d)
  \/ ReviewPending(d)
  \/ EditLicence(d)
  \/ UploadLicence(d)
  \/ RemoveDriver(d)
  \/ LocationAges(d)
  \/ StandingLapses(d)
  \/ StandingRestored(d)

Next == (\E r \in Ride : RideNext(r)) \/ (\E d \in Driver : DriverNext(d))

Spec == Init /\ [][Next]_vars

-----------------------------------------------------------------------------
(* Properties. *)

\* The nullable driver columns agree with the status in every committed state: only a
\* searching ride holds a lease, it has no driver yet, and a ride that is under way or
\* completed has one.  No table constraint says so; every writer has to.
ColumnsMatchStatus ==
  \A r \in Ride :
    /\ lease[r] # None => status[r] = "searching"
    /\ expired[r] => lease[r] # None
    /\ status[r] \in {"none", "searching"} => assigned[r] = None
    /\ status[r] \in Active \cup {"completed"} => assigned[r] # None

\* A ride is leased to a driver exactly while that driver's attempt is 'offered': two
\* tables, written by eight transactions and a trigger, never disagree about who may accept.
LeaseMatchesOffer ==
  \A r \in Ride, d \in Driver : lease[r] = d <=> offer[r][d] = "offered"

\* The driver of a ride is the one whose attempt was consumed by acceptance, and no
\* second attempt of that ride is ever accepted, whatever races the acceptance.
AssignedByAcceptance ==
  \A r \in Ride, d \in Driver : assigned[r] = d <=> offer[r][d] = "accepted"

\* The columns of a ride and its attempt rows agree in every committed state.
RowsAgree == ColumnsMatchStatus /\ LeaseMatchesOffer /\ AssignedByAcceptance

\* A driver is on at most one ride that has not ended.
OneRidePerDriver ==
  \A r, q \in Ride : assigned[r] # None /\ assigned[r] = assigned[q]
                     /\ status[r] \in Active /\ status[q] \in Active => r = q

\* A driver has at most one offer that can still be accepted.
OneLiveOfferPerDriver ==
  \A r, q \in Ride : LiveLease(r) /\ LiveLease(q) /\ lease[r] = lease[q] => r = q

\* No driver is left busy without a ride: every way a ride can end (completed, cancelled by
\* the customer, cancelled by account deletion) releases its driver in the same commit.
BusyHasRide == \A d \in Driver : avail[d] = "busy" => Serves(d)

\* No driver on a ride looks available to matching: going online, a location fix, a lost
\* socket or a release for another ride never make it so.
AvailableIsFree == \A d \in Driver : avail[d] = "available" => ~Serves(d)

\* The availability of a driver tells the truth about the driver's rides.
AvailabilityIsTrue == BusyHasRide /\ AvailableIsFree

\* An attempt that was answered, timed out or cancelled is never reopened, so no driver is
\* asked twice about one ride.
AnsweredOnce ==
  [][\A r \in Ride, d \in Driver :
       offer[r][d] \notin {"none", "offered"} => offer'[r][d] = offer[r][d]]_vars

\* The driver of an active ride is one that completion can release.  The service says that
\* busy is managed by ride state, and completeRide treats a failed release as a conflict.
DriverOfTripReleasable ==
  \A r \in Ride : status[r] = "in_progress" => avail[assigned[r]] \in {"busy", "stale"}

\* Refinement: the lease and the assignment columns implement the contract's party.
PhaseOf(r) ==
  CASE status[r] = "none" -> "unborn"
    [] status[r] = "searching" /\ lease[r] = None -> "searching"
    [] status[r] = "searching" /\ lease[r] # None -> "offered"
    [] status[r] \in {"driver_assigned", "driver_arriving", "driver_arrived"} -> "engaged"
    [] status[r] = "in_progress" -> "riding"
    [] OTHER -> status[r]

PartyOf(r) == IF assigned[r] # None THEN assigned[r] ELSE lease[r]

AskedOf(r) == {d \in Driver : offer[r][d] # "none"}

Contract == INSTANCE DispatchContract WITH
  phase <- [r \in Ride |-> PhaseOf(r)],
  party <- [r \in Ride |-> PartyOf(r)],
  asked <- [r \in Ride |-> AskedOf(r)]

\* RideStore keeps every promise of DispatchContract.
ImplementsContract == Contract!ContractSpec

=============================================================================
