--------------------------- MODULE RecordDeletion ---------------------------
(***************************************************************************)
(* Administrative deletion of accounts: RecordDeletionService.remove and   *)
(* the deny-list of deleted subjects, run against the customers' bookings, *)
(* the drivers' acceptances and location reports.                          *)
(*                                                                         *)
(* A deletion is one transaction of several statements.  Its uncommitted   *)
(* writes are kept in del[p] and applied by CommitDeletion; until then the *)
(* rows they touch are locked, which is what Held, ProfileHeld and         *)
(* RideHeld say.  Rides are reduced to searching (offered to one driver),  *)
(* assigned, completed and cancelled: RideStore models the rest.           *)
(***************************************************************************)
EXTENDS Naturals, FiniteSets

CONSTANTS Customers, RideDrivers, Admins, Boss, Granted, Rides, Workers, Nobody,
          MaxCrashes, MaxDeletions

RideRow == [customer : Customers, offer : RideDrivers, driver : RideDrivers \cup {Nobody},
            status : {"searching", "assigned", "completed", "cancelled"}]

ASSUME DeletionAssumption ==
  /\ Customers \cap RideDrivers = {} /\ Customers \cap Admins = {}
  /\ RideDrivers \cap Admins = {}
  /\ Boss \notin Customers \cup RideDrivers \cup Admins
  /\ Nobody \notin Customers \cup RideDrivers \cup Admins \cup Rides \cup {Boss}
  /\ Granted \subseteq Admins
  /\ MaxCrashes \in Nat /\ MaxDeletions \in Nat
  /\ Nobody \notin RideRow

Accounts == Customers \cup RideDrivers \cup Admins \cup {Boss}
Modules == {"users", "drivers", "admins"}

VARIABLES
  user,      \* the users row: live, erased (kept as an anchor) or gone
  profile,   \* does the driver's profile row exist
  avail,     \* the driver's availability
  ride,      \* the rides, by identifier; Nobody before the booking
  trail,     \* drivers with rows in provider_location_history
  wallet,    \* drivers whose wallet has a balance or entries
  audit,     \* the ADMIN_RECORD_DELETED rows of user_history
  denied,    \* the deny-list in the serving process's memory
  serving,   \* is a process serving
  del,       \* what each deletion request has done so far
  booking,   \* customers whose booking request passed requireAuth
  taking,    \* the ride a driver's open acceptance transaction updated
  crashes,
  asked      \* deletion requests so far, bounded by MaxDeletions

deletionVars == <<user, profile, avail, ride, trail, wallet, audit, denied, serving,
          del, booking, taking, crashes, asked>>

NoDeletion == [at |-> "idle", actor |-> Nobody, module |-> "users",
               target |-> Nobody, rides |-> {}, result |-> "live",
               unprofiled |-> FALSE]

Booked(c, d) == [customer |-> c, offer |-> d, driver |-> Nobody,
                 status |-> "searching"]
Exists(r) == ride[r] # Nobody
Live(r) == Exists(r) /\ ride[r].status \in {"searching", "assigned"}
CustomerOf(r, c) == Exists(r) /\ ride[r].customer = c
DriverOf(r, d) == Exists(r) /\ ride[r].driver = d

InTransaction == {"begun", "locked", "owned", "cancelled", "judged"}

\* Mutant of ActorHeld: the actor's row is read without FOR SHARE.
ActorHeldNever(u) == FALSE

\* remove starts by locking the actor's users row FOR SHARE.
ActorHeld(u) == \E p \in Workers : /\ del[p].at \in InTransaction
                                   /\ del[p].actor = u

\* The target's users row is locked FOR UPDATE until the transaction ends.
Held(u) == \E p \in Workers : /\ del[p].at \in InTransaction \ {"begun"}
                              /\ del[p].target = u

\* Mutant of ProfileHeld: deleteProfile reads the profile without FOR UPDATE.
ProfileHeldByModule(d) ==
  \E p \in Workers : /\ del[p].target = d /\ del[p].module = "drivers"
                     /\ del[p].at \in {"owned", "cancelled"}

\* A deletion through the drivers module locks the profile before it cancels
\* anything, the others when deleteProfile reaches it.
ProfileHeld(d) ==
  \E p \in Workers :
    /\ del[p].target = d
    /\ \/ del[p].at = "judged"
       \/ del[p].module = "drivers" /\ del[p].at \in {"owned", "cancelled"}

RideHeld(r) == \/ \E p \in Workers : r \in del[p].rides
               \/ \E d \in RideDrivers : taking[d] = r

---------------------------------------------------------------------------
DeletionInit ==
  /\ user = [u \in Accounts |-> "live"]
  /\ profile = [d \in RideDrivers |-> TRUE]
  /\ avail = [d \in RideDrivers |-> "available"]
  /\ ride = [r \in Rides |-> Nobody]
  /\ trail = {} /\ wallet = {} /\ audit = {} /\ denied = {}
  /\ serving = TRUE
  /\ del = [p \in Workers |-> NoDeletion]
  /\ booking = {}
  /\ taking = [d \in RideDrivers |-> Nobody]
  /\ crashes = 0 /\ asked = 0

\* requireAuth and requireRoles accept the administrator's token.
AskDeletion(p, a, m, t) ==
  /\ serving /\ del[p].at = "idle"
  /\ a \notin denied /\ asked < MaxDeletions
  /\ asked' = asked + 1
  /\ del' = [del EXCEPT ![p] = [NoDeletion EXCEPT !.at = "asked", !.actor = a,
                                  !.module = m, !.target = t]]
  /\ UNCHANGED <<user, profile, avail, ride, trail, wallet, audit, denied,
                 serving, booking, taking, crashes>>

Abandon(p) == del' = [del EXCEPT ![p] = NoDeletion]

\* Own account and super administrators are protected; an administrator is
\* deleted only by the super administrator, through its own module.
MayDelete(a, m, t) ==
  /\ t # a /\ t # Boss
  /\ (t \in Admins) <=> (m = "admins")
  /\ m = "admins" => a = Boss
  /\ m = "drivers" => t \in RideDrivers
  /\ a = Boss \/ a \in Granted

\* The FOR SHARE lock on the actor, then the identity read on another
\* connection.
BeginDeletion(p) ==
  /\ del[p].at = "asked"
  /\ ~Held(del[p].actor)
  /\ IF user[del[p].actor] = "live"
     THEN del' = [del EXCEPT ![p].at = "begun"]
     ELSE Abandon(p)
  /\ UNCHANGED <<user, profile, avail, ride, trail, wallet, audit, denied,
                 serving, booking, taking, crashes, asked>>

LockTarget(p) ==
  /\ del[p].at = "begun"
  /\ ~Held(del[p].target) /\ ~ActorHeld(del[p].target)
  /\ IF /\ user[del[p].target] = "live"
        /\ MayDelete(del[p].actor, del[p].module, del[p].target)
        /\ del[p].module = "drivers" => profile[del[p].target]
     THEN del' = [del EXCEPT ![p].at = "locked"]
     ELSE Abandon(p)
  /\ UNCHANGED <<user, profile, avail, ride, trail, wallet, audit, denied,
                 serving, booking, taking, crashes, asked>>

\* Mutant of OwnProfile: the drivers module reads the profile without a lock.
OwnProfileUnlocked(p) ==
  /\ del[p].at = "locked"
  /\ del' = [del EXCEPT ![p].at = "owned"]
  /\ UNCHANGED <<user, profile, avail, ride, trail, wallet, audit, denied,
                 serving, booking, taking, crashes, asked>>

\* SELECT ... FROM driver_profiles ... FOR UPDATE, in the drivers module.
OwnProfile(p) ==
  /\ del[p].at = "locked"
  /\ del[p].module = "drivers" => taking[del[p].target] = Nobody
  /\ del' = [del EXCEPT ![p].at = "owned"]
  /\ UNCHANGED <<user, profile, avail, ride, trail, wallet, audit, denied,
                 serving, booking, taking, crashes, asked>>

\* cancelLinkedWork: the rides of its snapshot the account takes part in.
LinkedRides(t) == {r \in Rides : Live(r) /\ (CustomerOf(r, t) \/ DriverOf(r, t))}
CancelLinkedWork(p) ==
  /\ del[p].at = "owned"
  /\ \A r \in LinkedRides(del[p].target) : ~RideHeld(r)
  /\ del' = [del EXCEPT ![p].at = "cancelled",
                        ![p].rides = LinkedRides(del[p].target)]
  /\ UNCHANGED <<user, profile, avail, ride, trail, wallet, audit, denied,
                 serving, booking, taking, crashes, asked>>

\* Mutant of ProfileIsReferenced: past rides do not count as references.
ProfileIsReferencedByTrail(d) == d \in trail

\* assertUnreferenced: what the foreign keys of the two tables find.
ProfileIsReferenced(d) == d \in trail \/ \E r \in Rides : DriverOf(r, d)
UserIsReferenced(u) == u \in wallet \/ \E r \in Rides : CustomerOf(r, u)

\* deleteProfile and DELETE FROM users between the two savepoints; a conflict
\* rolls the account back, tries the profile alone and erases the identity.
JudgeReferences(p) ==
  LET t == del[p].target
      kept == t \in RideDrivers /\ profile[t] /\ ProfileIsReferenced(t)
  IN /\ del[p].at = "cancelled"
     /\ t \in RideDrivers => taking[t] = Nobody
     /\ del' = [del EXCEPT ![p].at = "judged",
          ![p].unprofiled = t \in RideDrivers /\ ~kept,
          ![p].result = IF kept \/ UserIsReferenced(t) THEN "erased" ELSE "gone"]
     /\ UNCHANGED <<user, profile, avail, ride, trail, wallet, audit, denied,
                    serving, booking, taking, crashes, asked>>

\* releaseBusy of the cancelled rides' drivers, the erased driver's own
\* availability, and the DELETE's cascades.
CommitDeletion(p) ==
  LET t == del[p].target
      gone == IF del[p].unprofiled THEN {t} ELSE {}
  IN /\ del[p].at = "judged"
     /\ user' = [user EXCEPT ![t] = del[p].result]
     /\ profile' = [d \in RideDrivers |-> profile[d] /\ d \notin gone]
     /\ trail' = trail \ gone
     /\ wallet' = IF del[p].result = "gone" THEN wallet \ {t} ELSE wallet
     /\ ride' = [r \in Rides |-> IF r \in del[p].rides
                                 THEN [ride[r] EXCEPT !.status = "cancelled"]
                                 ELSE ride[r]]
     /\ avail' = [d \in RideDrivers |->
          IF d = t THEN "unavailable"
          ELSE IF /\ avail[d] = "busy"
                  /\ \E r \in del[p].rides : DriverOf(r, d)
                  /\ \A r \in Rides \ del[p].rides : ~(Live(r) /\ DriverOf(r, d))
               THEN "available" ELSE avail[d]]
     /\ audit' = audit \cup {[actor |-> del[p].actor, subject |-> t,
                              module |-> del[p].module]}
     /\ del' = [del EXCEPT ![p].at = "committed", ![p].rides = {}]
     /\ UNCHANGED <<denied, serving, booking, taking, crashes, asked>>

\* A statement or COMMIT fails, or a deadlock victim is chosen.
FailDeletion(p) ==
  /\ del[p].at \in InTransaction
  /\ Abandon(p)
  /\ UNCHANGED <<user, profile, avail, ride, trail, wallet, audit, denied,
                 serving, booking, taking, crashes, asked>>

\* revokeDeletedSubject once COMMIT has answered; the ride:cancelled events
\* follow in the same turn.
RevokeSubject(p) ==
  /\ del[p].at = "committed"
  /\ denied' = denied \cup {del[p].target}
  /\ Abandon(p)
  /\ UNCHANGED <<user, profile, avail, ride, trail, wallet, audit, serving,
                 booking, taking, crashes, asked>>

---------------------------------------------------------------------------
AdmitBooking(c) ==
  /\ serving /\ c \notin denied /\ c \notin booking
  /\ booking' = booking \cup {c}
  /\ UNCHANGED <<user, profile, avail, ride, trail, wallet, audit, denied,
                 serving, del, taking, crashes, asked>>

\* insertRide waits for the customer's row (its foreign key's KEY SHARE lock)
\* and fails when the row is gone; it reads nothing else of the customer.
Book(c, r, d) ==
  /\ c \in booking /\ ~Exists(r) /\ ~Held(c)
  /\ booking' = booking \ {c}
  /\ ride' = IF user[c] = "gone" THEN ride
             ELSE [ride EXCEPT ![r] = Booked(c, d)]
  /\ UNCHANGED <<user, profile, avail, trail, wallet, audit, denied, serving,
                 del, taking, crashes, asked>>

\* accept's UPDATE: the ride's lock, an unlocked look at the driver, and the
\* KEY SHARE lock of the ride's foreign key on the driver's profile.
TakeRide(d, r) ==
  /\ serving /\ d \notin denied /\ taking[d] = Nobody
  /\ Live(r) /\ ride[r].status = "searching" /\ ride[r].offer = d
  /\ ~RideHeld(r) /\ ~ProfileHeld(d)
  /\ user[d] = "live" /\ profile[d] /\ avail[d] = "available"
  /\ taking' = [taking EXCEPT ![d] = r]
  /\ UNCHANGED <<user, profile, avail, ride, trail, wallet, audit, denied,
                 serving, del, booking, crashes, asked>>

\* setBusy and COMMIT.
CommitAcceptance(d) ==
  LET r == taking[d]
  IN /\ r # Nobody
     /\ taking' = [taking EXCEPT ![d] = Nobody]
     /\ ride' = [ride EXCEPT ![r].driver = d, ![r].status = "assigned"]
     /\ avail' = [avail EXCEPT ![d] = "busy"]
     /\ UNCHANGED <<user, profile, trail, wallet, audit, denied, serving, del,
                    booking, crashes, asked>>

Complete(r) ==
  /\ serving /\ Live(r) /\ ride[r].status = "assigned"
  /\ ~RideHeld(r) /\ ~ProfileHeld(ride[r].driver)
  /\ ride[r].driver \notin denied
  /\ ride' = [ride EXCEPT ![r].status = "completed"]
  /\ avail' = [avail EXCEPT ![ride[r].driver] =
                 IF @ = "busy" THEN "available" ELSE @]
  /\ UNCHANGED <<user, profile, trail, wallet, audit, denied, serving, del,
                 booking, taking, crashes, asked>>

\* A location row of the driver, child of the profile by ON DELETE CASCADE.
RecordLocation(d) ==
  /\ serving /\ d \notin denied /\ d \notin trail
  /\ profile[d] /\ ~ProfileHeld(d)
  /\ trail' = trail \cup {d}
  /\ UNCHANGED <<user, profile, avail, ride, wallet, audit, denied, serving,
                 del, booking, taking, crashes, asked>>

EarnWallet(d) ==
  /\ serving /\ d \notin denied /\ d \notin wallet
  /\ user[d] # "gone" /\ ~Held(d)
  /\ wallet' = wallet \cup {d}
  /\ UNCHANGED <<user, profile, avail, ride, trail, audit, denied, serving,
                 del, booking, taking, crashes, asked>>

\* The process dies: open transactions roll back, its memory is lost.
Crash ==
  /\ serving /\ crashes < MaxCrashes
  /\ serving' = FALSE /\ crashes' = crashes + 1
  /\ denied' = {} /\ booking' = {}
  /\ del' = [p \in Workers |-> NoDeletion]
  /\ taking' = [d \in RideDrivers |-> Nobody]
  /\ UNCHANGED <<user, profile, avail, ride, trail, wallet, audit, asked>>

\* Mutant of Serve: the deny-list is not restored.
ServeUnloaded ==
  /\ ~serving
  /\ serving' = TRUE
  /\ UNCHANGED <<user, profile, avail, ride, trail, wallet, audit, denied, del,
                 booking, taking, crashes, asked>>

\* loadDeletedSubjects, before the handlers become active.
Recorded == {a.subject : a \in audit}
Serve ==
  /\ ~serving
  /\ serving' = TRUE /\ denied' = Recorded
  /\ UNCHANGED <<user, profile, avail, ride, trail, wallet, audit, del,
                 booking, taking, crashes, asked>>

DeletionNext ==
  \/ \E p \in Workers :
       \/ \E a \in Admins \cup {Boss}, m \in Modules, t \in Accounts :
            AskDeletion(p, a, m, t)
       \/ BeginDeletion(p) \/ LockTarget(p) \/ OwnProfile(p)
       \/ CancelLinkedWork(p) \/ JudgeReferences(p) \/ CommitDeletion(p)
       \/ FailDeletion(p) \/ RevokeSubject(p)
  \/ \E c \in Customers : \/ AdmitBooking(c)
                          \/ \E r \in Rides, d \in RideDrivers : Book(c, r, d)
  \/ \E d \in RideDrivers : \/ \E r \in Rides : TakeRide(d, r)
                        \/ CommitAcceptance(d)
                        \/ RecordLocation(d) \/ EarnWallet(d)
  \/ \E r \in Rides : Complete(r)
  \/ Crash \/ Serve

DeletionSpec == DeletionInit /\ [][DeletionNext]_deletionVars

---------------------------------------------------------------------------
Progress == {"idle", "asked", "begun", "locked", "owned", "cancelled", "judged", "committed"}
Deletion == [at : Progress, actor : Accounts \cup {Nobody}, module : Modules,
             target : Accounts \cup {Nobody}, rides : SUBSET Rides,
             result : {"live", "erased", "gone"}, unprofiled : BOOLEAN]

DeletionTypeOK ==
  /\ user \in [Accounts -> {"live", "erased", "gone"}]
  /\ profile \in [RideDrivers -> BOOLEAN]
  /\ avail \in [RideDrivers -> {"available", "busy", "unavailable"}]
  /\ ride \in [Rides -> RideRow \cup {Nobody}]
  /\ \A r \in Rides : Exists(r) =>
       ride[r].driver \in {Nobody, ride[r].offer}
  /\ trail \subseteq RideDrivers /\ wallet \subseteq RideDrivers
  /\ audit \subseteq [actor : Accounts, subject : Accounts, module : Modules]
  /\ denied \subseteq Accounts
  /\ serving \in BOOLEAN
  /\ del \in [Workers -> Deletion]
  /\ booking \subseteq Customers
  /\ taking \in [RideDrivers -> Rides \cup {Nobody}]
  /\ crashes \in 0..MaxCrashes /\ asked \in 0..MaxDeletions

\* Deleting the master record never leaves history without its owner: every
\* ride still has its customer's row and its driver's profile, and a wallet
\* its account, whatever was inserted while the deletion was deciding.
HistoryIsAnchored ==
  /\ \A r \in Rides : Exists(r) =>
       /\ user[ride[r].customer] # "gone"
       /\ ride[r].driver # Nobody => profile[ride[r].driver]
  /\ \A d \in wallet : user[d] # "gone"
  /\ \A d \in RideDrivers : profile[d] => user[d] # "gone"

\* A driver deleted through the drivers module is left with no live ride,
\* although acceptances and bookings run beside the deletion; and no driver
\* stays busy after the deletion of a customer cancelled the ride.
WorkIsSettled ==
  /\ \A a \in audit : a.module = "drivers" =>
       \A r \in Rides : Live(r) => ~DriverOf(r, a.subject)
  /\ \A d \in RideDrivers : avail[d] = "busy" =>
       \E r \in Rides : Live(r) /\ DriverOf(r, d)

\* While a process serves, it refuses exactly the tokens of the deleted
\* subjects, except those of a deletion whose COMMIT has not answered yet:
\* also after a crash between COMMIT and the revocation, and never for an
\* account whose deletion failed.
DenyListIsExact ==
  serving => /\ denied \subseteq Recorded
             /\ Recorded \subseteq denied \cup
                  {del[p].target : p \in {q \in Workers : del[q].at = "committed"}}

\* A deletion leaves no row that history points at without its anchor and no
\* work half done, and the deny-list names exactly the accounts deleted.
DeletionIsClean == HistoryIsAnchored /\ WorkIsSettled /\ DenyListIsExact

\* Rows of operational history are never cascaded away, and only an
\* administrator who still exists when the deletion commits is its author.
DeletionStep ==
  /\ trail \subseteq trail' /\ wallet \subseteq wallet'
  /\ \A a \in audit' \ audit : user[a.actor] = "live"
DeletionsAreAuthored == [][DeletionStep]_deletionVars
=============================================================================
