-------------------------- MODULE DispatchTransactions --------------------------
(***************************************************************************)
(* The transactions of RideStore statement by statement, as PostgreSQL     *)
(* runs them under READ COMMITTED.  RideStore takes each for one step; this *)
(* module asks what that step leaves out: several transactions are open at *)
(* a time, each statement reads a snapshot of what is committed when it     *)
(* starts, waits for the lock of the row it writes, and then rechecks its  *)
(* condition on the new version of THAT row, while subqueries on other     *)
(* tables keep the old snapshot.  NOW() is the start of the transaction,   *)
(* clock_timestamp() the moment itself.                                    *)
(*                                                                         *)
(* The variables of RideStore are the committed tables.  A row cannot      *)
(* change while its lock is held, so the writes of a transaction are       *)
(* applied together when it commits.                                       *)
(*                                                                         *)
(* Abstractions.  A transaction that finds nothing to do is not started.   *)
(* Reviews, licences, vehicles and deletions are left to RideStore.  Row   *)
(* locks on rides are as strong as FOR UPDATE.                             *)
(***************************************************************************)
EXTENDS RideStore

CONSTANTS
  Session,  \* database sessions, each running one transaction at a time
  Request   \* the transactions an instance may run

VARIABLES
  txn,   \* the open transaction of each session
  locks  \* row locks it holds: a set of <<row, mode>>

txnVars == <<status, assigned, lease, expired, offer, avail, online, fresh, standing,
             txn, locks>>

\* at: the statement it stands at; seen: what the subqueries of that statement found in its
\* snapshot; over: the rides whose lease was over at NOW().
OnDriver == {"online", "offline", "fix", "lost"}
Kind == {"accept", "offer", "reject", "time_out", "reconcile", "cancel", "progress", "pin",
         "complete", "fail"} \cup OnDriver

ASSUME RequestAssumption == Request \subseteq Kind

Statement == {"none", "asked", "ride", "attempt", "active", "key", "driver", "clear", "lease",
              "release", "commit"}

Txn == [kind : Kind \cup {"none"}, ride : Ride \cup {None}, driver : Driver \cup {None},
        at : Statement, seen : BOOLEAN, over : SUBSET Ride]

NoTxn == [kind |-> "none", ride |-> None, driver |-> None, at |-> "none", seen |-> FALSE,
          over |-> {}]

Row == {<<"ride", r>> : r \in Ride} \cup {<<"driver", d>> : d \in Driver}
       \cup {<<"attempt", r, d>> : r \in Ride, d \in Driver}
       \cup {<<"active", d>> : d \in Driver}

Mode == {"key_share", "share", "no_key_update", "update"}

TxnTypeOK ==
  /\ TypeOK
  /\ txn \in [Session -> Txn]
  /\ locks \in [Session -> SUBSET (Row \X Mode)]

\* Bookings are searching, drivers on shift: a state RideStore reaches.
TxnInit ==
  /\ status = [r \in Ride |-> "searching"]
  /\ assigned = [r \in Ride |-> None]
  /\ lease = [r \in Ride |-> None]
  /\ expired = [r \in Ride |-> FALSE]
  /\ offer = [r \in Ride |-> [d \in Driver |-> "none"]]
  /\ avail = [d \in Driver |-> "available"]
  /\ online = [d \in Driver |-> TRUE]
  /\ fresh = [d \in Driver |-> TRUE]
  /\ standing = [d \in Driver |-> "approved"]
  /\ txn = [s \in Session |-> NoTxn]
  /\ locks = [s \in Session |-> {}]

-----------------------------------------------------------------------------
(* Row locks. *)

\* PostgreSQL's table of conflicting row-lock modes.
Conflict == {{"key_share", "update"}, {"share", "no_key_update"}, {"share", "update"},
             {"no_key_update"}, {"no_key_update", "update"}, {"update"}}

\* The row the current statement of x locks, and how.  `active` is the entry of the unique
\* index on the driver of an active ride; `key` the check of the foreign key to the driver.
Wanted(x) ==
  CASE x.at = "ride" \/ x.at = "clear" \/ x.at = "lease" -> <<<<"ride", x.ride>>, "update">>
    [] x.at = "attempt" /\ x.kind \in {"accept", "reject", "time_out"} ->
         <<<<"attempt", x.ride, x.driver>>, "no_key_update">>
    [] x.at = "attempt" /\ x.kind \in {"offer", "reconcile", "cancel", "complete"} ->
         <<<<"attempt", x.ride, lease[x.ride]>>, "no_key_update">>
    [] x.at = "active" -> <<<<"active", x.driver>>, "update">>
    [] x.at = "key" -> <<<<"driver", x.driver>>, "key_share">>
    [] x.at = "driver" /\ x.kind = "offer" -> <<<<"driver", x.driver>>, "update">>
    [] x.at = "driver" /\ x.kind = "pin" -> <<<<"driver", x.driver>>, "share">>
    [] OTHER -> <<<<"driver", x.driver>>, "no_key_update">>

Blockers(s, row, mode) ==
  {q \in Session \ {s} : \E l \in locks[q] : l[1] = row /\ {l[2], mode} \in Conflict}

\* Mutant: the driver's row is not locked before the driver is leased.
UnlockedDriver(s, next) ==
  /\ txn[s].kind # "offer" => Blockers(s, Wanted(txn[s])[1], Wanted(txn[s])[2]) = {}
  /\ locks' = IF txn[s].kind = "offer" /\ txn[s].at = "driver" THEN locks
              ELSE [locks EXCEPT ![s] = @ \cup {Wanted(txn[s])}]
  /\ txn' = [txn EXCEPT ![s] = next]
  /\ UNCHANGED vars

\* The statement has its lock: the transaction goes on as `next`.
Locked(s, next) ==
  /\ Blockers(s, Wanted(txn[s])[1], Wanted(txn[s])[2]) = {}
  /\ locks' = [locks EXCEPT ![s] = @ \cup {Wanted(txn[s])}]
  /\ txn' = [txn EXCEPT ![s] = next]
  /\ UNCHANGED vars

\* The statement touches no row.
Passed(s, next) == txn' = [txn EXCEPT ![s] = next] /\ UNCHANGED <<vars, locks>>

\* The transaction is over; its locks are gone.  A lease it made was not over at anybody's NOW().
Closed(s) ==
  /\ txn' = [q \in Session |->
       IF q = s THEN NoTxn ELSE [txn[q] EXCEPT !.over = {r \in @ : expired'[r]}]]
  /\ locks' = [locks EXCEPT ![s] = {}]

RollsBack(s) == UNCHANGED vars /\ Closed(s)

-----------------------------------------------------------------------------
(* Starting a transaction. *)

\* What the subqueries of the first statement find.
SeesAtStart(k, r, d) ==
  CASE k = "accept" -> Dispatchable(d, r) /\ offer[r][d] = "offered"
    [] k \in OnDriver -> standing[d] = "approved" /\ ~Serves(d)
    [] OTHER -> FALSE

First(k) ==
  CASE k = "online" -> "asked"
    [] k \in {"offer", "pin", "offline", "fix", "lost"} -> "driver"
    [] OTHER -> "ride"

Progressing(r) == \E p \in Active : <<status[r], p>> \in ProgressEdge

\* What a request, a timer or a coordinator can know when it calls.
Sensible(k, r, d) ==
  CASE k \in {"accept", "reject", "time_out"} -> lease[r] = d
    [] k = "offer" -> status[r] = "searching" /\ Dispatchable(d, r) /\ offer[r][d] = "none"
    [] k = "reconcile" -> d = None /\ DueLease(r)
    [] k = "cancel" -> d = assigned[r] /\ status[r] \in Cancellable
    [] k = "complete" -> d = assigned[r] /\ status[r] = "in_progress"
    [] k = "progress" -> d = assigned[r] /\ Progressing(r)
    [] k = "pin" -> d = assigned[r] /\ d # None
    [] k = "fail" -> d = None /\ Unleased(r)
    [] k = "online" -> r = None /\ ~(avail[d] = "available" /\ online[d])
    [] k = "offline" -> r = None /\ online[d]
    [] k = "fix" -> r = None /\ avail[d] \in {"stale", "unavailable"}
    [] OTHER -> r = None /\ avail[d] = "available"

Begin(s, k, r, d) ==
  /\ txn[s] = NoTxn
  /\ k \in Request
  /\ (r = None) = (k \in OnDriver)
  /\ d = None => k \in {"reconcile", "cancel", "fail"}
  /\ Sensible(k, r, d)
  /\ Passed(s, [kind |-> k, ride |-> r, driver |-> d, at |-> First(k),
                seen |-> SeesAtStart(k, r, d), over |-> {q \in Ride : expired[q]}])

-----------------------------------------------------------------------------
(* The statements of each transaction, up to its commit. *)

To(s, place) == [txn[s] EXCEPT !.at = place]

\* The ride as accept finds it once it holds the lock; the attempt and the driver as it saw them.
StillOffered(x) ==
  /\ x.seen
  /\ status[x.ride] = "searching" /\ lease[x.ride] = x.driver /\ ~expired[x.ride]

\* accept, then setBusy.
AcceptStatement(s) ==
  LET x == txn[s]  r == x.ride  d == x.driver IN
  /\ x.kind = "accept"
  /\ \/ /\ x.at = "ride"
        /\ IF StillOffered(x) THEN Locked(s, To(s, "active")) ELSE RollsBack(s)
     \/ /\ x.at = "active"
        /\ IF Serves(d) THEN RollsBack(s) ELSE Locked(s, To(s, "attempt"))
     \/ /\ x.at = "attempt"
        /\ IF offer[r][d] = "offered" THEN Locked(s, To(s, "key")) ELSE RollsBack(s)
     \/ x.at = "key" /\ Locked(s, To(s, "driver"))
     \/ /\ x.at = "driver"
        /\ IF avail[d] = "available" THEN Locked(s, To(s, "commit")) ELSE RollsBack(s)

\* The lease of x.ride ran out before NOW().
Over(x) == x.ride \in x.over

\* driverEligibilitySql with this transaction's NOW().
EligibleAt(x) ==
  /\ standing[x.driver] = "approved" /\ avail[x.driver] = "available" /\ fresh[x.driver]
  /\ ~Serves(x.driver)
  /\ \A q \in Ride \ {x.ride} : status[q] = "searching" /\ lease[q] = x.driver
                                => q \in x.over

\* Mutant: the statement does not ask whether the ride is still searching.
LeasableAnyway(x) == x.seen /\ (lease[x.ride] = None \/ Over(x))

\* The ride as the leasing statement finds it after the wait.
Leasable(x) == x.seen /\ status[x.ride] = "searching" /\ (lease[x.ride] = None \/ Over(x))

\* offerDispatch: lock the driver, time out a lease that is over, lease the ride.
OfferStatement(s) ==
  LET x == txn[s]  r == x.ride  d == x.driver IN
  /\ x.kind = "offer"
  /\ \/ x.at = "driver" /\ Locked(s, To(s, "attempt"))
     \/ /\ x.at = "attempt"
        /\ IF Over(x) /\ offer[r][lease[r]] = "offered"
           THEN Locked(s, To(s, "clear")) ELSE Passed(s, To(s, "clear"))
     \/ /\ x.at = "clear"
        /\ LET next == [To(s, "lease") EXCEPT !.seen = EligibleAt(x) /\ offer[r][d] = "none"]
           IN IF Over(x) THEN Locked(s, next) ELSE Passed(s, next)
     \/ /\ x.at = "lease"
        /\ IF Leasable(x) THEN Locked(s, To(s, "commit"))
           ELSE Passed(s, [To(s, "commit") EXCEPT !.seen = FALSE])

\* finishDispatchAttempt and reconcileDispatch: the ride, then the attempt.
FinishStatement(s) ==
  LET x == txn[s]  r == x.ride  d == x.driver IN
  /\ x.kind \in {"reject", "time_out"}
  /\ \/ /\ x.at = "ride"
        /\ IF status[r] = "searching" /\ lease[r] = d
           THEN Locked(s, To(s, "attempt")) ELSE RollsBack(s)
     \/ /\ x.at = "attempt"
        /\ IF offer[r][d] = "offered" /\ (x.kind = "reject" \/ Over(x))
           THEN Locked(s, To(s, "commit")) ELSE RollsBack(s)

ReconcileStatement(s) ==
  LET x == txn[s]  r == x.ride IN
  /\ x.kind = "reconcile"
  /\ \/ x.at = "ride" /\ Locked(s, To(s, "attempt"))
     \/ /\ x.at = "attempt"
        /\ IF status[r] = "searching" /\ Over(x)
           THEN Locked(s, To(s, "commit")) ELSE RollsBack(s)

\* cancel and complete, then releaseBusy.  The trigger on the status writes the open attempt.
EndStatement(s) ==
  LET x == txn[s]  r == x.ride  d == assigned[r] IN
  /\ x.kind \in {"cancel", "complete"}
  /\ \/ /\ x.at = "ride"
        /\ IF \/ x.kind = "cancel" /\ status[r] \in Cancellable
              \/ x.kind = "complete" /\ status[r] = "in_progress"
           THEN Locked(s, [To(s, "attempt") EXCEPT !.driver = d]) ELSE RollsBack(s)
     \/ /\ x.at = "attempt"
        /\ IF lease[r] # None THEN Locked(s, To(s, "release")) ELSE Passed(s, To(s, "release"))
     \/ /\ x.at = "release"
        /\ Passed(s, IF d = None THEN To(s, "commit")
                     ELSE [To(s, "driver") EXCEPT !.seen = ~ServesOtherThan(d, r)])
     \/ /\ x.at = "driver"
        /\ \/ x.seen /\ avail[d] \in {"busy", "stale"} /\ Locked(s, To(s, "commit"))
           \/ /\ ~(x.seen /\ avail[d] \in {"busy", "stale"})
              /\ IF x.kind = "cancel" THEN Passed(s, [To(s, "commit") EXCEPT !.seen = FALSE])
                 ELSE RollsBack(s)

\* verifyPinAttempt with a correct PIN: the driver's row, then the ride.
PinStatement(s) ==
  LET x == txn[s]  r == x.ride  d == x.driver IN
  /\ x.kind = "pin"
  /\ \/ x.at = "driver" /\ Locked(s, To(s, "ride"))
     \/ x.at = "ride" /\ Locked(s, To(s, "commit"))

\* transition and failDispatch: one statement on the ride.
RideStatement(s) ==
  LET x == txn[s]  r == x.ride IN
  /\ x.kind \in {"progress", "fail"} /\ x.at = "ride"
  /\ IF (x.kind = "progress" /\ Progressing(r)) \/ (x.kind = "fail" /\ Unleased(r))
     THEN Locked(s, To(s, "commit")) ELSE RollsBack(s)

\* updateAvailability, updateLocation and markStale: one statement each, whose subquery on
\* rides is not repeated after the wait.  The service asks for going online after a look at
\* the driver in a statement of its own.
DriverStatement(s) ==
  LET x == txn[s]  d == x.driver IN
  /\ x.kind \in OnDriver
  /\ \/ /\ x.at = "asked"
        /\ Passed(s, [To(s, "driver") EXCEPT !.seen = SeesAtStart("online", None, d)])
     \/ /\ x.at = "driver"
        /\ IF \/ x.kind \in {"fix", "offline"}
              \/ x.seen /\ (x.kind = "lost" => avail[d] = "available")
           THEN Locked(s, To(s, "commit")) ELSE RollsBack(s)

-----------------------------------------------------------------------------
(* Commits. *)

CommitAccept(r, d) ==
  /\ status' = [status EXCEPT ![r] = "driver_assigned"]
  /\ assigned' = [assigned EXCEPT ![r] = d]
  /\ ClearLease(r)
  /\ offer' = Consumed(r, d)
  /\ avail' = [avail EXCEPT ![d] = "busy"]
  /\ UNCHANGED <<online, fresh, standing>>

\* `seen` says whether the lease was made; a lease that was over is timed out all the same.
CommitOffer(s, r, d) ==
  LET x == txn[s]
      attempt == IF Over(x) THEN [offer[r] EXCEPT ![lease[r]] = "timed_out"] ELSE offer[r] IN
  /\ offer' = [offer EXCEPT ![r] = IF x.seen THEN [attempt EXCEPT ![d] = "offered"] ELSE attempt]
  /\ lease' = [lease EXCEPT ![r] = IF x.seen THEN d ELSE IF Over(x) THEN None ELSE @]
  /\ expired' = [expired EXCEPT ![r] = @ /\ ~x.seen /\ ~Over(x)]
  /\ UNCHANGED <<status, assigned, driverVars>>

\* Mutant: a name the attempts table does not have.
CommitFinishAsExpired(s, r) ==
  /\ offer' = [offer EXCEPT ![r][lease[r]] = IF Over(txn[s]) THEN "expired" ELSE "rejected"]
  /\ ClearLease(r)
  /\ UNCHANGED <<status, assigned, driverVars>>

CommitFinish(s, r) ==
  /\ offer' = [offer EXCEPT ![r][lease[r]] = IF Over(txn[s]) THEN "timed_out" ELSE "rejected"]
  /\ ClearLease(r)
  /\ UNCHANGED <<status, assigned, driverVars>>

\* The driver is released if the statement of releaseBusy found the row.
CommitEnd(s, r, last) ==
  /\ status' = [status EXCEPT ![r] = last]
  /\ ClearLease(r)
  /\ offer' = ClosedOffers(r, {})
  /\ avail' = [d \in Driver |->
       IF d = assigned[r] /\ txn[s].seen THEN ReleasedTo(d) ELSE avail[d]]
  /\ UNCHANGED <<assigned, online, fresh, standing>>

\* Mutant: a fix puts the driver back to work whatever the row says by now.
FixAnyway(s, d) ==
  /\ avail' = [avail EXCEPT ![d] = IF online[d] /\ txn[s].seen THEN "available" ELSE @]
  /\ UNCHANGED <<rideVars, online, fresh, standing>>

CommitFix(s, d) ==
  /\ avail' = [avail EXCEPT ![d] =
       IF online[d] /\ @ \in {"stale", "unavailable"} /\ txn[s].seen THEN "available" ELSE @]
  /\ UNCHANGED <<rideVars, online, fresh, standing>>

CommitOnline(d) ==
  /\ avail' = [avail EXCEPT ![d] = "available"]
  /\ online' = [online EXCEPT ![d] = TRUE]
  /\ UNCHANGED <<rideVars, fresh, standing>>

CommitLost(d) ==
  /\ avail' = [avail EXCEPT ![d] = "stale"]
  /\ UNCHANGED <<rideVars, online, fresh, standing>>

Commit(s) ==
  LET x == txn[s]  r == x.ride  d == x.driver IN
  /\ x.at = "commit"
  /\ \/ x.kind = "accept" /\ CommitAccept(r, d)
     \/ x.kind = "offer" /\ CommitOffer(s, r, d)
     \/ x.kind \in {"reject", "time_out", "reconcile"} /\ CommitFinish(s, r)
     \/ x.kind \in {"cancel", "fail"} /\ CommitEnd(s, r, "cancelled")
     \/ x.kind = "complete" /\ CommitEnd(s, r, "completed")
     \/ x.kind = "progress" /\ \E p \in Active : Transition(r, p)
     \/ x.kind = "pin" /\ StartTrip(r)
     \/ x.kind = "pin" /\ status[r] # "driver_arrived" /\ UNCHANGED vars
     \/ x.kind = "online" /\ CommitOnline(d)
     \/ x.kind = "offline" /\ GoOffline(d)
     \/ x.kind = "fix" /\ CommitFix(s, d)
     \/ x.kind = "lost" /\ CommitLost(d)
  /\ Closed(s)

-----------------------------------------------------------------------------
(* Time, and the scheduling of sessions. *)

\* A deadline passes whoever holds the lock of the ride.
Passing ==
  /\ \E r \in Ride : LeaseExpires(r)
  /\ UNCHANGED <<txn, locks>>

\* One statement, commit or rollback.
TxnStep(s) ==
  \/ AcceptStatement(s)
  \/ OfferStatement(s)
  \/ FinishStatement(s)
  \/ ReconcileStatement(s)
  \/ EndStatement(s)
  \/ PinStatement(s)
  \/ RideStatement(s)
  \/ DriverStatement(s)
  \/ Commit(s)

\* s waits for a lock of q.
WaitsFor(s, q) ==
  /\ txn[s] # NoTxn
  /\ ~ENABLED TxnStep(s)
  /\ q \in Blockers(s, Wanted(txn[s])[1], Wanted(txn[s])[2])

Deadlocked(S) == S # {} /\ \A s \in S : \E q \in S : WaitsFor(s, q)

\* The server ends one transaction of a deadlock.
Victim(s) ==
  /\ \E S \in SUBSET Session : s \in S /\ Deadlocked(S)
  /\ RollsBack(s)

TxnNext ==
  \/ \E s \in Session, k \in Kind, r \in Ride \cup {None}, d \in Driver \cup {None} :
       Begin(s, k, r, d)
  \/ \E s \in Session : TxnStep(s) \/ Victim(s)
  \/ Passing

TxnSpec == TxnInit /\ [][TxnNext]_txnVars

-----------------------------------------------------------------------------
(* Properties. *)

\* Statement by statement, the transactions still make only the steps of DispatchContract: one
\* driver is asked at a time and each at most once, one driver works on one ride, and whoever
\* waited for a lock acts on what the holder left.
KeepsContract == [][Contract!ContractNext]_(Contract!contractVars)

\* Going online does not meet an acceptance.  Where they meet, a driver may become available
\* in the middle of a ride.
OnlineApart ==
  \A s, q \in Session : ~(txn[s].kind = "online" /\ txn[q].kind = "accept")

\* Whatever transactions are open, what is committed agrees: leases with attempts, drivers of
\* rides with acceptances, availability with rides; no driver has two rides or two live offers.
CommittedAgree ==
  /\ LeaseMatchesOffer /\ AssignedByAcceptance /\ AvailabilityIsTrue
  /\ OneRidePerDriver /\ OneLiveOfferPerDriver

\* verifyPinAttempt is never in a cycle of row locks: its comment says that it takes the driver
\* before the ride, as acceptance does.
PinNeverInCycle ==
  \A S \in SUBSET Session : Deadlocked(S) => \A s \in S : txn[s].kind # "pin"
=============================================================================
