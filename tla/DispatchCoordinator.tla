-------------------------- MODULE DispatchCoordinator --------------------------
(***************************************************************************)
(* RideDispatchService on top of RideStore.  Every backend process runs at *)
(* most one coordinator per ride (`inFlight`): it looks for a pending      *)
(* offer, reconciles the ride, snapshots the candidates of a radius, and   *)
(* leases the ride to them one after the other, awaiting each answer.      *)
(*                                                                         *)
(* A coordinator is memory of its process.  Between any two of its steps   *)
(* drivers and customers commit transactions of RideStore, other           *)
(* coordinators run, the process may die, and the event that would have    *)
(* told it the answer may come too early to be heard.  The recovery sweep, *)
(* the revalidation timer and the deadline queue are what repairs that.    *)
(*                                                                         *)
(* Abstractions.  The rank of candidates is any order.  A radius and the   *)
(* LIMIT of its query find any part of the eligible drivers, who move      *)
(* between two queries.  `created_at <= NOW()-5s` and the sweep's LIMIT 20 *)
(* are left out.  The reject event's own re-dispatch starts at once        *)
(* instead of after a read.                                                *)
(***************************************************************************)
EXTENDS RideStore, Naturals

CONSTANTS
  Node,        \* backend processes
  Rings,       \* number of radii of the dispatch policy
  HasQueue,    \* is the deadline queue configured (REDIS_URL)?
  ClockAhead,  \* may a process's clock run ahead of the database's?
  MaxFaults,   \* bound: crashes, failed statements and refused locks
  MaxChurn     \* bound: steps of drivers and reviewers outside the rides

ASSUME CoordinatorAssumption ==
  /\ Rings \in Nat \ {0}
  /\ HasQueue \in BOOLEAN
  /\ ClockAhead \in BOOLEAN
  /\ MaxFaults \in Nat
  /\ MaxChurn \in Nat

VARIABLES
  task,    \* the coordinator of each process and ride
  mail,    \* rideEvents about to be emitted, by process
  jobs,    \* delayed jobs of the dispatch queue, kept by Redis
  cuts,    \* withdrawals of unfit offers that rechecks of a process have under way
  faults, churn, \* how much of the bounds is used
  lapsed   \* history: open offers whose driver was at some moment not eligible

memoryVars == <<task, mail, jobs, cuts>>
boundVars == <<faults, churn>>
coordVars == <<status, assigned, lease, expired, offer, avail, online, fresh, standing,
               task, mail, jobs, cuts, faults, churn, lapsed>>

\* at: where dispatchSequentially stands; ring: index into radii; tried: `attempted`;
\* todo: `candidates`; offered: `offeredAny`; declined: `declinedOffer`; waiting: the
\* driver awaitResponse listens for; own: the offer is this loop's (a candidate) and not
\* one found pending; checking: the driver a recheck of this wait is withdrawing; answer: the
\* response awaitResponse resolved with.
Idle == [at |-> "idle", ring |-> 1, tried |-> {}, todo |-> {}, offered |-> FALSE,
         declined |-> FALSE, waiting |-> None, own |-> FALSE, checking |-> None,
         answer |-> "none"]

Place == {"idle", "look", "withdraw", "reconcile", "query", "offer", "check", "await",
          "answered", "end"}
Answer == {"none", "accepted", "rejected", "cancelled", "timed_out", "delivery_failed"}

Task == [at : Place, ring : 1..Rings, tried : SUBSET Driver, todo : SUBSET Driver,
         offered : BOOLEAN, declined : BOOLEAN, waiting : Driver \cup {None},
         own : BOOLEAN, checking : Driver \cup {None}, answer : Answer]

Event == [kind : {"created", "accepted", "cancelled"}, ride : Ride, driver : {None}]
         \cup [kind : {"rejected"}, ride : Ride, driver : Driver]

CoordTypeOK ==
  /\ TypeOK
  /\ task \in [Node -> [Ride -> Task]]
  /\ mail \in [Node -> SUBSET Event]
  /\ jobs \in SUBSET (Ride \X Driver)
  /\ cuts \in [Node -> SUBSET (Ride \X Driver)]
  /\ lapsed \in SUBSET (Ride \X Driver)
  /\ faults \in 0..MaxFaults
  /\ churn \in 0..MaxChurn

\* Drivers on shift with a recent location, nothing booked: a state RideStore reaches.
CoordInit ==
  /\ status = [r \in Ride |-> "none"]
  /\ assigned = [r \in Ride |-> None]
  /\ lease = [r \in Ride |-> None]
  /\ expired = [r \in Ride |-> FALSE]
  /\ offer = [r \in Ride |-> [d \in Driver |-> "none"]]
  /\ avail = [d \in Driver |-> "available"]
  /\ online = [d \in Driver |-> TRUE]
  /\ fresh = [d \in Driver |-> TRUE]
  /\ standing = [d \in Driver |-> "approved"]
  /\ task = [n \in Node |-> [r \in Ride |-> Idle]]
  /\ mail = [n \in Node |-> {}]
  /\ jobs = {}
  /\ cuts = [n \in Node |-> {}]
  /\ lapsed = {}
  /\ faults = 0
  /\ churn = 0

-----------------------------------------------------------------------------
(* Requests.  Each is handled by some process, which emits its event after  *)
(* the commit.                                                              *)

Post(n, kind, r, d) ==
  mail' = [mail EXCEPT ![n] = @ \cup {[kind |-> kind, ride |-> r, driver |-> d]}]

BookRide(n, r) ==
  /\ Create(r)
  /\ Post(n, "created", r, None)
  /\ UNCHANGED <<task, jobs, cuts, boundVars>>

DriverAccepts(n, r, d) ==
  /\ Accept(r, d)
  /\ Post(n, "accepted", r, None)
  /\ UNCHANGED <<task, jobs, cuts, boundVars>>

DriverRejects(n, r, d) ==
  /\ FinishAttempt(r, d, "rejected")
  /\ Post(n, "rejected", r, d)
  /\ UNCHANGED <<task, jobs, cuts, boundVars>>

CustomerCancels(n, r) ==
  /\ Cancel(r)
  /\ Post(n, "cancelled", r, None)
  /\ UNCHANGED <<task, jobs, cuts, boundVars>>

TripAdvances(r) ==
  /\ (\E s \in Active : Transition(r, s)) \/ StartTrip(r) \/ Complete(r)
  /\ UNCHANGED <<memoryVars, boundVars>>

DriverChanges(d) ==
  /\ churn < MaxChurn
  /\ churn' = churn + 1
  /\ DriverNext(d)
  /\ UNCHANGED <<memoryVars, faults>>

DeadlinePasses(r) ==
  /\ LeaseExpires(r)
  /\ UNCHANGED <<memoryVars, boundVars>>

-----------------------------------------------------------------------------
(* Starting a coordinator.  dispatch() returns the one in flight, if any.   *)

Becomes(n, r, t) == task' = [task EXCEPT ![n][r] = t]

Started(t) == IF t.at = "idle" THEN [Idle EXCEPT !.at = "look"] ELSE t

\* awaitResponse resolves once, and takes its timers and listeners away.
Resolved(t, answer) == [t EXCEPT !.at = "answered", !.checking = None, !.answer = answer]

\* An open wait hears the event; a rejection also asks for the ride to be dispatched.
Meant(t, e) ==
  t.at = "await" /\ (e.kind \in {"accepted", "cancelled"}
                     \/ (e.kind = "rejected" /\ e.driver = t.waiting))

Heard(t, e) ==
  CASE Meant(t, e) -> Resolved(t, e.kind)
    [] ~Meant(t, e) /\ e.kind \in {"created", "rejected"} -> Started(t)
    [] OTHER -> t

Deliver(n, e) ==
  /\ e \in mail[n]
  /\ mail' = [mail EXCEPT ![n] = @ \ {e}]
  /\ Becomes(n, e.ride, Heard(task[n][e.ride], e))
  /\ UNCHANGED <<vars, jobs, cuts, boundVars>>

\* Mutant: half of the sweep's condition.
RecoverUnleased(n, r) ==
  /\ task[n][r].at = "idle"
  /\ Unleased(r)
  /\ Becomes(n, r, Started(task[n][r]))
  /\ UNCHANGED <<vars, mail, jobs, cuts, boundVars>>

\* Mutant: the other half.
RecoverLeased(n, r) ==
  /\ task[n][r].at = "idle"
  /\ status[r] = "searching"
  /\ assigned[r] = None
  /\ lease[r] # None
  /\ Becomes(n, r, Started(task[n][r]))
  /\ UNCHANGED <<vars, mail, jobs, cuts, boundVars>>

\* The sweep picks up a searching ride this process does not work on.
Recover(n, r) ==
  /\ task[n][r].at = "idle"
  /\ status[r] = "searching"
  /\ assigned[r] = None
  /\ Becomes(n, r, Started(task[n][r]))
  /\ UNCHANGED <<vars, mail, jobs, cuts, boundVars>>

\* A delayed job runs once its delay is over.  It ends the offer it was scheduled for if
\* the stored deadline has passed, and only then asks for the ride to be dispatched.
JobDue(r, d) == ClockAhead \/ ~(lease[r] = d /\ ~expired[r])

DeadlineJob(n, r, d) ==
  /\ <<r, d>> \in jobs
  /\ JobDue(r, d)
  /\ jobs' = jobs \ {<<r, d>>}
  /\ \/ FinishAttempt(r, d, "timed_out") /\ Becomes(n, r, Started(task[n][r]))
     \/ ~CanFinish(r, d, "timed_out") /\ UNCHANGED <<vars, task>>
  /\ UNCHANGED <<mail, cuts, boundVars>>

-----------------------------------------------------------------------------
(* The steps of dispatchSequentially, one per awaited call.                 *)

At(n, r, place) == task[n][r].at = place

\* finishDispatchAttempt, which returns false when the attempt is over already.
Ends(r, d, outcome) ==
  IF CanFinish(r, d, outcome) THEN FinishAttempt(r, d, outcome) ELSE UNCHANGED vars

\* A pending offer pendingDispatch returns.
Valid(r) == Pending(r) /\ Dispatchable(lease[r], r)

\* The deadline job is queued, if there is a queue and it can be reached.
Schedule(r, d) == jobs' = jobs \/ (HasQueue /\ jobs' = jobs \cup {<<r, d>>})

\* Await the answer to an offer found pending, withdraw one that is unfit, or go on to the
\* candidates.
Look(n, r) ==
  LET t == task[n][r] IN
  /\ At(n, r, "look")
  /\ \/ /\ Valid(r) /\ Schedule(r, lease[r])
        /\ Becomes(n, r, [t EXCEPT !.at = "await", !.waiting = lease[r], !.own = FALSE])
     \/ /\ Unfit(r) /\ UNCHANGED jobs
        /\ Becomes(n, r, [t EXCEPT !.at = "withdraw", !.waiting = lease[r], !.own = FALSE])
     \/ /\ ~Pending(r) /\ UNCHANGED jobs
        /\ Becomes(n, r, [t EXCEPT !.at = "reconcile"])
  /\ UNCHANGED <<vars, mail, cuts, boundVars>>

\* The second half of pendingDispatch: withdraw the offer that was unfit when it was read.
Withdraw(n, r) ==
  LET t == task[n][r] IN
  /\ At(n, r, "withdraw")
  /\ Ends(r, t.waiting, "rejected")
  /\ Becomes(n, r, [t EXCEPT !.at = IF t.own THEN "offer" ELSE "reconcile",
                             !.waiting = None, !.own = FALSE])
  /\ UNCHANGED <<mail, jobs, cuts, boundVars>>

\* Time out a lease that is over; stop unless the ride can be offered to somebody.
ReconcileRide(n, r) ==
  /\ At(n, r, "reconcile")
  /\ \/ Reconcile(r)
     \/ ~(status[r] = "searching" /\ DueLease(r)) /\ UNCHANGED vars
  /\ Becomes(n, r, IF Unleased(r)' THEN [task[n][r] EXCEPT !.at = "query"] ELSE Idle)
  /\ UNCHANGED <<mail, jobs, cuts, boundVars>>

\* Snapshot the eligible drivers in the radius who were never asked about this ride.
Candidates(r) == {d \in Driver : Dispatchable(d, r) /\ offer[r][d] = "none"}

\* Mutant: one radius too many.
LastRingMissed(t) == t.ring > Rings

LastRing(t) == t.ring >= Rings

Query(n, r) ==
  /\ At(n, r, "query")
  /\ \E found \in SUBSET Candidates(r) :
       Becomes(n, r, [task[n][r] EXCEPT !.at = "offer", !.todo = found, !.offered = FALSE])
  /\ UNCHANGED <<vars, mail, jobs, cuts, boundVars>>

\* Mutant: a candidate that could not be leased is passed over in silence.
PassedOver(t, d) == [t EXCEPT !.tried = @ \cup {d}]

\* No lease: the ride or the driver has moved on since the snapshot, or the lock is refused.
Declined(t, d) == [t EXCEPT !.tried = @ \cup {d}, !.declined = TRUE]

Leased(t, d) ==
  [t EXCEPT !.tried = @ \cup {d}, !.offered = TRUE, !.at = "check", !.waiting = d]

\* Offer to the next candidate.
Offer(n, r) ==
  /\ At(n, r, "offer")
  /\ \E d \in task[n][r].todo \ task[n][r].tried :
       /\ OfferDispatch(r, d) \/ (~CanLease(r, d) /\ ~DueLease(r) /\ UNCHANGED vars)
       /\ Becomes(n, r, IF CanLease(r, d) THEN Leased(task[n][r], d)
                        ELSE Declined(task[n][r], d))
  /\ UNCHANGED <<mail, jobs, cuts, boundVars>>

\* The advisory lock of the ride is taken, or too many are: declined as well.
LockRefused(n, r) ==
  /\ At(n, r, "offer")
  /\ faults < MaxFaults
  /\ faults' = faults + 1
  /\ \E d \in task[n][r].todo \ task[n][r].tried :
       Becomes(n, r, Declined(task[n][r], d))
  /\ UNCHANGED <<vars, mail, jobs, cuts, churn>>

\* No candidate is left: search again in this radius if anybody was asked, else in the next
\* radius, else finish.
NoCandidateLeft(n, r) ==
  LET t == task[n][r] IN
  /\ At(n, r, "offer")
  /\ t.todo \subseteq t.tried
  /\ \/ t.offered /\ Becomes(n, r, [t EXCEPT !.at = "look"])
     \/ ~t.offered /\ ~LastRing(t) /\ Becomes(n, r, [t EXCEPT !.at = "look", !.ring = @ + 1])
     \/ ~t.offered /\ LastRing(t) /\ Becomes(n, r, [t EXCEPT !.at = "end"])
  /\ UNCHANGED <<vars, mail, jobs, cuts, boundVars>>

\* Mutant: the offer is announced without reading it back.
CheckBlindly(n, r) ==
  /\ At(n, r, "check")
  /\ Becomes(n, r, [task[n][r] EXCEPT !.at = "await", !.own = TRUE])
  /\ UNCHANGED <<vars, mail, jobs, cuts, boundVars>>

\* Read the offer back.  If it is there, announce it to the candidate and await the answer.
Check(n, r) ==
  LET t == task[n][r] IN
  /\ At(n, r, "check")
  /\ \/ /\ Valid(r) /\ Schedule(r, t.waiting)
        /\ Becomes(n, r, [t EXCEPT !.at = "await", !.own = TRUE])
     \/ /\ Unfit(r) /\ UNCHANGED jobs
        /\ Becomes(n, r, [t EXCEPT !.at = "withdraw", !.waiting = lease[r], !.own = TRUE])
     \/ /\ ~Pending(r) /\ UNCHANGED jobs
        /\ Becomes(n, r, [t EXCEPT !.at = "offer", !.waiting = None])
  /\ UNCHANGED <<vars, mail, cuts, boundVars>>

\* The wait resolves without an event: its timer fires, ...
TimerFires(n, r) ==
  /\ At(n, r, "await")
  /\ JobDue(r, task[n][r].waiting)
  /\ Becomes(n, r, Resolved(task[n][r], "timed_out"))
  /\ UNCHANGED <<vars, mail, jobs, cuts, boundVars>>

\* ... the candidate could not be reached, ...
DeliveryFails(n, r) ==
  /\ At(n, r, "await")
  /\ task[n][r].own
  /\ Becomes(n, r, Resolved(task[n][r], "delivery_failed"))
  /\ UNCHANGED <<vars, mail, jobs, cuts, boundVars>>

\* ... or the recheck made every second finds the offer gone.  One that finds it unfit has it
\* withdrawn while the wait goes on, and rechecks no more until that has ended.
Revalidate(n, r) ==
  LET t == task[n][r] IN
  /\ At(n, r, "await") /\ t.checking = None
  /\ \/ /\ ~Pending(r) \/ (Valid(r) /\ lease[r] # t.waiting)
        /\ Becomes(n, r, Resolved(t, "rejected")) /\ UNCHANGED cuts
     \/ /\ Unfit(r)
        /\ Becomes(n, r, [t EXCEPT !.checking = lease[r]])
        /\ cuts' = [cuts EXCEPT ![n] = @ \cup {<<r, lease[r]>>}]
  /\ UNCHANGED <<vars, mail, jobs, boundVars>>

\* The withdrawal commits, or finds the attempt over; the wait hears of it if it is still the
\* one that began it.  (Two of one attempt are one here: the second changes nothing.)
CutEnds(n, r, d) ==
  LET t == task[n][r] IN
  /\ <<r, d>> \in cuts[n]
  /\ cuts' = [cuts EXCEPT ![n] = @ \ {<<r, d>>}]
  /\ Ends(r, d, "rejected")
  /\ Becomes(n, r, IF t.checking = d THEN Resolved(t, "rejected") ELSE t)
  /\ UNCHANGED <<mail, jobs, boundVars>>

\* Mutant: a timer that fires early rejects an offer that is still good.
EndingAtOnce(t) ==
  IF t.answer = "timed_out" \/ (t.answer = "delivery_failed" /\ t.own) THEN "rejected" ELSE "none"

\* Act on the answer: stop, or end the attempt if it is still open, and go on.
Ending(t) ==
  CASE t.answer = "timed_out" -> "timed_out"
    [] t.answer = "delivery_failed" /\ t.own -> "rejected"
    [] OTHER -> "none"

Answered(n, r) ==
  LET t == task[n][r] IN
  /\ At(n, r, "answered")
  /\ IF Ending(t) = "none" THEN UNCHANGED vars ELSE Ends(r, t.waiting, Ending(t))
  /\ Becomes(n, r,
       IF t.answer \in {"accepted", "cancelled"} THEN Idle
       ELSE [t EXCEPT !.at = IF t.own THEN "offer" ELSE "look",
                      !.waiting = None, !.own = FALSE, !.answer = "none"])
  /\ UNCHANGED <<mail, jobs, cuts, boundVars>>

\* A search without a declined offer gives the ride up, unless somebody else leased it.
Finish(n, r) ==
  /\ At(n, r, "end")
  /\ IF ~task[n][r].declined /\ Unleased(r) THEN FailDispatch(r) ELSE UNCHANGED vars
  /\ Becomes(n, r, Idle)
  /\ UNCHANGED <<mail, jobs, cuts, boundVars>>

-----------------------------------------------------------------------------
(* Faults. *)

\* A statement fails and the coordinator of one ride ends with its promise rejected.
Throws(n, r) ==
  /\ ~At(n, r, "idle")
  /\ faults < MaxFaults
  /\ faults' = faults + 1
  /\ Becomes(n, r, Idle)
  /\ UNCHANGED <<vars, mail, jobs, cuts, churn>>

\* A recheck's withdrawal fails; the next recheck may begin another.
CutFails(n, r, d) ==
  /\ <<r, d>> \in cuts[n]
  /\ faults < MaxFaults
  /\ faults' = faults + 1
  /\ cuts' = [cuts EXCEPT ![n] = @ \ {<<r, d>>}]
  /\ Becomes(n, r, [task[n][r] EXCEPT !.checking = IF @ = d THEN None ELSE @])
  /\ UNCHANGED <<vars, mail, jobs, churn>>

\* The process dies, or is disposed of, and starts again: every coordinator, every event
\* not yet emitted and every withdrawal not yet committed is gone.
Crash(n) ==
  /\ faults < MaxFaults
  /\ faults' = faults + 1
  /\ task' = [task EXCEPT ![n] = [r \in Ride |-> Idle]]
  /\ mail' = [mail EXCEPT ![n] = {}]
  /\ cuts' = [cuts EXCEPT ![n] = {}]
  /\ UNCHANGED <<vars, jobs, churn>>

-----------------------------------------------------------------------------
(* Specification. *)

Request ==
  \E n \in Node, r \in Ride :
    \/ BookRide(n, r)
    \/ \E d \in Driver : DriverAccepts(n, r, d) \/ DriverRejects(n, r, d)
    \/ CustomerCancels(n, r)

Step(n, r) ==
  \/ Look(n, r) \/ Withdraw(n, r) \/ ReconcileRide(n, r) \/ Query(n, r)
  \/ Offer(n, r) \/ NoCandidateLeft(n, r) \/ Check(n, r)
  \/ Answered(n, r) \/ Finish(n, r)

Wake(n, r) == TimerFires(n, r) \/ DeliveryFails(n, r) \/ Revalidate(n, r)

Fault ==
  \/ \E n \in Node, r \in Ride, d \in Driver : CutFails(n, r, d)
  \/ \E n \in Node, r \in Ride : LockRefused(n, r) \/ Throws(n, r)
  \/ \E n \in Node : Crash(n)

Happens ==
  \/ Request
  \/ \E r \in Ride : TripAdvances(r) \/ DeadlinePasses(r)
  \/ \E d \in Driver : DriverChanges(d)
  \/ \E n \in Node, r \in Ride : Step(n, r) \/ Wake(n, r) \/ Recover(n, r)
  \/ \E n \in Node, r \in Ride, d \in Driver : DeadlineJob(n, r, d) \/ CutEnds(n, r, d)
  \/ \E n \in Node : \E e \in mail[n] : Deliver(n, e)
  \/ Fault

\* History only, read by no action: the open offers whose driver is not eligible, and those
\* whose driver has been so since the offer was made.
Remember ==
  lapsed' = {p \in Ride \X Driver :
               offer'[p[1]][p[2]] = "offered" /\ (p \in lapsed \/ ~Dispatchable(p[2], p[1])')}

CoordNext == Happens /\ Remember

CoordSpec == CoordInit /\ [][CoordNext]_coordVars

\* A process goes on with what it started, its timers fire, its sweep comes round, and the
\* deadline of a lease passes.  No driver or customer has to do anything, no event or job
\* has to arrive.
Fairness ==
  /\ \A n \in Node, r \in Ride :
       /\ WF_coordVars(Step(n, r) /\ Remember) /\ WF_coordVars(Recover(n, r) /\ Remember)
       /\ WF_coordVars(TimerFires(n, r) /\ Remember)
  /\ \A r \in Ride : WF_coordVars(DeadlinePasses(r) /\ Remember)

FairCoordSpec == CoordSpec /\ Fairness

-----------------------------------------------------------------------------
(* Properties. *)

\* Only transactions of RideStore touch the tables.
OnlyTransactions == [][Next]_vars

\* Every booking leaves 'searching': it is accepted, cancelled or given up, even when the
\* process that coordinated it dies, its events are missed and its jobs are lost.
SearchEnds == \A r \in Ride : status[r] = "searching" ~> status[r] # "searching"

\* "A competing dispatcher or changed eligibility must be reconciled, never cancelled by a
\* losing snapshot": a coordinator about to give a ride up has really asked every driver it
\* found, and found none in its last search that it did not ask.
NoLosingSnapshot ==
  \A n \in Node, r \in Ride :
    At(n, r, "end") /\ ~task[n][r].declined =>
      \A d \in task[n][r].tried \cup task[n][r].todo : offer[r][d] # "none"

\* The offer is announced to the driver who holds it, not to one who declined meanwhile.
AnnouncedToHolder ==
  [][\A n \in Node, r \in Ride :
       ~At(n, r, "await") /\ At(n, r, "await")' =>
         LiveLease(r) /\ lease[r] = task'[n][r].waiting]_coordVars

\* The driver's own rejection, of which the process that served it is about to tell, or an
\* announcement that did not get through.
Declining(r, d) ==
  \E n \in Node :
    \/ [kind |-> "rejected", ride |-> r, driver |-> d] \in mail'[n]
    \/ task[n][r].answer = "delivery_failed" /\ task[n][r].waiting = d

\* The dispatcher does not shorten an offer: while a ride is searching, the open offer of a
\* driver who has been eligible ever since it was made ends before its stored deadline only
\* by that driver's rejection or because it could not be delivered, whatever the timers,
\* sweeps, rechecks and jobs of any process do, and however late a withdrawal commits.
OffersEndForCause ==
  [][\A r \in Ride, d \in Driver :
       /\ offer[r][d] = "offered" /\ ~expired[r] /\ <<r, d>> \notin lapsed
       /\ offer'[r][d] # "offered" /\ status'[r] = "searching"
       => Declining(r, d)]_coordVars

\* "Recheck without shortening a valid offer's authoritative deadline": the same of every
\* offer whose driver is eligible when it ends.  pendingDispatch reads eligibility in one
\* statement and withdraws by another transaction, so that the code does not keep this.
ValidOfferKept ==
  [][\A r \in Ride, d \in Driver :
       /\ offer[r][d] = "offered" /\ ~expired[r] /\ Dispatchable(d, r)
       /\ offer'[r][d] # "offered" /\ status'[r] = "searching"
       => Declining(r, d)]_coordVars

=============================================================================
