----------------------- MODULE DispatchCoordinatorProofs -----------------------
(***************************************************************************)
(* Theorems about DispatchCoordinator, for every set of processes, rides   *)
(* and drivers, and every number of radii, faults and driver changes.      *)
(***************************************************************************)
EXTENDS DispatchCoordinator, RideStoreProofs

LEMMA CoordInitIInv == CoordInit => IInv
<1> SUFFICES ASSUME CoordInit PROVE IInv
  OBVIOUS
<1>1. TypeOK
  BY DEF CoordInit, TypeOK, RideStatus, Active, OfferStatus, Availability, Standing
<1>2. Agreement
  BY NoneAssumption
  DEF CoordInit, Agreement, ColumnsMatchStatus, LeaseMatchesOffer, AssignedByAcceptance, Active
<1>3. Exclusion
  BY NoneAssumption
  DEF CoordInit, Exclusion, OneRidePerDriver, BusyHasRide, AvailableIsFree, Serves, Active
<1> QED
  BY <1>1, <1>2, <1>3 DEF IInv

-----------------------------------------------------------------------------
(* What a coordinator remembers.  Its types have to be known first: a       *)
(* transaction is one of RideStore's only if it is about a ride and a       *)
(* driver.                                                                  *)

\* Once a coordinator has an answer to wait for it knows whose; as long as nothing was
\* declined, every driver it tried has been asked; it ends with no candidate untried.
GoodTask(t, asked) ==
  /\ t \in Task
  /\ t.at \in {"check", "await", "answered", "withdraw"} => t.waiting # None
  /\ t.checking # None => t.at = "await"
  /\ ~t.declined => t.tried \subseteq asked
  /\ t.at = "end" => t.todo \subseteq t.tried

Memory ==
  /\ CoordTypeOK
  /\ \A n \in Node, r \in Ride : GoodTask(task[n][r], AskedOf(r))

LEMMA IdleIsGood ==
  ASSUME NEW asked
  PROVE  GoodTask(Idle, asked) /\ GoodTask([Idle EXCEPT !.at = "look"], asked)
<1>1. 1 \in 1..Rings
  BY CoordinatorAssumption
<1>2. Idle \in Task
  BY <1>1 DEF Idle, Task, Place, Answer
<1>3. [Idle EXCEPT !.at = "look"] \in Task
  BY <1>1 DEF Idle, Task, Place, Answer
<1> QED
  BY <1>2, <1>3 DEF GoodTask, Idle

\* A driver who was asked stays asked.
LEMMA AskedStays ==
  ASSUME IInv, [Next]_vars, NEW r \in Ride
  PROVE  AskedOf(r) \subseteq AskedOf(r)'
<1> DEFINE asked == [q \in Ride |-> AskedOf(q)]
<1>1. asked' = asked \/ \E q \in Ride, e \in Driver : asked' = [asked EXCEPT ![q] = @ \cup {e}]
  BY StepMaps
  DEF Contract!ContractNext, Contract!contractVars, Contract!Book, Contract!Ask,
      Contract!Withdraw, Contract!Engage, Contract!PickUp, Contract!Arrive, Contract!CallOff
<1>2. DOMAIN asked = Ride
  OBVIOUS
<1>3. asked[r] = AskedOf(r) /\ asked'[r] = AskedOf(r)'
  OBVIOUS
<1>4. asked[r] \subseteq asked'[r]
  <2> HIDE DEF asked
  <2> QED
    BY <1>1, <1>2
<1> QED
  BY <1>3, <1>4

\* A coordinator that does nothing stays good, whatever transaction is committed.
LEMMA GoodStays ==
  ASSUME IInv, Memory, [Next]_vars, NEW n \in Node, NEW r \in Ride
  PROVE  GoodTask(task[n][r], AskedOf(r)')
<1>1. GoodTask(task[n][r], AskedOf(r))
  BY DEF Memory
<1> QED
  BY <1>1, AskedStays DEF GoodTask

-----------------------------------------------------------------------------
(* Every step of a coordinator commits at most one transaction of RideStore *)
(* and leaves its memory good.                                              *)

LEMMA EndsIsTransaction ==
  ASSUME NEW r \in Ride, NEW d \in Driver, NEW outcome \in {"rejected", "timed_out"},
         Ends(r, d, outcome)
  PROVE  [Next]_vars
  BY DEF Ends, Next, RideNext

LEMMA LookStep ==
  ASSUME IInv, Memory, NEW n \in Node, NEW r \in Ride, Look(n, r)
  PROVE  [Next]_vars /\ \E t : Becomes(n, r, t) /\ GoodTask(t, AskedOf(r)')
<1>1. [Next]_vars
  BY DEF Look
<1>2. GoodTask(task[n][r], AskedOf(r)') /\ task[n][r].at = "look"
  BY <1>1, GoodStays DEF Look, At
<1>3. GoodTask([task[n][r] EXCEPT !.at = "reconcile"], AskedOf(r)')
  BY <1>2 DEF GoodTask, Task, Place
<1>4. ASSUME Pending(r), NEW place \in {"await", "withdraw"}
      PROVE  GoodTask([task[n][r] EXCEPT !.at = place, !.waiting = lease[r], !.own = FALSE],
                      AskedOf(r)')
  <2>1. lease[r] \in Driver
    BY <1>4 DEF Pending, LiveLease, IInv, TypeOK
  <2> QED
    BY <1>2, <2>1, NoneAssumption DEF GoodTask, Task, Place
<1> QED
  BY <1>1, <1>3, <1>4 DEF Look, Valid, Unfit

LEMMA WithdrawStep ==
  ASSUME IInv, Memory, NEW n \in Node, NEW r \in Ride, Withdraw(n, r)
  PROVE  [Next]_vars /\ \E t : Becomes(n, r, t) /\ GoodTask(t, AskedOf(r)')
<1>1. task[n][r].waiting \in Driver
  BY DEF Memory, GoodTask, Task, Withdraw, At
<1>2. [Next]_vars
  BY <1>1, EndsIsTransaction DEF Withdraw
<1>3. GoodTask(task[n][r], AskedOf(r)') /\ task[n][r].at = "withdraw"
  BY <1>2, GoodStays DEF Withdraw, At
<1>4. GoodTask([task[n][r] EXCEPT !.at = IF task[n][r].own THEN "offer" ELSE "reconcile",
                                  !.waiting = None, !.own = FALSE], AskedOf(r)')
  BY <1>3 DEF GoodTask, Task, Place
<1> QED
  BY <1>2, <1>4 DEF Withdraw

LEMMA ReconcileStep ==
  ASSUME IInv, Memory, NEW n \in Node, NEW r \in Ride, ReconcileRide(n, r)
  PROVE  [Next]_vars /\ \E t : Becomes(n, r, t) /\ GoodTask(t, AskedOf(r)')
<1>1. [Next]_vars
  BY DEF ReconcileRide, Next, RideNext
<1>2. GoodTask(task[n][r], AskedOf(r)') /\ task[n][r].at = "reconcile"
  BY <1>1, GoodStays DEF ReconcileRide, At
<1>3. GoodTask([task[n][r] EXCEPT !.at = "query"], AskedOf(r)')
  BY <1>2 DEF GoodTask, Task, Place
<1> QED
  BY <1>1, <1>3, IdleIsGood DEF ReconcileRide

LEMMA QueryStep ==
  ASSUME IInv, Memory, NEW n \in Node, NEW r \in Ride, Query(n, r)
  PROVE  [Next]_vars /\ \E t : Becomes(n, r, t) /\ GoodTask(t, AskedOf(r)')
<1> PICK found \in SUBSET Driver :
      Becomes(n, r, [task[n][r] EXCEPT !.at = "offer", !.todo = found, !.offered = FALSE])
  BY DEF Query, Candidates
<1>1. [Next]_vars
  BY DEF Query
<1>2. GoodTask(task[n][r], AskedOf(r)') /\ task[n][r].at = "query"
  BY <1>1, GoodStays DEF Query, At
<1>3. GoodTask([task[n][r] EXCEPT !.at = "offer", !.todo = found, !.offered = FALSE],
               AskedOf(r)')
  BY <1>2 DEF GoodTask, Task, Place
<1> QED
  BY <1>1, <1>3

\* The heart of the matter: a candidate is tried without being asked only by declining.
LEMMA OfferStep ==
  ASSUME IInv, Memory, NEW n \in Node, NEW r \in Ride, Offer(n, r)
  PROVE  [Next]_vars /\ \E t : Becomes(n, r, t) /\ GoodTask(t, AskedOf(r)')
<1>0. task[n][r] \in Task
  BY DEF Memory, GoodTask
<1> PICK d \in Driver :
      /\ OfferDispatch(r, d) \/ (~CanLease(r, d) /\ ~DueLease(r) /\ UNCHANGED vars)
      /\ Becomes(n, r, IF CanLease(r, d) THEN Leased(task[n][r], d)
                       ELSE Declined(task[n][r], d))
  BY <1>0 DEF Offer, Task
<1>1. [Next]_vars
  BY DEF Next, RideNext
<1>2. GoodTask(task[n][r], AskedOf(r)') /\ task[n][r].at = "offer"
  BY <1>1, GoodStays DEF Offer, At
<1>3. CASE CanLease(r, d)
  <2>1. d \in AskedOf(r)'
    BY <1>3 DEF OfferDispatch, AskedOf, IInv, TypeOK
  <2>2. GoodTask(Leased(task[n][r], d), AskedOf(r)')
    BY <1>2, <2>1, NoneAssumption DEF GoodTask, Leased, Task, Place
  <2> QED
    BY <1>1, <1>3, <2>2
<1>4. CASE ~CanLease(r, d)
  <2>1. GoodTask(Declined(task[n][r], d), AskedOf(r)')
    BY <1>2 DEF GoodTask, Declined, Task
  <2> QED
    BY <1>1, <1>4, <2>1
<1> QED
  BY <1>3, <1>4

LEMMA RefusalStep ==
  ASSUME IInv, Memory, NEW n \in Node, NEW r \in Ride, LockRefused(n, r)
  PROVE  [Next]_vars /\ \E t : Becomes(n, r, t) /\ GoodTask(t, AskedOf(r)')
<1>0. task[n][r] \in Task
  BY DEF Memory, GoodTask
<1> PICK d \in Driver : Becomes(n, r, Declined(task[n][r], d))
  BY <1>0 DEF LockRefused, Task
<1>1. [Next]_vars
  BY DEF LockRefused
<1>2. GoodTask(task[n][r], AskedOf(r)') /\ task[n][r].at = "offer"
  BY <1>1, GoodStays DEF LockRefused, At
<1>3. GoodTask(Declined(task[n][r], d), AskedOf(r)')
  BY <1>2 DEF GoodTask, Declined, Task
<1> QED
  BY <1>1, <1>3

LEMMA NoCandidateStep ==
  ASSUME IInv, Memory, NEW n \in Node, NEW r \in Ride, NoCandidateLeft(n, r)
  PROVE  [Next]_vars /\ \E t : Becomes(n, r, t) /\ GoodTask(t, AskedOf(r)')
<1>1. [Next]_vars
  BY DEF NoCandidateLeft
<1>2. GoodTask(task[n][r], AskedOf(r)') /\ task[n][r].at = "offer"
  BY <1>1, GoodStays DEF NoCandidateLeft, At
<1>3. GoodTask([task[n][r] EXCEPT !.at = "look"], AskedOf(r)')
  BY <1>2 DEF GoodTask, Task, Place
<1>4. ASSUME ~LastRing(task[n][r])
      PROVE  GoodTask([task[n][r] EXCEPT !.at = "look", !.ring = @ + 1], AskedOf(r)')
  <2>1. task[n][r].ring \in 1..Rings
    BY <1>2 DEF GoodTask, Task
  <2>2. task[n][r].ring + 1 \in 1..Rings
    BY <1>4, <2>1, CoordinatorAssumption DEF LastRing
  <2> QED
    BY <1>2, <2>2 DEF GoodTask, Task, Place
<1>5. GoodTask([task[n][r] EXCEPT !.at = "end"], AskedOf(r)')
  BY <1>2 DEF GoodTask, Task, Place, NoCandidateLeft
<1> QED
  BY <1>1, <1>3, <1>4, <1>5 DEF NoCandidateLeft

LEMMA CheckStep ==
  ASSUME IInv, Memory, NEW n \in Node, NEW r \in Ride, Check(n, r)
  PROVE  [Next]_vars /\ \E t : Becomes(n, r, t) /\ GoodTask(t, AskedOf(r)')
<1>1. [Next]_vars
  BY DEF Check
<1>2. GoodTask(task[n][r], AskedOf(r)') /\ task[n][r].at = "check"
  BY <1>1, GoodStays DEF Check, At
<1>3. GoodTask([task[n][r] EXCEPT !.at = "offer", !.waiting = None], AskedOf(r)')
  BY <1>2 DEF GoodTask, Task, Place
<1>4. GoodTask([task[n][r] EXCEPT !.at = "await", !.own = TRUE], AskedOf(r)')
  BY <1>2 DEF GoodTask, Task, Place
<1>5. ASSUME Pending(r)
      PROVE  GoodTask([task[n][r] EXCEPT !.at = "withdraw", !.waiting = lease[r], !.own = TRUE],
                      AskedOf(r)')
  <2>1. lease[r] \in Driver
    BY <1>5 DEF Pending, LiveLease, IInv, TypeOK
  <2> QED
    BY <1>2, <2>1, NoneAssumption DEF GoodTask, Task, Place
<1> QED
  BY <1>1, <1>3, <1>4, <1>5 DEF Check, Unfit

\* An open wait resolves, or goes on while its offer is being withdrawn.
LEMMA ResolvedIsGood ==
  ASSUME NEW t, NEW asked, GoodTask(t, asked), t.at = "await"
  PROVE  /\ \A a \in Answer : GoodTask(Resolved(t, a), asked)
         /\ \A d \in Driver \cup {None} : GoodTask([t EXCEPT !.checking = d], asked)
  BY DEF GoodTask, Resolved, Task, Place

LEMMA WakeStep ==
  ASSUME IInv, Memory, NEW n \in Node, NEW r \in Ride, Wake(n, r)
  PROVE  [Next]_vars /\ \E t : Becomes(n, r, t) /\ GoodTask(t, AskedOf(r)')
<1>1. [Next]_vars
  BY DEF Wake, TimerFires, DeliveryFails, Revalidate
<1>2. GoodTask(task[n][r], AskedOf(r)') /\ task[n][r].at = "await"
  BY <1>1, GoodStays DEF Wake, TimerFires, DeliveryFails, Revalidate, At
<1>3. \A a \in Answer : GoodTask(Resolved(task[n][r], a), AskedOf(r)')
  BY <1>2, ResolvedIsGood
<1>4. GoodTask([task[n][r] EXCEPT !.checking = lease[r]], AskedOf(r)')
  BY <1>2, ResolvedIsGood DEF IInv, TypeOK
<1> QED
  BY <1>1, <1>3, <1>4 DEF Wake, TimerFires, DeliveryFails, Revalidate, Answer

LEMMA CutStep ==
  ASSUME IInv, Memory, NEW n \in Node, NEW r \in Ride, NEW d \in Driver,
         CutEnds(n, r, d) \/ CutFails(n, r, d)
  PROVE  [Next]_vars /\ \E t : Becomes(n, r, t) /\ GoodTask(t, AskedOf(r)')
<1>1. [Next]_vars
  BY EndsIsTransaction DEF CutEnds, CutFails
<1>2. GoodTask(task[n][r], AskedOf(r)')
  BY <1>1, GoodStays
<1>3. GoodTask([task[n][r] EXCEPT !.checking = IF @ = d THEN None ELSE @], AskedOf(r)')
  BY <1>2, NoneAssumption DEF GoodTask, Task
<1>4. task[n][r].checking = d => GoodTask(Resolved(task[n][r], "rejected"), AskedOf(r)')
  BY <1>2, NoneAssumption DEF GoodTask, Resolved, Task, Place, Answer
<1> QED
  BY <1>1, <1>2, <1>3, <1>4 DEF CutEnds, CutFails

LEMMA AnsweredStep ==
  ASSUME IInv, Memory, NEW n \in Node, NEW r \in Ride, Answered(n, r)
  PROVE  [Next]_vars /\ \E t : Becomes(n, r, t) /\ GoodTask(t, AskedOf(r)')
<1>0. task[n][r].waiting \in Driver
  BY DEF Memory, GoodTask, Task, Answered, At
<1>1. [Next]_vars
  <2>1. \/ UNCHANGED vars
        \/ \E outcome \in {"rejected", "timed_out"} : Ends(r, task[n][r].waiting, outcome)
    BY DEF Answered, Ending
  <2> QED
    BY <1>0, <2>1, EndsIsTransaction
<1>2. GoodTask(task[n][r], AskedOf(r)') /\ task[n][r].at = "answered"
  BY <1>1, GoodStays DEF Answered, At
<1>3. GoodTask([task[n][r] EXCEPT !.at = IF task[n][r].own THEN "offer" ELSE "look",
                                  !.waiting = None, !.own = FALSE, !.answer = "none"],
               AskedOf(r)')
  BY <1>2 DEF GoodTask, Task, Place, Answer
<1> QED
  BY <1>1, <1>3, IdleIsGood DEF Answered

LEMMA FinishStep ==
  ASSUME IInv, Memory, NEW n \in Node, NEW r \in Ride, Finish(n, r) \/ Throws(n, r)
  PROVE  [Next]_vars /\ \E t : Becomes(n, r, t) /\ GoodTask(t, AskedOf(r)')
  BY IdleIsGood DEF Finish, Throws, Next, RideNext

LEMMA RecoverStep ==
  ASSUME IInv, Memory, NEW n \in Node, NEW r \in Ride, Recover(n, r)
  PROVE  [Next]_vars /\ \E t : Becomes(n, r, t) /\ GoodTask(t, AskedOf(r)')
  BY IdleIsGood DEF Recover, Started

LEMMA DeliverStep ==
  ASSUME IInv, Memory, NEW n \in Node, NEW e \in Event, Deliver(n, e)
  PROVE  [Next]_vars /\ \E t : Becomes(n, e.ride, t) /\ GoodTask(t, AskedOf(e.ride)')
<1> DEFINE old == task[n][e.ride]
<1>0. e.ride \in Ride /\ e.kind \in {"created", "accepted", "cancelled", "rejected"}
  BY DEF Event
<1>1. [Next]_vars
  BY DEF Deliver
<1>2. GoodTask(old, AskedOf(e.ride)')
  BY <1>0, <1>1, GoodStays
<1>3. CASE Meant(old, e)
  <2>1. e.kind \in Answer /\ old.at = "await"
    BY <1>0, <1>3 DEF Meant, Answer
  <2>2. GoodTask(Resolved(old, e.kind), AskedOf(e.ride)')
    BY <1>2, <2>1, ResolvedIsGood
  <2> QED
    BY <1>1, <1>3, <2>2 DEF Deliver, Heard
<1>4. CASE ~Meant(old, e)
  <2>1. GoodTask(Started(old), AskedOf(e.ride)')
    BY <1>2, IdleIsGood DEF Started
  <2> QED
    BY <1>1, <1>2, <1>4, <2>1 DEF Deliver, Heard
<1> QED
  BY <1>3, <1>4

LEMMA JobStep ==
  ASSUME IInv, Memory, NEW n \in Node, NEW r \in Ride, NEW d \in Driver, DeadlineJob(n, r, d)
  PROVE  [Next]_vars /\ (\/ UNCHANGED task
                         \/ \E t : Becomes(n, r, t) /\ GoodTask(t, AskedOf(r)'))
<1>1. [Next]_vars
  BY DEF DeadlineJob, Next, RideNext
<1>2. GoodTask(task[n][r], AskedOf(r)')
  BY <1>1, GoodStays
<1>3. GoodTask(Started(task[n][r]), AskedOf(r)')
  BY <1>2, IdleIsGood DEF Started
<1> QED
  BY <1>1, <1>3 DEF DeadlineJob

LEMMA RequestStep ==
  ASSUME \/ Request
         \/ \E r \in Ride : TripAdvances(r) \/ DeadlinePasses(r)
         \/ \E d \in Driver : DriverChanges(d)
  PROVE  [Next]_vars /\ UNCHANGED task
<1>1. CASE Request
  BY <1>1
  DEF Request, BookRide, DriverAccepts, DriverRejects, CustomerCancels, Next, RideNext
<1>2. CASE \E r \in Ride : TripAdvances(r) \/ DeadlinePasses(r)
  BY <1>2 DEF TripAdvances, DeadlinePasses, memoryVars, Next, RideNext
<1>3. CASE \E d \in Driver : DriverChanges(d)
  BY <1>3 DEF DriverChanges, memoryVars, Next
<1> QED
  BY <1>1, <1>2, <1>3

\* Whatever happens is a transaction of RideStore, and changes one coordinator for the good,
\* all coordinators of a process that dies, or none.
LEMMA CoordStep ==
  ASSUME IInv, Memory, [CoordNext]_coordVars
  PROVE  /\ [Next]_vars
         /\ \/ UNCHANGED task
            \/ \E n \in Node, r \in Ride : \E t : Becomes(n, r, t) /\ GoodTask(t, AskedOf(r)')
            \/ \E n \in Node : task' = [task EXCEPT ![n] = [r \in Ride |-> Idle]]
<1>1. CASE UNCHANGED coordVars
  BY <1>1 DEF coordVars, vars
<1>2. ASSUME NEW n \in Node, NEW r \in Ride, Step(n, r) \/ Wake(n, r) \/ Recover(n, r)
      PROVE  [Next]_vars /\ \E t : Becomes(n, r, t) /\ GoodTask(t, AskedOf(r)')
  BY <1>2, LookStep, WithdrawStep, ReconcileStep, QueryStep, OfferStep, NoCandidateStep, CheckStep, WakeStep,
     AnsweredStep, FinishStep, RecoverStep
  DEF Step
<1>3. ASSUME NEW n \in Node, NEW e \in mail[n], Deliver(n, e)
      PROVE  [Next]_vars
             /\ \E r \in Ride : \E t : Becomes(n, r, t) /\ GoodTask(t, AskedOf(r)')
  <2>1. e \in Event /\ e.ride \in Ride
    BY DEF Memory, CoordTypeOK, Event
  <2> QED
    BY <1>3, <2>1, DeliverStep
<1>4. CASE Fault
  <2>1. ASSUME NEW n \in Node, NEW r \in Ride, LockRefused(n, r) \/ Throws(n, r)
        PROVE  [Next]_vars /\ \E t : Becomes(n, r, t) /\ GoodTask(t, AskedOf(r)')
    BY <2>1, RefusalStep, FinishStep
  <2>2. ASSUME NEW n \in Node, Crash(n)
        PROVE  [Next]_vars /\ task' = [task EXCEPT ![n] = [r \in Ride |-> Idle]]
    BY <2>2 DEF Crash
  <2> QED
    BY <1>4, <2>1, <2>2, CutStep DEF Fault
<1>5. ASSUME NEW n \in Node, NEW r \in Ride, NEW d \in Driver,
             DeadlineJob(n, r, d) \/ CutEnds(n, r, d)
      PROVE  [Next]_vars /\ (\/ UNCHANGED task
                             \/ \E t : Becomes(n, r, t) /\ GoodTask(t, AskedOf(r)'))
  BY <1>5, JobStep, CutStep
<1> QED
  BY <1>1, <1>2, <1>3, <1>4, <1>5, RequestStep DEF CoordNext, Happens

\* Events, jobs, withdrawals, the history and the bounds keep their types.
LEMMA QueueTypes ==
  ASSUME IInv, Memory, [CoordNext]_coordVars
  PROVE  /\ mail' \in [Node -> SUBSET Event]
         /\ jobs' \in SUBSET (Ride \X Driver)
         /\ cuts' \in [Node -> SUBSET (Ride \X Driver)]
         /\ lapsed' \in SUBSET (Ride \X Driver)
         /\ faults' \in 0..MaxFaults
         /\ churn' \in 0..MaxChurn
<1> USE CoordinatorAssumption DEF Memory, CoordTypeOK
<1>1. CASE UNCHANGED coordVars
  BY <1>1 DEF coordVars
<1>2. lapsed' \in SUBSET (Ride \X Driver)
  BY DEF CoordNext, Remember, coordVars
<1>3. CASE Request
  <2>1. mail' \in [Node -> SUBSET Event]
    BY <1>3 DEF Request, BookRide, DriverAccepts, DriverRejects, CustomerCancels, Post, Event
  <2>2. UNCHANGED <<jobs, cuts, boundVars>>
    BY <1>3 DEF Request, BookRide, DriverAccepts, DriverRejects, CustomerCancels
  <2> QED
    BY <1>2, <2>1, <2>2 DEF boundVars
<1>4. CASE \E r \in Ride : TripAdvances(r) \/ DeadlinePasses(r)
  BY <1>4, <1>2 DEF TripAdvances, DeadlinePasses, memoryVars, boundVars
<1>5. CASE \E d \in Driver : DriverChanges(d)
  BY <1>5, <1>2 DEF DriverChanges, memoryVars
<1>6. ASSUME NEW n \in Node, NEW r \in Ride, Step(n, r) \/ Wake(n, r) \/ Recover(n, r)
      PROVE  /\ mail' = mail /\ jobs' \in SUBSET (Ride \X Driver) /\ UNCHANGED boundVars
             /\ cuts' \in [Node -> SUBSET (Ride \X Driver)]
  <2>1. Pending(r) => lease[r] \in Driver
    BY DEF Pending, LiveLease, IInv, TypeOK
  <2>2. CASE Look(n, r)
    BY <2>1, <2>2 DEF Look, Valid, Schedule
  <2>3. CASE Check(n, r)
    <3>1. task[n][r].waiting \in Driver
      BY <2>3 DEF GoodTask, Task, Check, At
    <3> QED
      BY <2>3, <3>1 DEF Check, Schedule
  <2>4. CASE Revalidate(n, r)
    BY <2>1, <2>4 DEF Revalidate, Unfit
  <2> QED
    BY <1>6, <2>2, <2>3, <2>4
    DEF Step, Wake, Withdraw, ReconcileRide, Query, Offer, NoCandidateLeft, Answered, Finish,
        Recover, TimerFires, DeliveryFails
<1>7. CASE \E n \in Node, r \in Ride, d \in Driver : DeadlineJob(n, r, d) \/ CutEnds(n, r, d)
  BY <1>7, <1>2 DEF DeadlineJob, CutEnds, boundVars
<1>8. CASE \E n \in Node : \E e \in mail[n] : Deliver(n, e)
  BY <1>8, <1>2 DEF Deliver, boundVars
<1>9. CASE Fault
  <2>1. CASE \E n \in Node, r \in Ride, d \in Driver : CutFails(n, r, d)
    BY <1>2, <2>1 DEF CutFails
  <2>2. CASE \E n \in Node, r \in Ride : LockRefused(n, r) \/ Throws(n, r)
    BY <1>2, <2>2 DEF LockRefused, Throws
  <2>3. CASE \E n \in Node : Crash(n)
    BY <1>2, <2>3 DEF Crash
  <2> QED
    BY <1>9, <2>1, <2>2, <2>3 DEF Fault
<1> QED
  BY <1>1, <1>2, <1>3, <1>4, <1>5, <1>6, <1>7, <1>8, <1>9 DEF CoordNext, Happens, boundVars

LEMMA MemoryStep ==
  ASSUME IInv, Memory, [CoordNext]_coordVars
  PROVE  IInv' /\ Memory'
<1>1. [Next]_vars
  BY CoordStep
<1>2. IInv'
  BY <1>1, IInvStep
<1>3. \A n \in Node, r \in Ride : GoodTask(task[n][r], AskedOf(r)')
  BY <1>1, GoodStays
<1>4. task \in [Node -> [Ride -> Task]]
  BY DEF Memory, CoordTypeOK
<1>5. /\ task' \in [Node -> [Ride -> Task]]
      /\ \A n \in Node, r \in Ride : GoodTask(task'[n][r], AskedOf(r)')
  <2>1. CASE UNCHANGED task
    BY <1>3, <1>4, <2>1
  <2>2. ASSUME NEW n \in Node, NEW r \in Ride, NEW t, Becomes(n, r, t),
               GoodTask(t, AskedOf(r)')
        PROVE  <1>5!1 /\ <1>5!2
    <3>1. t \in Task
      BY <2>2 DEF GoodTask
    <3> QED
      BY <1>3, <1>4, <2>2, <3>1 DEF Becomes
  <2>3. ASSUME NEW n \in Node, task' = [task EXCEPT ![n] = [r \in Ride |-> Idle]]
        PROVE  <1>5!1 /\ <1>5!2
    <3>1. Idle \in Task
      BY IdleIsGood DEF GoodTask
    <3>2. [r \in Ride |-> Idle] \in [Ride -> Task]
      BY <3>1
    <3>3. task' \in [Node -> [Ride -> Task]]
      BY <1>4, <2>3, <3>2
    <3>4. \A r \in Ride : task'[n][r] = Idle
      BY <1>4, <2>3
    <3>5. \A m \in Node \ {n} : task'[m] = task[m]
      BY <1>4, <2>3
    <3> QED
      BY <1>3, <3>3, <3>4, <3>5, IdleIsGood
  <2> QED
    BY <2>1, <2>2, <2>3, CoordStep
<1> QED
  BY <1>2, <1>5, QueueTypes DEF Memory, CoordTypeOK, IInv

LEMMA InitMemory == CoordInit => IInv /\ Memory
<1> SUFFICES ASSUME CoordInit PROVE Memory
  BY CoordInitIInv
<1>1. TypeOK
  BY CoordInitIInv DEF IInv
<1>2. \A n \in Node, r \in Ride : task[n][r] = Idle
  BY DEF CoordInit
<1>3. task \in [Node -> [Ride -> Task]]
  BY IdleIsGood DEF CoordInit, GoodTask
<1>4. /\ mail \in [Node -> SUBSET Event] /\ jobs \in SUBSET (Ride \X Driver)
      /\ cuts \in [Node -> SUBSET (Ride \X Driver)] /\ lapsed \in SUBSET (Ride \X Driver)
  BY DEF CoordInit
<1>5. faults \in 0..MaxFaults /\ churn \in 0..MaxChurn
  BY CoordinatorAssumption DEF CoordInit
<1> QED
  BY <1>1, <1>2, <1>3, <1>4, <1>5, IdleIsGood DEF Memory, CoordTypeOK

LEMMA CoordInvariance == CoordSpec => [](IInv /\ Memory)
<1>1. IInv /\ Memory /\ [CoordNext]_coordVars => (IInv /\ Memory)'
  BY MemoryStep
<1> QED
  BY <1>1, InitMemory, PTL DEF CoordSpec

-----------------------------------------------------------------------------
(* Theorems. *)

\* Type correctness of the coordinators, their events, jobs and bounds.
THEOREM CoordTypeCorrect == CoordSpec => []CoordTypeOK
<1>1. Memory => CoordTypeOK
  BY DEF Memory
<1> QED
  BY <1>1, CoordInvariance, PTL

\* Coordinators, sweeps, timers, jobs and crashes touch the tables only by the transactions
\* of RideStore, at most one at a time.
THEOREM TransactionsOnly == CoordSpec => OnlyTransactions
<1>1. IInv /\ Memory /\ [CoordNext]_coordVars => [Next]_vars
  BY CoordStep
<1> QED
  BY <1>1, CoordInvariance, PTL DEF CoordSpec, OnlyTransactions

\* With any number of competing processes and any faults, dispatch never gives a driver two
\* live offers or two rides, and availability keeps telling the truth.
THEOREM DispatchIsSafe ==
  CoordSpec => [](LeaseMatchesOffer /\ AssignedByAcceptance /\ OneRidePerDriver
                  /\ BusyHasRide /\ AvailableIsFree)
<1>1. IInv => LeaseMatchesOffer /\ AssignedByAcceptance /\ OneRidePerDriver
              /\ BusyHasRide /\ AvailableIsFree
  BY DEF IInv, Agreement, Exclusion
<1> QED
  BY <1>1, CoordInvariance, PTL

\* No ride is given up by a losing snapshot, however many dispatchers compete for it.
THEOREM NoRideLostToASnapshot == CoordSpec => []NoLosingSnapshot
<1>1. Memory => NoLosingSnapshot
  <2> SUFFICES ASSUME Memory, NEW n \in Node, NEW r \in Ride,
                      At(n, r, "end"), ~task[n][r].declined,
                      NEW d \in task[n][r].tried \cup task[n][r].todo
               PROVE  offer[r][d] # "none"
    BY DEF NoLosingSnapshot
  <2>1. GoodTask(task[n][r], AskedOf(r))
    BY DEF Memory
  <2> QED
    BY <2>1 DEF GoodTask, At, AskedOf
<1> QED
  BY <1>1, CoordInvariance, PTL

-----------------------------------------------------------------------------
(* What ends an offer before its deadline.                                  *)

\* As far as the tables go, only its rejection does: every other transaction that closes an
\* attempt needs a passed deadline or a ride that leaves searching.
LEMMA OnlyRejectionEnds ==
  ASSUME IInv, [Next]_vars, NEW r \in Ride, NEW d \in Driver,
         offer[r][d] = "offered", ~expired[r],
         offer'[r][d] # "offered", status'[r] = "searching"
  PROVE  /\ FinishAttempt(r, d, "rejected")
         /\ status[r] = "searching" /\ assigned[r] = None /\ lease[r] = d /\ lease'[r] = None
<1>1. lease[r] = d /\ d # None /\ status[r] = "searching" /\ assigned[r] = None
  BY NoneAssumption DEF IInv, Agreement, LeaseMatchesOffer, ColumnsMatchStatus
<1> USE DEF IInv, TypeOK
<1>2. ASSUME NEW q \in Ride, RideNext(q)
      PROVE  FinishAttempt(r, d, "rejected") /\ lease'[r] = None
  <2>1. CASE Create(q) \/ LeaseExpires(q)
    BY <2>1 DEF Create, LeaseExpires
  <2>2. ASSUME NEW e \in Driver, OfferDispatch(q, e)
        PROVE  FALSE
    <3>1. CASE CanLease(q, e)
      BY <1>1, <2>2, <3>1 DEF OfferDispatch, CanLease, LiveLease
    <3>2. CASE ~CanLease(q, e)
      BY <1>1, <2>2, <3>2 DEF OfferDispatch, DueLease, TimeOutLease
    <3> QED
      BY <3>1, <3>2
  <2>3. ASSUME NEW e \in Driver, NEW outcome \in {"rejected", "timed_out"},
               FinishAttempt(q, e, outcome)
        PROVE  FinishAttempt(r, d, "rejected") /\ lease'[r] = None
    <3>1. q = r /\ e = d
      BY <2>3 DEF FinishAttempt
    <3>2. outcome = "rejected"
      BY <2>3, <3>1 DEF FinishAttempt, CanFinish
    <3> QED
      BY <2>3, <3>1, <3>2 DEF FinishAttempt, ClearLease
  <2>4. CASE Reconcile(q)
    BY <1>1, <2>4 DEF Reconcile, DueLease, TimeOutLease
  <2>5. ASSUME NEW e \in Driver, Accept(q, e)
        PROVE  FALSE
    BY <2>5 DEF Accept, Consumed, ClosedOffers
  <2>6. CASE FailDispatch(q) \/ Cancel(q)
    BY <2>6 DEF FailDispatch, Cancel, ClosedOffers
  <2>7. CASE (\E s \in Active : Transition(q, s)) \/ StartTrip(q) \/ Complete(q)
    BY <1>1, <2>7 DEF Transition, StartTrip, Complete, ClosedOffers
  <2> QED
    BY <1>2, <2>1, <2>2, <2>3, <2>4, <2>5, <2>6, <2>7 DEF RideNext
<1>3. ASSUME NEW e \in Driver, DriverNext(e)
      PROVE  FALSE
  <2>1. CASE RemoveDriver(e)
    BY <1>1, <2>1, NoneAssumption DEF RemoveDriver
  <2>2. CASE ~RemoveDriver(e)
    BY <1>3, <2>2
    DEF DriverNext, GoOnline, GoOffline, UpdateLocation, MarkStale, SetActiveVehicle,
        ReviewPending, EditLicence, UploadLicence, LocationAges, StandingLapses,
        StandingRestored, rideVars
  <2> QED
    BY <2>1, <2>2
<1>4. CASE UNCHANGED vars
  BY <1>4 DEF vars
<1> QED
  BY <1>1, <1>2, <1>3, <1>4 DEF Next

\* A withdrawal of d's offer that pendingDispatch has begun and not committed.
BeingWithdrawn(r, d) ==
  \E n \in Node : \/ At(n, r, "withdraw") /\ task[n][r].waiting = d
                 \/ <<r, d>> \in cuts[n]

\* And of all steps of a coordinator, a timer, a job or a request, only those of the driver, of
\* a failed announcement and of a withdrawal reject.
LEMMA WhoRejects ==
  ASSUME IInv, Memory, CoordNext, NEW r \in Ride, NEW d \in Driver,
         FinishAttempt(r, d, "rejected"), lease[r] = d, lease'[r] = None, ~expired[r]
  PROVE  Declining(r, d) \/ BeingWithdrawn(r, d)
<1> USE DEF IInv, TypeOK
<1>0. d # None /\ status[r] = "searching" /\ status'[r] = "searching"
  BY NoneAssumption DEF FinishAttempt, CanFinish
<1>1. CASE Request
  <2>1. ASSUME NEW n \in Node, NEW q \in Ride, BookRide(n, q) \/ CustomerCancels(n, q)
        PROVE  FALSE
    BY <1>0, <2>1 DEF BookRide, Create, CustomerCancels, Cancel, ClearLease
  <2>2. ASSUME NEW n \in Node, NEW q \in Ride, NEW e \in Driver, DriverAccepts(n, q, e)
        PROVE  FALSE
    BY <1>0, <2>2 DEF DriverAccepts, Accept, ClearLease
  <2>3. ASSUME NEW n \in Node, NEW q \in Ride, NEW e \in Driver, DriverRejects(n, q, e)
        PROVE  [kind |-> "rejected", ride |-> r, driver |-> d] \in mail'[n]
    <3>1. q = r
      BY <1>0, <2>3 DEF DriverRejects, FinishAttempt, ClearLease
    <3>2. e = d
      BY <2>3, <3>1 DEF DriverRejects, FinishAttempt, CanFinish
    <3> QED
      BY <2>3, <3>1, <3>2 DEF DriverRejects, Post, Memory, CoordTypeOK
  <2> QED
    BY <1>1, <2>1, <2>2, <2>3 DEF Request, Declining
<1>2. CASE \E q \in Ride : TripAdvances(q) \/ DeadlinePasses(q)
  BY <1>0, <1>2
  DEF TripAdvances, DeadlinePasses, Transition, StartTrip, Complete, LeaseExpires
<1>3. CASE \E e \in Driver : DriverChanges(e)
  <2> PICK e \in Driver : DriverNext(e)
    BY <1>3 DEF DriverChanges
  <2>1. assigned[r] = None
    BY <1>0 DEF Agreement, ColumnsMatchStatus
  <2>2. CASE RemoveDriver(e)
    BY <1>0, <2>1, <2>2, NoneAssumption DEF RemoveDriver
  <2>3. CASE ~RemoveDriver(e)
    BY <1>0, <2>3
    DEF DriverNext, GoOnline, GoOffline, UpdateLocation, MarkStale, SetActiveVehicle,
        ReviewPending, EditLicence, UploadLicence, LocationAges, StandingLapses,
        StandingRestored, rideVars
  <2> QED
    BY <2>2, <2>3
<1>4. ASSUME NEW q \in Ride, NEW e, NEW outcome, Ends(q, e, outcome)
      PROVE  q = r /\ e = d /\ outcome = "rejected"
  <2>1. FinishAttempt(q, e, outcome)
    BY <1>0, <1>4 DEF Ends, vars
  <2>2. q = r
    BY <1>0, <2>1 DEF FinishAttempt, ClearLease
  <2> QED
    BY <2>1, <2>2 DEF FinishAttempt, CanFinish
<1>5. ASSUME NEW n \in Node, NEW q \in Ride, Step(n, q) \/ Wake(n, q) \/ Recover(n, q)
      PROVE  \/ task[n][r].answer = "delivery_failed" /\ task[n][r].waiting = d
             \/ At(n, r, "withdraw") /\ task[n][r].waiting = d
  <2>1. ~UNCHANGED vars
    BY <1>0 DEF vars
  <2>2. CASE ReconcileRide(n, q) \/ Offer(n, q) \/ Finish(n, q)
    <3>1. ASSUME Reconcile(q)
          PROVE  FALSE
      BY <1>0, <3>1 DEF Reconcile, DueLease, TimeOutLease, ClearLease
    <3>2. ASSUME NEW e, OfferDispatch(q, e), e \in Driver
          PROVE  FALSE
      BY <1>0, <3>2, NoneAssumption
      DEF OfferDispatch, DueLease, TimeOutLease, ClearLease, CanLease, LiveLease
    <3>3. ASSUME FailDispatch(q)
          PROVE  FALSE
      BY <1>0, <3>3 DEF FailDispatch
    <3>4. task[n][q].todo \subseteq Driver
      BY DEF Memory, GoodTask, Task
    <3>5. CASE ReconcileRide(n, q) \/ Finish(n, q)
      BY <2>1, <3>1, <3>3, <3>5 DEF ReconcileRide, Finish
    <3>6. CASE Offer(n, q)
      BY <2>1, <3>2, <3>4, <3>6 DEF Offer
    <3> QED
      BY <2>2, <3>5, <3>6
  <2>3. CASE Answered(n, q)
    <3>1. Ends(q, task[n][q].waiting, Ending(task[n][q]))
      BY <2>1, <2>3 DEF Answered
    <3>2. q = r /\ task[n][r].waiting = d /\ Ending(task[n][r]) = "rejected"
      BY <1>4, <3>1
    <3> QED
      BY <3>2 DEF Ending
  <2>4. CASE Withdraw(n, q)
    <3>1. q = r /\ task[n][r].waiting = d
      BY <1>4, <2>4 DEF Withdraw
    <3> QED
      BY <2>4, <3>1 DEF Withdraw
  <2> QED
    BY <1>5, <2>1, <2>2, <2>3, <2>4
    DEF Step, Wake, Recover, Look, Query, NoCandidateLeft, Check, TimerFires, DeliveryFails,
        Revalidate
<1>6. ASSUME NEW n \in Node, NEW q \in Ride, NEW e \in Driver, DeadlineJob(n, q, e)
      PROVE  FALSE
  <2>1. CASE UNCHANGED vars
    BY <1>0, <2>1 DEF vars
  <2>2. CASE FinishAttempt(q, e, "timed_out")
    BY <1>0, <2>2 DEF FinishAttempt, CanFinish, ClearLease
  <2> QED
    BY <1>6, <2>1, <2>2 DEF DeadlineJob
<1>7. ASSUME NEW n \in Node, NEW q \in Ride, NEW e \in Driver, CutEnds(n, q, e)
      PROVE  <<r, d>> \in cuts[n]
  <2>1. q = r /\ e = d
    BY <1>4, <1>7 DEF CutEnds
  <2> QED
    BY <1>7, <2>1 DEF CutEnds
<1>8. CASE \/ \E n \in Node : \E e \in mail[n] : Deliver(n, e)
           \/ Fault
  BY <1>0, <1>8 DEF Deliver, Fault, LockRefused, Throws, Crash, CutFails, vars
<1> QED
  BY <1>1, <1>2, <1>3, <1>5, <1>6, <1>7, <1>8
  DEF CoordNext, Happens, Declining, BeingWithdrawn

-----------------------------------------------------------------------------
(* What is announced.                                                       *)

\* A ride is leased to another driver by an offer, and by nothing else.
LEMMA OnlyOffersLease ==
  ASSUME IInv, Memory, CoordNext, NEW r \in Ride, lease'[r] # lease[r], lease'[r] # None
  PROVE  \E n \in Node : Offer(n, r)
<1> USE DEF IInv, TypeOK
<1>1. ASSUME NEW q \in Ride, ClearLease(q)
      PROVE  FALSE
  BY <1>1 DEF ClearLease
<1>2. ~UNCHANGED lease
  OBVIOUS
<1>3. ~Request
  BY <1>1, <1>2
  DEF Request, BookRide, DriverAccepts, DriverRejects, CustomerCancels, Create, Accept,
      FinishAttempt, Cancel
<1>4. ~(\E q \in Ride : TripAdvances(q) \/ DeadlinePasses(q))
  BY <1>2 DEF TripAdvances, DeadlinePasses, Transition, StartTrip, Complete, LeaseExpires
<1>5. ASSUME NEW d \in Driver, DriverChanges(d)
      PROVE  FALSE
  <2>1. ~RemoveDriver(d)
    BY DEF RemoveDriver
  <2> QED
    BY <1>2, <1>5, <2>1
    DEF DriverChanges, DriverNext, GoOnline, GoOffline, UpdateLocation, MarkStale,
        SetActiveVehicle, ReviewPending, EditLicence, UploadLicence, LocationAges,
        StandingLapses, StandingRestored, rideVars
<1>6. ASSUME NEW q \in Ride, NEW d, NEW outcome, Ends(q, d, outcome)
      PROVE  FALSE
  BY <1>1, <1>2, <1>6 DEF Ends, FinishAttempt, vars
<1>7. ASSUME NEW n \in Node, NEW q \in Ride, Step(n, q) \/ Wake(n, q) \/ Recover(n, q)
      PROVE  Offer(n, r)
  <2>1. ~UNCHANGED vars
    BY <1>2 DEF vars
  <2>2. CASE Offer(n, q)
    <3> PICK d \in task[n][q].todo \ task[n][q].tried : OfferDispatch(q, d)
      BY <2>1, <2>2 DEF Offer
    <3>1. q = r
      BY <1>1 DEF OfferDispatch, TimeOutLease
    <3> QED
      BY <2>2, <3>1
  <2>3. ~(ReconcileRide(n, q) \/ Answered(n, q) \/ Withdraw(n, q) \/ Finish(n, q))
    BY <1>1, <1>2, <1>6, <2>1
    DEF ReconcileRide, Reconcile, TimeOutLease, Answered, Withdraw, Finish, FailDispatch
  <2> QED
    BY <1>7, <2>1, <2>2, <2>3
    DEF Step, Wake, Recover, Look, Query, NoCandidateLeft, Check, TimerFires, DeliveryFails,
        Revalidate
<1>8. ~(\E n \in Node, q \in Ride, d \in Driver : DeadlineJob(n, q, d) \/ CutEnds(n, q, d))
  BY <1>1, <1>2, <1>6 DEF DeadlineJob, CutEnds, FinishAttempt, vars
<1>9. ~(Fault \/ \E n \in Node : \E e \in mail[n] : Deliver(n, e))
  BY <1>2 DEF Deliver, Fault, LockRefused, Throws, Crash, CutFails, vars
<1> QED
  BY <1>3, <1>4, <1>5, <1>7, <1>8, <1>9 DEF CoordNext, Happens

\* A coordinator comes to read an offer back by making it, and to wait for it or to withdraw
\* it by reading it.
SameWait(t, u) == t.at = u.at /\ t.waiting = u.waiting

Waiting == {"check", "await", "withdraw"}

WaitsByFinding(n, r) ==
  /\ At(n, r, "check")' => SameWait(task'[n][r], task[n][r]) \/ Offer(n, r)
  /\ \/ At(n, r, "await")' \/ At(n, r, "withdraw")'
     => SameWait(task'[n][r], task[n][r]) \/ Look(n, r) \/ Check(n, r)

LEMMA WaysToWait ==
  ASSUME Memory, CoordNext, NEW n \in Node, NEW r \in Ride
  PROVE  WaitsByFinding(n, r)
<1> USE DEF Memory, CoordTypeOK
<1>1. ASSUME SameWait(task'[n][r], task[n][r]) \/ task'[n][r].at \notin Waiting
      PROVE  WaitsByFinding(n, r)
  BY <1>1 DEF WaitsByFinding, At, Waiting
<1>2. ASSUME NEW m \in Node, NEW q \in Ride, NEW t, Becomes(m, q, t),
             SameWait(t, task[m][q]) \/ t.at \notin Waiting
      PROVE  WaitsByFinding(n, r)
  <2>1. task'[n][r] = IF m = n /\ q = r THEN t ELSE task[n][r]
    BY <1>2 DEF Becomes
  <2> QED
    BY <1>1, <1>2, <2>1 DEF SameWait
<1>3. \A t : SameWait(Started(t), t) \/ Started(t).at \notin Waiting
  BY DEF Started, Idle, SameWait, Waiting
<1>4. Idle.at \notin Waiting
  BY DEF Idle, Waiting
<1>5. ASSUME NEW m \in Node, NEW q \in Ride, Step(m, q) \/ Wake(m, q) \/ Recover(m, q)
      PROVE  WaitsByFinding(n, r)
  <2> DEFINE old == task[m][q]
  <2>0. old \in Task
    OBVIOUS
  <2>1. CASE Offer(m, q) \/ Look(m, q) \/ Check(m, q)
    <3>1. CASE m = n /\ q = r
      <4>1. Offer(n, r) => ~At(n, r, "await")' /\ ~At(n, r, "withdraw")'
        BY <2>0, <3>1 DEF Offer, At, Leased, Declined, Becomes, Task
      <4>2. ASSUME NEW t, Becomes(n, r, t)
            PROVE  task'[n][r] = t
        BY <4>2 DEF Becomes
      <4>3. ASSUME Look(n, r)
            PROVE  ~At(n, r, "check")'
        BY <2>0, <3>1, <4>2, <4>3 DEF Look, At, Task
      <4>4. ASSUME Check(n, r)
            PROVE  ~At(n, r, "check")'
        BY <2>0, <3>1, <4>2, <4>4 DEF Check, At, Task
      <4> QED
        BY <2>1, <3>1, <4>1, <4>3, <4>4 DEF WaitsByFinding
    <3>2. CASE ~(m = n /\ q = r)
      <4>1. \E t : Becomes(m, q, t)
        BY <2>1 DEF Offer, Look, Check
      <4>2. task'[n][r] = task[n][r]
        BY <3>2, <4>1 DEF Becomes
      <4> QED
        BY <1>1, <4>2 DEF SameWait
    <3> QED
      BY <3>1, <3>2
  <2>2. ASSUME NEW t, Becomes(m, q, t)
        PROVE  task'[m][q] = t /\ (~(m = n /\ q = r) => task'[n][r] = task[n][r])
    BY <2>2 DEF Becomes
  <2>3. CASE ReconcileRide(m, q) \/ Finish(m, q)
    <3>1. task'[m][q].at \in {"idle", "query"}
      BY <2>0, <2>2, <2>3 DEF ReconcileRide, Finish, Task, Idle
    <3> QED
      BY <1>1, <2>2, <2>3, <3>1 DEF ReconcileRide, Finish, SameWait, Waiting
  <2>4. CASE Query(m, q)
    <3> PICK found \in SUBSET Candidates(q) :
          Becomes(m, q, [old EXCEPT !.at = "offer", !.todo = found, !.offered = FALSE])
      BY <2>4 DEF Query
    <3> DEFINE next == [old EXCEPT !.at = "offer", !.todo = found, !.offered = FALSE]
    <3>1. next.at = "offer"
      BY <2>0 DEF Task
    <3>2. Becomes(m, q, next)
      OBVIOUS
    <3> HIDE DEF next
    <3> QED
      BY <1>2, <3>1, <3>2 DEF Waiting
  <2>5. CASE Answered(m, q)
    <3> DEFINE next == [old EXCEPT !.at = IF old.own THEN "offer" ELSE "look",
                                   !.waiting = None, !.own = FALSE, !.answer = "none"]
    <3>1. Becomes(m, q, Idle) \/ Becomes(m, q, next)
      BY <2>5 DEF Answered
    <3>2. next.at \in {"offer", "look"}
      BY <2>0 DEF Task
    <3> HIDE DEF next
    <3> QED
      BY <1>2, <1>4, <3>1, <3>2 DEF Waiting
  <2>6. CASE NoCandidateLeft(m, q)
    <3> DEFINE again == [old EXCEPT !.at = "look"]
               wider == [old EXCEPT !.at = "look", !.ring = @ + 1]
               end == [old EXCEPT !.at = "end"]
    <3>1. Becomes(m, q, again) \/ Becomes(m, q, wider) \/ Becomes(m, q, end)
      BY <2>6 DEF NoCandidateLeft
    <3>2. again.at = "look" /\ wider.at = "look" /\ end.at = "end"
      BY <2>0 DEF Task
    <3> HIDE DEF again, wider, end
    <3> QED
      BY <1>2, <3>1, <3>2 DEF Waiting
  <2>7. CASE Wake(m, q)
    <3> DEFINE cutting == [old EXCEPT !.checking = lease[q]]
    <3>1. Becomes(m, q, cutting) \/ \E a \in Answer : Becomes(m, q, Resolved(old, a))
      BY <2>7 DEF Wake, TimerFires, DeliveryFails, Revalidate, Answer
    <3>2. SameWait(cutting, old)
      BY <2>0 DEF SameWait, Task
    <3>3. \A a : Resolved(old, a).at = "answered"
      BY <2>0 DEF Resolved, Task
    <3> HIDE DEF cutting
    <3> QED
      BY <1>2, <3>1, <3>2, <3>3 DEF Waiting
  <2>8. CASE Recover(m, q)
    BY <1>2, <1>3, <2>8 DEF Recover
  <2>9. CASE Withdraw(m, q)
    <3> DEFINE next == [old EXCEPT !.at = IF old.own THEN "offer" ELSE "reconcile",
                                   !.waiting = None, !.own = FALSE]
    <3>1. Becomes(m, q, next)
      BY <2>9 DEF Withdraw
    <3>2. next.at \in {"offer", "reconcile"}
      BY <2>0 DEF Task
    <3> HIDE DEF next
    <3> QED
      BY <1>2, <3>1, <3>2 DEF Waiting
  <2> QED
    BY <1>5, <2>1, <2>3, <2>4, <2>5, <2>6, <2>7, <2>8, <2>9 DEF Step
<1>6. ASSUME NEW m \in Node, NEW e \in mail[m], Deliver(m, e)
      PROVE  WaitsByFinding(n, r)
  <2>1. e.ride \in Ride
    BY DEF Event
  <2>2. task[m][e.ride] \in Task
    BY <2>1
  <2>3. SameWait(Heard(task[m][e.ride], e), task[m][e.ride])
        \/ Heard(task[m][e.ride], e).at \notin Waiting
    BY <1>3, <2>2 DEF Heard, Resolved, Task, SameWait, Waiting
  <2> QED
    BY <1>2, <1>6, <2>1, <2>3 DEF Deliver
<1>7. CASE \/ Request
           \/ \E q \in Ride : TripAdvances(q) \/ DeadlinePasses(q)
           \/ \E d \in Driver : DriverChanges(d)
  BY <1>1, <1>7, RequestStep DEF SameWait
<1>8. ASSUME NEW m \in Node, NEW q \in Ride, NEW d \in Driver, DeadlineJob(m, q, d)
      PROVE  WaitsByFinding(n, r)
  BY <1>1, <1>2, <1>3, <1>8 DEF DeadlineJob, SameWait
<1>9. ASSUME NEW m \in Node, NEW q \in Ride, NEW d \in Driver, CutEnds(m, q, d) \/ CutFails(m, q, d)
      PROVE  WaitsByFinding(n, r)
  <2> DEFINE old == task[m][q]
             freed == [old EXCEPT !.checking = IF @ = d THEN None ELSE @]
  <2>1. old \in Task
    OBVIOUS
  <2>2. Becomes(m, q, Resolved(old, "rejected")) \/ Becomes(m, q, old) \/ Becomes(m, q, freed)
    BY <1>9 DEF CutEnds, CutFails
  <2>3. Resolved(old, "rejected").at \notin Waiting /\ SameWait(old, old) /\ SameWait(freed, old)
    BY <2>1 DEF Resolved, SameWait, Waiting, Task
  <2> HIDE DEF freed
  <2> QED
    BY <1>2, <2>2, <2>3
<1>10. CASE Fault
  <2>1. ASSUME NEW m \in Node, NEW q \in Ride, LockRefused(m, q)
        PROVE  WaitsByFinding(n, r)
    <3>1. task[m][q] \in Task
      OBVIOUS
    <3> QED
      BY <1>2, <2>1, <3>1 DEF LockRefused, Declined, At, Task, Waiting
  <2>2. ASSUME NEW m \in Node, NEW q \in Ride, Throws(m, q)
        PROVE  WaitsByFinding(n, r)
    BY <1>2, <1>4, <2>2 DEF Throws
  <2>3. ASSUME NEW m \in Node, Crash(m)
        PROVE  WaitsByFinding(n, r)
    BY <1>1, <1>4, <2>3 DEF Crash, SameWait
  <2> QED
    BY <1>9, <1>10, <2>1, <2>2, <2>3 DEF Fault
<1> QED
  BY <1>5, <1>6, <1>7, <1>8, <1>9, <1>10 DEF CoordNext, Happens

\* In a deployment of one process, the lease of a ride whose offer is being read back is that
\* offer or gone.  A second process may have leased the ride to somebody else by then.
CheckLease ==
  \A n \in Node, r \in Ride : At(n, r, "check") => lease[r] \in {None, task[n][r].waiting}

LEMMA CheckLeaseStep ==
  ASSUME IInv, Memory, CheckLease, CoordNext, \A n, m \in Node : n = m
  PROVE  CheckLease'
<1> SUFFICES ASSUME NEW n \in Node, NEW r \in Ride, At(n, r, "check")'
             PROVE  lease'[r] \in {None, task'[n][r].waiting}
  BY DEF CheckLease
<1>1. CASE Offer(n, r)
  <2>0. task[n][r] \in Task /\ task[n][r].at = "offer"
    BY <1>1 DEF Memory, CoordTypeOK, Offer, At
  <2> PICK d \in task[n][r].todo \ task[n][r].tried :
        /\ OfferDispatch(r, d) \/ (~CanLease(r, d) /\ ~DueLease(r) /\ UNCHANGED vars)
        /\ Becomes(n, r, IF CanLease(r, d) THEN Leased(task[n][r], d)
                         ELSE Declined(task[n][r], d))
    BY <1>1 DEF Offer
  <2>1. task'[n][r] = IF CanLease(r, d) THEN Leased(task[n][r], d) ELSE Declined(task[n][r], d)
    BY DEF Becomes, Memory, CoordTypeOK
  <2>2. CanLease(r, d)
    BY <2>0, <2>1 DEF Declined, At, Task
  <2>3. task'[n][r].waiting = d
    BY <2>0, <2>1, <2>2 DEF Leased, Task
  <2>4. lease'[r] = d
    BY <2>2 DEF OfferDispatch, IInv, TypeOK
  <2> QED
    BY <2>3, <2>4
<1>2. CASE ~Offer(n, r)
  <2>1. SameWait(task'[n][r], task[n][r])
    BY <1>2, WaysToWait DEF WaitsByFinding
  <2>2. lease[r] \in {None, task[n][r].waiting} /\ task'[n][r].waiting = task[n][r].waiting
    BY <2>1 DEF CheckLease, At, SameWait
  <2>3. lease'[r] \in {None, lease[r]}
    BY <1>2, OnlyOffersLease
  <2> QED
    BY <2>1, <2>2, <2>3
<1> QED
  BY <1>1, <1>2

\* An offer is announced to the driver who holds it, in a deployment of one process.
THEOREM AnnouncementsReachTheHolder ==
  ASSUME \A n, m \in Node : n = m
  PROVE  CoordSpec => AnnouncedToHolder
<1> DEFINE Announced ==
      \A n \in Node, r \in Ride :
        ~At(n, r, "await") /\ At(n, r, "await")' =>
          LiveLease(r) /\ lease[r] = task'[n][r].waiting
<1>1. CoordInit => CheckLease
  BY NoneAssumption DEF CoordInit, CheckLease, At, Idle
<1>2. IInv /\ Memory /\ CheckLease /\ [CoordNext]_coordVars => CheckLease'
  <2>1. CASE UNCHANGED coordVars
    BY <2>1 DEF coordVars, CheckLease, At
  <2> QED
    BY <2>1, CheckLeaseStep
<1>3. IInv /\ Memory /\ CheckLease /\ [CoordNext]_coordVars => [Announced]_coordVars
  <2> SUFFICES ASSUME IInv, Memory, CheckLease, CoordNext, NEW n \in Node, NEW r \in Ride,
                      ~At(n, r, "await"), At(n, r, "await")'
               PROVE  LiveLease(r) /\ lease[r] = task'[n][r].waiting
    OBVIOUS
  <2>0. task \in [Node -> [Ride -> Task]] /\ task[n][r] \in Task
    BY DEF Memory, CoordTypeOK
  <2>1. Look(n, r) \/ Check(n, r)
    BY WaysToWait DEF WaitsByFinding, SameWait, At
  <2>2. ASSUME NEW t, Becomes(n, r, t)
        PROVE  task'[n][r] = t
    BY <2>0, <2>2 DEF Becomes
  <2>3. CASE Look(n, r)
    <3>1. Valid(r) /\ task'[n][r].waiting = lease[r]
      BY <2>0, <2>2, <2>3 DEF Look, At, Task
    <3> QED
      BY <3>1 DEF Valid, Pending
  <2>4. CASE Check(n, r)
    <3>1. Valid(r) /\ task'[n][r].waiting = task[n][r].waiting
      BY <2>0, <2>2, <2>4 DEF Check, At, Task
    <3>2. lease[r] \in {None, task[n][r].waiting}
      BY <2>4 DEF CheckLease, Check
    <3> QED
      BY <3>1, <3>2 DEF Valid, Pending, LiveLease
  <2> QED
    BY <2>1, <2>3, <2>4
<1> QED
  BY <1>1, <1>2, <1>3, CoordInvariance, PTL DEF CoordSpec, AnnouncedToHolder

-----------------------------------------------------------------------------
(* Late withdrawals.                                                        *)

\* An attempt that may be rejected by a read of the past: it was made, and if it is still
\* open its driver was not always eligible.
Withdrawable(r, d) ==
  offer[r][d] # "none" /\ (offer[r][d] = "offered" => <<r, d>> \in lapsed)

\* The history knows every open offer of a driver who is not eligible, and every offer a
\* withdrawal was begun for; a withdrawal that comes late finds that offer or an answer.
LapsesKnown ==
  /\ \A r \in Ride, d \in Driver :
       offer[r][d] = "offered" /\ ~Dispatchable(d, r) => <<r, d>> \in lapsed
  /\ \A n \in Node, r \in Ride : At(n, r, "withdraw") => Withdrawable(r, task[n][r].waiting)
  /\ \A n \in Node : \A p \in cuts[n] : Withdrawable(p[1], p[2])

LEMMA UnfitIsWithdrawable ==
  ASSUME IInv, LapsesKnown, NEW r \in Ride, Unfit(r)
  PROVE  lease[r] \in Driver /\ Withdrawable(r, lease[r])
<1>1. lease[r] \in Driver
  BY DEF Unfit, Pending, LiveLease, IInv, TypeOK
<1>2. offer[r][lease[r]] = "offered"
  BY <1>1 DEF IInv, Agreement, LeaseMatchesOffer
<1> QED
  BY <1>1, <1>2 DEF LapsesKnown, Withdrawable, Unfit

\* No attempt is reopened, and an open one's lapse is not forgotten.
LEMMA WithdrawableStays ==
  ASSUME IInv, Memory, CoordNext, NEW r \in Ride, NEW d \in Driver, Withdrawable(r, d)
  PROVE  Withdrawable(r, d)'
<1>1. [Next]_vars
  BY CoordStep
<1>2. offer'[r][d] # "none"
  BY <1>1, AskedStays DEF AskedOf, Withdrawable
<1>3. ASSUME offer'[r][d] = "offered"
      PROVE  <<r, d>> \in lapsed'
  <2>1. offer[r][d] = "offered"
    BY <1>1, <1>3, AnswerStep DEF Withdrawable
  <2> QED
    BY <1>3, <2>1 DEF Withdrawable, CoordNext, Remember
<1> QED
  BY <1>2, <1>3 DEF Withdrawable

\* A recheck begins a withdrawal only of an offer it has found unfit.
LEMMA CutsBegin ==
  ASSUME Memory, CoordNext, NEW n \in Node, NEW p \in cuts'[n], p \notin cuts[n]
  PROVE  \E r \in Ride : Unfit(r) /\ p = <<r, lease[r]>>
<1> USE DEF Memory, CoordTypeOK
<1>1. ASSUME UNCHANGED cuts
      PROVE  FALSE
  BY <1>1
<1>2. ASSUME NEW m \in Node, NEW r \in Ride, Revalidate(m, r)
      PROVE  \E q \in Ride : Unfit(q) /\ p = <<q, lease[q]>>
  BY <1>1, <1>2 DEF Revalidate
<1>3. ASSUME NEW m \in Node, NEW r \in Ride, NEW d \in Driver, CutEnds(m, r, d) \/ CutFails(m, r, d)
      PROVE  FALSE
  BY <1>3 DEF CutEnds, CutFails
<1>4. ASSUME NEW m \in Node, Crash(m)
      PROVE  FALSE
  BY <1>4 DEF Crash
<1>5. ASSUME Request
      PROVE  UNCHANGED cuts
  BY <1>5 DEF Request, BookRide, DriverAccepts, DriverRejects, CustomerCancels
<1>6. ASSUME NEW m \in Node, NEW r \in Ride, Step(m, r)
      PROVE  UNCHANGED cuts
  BY <1>6 DEF Step, Look, Withdraw, ReconcileRide, Query, Offer, NoCandidateLeft, Check,
              Answered, Finish
<1>7. ASSUME NEW m \in Node, NEW r \in Ride,
             TimerFires(m, r) \/ DeliveryFails(m, r) \/ Recover(m, r) \/ LockRefused(m, r)
             \/ Throws(m, r)
      PROVE  UNCHANGED cuts
  BY <1>7 DEF TimerFires, DeliveryFails, Recover, LockRefused, Throws
<1>8. ASSUME NEW r \in Ride, TripAdvances(r) \/ DeadlinePasses(r)
      PROVE  UNCHANGED cuts
  BY <1>8 DEF TripAdvances, DeadlinePasses, memoryVars
<1>9. ASSUME NEW d \in Driver, DriverChanges(d)
      PROVE  UNCHANGED cuts
  BY <1>9 DEF DriverChanges, memoryVars
<1>10. ASSUME NEW m \in Node, NEW r \in Ride, NEW d \in Driver, DeadlineJob(m, r, d)
       PROVE  UNCHANGED cuts
  BY <1>10 DEF DeadlineJob
<1>11. ASSUME NEW m \in Node, NEW e \in mail[m], Deliver(m, e)
       PROVE  UNCHANGED cuts
  BY <1>11 DEF Deliver
<1> QED
  BY <1>1, <1>2, <1>3, <1>4, <1>5, <1>6, <1>7, <1>8, <1>9, <1>10, <1>11
  DEF CoordNext, Happens, Wake, Fault

LEMMA LapsesKnownStep ==
  ASSUME IInv, Memory, LapsesKnown, CoordNext
  PROVE  LapsesKnown'
<1>1. ASSUME NEW r \in Ride, NEW d \in Driver, offer'[r][d] = "offered", ~Dispatchable(d, r)'
      PROVE  <<r, d>> \in lapsed'
  BY <1>1 DEF CoordNext, Remember
<1>2. ASSUME NEW n \in Node, NEW r \in Ride, At(n, r, "withdraw")'
      PROVE  Withdrawable(r, task[n][r].waiting)'
  <2>0. task \in [Node -> [Ride -> Task]] /\ task[n][r] \in Task
    BY DEF Memory, CoordTypeOK
  <2>1. CASE SameWait(task'[n][r], task[n][r])
    <3>1. At(n, r, "withdraw") /\ task'[n][r].waiting = task[n][r].waiting
      BY <1>2, <2>1 DEF At, SameWait
    <3>2. task[n][r].waiting \in Driver
      BY <2>0, <3>1 DEF Memory, GoodTask, Task, At
    <3> QED
      BY <3>1, <3>2, WithdrawableStays DEF LapsesKnown, Withdrawable
  <2>2. CASE Look(n, r) \/ Check(n, r)
    <3>1. ASSUME NEW t, Becomes(n, r, t)
          PROVE  task'[n][r] = t
      BY <2>0, <3>1 DEF Becomes
    <3>2. Unfit(r) /\ task'[n][r].waiting = lease[r]
      BY <1>2, <2>0, <2>2, <3>1 DEF Look, Check, At, Task
    <3> QED
      BY <3>2, UnfitIsWithdrawable, WithdrawableStays DEF Withdrawable
  <2> QED
    BY <1>2, <2>1, <2>2, WaysToWait DEF WaitsByFinding
<1>3. ASSUME NEW n \in Node, NEW p \in cuts'[n]
      PROVE  Withdrawable(p[1], p[2])'
  <2>1. CASE p \in cuts[n]
    <3>1. p[1] \in Ride /\ p[2] \in Driver
      BY <2>1 DEF Memory, CoordTypeOK
    <3> QED
      BY <2>1, <3>1, WithdrawableStays DEF LapsesKnown, Withdrawable
  <2>2. CASE p \notin cuts[n]
    <3> PICK r \in Ride : Unfit(r) /\ p = <<r, lease[r]>>
      BY <2>2, CutsBegin
    <3> QED
      BY UnfitIsWithdrawable, WithdrawableStays DEF Withdrawable
  <2> QED
    BY <2>1, <2>2
<1> QED
  BY <1>1, <1>2, <1>3 DEF LapsesKnown

\* The dispatcher does not shorten the offer of a driver who stays eligible: timers, sweeps,
\* rechecks, deadline jobs, competing processes and crashes leave it alone until its stored
\* deadline, though pendingDispatch withdraws what it read some time ago; only the driver's
\* rejection or a failed delivery ends it.
THEOREM OffersAreEndedForCause == CoordSpec => OffersEndForCause
<1> DEFINE Kept ==
      \A r \in Ride, d \in Driver :
        /\ offer[r][d] = "offered" /\ ~expired[r] /\ <<r, d>> \notin lapsed
        /\ offer'[r][d] # "offered" /\ status'[r] = "searching"
        => Declining(r, d)
<1>1. CoordInit => LapsesKnown
  BY DEF CoordInit, LapsesKnown, At, Idle
<1>2. IInv /\ Memory /\ LapsesKnown /\ [CoordNext]_coordVars => LapsesKnown'
  <2>1. CASE UNCHANGED coordVars
    BY <2>1
    DEF coordVars, LapsesKnown, Withdrawable, At, Dispatchable, Serves, LeasedElsewhere
  <2> QED
    BY <2>1, LapsesKnownStep
<1>3. IInv /\ Memory /\ LapsesKnown /\ [CoordNext]_coordVars => [Kept]_coordVars
  <2> SUFFICES ASSUME IInv, Memory, LapsesKnown, CoordNext, NEW r \in Ride, NEW d \in Driver,
                      offer[r][d] = "offered", ~expired[r], <<r, d>> \notin lapsed,
                      offer'[r][d] # "offered", status'[r] = "searching"
               PROVE  Declining(r, d)
    OBVIOUS
  <2>1. [Next]_vars
    BY CoordStep
  <2>2. Declining(r, d) \/ BeingWithdrawn(r, d)
    BY <2>1, OnlyRejectionEnds, WhoRejects
  <2>3. ~BeingWithdrawn(r, d)
    BY DEF LapsesKnown, Withdrawable, BeingWithdrawn
  <2> QED
    BY <2>2, <2>3
<1> QED
  BY <1>1, <1>2, <1>3, CoordInvariance, PTL DEF CoordSpec, OffersEndForCause

=============================================================================
