# Verification of the Infurnus backend

TLA+ models of the Infurnus backend (`src/src`, TypeScript on PostgreSQL, Redis
and Socket.IO, with the schema in `src/migrations`), the TLC runs that check
them on small instances, and the TLAPS proofs of what holds on every instance.
The core is ride dispatch: how a booking finds a driver, and how rides, offers
and the availability of drivers stay consistent while it does. Around it stand
models of the other parts that keep state under concurrency.

## 1. Inventory

| Part | State it keeps | Hard because | Correct when | Module |
|---|---|---|---|---|
| Ride dispatch store | `rides.status`, lease and assignment columns; `ride_dispatch_attempts` | acceptance races deadlines, cancellation, other offers; two tables, two triggers | lease, assignment and attempts agree; one driver per ride, one ride per driver; nobody is asked twice | `RideStore`, `DispatchTransactions` |
| Driver availability | `availability_status`, `online_preference`, location, verification | nine writers in five modules share one column with dispatch | busy exactly while on a ride | `RideStore`, `DispatchTransactions` |
| Dispatch coordinator, deadline queue | in memory: `inFlight`, radius, `attempted`, waits; delayed jobs | decisions from snapshots across awaits, missed events, crashes, skewed clocks | the search ends; it never gives up on a stale snapshot nor shortens a valid offer | `DispatchCoordinator` |
| Booking | client request id, catalog version | a retry races the first request; the tariff is edited in between | one ride per request, at the tariff in force | `Bookings` |
| Fares | tariffs, quotes, the ride's amounts | four pieces of code price one trip | they agree, and the stages and shares add up | `Fares` |
| Ride PIN, navigation | `rides.route_metadata` | concurrent guesses; answers out of order; paid requests | every guess is counted; the route never goes back; the cooldown holds | `Navigation` |
| Maps | Redis cache and lock | a lock that expires under its owner | one question is paid for once; no older answer replaces a newer | `MapRequests` |
| Payments | `payments`, `payment_refunds`, the gateway's orders | webhooks, client and refunds race; a gateway call inside a refund | decided once; money back only after it was taken; stages gate the ride | `Payments`, `PaymentContract` |
| Wallet | `user_wallets`, `user_wallet_entries` | retries; two users' row locks | the balance is the sum of its entries, never negative; no lock cycle | `Wallet`, `LedgerContract` |
| Payouts | provider wallet, payout, bank account | payout, bank edit and adjustment race | backed, paid once, to the account asked for | `Settlements` |
| Coupons | counters, redemptions | limits under concurrency | limits are never exceeded | `Coupons` |
| Rentals | `rentals` | overlapping periods, retries | no hour of a vehicle is promised twice | `Rentals` |
| Sessions | `refresh_tokens` | a lost reply and a theft look alike; suspension, reset | one live token per family; an ended session stays ended | `Sessions` |
| One-time codes | challenges, provider sessions | a chain of statements and provider calls per request | a code earns once; guesses are bounded | `OneTimeCodes` |
| Profiles | users, addresses, preferences | edits wait for each other's rows | contacts unique and verified ones proven | `Profiles` |
| Enrolment | invitations, managed drivers, memberships | authority read without locks | who writes a driver's profile manages the driver | `Enrolment` |
| Administrators | permissions | changes from stale pages | a change is of what was shown | `AdminGrants` |
| Record deletion | users, audit, deny-list | crash between commit and deny-list | history keeps its anchors; the deny-list is exact | `RecordDeletion` |
| Reviews | verification states, requests, triggers | judged from stale pages | what is approved was seen | `Approvals` |
| Fleet | the two copies of who drives what | three kinds of lock | the copies agree; drivers hold what they are entitled to | `Fleet` |
| Vehicle codes | first-vehicle election, reserved codes | registration and claims race | elected once; a reserved code goes to its driver | `VehicleCodes` |
| Document files | rows and stored pages | no transaction spans both | needed files are kept, no file leaks unknown | `DocumentFiles` |
| Applications | applications, memberships | read, then write, unlocked | a verdict stands | `DriverApplications` |
| Process ownership | an advisory lock of a session | takeover while the old process lives | two serve only while one is blind to its loss | `Ownership` |
| Notifications | rows, jobs, pushes | workers die between push and record; statements fail anywhere | pushed once, truthfully; decided, once a failed job is dropped | `Notices` |
| Device tokens | `user_devices` | a phone changes hands over several statements | a phone serves one user | `DeviceTokens` |
| Live positions | Redis, `driver_profiles`, broadcasts | posts overlap and arrive out of order | broadcasts in order; the latest is handled | `LiveTracking` |
| Support | tickets, archive | retried submissions | one ticket per submission | `Support` |

`PROJECT.json` lists every component with its sources, what of it is left out,
and the parts that are not modelled at all (ratings, partner profiles, admin
listings, migration runner, file storage, the Flutter client: one-row CRUD, I/O or
user interface). Its `hazards` name what is hard to test, each at its line, with
the property that would catch it going wrong.

**Interaction.** Controllers and socket handlers call services; services call
repositories, each of which runs one SQL statement or one transaction; after the
commit a service emits on the process-local `rideEvents`. The coordinator listens
to those events, to its own timers, to a sweep every five seconds and to the
delayed queue, and calls the same repositories. Components meet in PostgreSQL:
row locks, conditional updates, unique indexes, CHECK constraints and triggers
arbitrate. Dispatch and availability share rows and are one model
(`RideStore` under `DispatchCoordinator` and `DispatchTransactions`); the other
components share no row that both write, and each model has the environment it
meets as actions of its own.

## 2. Modules

**Dispatch.** `DispatchContract` is the abstract promise. `RideStore` has one action
per transaction: `Create`, `OfferDispatch`, `FinishAttempt`, `Reconcile`,
 `Accept`, `FailDispatch`, `Cancel`, `Transition`, `StartTrip`,
`Complete` are the repository methods of nearly those names, with the trigger
`cancel_terminal_dispatch_attempts` as `ClosedOffers` inside each and the transition
trigger of migration 012 as `Cancellable` and `ProgressEdge`. `status`, `assigned`,
`lease` are columns of `rides`, `expired` is `dispatch_expires_at <= NOW()`,
`offer[r][d]` is the only attempt row of a ride and driver. `avail`, `online`,
`fresh` are columns of `driver_profiles`; `standing` folds what
`driverOperationalEligibilitySql` asks into approved, pending or removed. The nine
writers of availability are actions from `GoOnline` to `RemoveDriver`; `Cancel` is
also what deleting a customer or vehicle does to each of its rides.

`DispatchTransactions` takes the same transactions statement by statement under READ
COMMITTED. `txn[s]` is the open transaction of a session: its kind, the statement it
stands at, what that statement's snapshot showed (`seen`), which leases were over at
its `NOW()`. `locks[s]` are row locks; `Conflict` is PostgreSQL's table of modes with
the foreign key's key-share lock and the entry of the unique index
`rides_one_active_per_driver_uidx`. After a wait a statement rechecks only the row it
waited for. `Victim` is the deadlock detector.

`DispatchCoordinator` puts processes on top of `RideStore`. `task[n][r]` is the
activation of `dispatchSequentially` for a ride in a process; `at` is the await it
stands at. `Look` .. `Finish` are its steps; `TimerFires`, `DeliveryFails`,
`Revalidate` are ways `awaitResponse` resolves without an event; `Deliver` emits an
event after the commit that caused it; `Recover` is the sweep, `DeadlineJob` a delayed
job, `Throws` and `Crash` failures. Every table access is an action of `RideStore`.
`pendingDispatch` is not one of them: it reads whether the offer stands and its driver is
eligible (`Valid`, `Unfit`), and ends an unfit one by a transaction of its own that asks
about neither again. Read and withdrawal are two steps here: of the search (`Look` or
`Check`, then `Withdraw`), and of a recheck, whose withdrawal runs beside the wait
(`Revalidate`, then `CutEnds` or `CutFails`; `cuts` are the withdrawals under way,
`checking` tells the wait which one is its own). `lapsed` is a history variable, written
by `Remember` after every step and read by properties alone: the open offers whose driver
was not eligible at some moment since.

**The other components** have one module each (last column above). All follow one
pattern: an awaited call or SQL statement is a step; what a transaction decides on
rows it holds is one step with its commit; uncommitted writes and locks of an
operation in progress are kept in a record per caller (`call`, `txn`, `job`, `work`,
`request`), whose `at` or `step` is the await it stands at; a process may stop and a
reply may be lost between any two steps where the code can stop there. Each module
opens with what it abstracts. Contracts: `Payments` implements `PaymentContract`
(`KeepsPromise`) and `Wallet` implements `LedgerContract` (`KeepsLedger`).

**Failing statements.** In `Notices` an attempt may throw where `deliver` has no `try`
(`TakeFails`, `ReadFails`), in the `try` (`TryFails`), and in the catch that should mark
the row (`Caught`); the job counts the attempt and the row stays as it is. In
`DeviceTokens` every statement of a handler is a step, those after a violated index
(`MetOwn`, `MetToken`, `Move`, `FindAgain`) included.

**Instances.** `MCRideStore`, `MCDispatchTransactions`, `MCDispatchCoordinator`
extend one module each. `MCTrips`, `MCAccounts`, `MCProviders` and `MCDelivery` hold
several components, some extended (those whose properties a run states as a theorem
does), the others instantiated: a behaviour picks one as its `subject`, only that one steps, and
the others stay in one pinned initial state, so an instance explores the union, not
the product, of its components. Their properties are conjunctions, by kind, of
the components' own properties; the comment above each says what its conjuncts claim.

## 3. Runs

| Run | Instance | What it shows |
|---|---|---|
| `dispatch_store` | 2 rides, 2 drivers | tables and availability agree; one ride per driver; the contract is implemented |
| `coordination` | 1 ride, 2 drivers, 1 process, 2 radii, queue, skewed clock, a fault or an outside step | snapshots, announcements and deadlines are right, no offer is shortened but of a driver who was not eligible, and the search ends |
| `contention` | 2 rides, 1 driver | neither search starves when each hides the driver from the other |
| `statements` | 2 rides, 2 drivers, 2 open transactions of every kind | the same agreement and contract, statement by statement |
| `trips` | 9 components, 2 requests each | rentals, payments, wallets, payouts, fares, coupons, bookings, navigation, maps |
| `accounts` | 6 components | profiles, sessions, codes, deletion, enrolment, administrators |
| `providers` | 5 components | codes, reviews, fleet, files, applications |
| `delivery` | 5 components | ownership, notifications, positions, devices, support |
| `driver_release` | 1 ride, 1 driver | **violated**: a driver on a trip that completion cannot release |
| `online_race` | 1 ride, 1 driver, 2 sessions | **violated**: a driver on a ride is available |
| `pin_lock_order` | 1 ride, 1 driver, 2 sessions | **violated**: the PIN check in a cycle of locks |
| `late_success` | 1 ride, 1 payment | **violated**: an order paid after a failed attempt stays FAILED |

### Bounds

A property of the store relates at most two rides and two drivers, so two of each
reach every case a counterexample needs; two transactions reach every race and every
cycle of two, the kind the properties speak of. In the other components two requests
of every kind race on one row, or on two where two rows meet (wallets, phones,
fleets, vehicles); counters (`MaxVersion`, `MaxStamp`, `MaxFix`, ...) are the
smallest that let a value be overtaken twice or reach its limit. Faults, crashes and
restarts are bounded by constants of the module, named there as bounds.

Each instance has a CONSTRAINT, stated and explained in its module: `OneDriverOut` (at
most one driver lacks approval, which enters through guards of single drivers only),
`SmallWorld` and `NoProgress`. In `coordination` one delayed job is queued at a time, a
fault and an outside step do not meet, and after either a decided ride goes no
further; the outside steps move a driver's position and approval, and leave the driver
online and not deleted. A search whose ride is decided has ended, so the constraint hides no
infinite search. In `contention` an accepted ride goes no further: the driver is freed
only by a cancellation, the harder case for the other search. In `statements` going
online does not meet an acceptance (`OnlineApart`): that meeting is the run
`online_race`, where it is wrong; and either two drivers are asked about rides that go
no further than acceptance, or one runs every kind of transaction.

In `delivery` two faults are enough for a job to fail for good in each way it can: by its
two attempts, or by a second worker's death (`MaxStalls` is 1, BullMQ's default).

Symmetry is used for safety only, never in a run with a liveness property.

**Deadlock** of a whole model is not checked: requests may all be answered, rides
ended, drivers deleted. Deadlocks of the code are lock cycles, which are modelled and
either end in a victim or are a property (`NoLockCycle`, `PinNeverInCycle`).

### Fairness

* Coordinator: the event loop continues what resolved (`Step`), timers fire, the sweep
  comes round (`Recover`), a stored deadline passes: weak fairness of each. Nothing is
  assumed of drivers, customers, events, the queue or the revalidation.
* Notifications: the sweep runs on a timer and the worker takes what waits, weakly fair.
  That the queue drops a job that is over is not assumed; `NoticeEndsOnceForgotten` has
  it as its hypothesis.
* Ownership: heartbeats, requests in progress and the platform's kill come to an end
  (weak); asking for the lock is strongly fair, since the standby asks again every
  interval while the lock is now free, now taken.
* `late_success` (`PaymentsFairSpec`): the gateway redelivers a webhook until it is
  handled, so handling it is strongly fair; a request that is not cut off goes on (weak),
  and gets a row lock it asks for again and again (strong). The violation needs all of it:
  it remains although every webhook is redelivered for ever.

Faults are never fair and always bounded: a process that crashes for ever serves nothing.

### Findings

* `driver_release`: `reviewLegacyTarget` (and the licence trigger of migration 051) set
  a busy driver `unavailable`; `completeRide` then fails for good with
  `DRIVER_RELEASE_CONFLICT`, because `releaseBusy` wants busy or stale.
* `online_race`: going online can undo `busy`. Its `UPDATE` waits for the row the
  acceptance holds, and its `NOT EXISTS` over rides is older than the acceptance.
  Every other writer is safe, since each asks for the old availability of the row.
* `pin_lock_order`: the lock order `verifyPinAttempt` says it shares with acceptance is
  the opposite one. The server ends one of the two; nothing is left half done.
* `late_success`: the success webhook of an order marked FAILED tries to capture it, and
  the check constraint on `failed_at` refuses the row; the money stays at the gateway.

Four more expectations are false in the models. TLC refutes each; they are kept as
definitions, without a run of their own:

* `GroupIsDecidable` (`Approvals`): a test calls the approval of a driver as a whole one
  that "approves all pending documents and the profile atomically"
  (`driver-onboarding-review.database.test.ts:160`). A row with two pending requests is
  closed by the verdict on the first, so that the second makes the whole fail, whoever
  reviews it.
* `LastOneIsServed` (`DeviceTokens`): a phone's token should go to whoever registers it
  last, but a registration that finds its own installation known writes the row without
  releasing the token's present holder, and the unique index refuses it although no other
  request ran.
* `ValidOfferKept` (`DispatchCoordinator`): "Recheck without shortening a valid offer's
  authoritative deadline" (`ride-dispatch.service.ts:242`). `pendingDispatch` withdraws what
  an earlier statement found unfit (`ride.repository.ts:1375`). A driver whose fix or
  approval arrives between the two loses a valid offer, and the attempt row keeps that
  driver from being asked again; one ride, driver and process and two outside steps
  (`MaxChurn`) show it. What the code does keep is `OffersEndForCause`: an offer whose
  driver was eligible all along is not shortened.
* `NoticeEnds` (`Notices`): an attempt that throws before the `try` of `deliver`
  (`push-delivery.service.ts:21-41`) or in its catch (line 83) leaves the row PENDING.
  After the last one the job is failed, and what `recoverPending` adds under the same id
  is ignored while the queue keeps it (7 days or 5000 jobs). `architecture.md` (lines
  956-961) asks for failure and dead-letter handling. Two faults (`MaxFaults`) show it.
  Once the job is dropped the sweep repairs it (`NoticeEndsOnceForgotten`, which the run
  `delivery` checks).

**Two processes.** `AnnouncedToHolder` is checked for one process. With two, the
read-back in `Check` may find the offer another process has made meanwhile and announce
it to a driver who already declined; the advisory lock of `Ownership` is what excludes
this but for a blind moment.

## 4. Proofs

TLAPS proves the theorems `PROJECT.json` lists, for every value of the constants:
any number of rides, drivers, processes, users, vehicles, amounts. They rest on the
assumptions the modules state, which TLC evaluates in the runs, and on nothing else;
the bounds of the runs (constraints, two of each) play no part, and a bound that is a
constant (`MaxFaults`, `MaxVersion`) is any number. The assumptions are of four kinds:

* a value that stands for NULL or for nothing is no driver, row or request
  (`NoneAssumption`, `ProfilesAssumption`, `SessionsAssumption`, `NoneIsNothing`,
  `PaymentsAssumption`, `EnrolmentAssumption`, `FleetAssumption`, `CodesAssumption`,
  `BookingsAssumption`, and parts of others);
* counters, bounds and limits are numbers, positive where the code has at least one
  (`CoordinatorAssumption`, `OwnershipAssumption`, `FilesAssumption`, `MapAssumption`,
  `ApprovalsAssumption`, `NavigationAssumption`);
* kinds of people and records are distinct (`DeletionAssumption`, `EnrolmentAssumption`),
  and `RequestAssumption` names the kinds of transaction of an instance;
* amounts are what the request schemas and CHECK constraints admit: prices and rates are not
  negative, payouts and payments positive, a percentage is 1 to 100, the upper threshold of
  demand exceeds the lower, hours are positive, a rental has some hours
  (`FaresAssumption`, `WalletAssumption`, `SettlementsAssumption`, `CouponsAssumption`,
  `RentalsAssumption`).

A component's module states its assumption as an ASSUME where an instance extends the
module. `Coupons`, `Bookings`, `MapRequests` and `Navigation`, which `MCTrips`
instantiates, define theirs; the theorems about them have it as a hypothesis, and
`TripsAssumption` has TLC evaluate it for the values of the run.

All proofs have one shape. An invariant is proved from the initial states and from one
lemma per action (`...Step`); the property follows from it. What the invariant
adds to the property is always of the same kind, and is what the code relies on: what a
request in progress still knows at the await it stands at, and which lock,
conditional update or unique index keeps it true.

**`RideStoreProofs`.** The invariant is `IInv == TypeOK /\ Agreement /\ Exclusion`.
`Agreement` ties the columns to the attempts (`ColumnsMatchStatus`,
`LeaseMatchesOffer`, `AssignedByAcceptance`): none is inductive alone, since the
step that clears a lease must know whose attempt was open. `Exclusion`
(`OneRidePerDriver`, `BusyHasRide`, `AvailableIsFree`) needs its three parts together:
an acceptance is harmless because the driver was available, hence on no ride, and
going available is because a busy driver's ride is not yet over. There is one lemma
for the steps of rides and one for those of drivers, per conjunct. From `IInv` follow
`RowsAgree`, `OneRidePerDriver`, `AvailabilityIsTrue`; with a lemma of how leases
change, `OneLiveOfferPerDriver`; and the action property `AnsweredOnce`.

Its second half is the refinement: every step of the store maps to a step of
`DispatchContract` or a stutter, by one lemma per action under `IInv`, then
`Implements`. Deleting a driver ends at most one ride, by `OneRidePerDriver`; without it
the step would be no step of the contract.

**`DispatchCoordinatorProofs`.** Whatever processes, jobs, crashes and requests do, the
tables change by transactions of `RideStore` only (`TransactionsOnly`), so that
`IInv`, and all that follows from it, holds of the composition. `Memory` is the
invariant of what a search remembers: whom it has tried was really asked, unless it was
declined an offer, and at its end everybody it found was tried; `NoLosingSnapshot`
follows. Two action properties are proved. `OffersEndForCause` (the unexpired offer of a
driver who has been eligible since it was made ends, while the ride is searching, by that
driver's rejection or a failed delivery only) goes by a lemma per transaction, then one per
step, which leaves withdrawals begun earlier; of these `LapsesKnown` says that the
attempt they are about was found unfit while it was open, hence is over or in `lapsed`, since
no attempt is reopened (`WithdrawableStays`). The stronger `ValidOfferKept`, of a driver
eligible at the end only, is false (see Findings). The other is `AnnouncedToHolder`, by the lemma that between an offer and its read-back only this
process could lease the ride. The latter is proved for one process, and stated so:
with two it is false (see Findings).

**`DispatchTransactionsProofs`.** The statement-level model. `TxnInv` says that locks held
at a time do not conflict (`Exclusive`), that the tables agree, and, for each open
transaction, what it knows at the statement it stands at (`Knows`): of the ride it has
locked, of the driver whose row or index entry it has locked, and of leases that were
over at its `NOW()`, which stay over while the ride is locked and leave `over` when a lease is
renewed. The argument has three parts. A commit by a transaction that knows this keeps
the tables in agreement (`CommitEffect`). It changes only rows it has locked
(`OwnRows`), so that no other transaction loses what it knows (`Undisturbed`,
`StillKnows`): that a driver locked for an offer is asked by nobody else, and that one
whose index entry is taken is engaged by nobody else. And each statement establishes what
the next one relies on (`AcceptStep` .. `OnDriverStep`). `RidesAgree` and
`KeepsContractAlways` (every commit maps to a step of `DispatchContract`) need no
hypothesis. `AvailabilityHolds` assumes `OnlineApart` of the behaviour, as the run does:
its invariant `AvailInv` says that a transaction that goes online has seen a driver
without rides and that nobody has engaged the driver since, which is what the run
`online_race` shows to be false where the two meet. All other writers are proved safe:
a fix, a lost socket, a release ask the row again for the old availability.

**`OwnershipProofs`.** Who holds the advisory lock, and that who serves either holds it or
has had its session cut (`HolderOrSevered`), give `OverlapIsBlind`.

**`TripsProofs`.** Money and rentals.

* `Rentals`. `RentalsInv` says that a call in progress holds rows of its own and that a
  page shows a rental as it was; with it the exclusion constraint gives
  `VehiclePromisedOnce`, and status changes are those of the schema (`LifecycleKept`).
  `RetriesFindTheirs`: a retry is answered with its own rental, because the arbiter index
  is consulted before the exclusion constraint and an insertion keeps its row.
* `Payments`. `PaymentsInv` adds to `PaymentsAgree` what a request in progress knows
  (`RequestsFit`): the row it will write exists, who captures has seen the order paid,
  and under a refund's lock the payment stays captured and its refunds as they were read.
  The refunds booked follow each other without a gap (`RefundsFollow`), so the money
  given back is their sum and never more than was taken. `PaymentsKeepPromise` is the
  refinement of `PaymentContract`, step by step.
* `Wallet`. `TxnsFit` says that a transaction holds exactly the rows it no longer wants,
  and that what it read in a wallet it holds is still the balance; `BookingsFit`, that a
  payment's state is the bookings made for it. With `BalanceIsLedger` they are inductive.
  That no two transactions wait for each other follows from the order in which they take
  their rows, and `WalletsAgree` is the conjunction. `WalletsKeepLedger` is the
  refinement of `LedgerContract`: the ledger grows by whole bookings, each made once.
* `Settlements`. Whoever holds the provider's wallet knows its balance, whoever holds a
  payout knows that it may still be settled (`SettlersFit`), and nobody else holds it
  (`RowsHeldOnce`); hence `WalletBacksPayouts` and `DestinationIsFrozen`
  (`PayoutsAlwaysBacked`).
* `Fares`. `MoneyAddsUp` is arithmetic: lemmas that each rounding keeps the order of amounts
  (monotony of quotients and products), that the plan of a fare splits it without
  remainder, and one case per kind of tariff the schema can store. `FaresInv` carries it
  through edits, quotes and the booking.

Sums over finite sets, which the ledgers need, are folds; that a sum grows by what is added
is proved without induction over data, from the set of smallest size for which it would
fail (the subset relation of finite sets is well-founded).

**`AccountsProofs`.** Identities.

* `Profiles`. Statements in progress keep what they read about the rows they hold; the
  unique indexes judge at the commit, not at the read. `PatchesAlwaysMerge` needs only that
  a patch is the one writer of preferences and changes them as it finds them.
* `Sessions`. `SessionsInv` says what a transaction knows because of the rows it locked: a
  rotation's token is still live, a reused one is dead (`LocksTell`,
  `PresentedAreLocked`), an account is kept by the reset or suspension that selected it
  (`AccountsAreKept`). A sweep may have missed tokens only of families that a rotation
  crossed, and none crosses a sweep that holds the account (`SweepsSeeAll`). With these the
  four conjuncts of `SessionsAreSound` and `NoRevival` are inductive. That only a
  revocation holding the account waits in a circle needs an order of events: of two
  reuses under way, one began its sweep when the other's token was dead already
  (`ReusesAreOrdered`).
* `Enrolment`. `WriterIsTheManager` says that who writes a driver's profile manages the
  driver. Authority is read without a lock on it, so the invariant says what cannot change
  until the write: one fleet at a time holds the driver's row (`OneHolder`), a consent in
  progress under the advisory lock excludes a fleet's (`Consenting`), and a fleet that
  was allowed has an agreement (`DriverIsTheirs`, `Acquainted`).
* `OneTimeCodes`. Until its row is stored, a provider session belongs to the request that
  had it sent (`StoringFresh`); what is earned rests on a code that was spent, once
  (`Earned`, `Finishing`); the misses counted are those made (`MissesCounted`); and the
  partial indexes leave one unanswered challenge of a use and contact (`OneEach`).
* `RecordDeletion`. What a deletion decided stays true until it commits, because of the rows
  it holds: of its target, actor, profile and of the rides it cancels (`RequestsFit`,
  `RequestsApart`), and because an acceptance in progress has its ride to itself
  (`TakingsHold`, `TakingsFree`). Crashes lie between the commit and the deny-list.

**`ProvidersProofs`.** Drivers, vehicles and documents.

* `VehicleCodes`. Transactions are about the vehicle whose owner they hold
  (`TxnsAreAbout`), and the elected vehicle is the owner's first (`ElectedIsFirst`).
* `Fleet`. The two copies of who drives what agree, and who is assigned is entitled,
  with the names each open transaction works on (`TxnNames`): every operation writes both
  copies in its one commit, whatever its snapshot showed earlier.
* `DocumentFiles`. No transaction spans row and storage, so the invariant follows each page:
  of a bundle that is not saved (`BundlesArePrivate`), of a row, about to be deleted
  (`DropsAreUnheard`), unheard of, left over. A request that read the row's current version
  read its current pages, and a verdict it read still stands (`ReadsOK`), which is why the
  conditional update suffices. `VerdictsAreOnVersionRead` is the action property.
* `Approvals`. A page that is fresh shows the contents of the rows it lists
  (`PagesShowRows`), and removing or adding a request keeps a row's queue without
  repetition; with `ReviewsAreSound` this is inductive.

**`JourneyProofs`.** Each theorem has the component's assumption as its hypothesis.

* `Coupons`. The row's lock makes a redemption alone with it from its first read
  (`OneInTransaction`), so that what it counted stands (`ReadsStand`) and the counter
  is the number of redemptions (`CounterCounts`): `CouponLimits`.
* `Bookings`. One request at a time holds a client's key, and what its second look did not
  find does not come until it ends (`NothingEarlier`); an edit waits for bookings
  of its code and they for it (`CodeIsShared`). Hence answers are a client's own, a retry
  is answered, and a ride is stored at the tariff in force (`BookedAtTariff`).
* `MapRequests`. A token is given once (`TokensDiffer`), so while no lock expires under its
  owner who has a token has the lock, nobody publishes meanwhile and a load misses
  (`PaidOnce`). Where locks do expire, who still holds the lock publishes something newer than
  what is cached (`HolderIsNewest`), hence `NewestStays`.
* `Navigation`. A worker that may still store a route holds the lock and a copy no older
  than memory (`CopiesAreNewer`), which gives `RouteNeverGoesBack`; the time of the last
  paid request is in memory, or with a worker about to store it, until the cooldown is over
  (`PaidIsRemembered`), which gives `CooldownHolds`; and the PIN's counter is the number of
  misses (`PinCountsGuesses`).

## 5. What is only model-checked, and what is not modelled

* Liveness (`SearchEnds`, `DeliveryEnds`, `PaidIsCaptured`): the prover has no rule for
  fairness, nor for `ENABLED`; `PinNeverInCycle` speaks of waiting, which is `ENABLED`.
* The properties of `Notices`, `LiveTracking`, `DeviceTokens`, `Support`, `AdminGrants` and
  `DriverApplications` are checked by TLC on the instances above; no theorem states
  them. Of the run `delivery`, only `OverlapIsBlind` is proved.
* Conjunctions over the components of an instance are checked as wholes, since no
  theorem speaks of an instance's choice of subject. Every conjunct of `TripsAreSound`,
  `TripStepsHold` and `ContractsAreKept` is a theorem of its component; of
  `AccountStepsHold` all but the one of `AdminGrants`; of `ProviderStepsHold` the first. Of
  `TripsTypeOK`, `AccountsTypeOK` and `ProvidersTypeOK` the conjuncts of the extended components
  have theorems (`...TypeCorrect`), and those of the four journey components are part of their
  invariants.
* What a recursive definition computes for every input: induction over data is beyond the
  prover.
* The parts of the inventory that are not modelled, and what is left out of those that are
  modelled in part, are in `PROJECT.json` with the reason.

## 6. Plan

What a continuation of the project would take up, in this order:

1. Theorems for `Notices` (`PushedOnce`, `SentIsFinal`) and `DeviceTokens`
   (`OneUserPerPhone`), whose invariants are of the kind of `OneTimeCodes`; then
   `LiveTracking`, `DriverApplications`, `AdminGrants`, `Support`.
2. Administrative configuration (`admin.repository.ts`), so far left out: most of it writes
   one row, but its listings join tables other components change.
3. Two coordinators and the advisory lock of `Ownership` in one model, to state
   `AnnouncedToHolder` under the exclusion that the lock gives.
