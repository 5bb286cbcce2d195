----------------------- MODULE DispatchTransactionsProofs -----------------------
(***************************************************************************)
(* Theorems about DispatchTransactions, for every set of rides, drivers    *)
(* and sessions: the row locks are enough for the committed tables to      *)
(* agree, although every statement looks at a snapshot.                    *)
(*                                                                         *)
(* An open transaction knows something of the rows it has locked, and of   *)
(* little else.  The argument has three parts: what a commit does to the   *)
(* tables if the transaction knows what it should; that a commit of one    *)
(* session touches nothing another session knows; and that each statement  *)
(* learns what the next one relies on.                                     *)
(***************************************************************************)
EXTENDS DispatchTransactions, RideStoreProofs

-----------------------------------------------------------------------------
(* What a commit does to the tables. *)

\* The tables agree, availability apart.
Core == TypeOK /\ Agreement /\ OneRidePerDriver /\ OneLiveOfferPerDriver

\* What locks on the ride and on the driver protect.
SameColumns(r) ==
  /\ status'[r] = status[r] /\ assigned'[r] = assigned[r]
  /\ lease'[r] = lease[r] /\ expired'[r] = expired[r]

NotAsked(d) ==
  \A r \in Ride : /\ lease'[r] = d => lease[r] = d /\ (expired[r] => expired'[r])
                  /\ offer[r][d] = "none" => offer'[r][d] = "none"

NotEngaged(d) == Serves(d)' => Serves(d)

\* Only ride r may change, only driver d be asked, only driver e be engaged.
Touches(r, d, e) ==
  /\ \A q \in Ride \ {r} : SameColumns(q)
  /\ \A x \in Driver \ {d} : NotAsked(x)
  /\ \A x \in Driver \ {e} : NotEngaged(x)

LEMMA AcceptEffect ==
  ASSUME Core, NEW r \in Ride, NEW d \in Driver, status[r] = "searching", lease[r] = d,
         ~Serves(d), CommitAccept(r, d)
  PROVE  Core' /\ Touches(r, None, d)
<1> USE NoneAssumption DEF Core, TypeOK
<1>1. TypeOK'
  BY DEF CommitAccept, ClearLease, Consumed, ClosedOffers, Active, RideStatus, OfferStatus, Availability
<1>2. Agreement'
  BY DEF CommitAccept, Consumed, ClosedOffers, ClearLease,
         Agreement, ColumnsMatchStatus, LeaseMatchesOffer, AssignedByAcceptance, Active
<1>3. OneRidePerDriver'
  BY DEF CommitAccept, OneRidePerDriver, Serves
<1>4. OneLiveOfferPerDriver'
  BY DEF CommitAccept, OneLiveOfferPerDriver, LiveLease, ClearLease
<1>5. \A q \in Ride \ {r} : SameColumns(q)
  BY DEF CommitAccept, ClearLease, SameColumns
<1>6. \A x \in Driver : NotAsked(x)
  BY DEF CommitAccept, ClearLease, Consumed, ClosedOffers, NotAsked, Agreement, LeaseMatchesOffer
<1>7. \A x \in Driver \ {d} : NotEngaged(x)
  BY DEF CommitAccept, NotEngaged, Serves
<1> QED
  BY <1>1, <1>2, <1>3, <1>4, <1>5, <1>6, <1>7 DEF Touches


LEMMA OfferEffect ==
  ASSUME Core, NEW s \in Session, NEW r \in Ride, NEW d \in Driver, txn[s] \in Txn, txn[s].ride = r,
         Over(txn[s]) => lease[r] \in Driver,
         txn[s].seen => /\ status[r] = "searching" /\ (lease[r] = None \/ Over(txn[s]))
                        /\ offer[r][d] = "none"
                        /\ \A q \in Ride \ {r} : lease[q] = d => expired[q],
         CommitOffer(s, r, d)
  PROVE  /\ Core' /\ Touches(r, d, None)
         /\ ~txn[s].seen /\ ~Over(txn[s]) => SameColumns(r)
         /\ ~txn[s].seen => NotAsked(d)
<1> DEFINE seen == txn[s].seen
           over == Over(txn[s])
<1>1. /\ seen \in BOOLEAN /\ over \in BOOLEAN
      /\ over => lease[r] \in Driver
      /\ seen => /\ status[r] = "searching" /\ (lease[r] = None \/ over)
                 /\ offer[r][d] = "none"
                 /\ \A q \in Ride \ {r} : lease[q] = d => expired[q]
      /\ lease' = [lease EXCEPT ![r] = IF seen THEN d ELSE IF over THEN None ELSE @]
      /\ expired' = [expired EXCEPT ![r] = @ /\ ~seen /\ ~over]
      /\ UNCHANGED <<status, assigned, avail, online, fresh, standing>>
      /\ \A q \in Ride \ {r} : offer'[q] = offer[q]
      /\ \A e \in Driver : offer'[r][e] = IF seen /\ e = d THEN "offered"
                                          ELSE IF over /\ e = lease[r] THEN "timed_out" ELSE offer[r][e]
      /\ offer' \in [Ride -> [Driver -> OfferStatus]]
  BY SMTT(30) DEF CommitOffer, Core, TypeOK, Txn, OfferStatus, driverVars, Over
<1> HIDE DEF seen, over
<1> USE NoneAssumption, <1>1 DEF Core, TypeOK
<1>2. TypeOK'
  OBVIOUS
<1>3. Agreement'
  <2>1. /\ lease'[r] = IF seen THEN d ELSE IF over THEN None ELSE lease[r]
        /\ expired'[r] = (expired[r] /\ ~seen /\ ~over)
        /\ lease[r] \in Driver => status[r] = "searching"
        /\ \A q \in Ride \ {r} : lease'[q] = lease[q] /\ expired'[q] = expired[q]
    BY DEF Agreement, ColumnsMatchStatus
  <2>2. ColumnsMatchStatus'
    BY <2>1 DEF Agreement, ColumnsMatchStatus
  <2>3. LeaseMatchesOffer'
    BY <2>1 DEF Agreement, LeaseMatchesOffer
  <2>4. AssignedByAcceptance'
    BY SMTT(30), <2>1 DEF Agreement, ColumnsMatchStatus, LeaseMatchesOffer, AssignedByAcceptance
  <2> QED
    BY <2>2, <2>3, <2>4 DEF Agreement
<1>4. OneRidePerDriver'
  BY DEF OneRidePerDriver
<1>5. OneLiveOfferPerDriver'
  BY DEF OneLiveOfferPerDriver, LiveLease
<1>6. \A q \in Ride \ {r} : SameColumns(q)
  BY DEF SameColumns
<1>7. \A x \in Driver \ {d} : NotAsked(x)
  BY DEF NotAsked, Agreement, LeaseMatchesOffer
<1>8. \A x \in Driver : NotEngaged(x)
  BY DEF NotEngaged, Serves
<1>9. ~seen => NotAsked(d) /\ (~over => SameColumns(r))
  BY DEF NotAsked, SameColumns, Agreement, LeaseMatchesOffer
<1> QED
  BY <1>2, <1>3, <1>4, <1>5, <1>6, <1>7, <1>8, <1>9 DEF Touches, seen, over

LEMMA RefusalEffect ==
  ASSUME Core, NEW s \in Session, NEW r \in Ride, status[r] = "searching", lease[r] \in Driver,
         CommitFinish(s, r)
  PROVE  Core' /\ Touches(r, None, None)
<1> USE NoneAssumption DEF Core, TypeOK, CommitFinish, ClearLease, driverVars
<1>1. TypeOK'
  BY DEF OfferStatus
<1>2. Agreement'
  BY DEF Agreement, ColumnsMatchStatus, LeaseMatchesOffer, AssignedByAcceptance, Active
<1>3. OneRidePerDriver' /\ OneLiveOfferPerDriver'
  BY DEF OneRidePerDriver, OneLiveOfferPerDriver, LiveLease
<1>4. \A q \in Ride \ {r} : SameColumns(q)
  BY DEF SameColumns
<1>5. \A x \in Driver : NotAsked(x) /\ NotEngaged(x)
  <2>1. offer[r][lease[r]] = "offered"
    BY DEF Agreement, LeaseMatchesOffer
  <2>2. \A x \in Driver : NotAsked(x)
    BY <2>1 DEF NotAsked
  <2> QED
    BY <2>2 DEF NotEngaged, Serves
<1> QED
  BY <1>1, <1>2, <1>3, <1>4, <1>5 DEF Touches

\* A ride ends or moves on; nobody is asked or engaged.
LEMMA MovedEffect ==
  ASSUME Core, NEW r \in Ride, NEW next \in Active \cup {"cancelled", "completed"},
         \/ next = "cancelled" /\ status[r] \in Cancellable
         \/ next # "cancelled" /\ status[r] \in Active,
         status' = [status EXCEPT ![r] = next], UNCHANGED assigned,
         ClearLease(r) \/ (status[r] \in Active /\ UNCHANGED <<lease, expired>>),
         offer' = ClosedOffers(r, {}),
         avail' \in [Driver -> Availability], UNCHANGED <<online, fresh, standing>>
  PROVE  Core' /\ Touches(r, None, None)
<1> USE NoneAssumption DEF Core, TypeOK
<1>1. lease' \in [Ride -> Driver \cup {None}] /\ expired' \in [Ride -> BOOLEAN]
  BY DEF ClearLease
<1>2. /\ \A q \in Ride \ {r} : lease'[q] = lease[q] /\ expired'[q] = expired[q]
      /\ lease'[r] = None /\ expired'[r] = FALSE
  BY DEF ClearLease, Agreement, ColumnsMatchStatus, Cancellable, Active
<1>3. /\ offer' \in [Ride -> [Driver -> OfferStatus]]
      /\ \A q \in Ride \ {r} : offer'[q] = offer[q]
      /\ \A d \in Driver : offer'[r][d] = IF offer[r][d] = "offered" THEN "cancelled" ELSE offer[r][d]
  BY DEF ClosedOffers, OfferStatus
<1>4. TypeOK'
  BY <1>1, <1>3 DEF Active, RideStatus
<1>5. Agreement'
  <2>1. ColumnsMatchStatus'
    BY <1>2 DEF Agreement, ColumnsMatchStatus, Active, Cancellable
  <2>2. LeaseMatchesOffer'
    BY <1>2, <1>3 DEF Agreement, LeaseMatchesOffer
  <2>3. \A q \in Ride, d \in Driver : offer'[q][d] = "accepted" <=> offer[q][d] = "accepted"
    BY <1>3
  <2>4. AssignedByAcceptance'
    BY <2>3 DEF Agreement, AssignedByAcceptance
  <2> QED
    BY <2>1, <2>2, <2>4 DEF Agreement
<1>6. \A q \in Ride : assigned[q] # None /\ status'[q] \in Active => status[q] \in Active
  BY DEF Active, Cancellable
<1>7. OneRidePerDriver' /\ OneLiveOfferPerDriver'
  <2>1. OneRidePerDriver'
    BY <1>6 DEF OneRidePerDriver
  <2>2. OneLiveOfferPerDriver'
    BY <1>2 DEF OneLiveOfferPerDriver, LiveLease
  <2> QED
    BY <2>1, <2>2
<1>8. \A q \in Ride \ {r} : SameColumns(q)
  BY <1>2 DEF SameColumns
<1>9. \A x \in Driver : NotAsked(x)
  BY SMTT(30), <1>2, <1>3 DEF NotAsked
<1>10. \A x \in Driver : NotEngaged(x)
  BY <1>6 DEF NotEngaged, Serves
<1> QED
  BY <1>4, <1>5, <1>7, <1>8, <1>9, <1>10 DEF Touches

\* Writers of a driver's row leave the rides alone.
LEMMA DriverEffect ==
  ASSUME Core, UNCHANGED rideVars, avail' \in [Driver -> Availability],
         online' \in [Driver -> BOOLEAN], UNCHANGED <<fresh, standing>>
  PROVE  Core' /\ \A r \in Ride : Touches(r, None, None) /\ SameColumns(r)
<1> USE DEF Core, rideVars
<1>1. TypeOK'
  BY DEF TypeOK
<1>2. Agreement' /\ OneRidePerDriver' /\ OneLiveOfferPerDriver'
  BY DEF Agreement, ColumnsMatchStatus, LeaseMatchesOffer, AssignedByAcceptance,
     OneRidePerDriver, OneLiveOfferPerDriver, LiveLease
<1> QED
  BY <1>1, <1>2 DEF Touches, SameColumns, NotAsked, NotEngaged, Serves


-----------------------------------------------------------------------------
(* What an open transaction knows. *)

\* Two sessions hold locks of one row in modes that do not conflict.
Exclusive ==
  \A s, q \in Session : s # q =>
    \A l \in locks[s], m \in locks[q] : l[1] = m[1] => {l[2], m[2]} \notin Conflict

HoldsRide(s, r) == <<<<"ride", r>>, "update">> \in locks[s]
HoldsActive(s, d) == <<<<"active", d>>, "update">> \in locks[s]
KeepsDriver(s, d) == <<<<"driver", d>>, "update">> \in locks[s]
HoldsDriver(s, d) == \E m \in {"no_key_update", "update"} : <<<<"driver", d>>, m>> \in locks[s]

\* A lease that was over at NOW() is over still.
WellFormed(x) ==
  /\ x.kind \in Kind \ OnDriver => x.ride \in Ride
  /\ x.kind \in {"accept", "offer", "reject", "time_out", "progress", "pin"} \cup OnDriver
       => x.driver \in Driver
  /\ \A r \in x.over : expired[r]

\* The ride is leased to the driver, who has no other ride.
AcceptKnows(s, x) ==
  x.kind = "accept" =>
    /\ x.at \in {"active", "attempt", "key", "driver", "commit"}
         => HoldsRide(s, x.ride) /\ status[x.ride] = "searching" /\ lease[x.ride] = x.driver
    /\ x.at \in {"attempt", "key", "driver", "commit"}
         => HoldsActive(s, x.driver) /\ ~Serves(x.driver)

\* The driver was not asked about the ride and holds no live offer.
OfferKnows(s, x) ==
  x.kind = "offer" =>
    /\ x.at \in {"attempt", "clear", "lease", "commit"} => KeepsDriver(s, x.driver)
    /\ x.at \in {"lease", "commit"} /\ Over(x) => HoldsRide(s, x.ride)
    /\ x.at \in {"lease", "commit"} /\ x.seen =>
         /\ offer[x.ride][x.driver] = "none"
         /\ \A r \in Ride \ {x.ride} : lease[r] = x.driver => expired[r]
    /\ x.at = "commit" /\ x.seen =>
         HoldsRide(s, x.ride) /\ status[x.ride] = "searching" /\ (lease[x.ride] = None \/ Over(x))

RefusalKnows(s, x) ==
  /\ x.kind \in {"reject", "time_out"} /\ x.at \in {"attempt", "commit"} =>
       HoldsRide(s, x.ride) /\ status[x.ride] = "searching" /\ lease[x.ride] = x.driver
  /\ x.kind = "reconcile" /\ x.at \in {"attempt", "commit"} => HoldsRide(s, x.ride)
  /\ x.kind = "reconcile" /\ x.at = "commit" => status[x.ride] = "searching" /\ Over(x)

\* The ride stands where it may end, and its driver is the one read.
EndKnows(s, x) ==
  /\ x.kind \in {"cancel", "complete"} /\ x.at \in {"attempt", "release", "driver", "commit"} =>
       /\ HoldsRide(s, x.ride) /\ assigned[x.ride] = x.driver
       /\ x.kind = "cancel" => status[x.ride] \in Cancellable
       /\ x.kind = "complete" => status[x.ride] = "in_progress"
       /\ x.at = "driver" => x.driver # None
  /\ x.kind \in {"progress", "pin", "fail"} /\ x.at = "commit" => HoldsRide(s, x.ride)
  /\ x.kind = "fail" /\ x.at = "commit" => Unleased(x.ride)

Knows(s, x) ==
  WellFormed(x) /\ AcceptKnows(s, x) /\ OfferKnows(s, x) /\ RefusalKnows(s, x) /\ EndKnows(s, x)

TxnInv == TxnTypeOK /\ Core /\ Exclusive /\ \A s \in Session : Knows(s, txn[s])

LEMMA HeldAlone ==
  ASSUME Exclusive, NEW s \in Session, NEW q \in Session, s # q
  PROVE  /\ \A r \in Ride : HoldsRide(s, r) => ~HoldsRide(q, r)
         /\ \A d \in Driver : HoldsActive(s, d) => ~HoldsActive(q, d)
         /\ \A d \in Driver : KeepsDriver(s, d) => ~KeepsDriver(q, d)
         /\ \A d \in Driver : HoldsDriver(s, d) => ~HoldsDriver(q, d)
<1>1. \A m, n \in {"no_key_update", "update"} : {m, n} \in Conflict
  BY DEF Conflict
<1>2. ASSUME NEW row, NEW m \in {"no_key_update", "update"}, NEW n \in {"no_key_update", "update"},
             <<row, m>> \in locks[s], <<row, n>> \in locks[q]
      PROVE  FALSE
  BY <1>1, <1>2 DEF Exclusive
<1> QED
  BY <1>2 DEF HoldsRide, HoldsActive, KeepsDriver, HoldsDriver

-----------------------------------------------------------------------------
(* Nobody changes what another session knows. *)

\* What a step of anybody else leaves to the transaction of q.
Undisturbed(q) ==
  /\ locks'[q] = locks[q]
  /\ txn'[q] = [txn[q] EXCEPT !.over = {r \in @ : expired'[r]}]
  /\ \A r \in Ride : HoldsRide(q, r) =>
       /\ status'[r] = status[r] /\ assigned'[r] = assigned[r] /\ lease'[r] = lease[r]
       /\ expired[r] => expired'[r]
  /\ \A d \in Driver : (KeepsDriver(q, d) => NotAsked(d)) /\ (HoldsActive(q, d) => NotEngaged(d))

LEMMA StillKnows ==
  ASSUME TxnTypeOK, NEW q \in Session, Knows(q, txn[q]), Undisturbed(q)
  PROVE  Knows(q, txn[q])'
<1> DEFINE x == txn[q]
<1>1. /\ x'.kind = x.kind /\ x'.ride = x.ride /\ x'.driver = x.driver /\ x'.at = x.at /\ x'.seen = x.seen
      /\ x'.over = {r \in x.over : expired'[r]}
      /\ x \in Txn
  BY DEF TxnTypeOK, Txn, Undisturbed
<1>2. /\ \A r \in Ride : HoldsRide(q, r)' <=> HoldsRide(q, r)
      /\ \A d \in Driver : HoldsActive(q, d)' <=> HoldsActive(q, d)
      /\ \A d \in Driver : KeepsDriver(q, d)' <=> KeepsDriver(q, d)
  BY DEF Undisturbed, HoldsRide, HoldsActive, KeepsDriver
<1>3. WellFormed(x)
  BY DEF Knows
<1>4. /\ Over(x)' => Over(x)
      /\ x.ride \in Ride /\ HoldsRide(q, x.ride) => (Over(x) => Over(x)')
  BY <1>1, <1>3 DEF Over, WellFormed, Undisturbed
<1>5. /\ x.ride \in Ride /\ HoldsRide(q, x.ride) =>
           /\ status'[x.ride] = status[x.ride] /\ assigned'[x.ride] = assigned[x.ride]
           /\ lease'[x.ride] = lease[x.ride]
      /\ x.driver \in Driver /\ KeepsDriver(q, x.driver) => NotAsked(x.driver)
      /\ x.driver \in Driver /\ HoldsActive(q, x.driver) => NotEngaged(x.driver)
  BY DEF Undisturbed
<1> HIDE DEF x
<1>6. WellFormed(x)'
  BY <1>1, <1>3 DEF WellFormed
<1>7. AcceptKnows(q, x)'
  <2>1. CASE x.kind = "accept"
    <3>1. x.ride \in Ride /\ x.driver \in Driver
      BY <1>3, <2>1 DEF WellFormed, Kind, OnDriver
    <3>2. AcceptKnows(q, x)
      BY DEF Knows, x
    <3> QED
      BY <1>1, <1>2, <1>5, <2>1, <3>1, <3>2 DEF AcceptKnows, NotEngaged
  <2> QED
    BY <1>1, <2>1 DEF AcceptKnows
<1>8. OfferKnows(q, x)'
  <2>1. CASE x.kind = "offer"
    <3>1. x.ride \in Ride /\ x.driver \in Driver
      BY <1>3, <2>1 DEF WellFormed, Kind, OnDriver
    <3>2. OfferKnows(q, x)
      BY DEF Knows, x
    <3> QED
      BY <1>1, <1>2, <1>4, <1>5, <2>1, <3>1, <3>2 DEF OfferKnows, NotAsked
  <2> QED
    BY <1>1, <2>1 DEF OfferKnows
<1>9. RefusalKnows(q, x)'
  <2>1. CASE x.kind \in {"reject", "time_out", "reconcile"}
    <3>1. x.ride \in Ride
      BY <1>3, <2>1 DEF WellFormed, Kind, OnDriver
    <3>2. RefusalKnows(q, x)
      BY DEF Knows, x
    <3> QED
      BY <1>1, <1>2, <1>4, <1>5, <3>1, <3>2 DEF RefusalKnows
  <2> QED
    BY <1>1, <2>1 DEF RefusalKnows
<1>10. EndKnows(q, x)'
  <2>1. CASE x.kind \in {"cancel", "complete", "progress", "pin", "fail"}
    <3>1. x.ride \in Ride
      BY <1>3, <2>1 DEF WellFormed, Kind, OnDriver
    <3>2. EndKnows(q, x)
      BY DEF Knows, x
    <3> QED
      BY <1>1, <1>2, <1>5, <3>1, <3>2 DEF EndKnows, Unleased
  <2> QED
    BY <1>1, <2>1 DEF EndKnows
<1> QED
  BY <1>6, <1>7, <1>8, <1>9, <1>10 DEF Knows, x

\* What a session changes, it has locked.
OwnRows(s) ==
  /\ \A r \in Ride : ~HoldsRide(s, r) => SameColumns(r)
  /\ \A d \in Driver : (~KeepsDriver(s, d) => NotAsked(d)) /\ (~HoldsActive(s, d) => NotEngaged(d))

Moves(s, next) == Locked(s, next) \/ Passed(s, next)

LEMMA SameOver ==
  ASSUME TxnTypeOK, NEW q \in Session, Knows(q, txn[q]), \A r \in Ride : expired[r] => expired'[r]
  PROVE  txn[q] = [txn[q] EXCEPT !.over = {r \in @ : expired'[r]}]
<1>1. txn[q] \in Txn /\ txn[q].over \subseteq Ride
  BY DEF TxnTypeOK, Txn
<1>2. txn[q].over = {r \in txn[q].over : expired'[r]}
  BY <1>1 DEF Knows, WellFormed
<1> QED
  BY <1>1, <1>2 DEF Txn

LEMMA MoveAside ==
  ASSUME TxnInv, NEW s \in Session, NEW q \in Session, s # q, NEW next, Moves(s, next)
  PROVE  Undisturbed(q)
<1>1. UNCHANGED vars /\ txn'[q] = txn[q] /\ locks'[q] = locks[q]
  BY DEF Moves, Locked, Passed, TxnInv, TxnTypeOK
<1>2. txn[q] = [txn[q] EXCEPT !.over = {r \in @ : expired'[r]}]
  BY <1>1, SameOver DEF TxnInv, vars
<1> QED
  BY <1>1, <1>2 DEF Undisturbed, NotAsked, NotEngaged, Serves, vars

LEMMA CloseAside ==
  ASSUME TxnInv, NEW s \in Session, NEW q \in Session, s # q, OwnRows(s), Closed(s)
  PROVE  Undisturbed(q)
<1>1. /\ txn'[q] = [txn[q] EXCEPT !.over = {r \in @ : expired'[r]}]
      /\ locks'[q] = locks[q]
  BY DEF Closed, TxnInv, TxnTypeOK
<1> QED
  BY <1>1, HeldAlone DEF Undisturbed, OwnRows, SameColumns, TxnInv

LEMMA TimeAside ==
  ASSUME TxnInv, NEW q \in Session, Passing
  PROVE  Undisturbed(q)
<1>1. PICK r \in Ride : LeaseExpires(r)
  BY DEF Passing
<1>2. \A p \in Ride : expired[p] => expired'[p]
  BY <1>1 DEF LeaseExpires, TxnInv, Core, TypeOK
<1>3. txn[q] = [txn[q] EXCEPT !.over = {p \in @ : expired'[p]}]
  BY <1>2, SameOver DEF TxnInv
<1> QED
  BY <1>1, <1>2, <1>3 DEF Undisturbed, Passing, LeaseExpires, NotAsked, NotEngaged, Serves

\* A commit keeps the tables in agreement and touches only what its transaction has locked.
LEMMA CommitEffect ==
  ASSUME TxnInv, NEW s \in Session, Commit(s)
  PROVE  Core' /\ OwnRows(s)
<1> DEFINE x == txn[s]
           r == txn[s].ride
           d == txn[s].driver
<1>1. x \in Txn /\ x.at = "commit" /\ Core /\ Knows(s, x) /\ None \notin Driver
  BY NoneAssumption DEF TxnInv, TxnTypeOK, Commit
<1> USE DEF Knows
<1>2. x.kind \in Kind \ OnDriver => r \in Ride
  BY <1>1 DEF WellFormed
<1>3. x.kind \in {"accept", "offer"} => d \in Driver
  BY <1>1 DEF WellFormed
<1>4. CASE x.kind = "accept" /\ CommitAccept(r, d)
  <2>1. r \in Ride /\ d \in Driver
    BY <1>2, <1>3, <1>4 DEF Kind, OnDriver
  <2>2. /\ HoldsRide(s, r) /\ status[r] = "searching" /\ lease[r] = d
        /\ HoldsActive(s, d) /\ ~Serves(d)
    BY <1>1, <1>4 DEF AcceptKnows
  <2>3. Core' /\ Touches(r, None, d)
    BY <1>1, <1>4, <2>1, <2>2, AcceptEffect
  <2> QED
    BY <1>1, <2>2, <2>3 DEF Touches, OwnRows
<1>5. CASE x.kind = "offer" /\ CommitOffer(s, r, d)
  <2>1. r \in Ride /\ d \in Driver
    BY <1>2, <1>3, <1>5 DEF Kind, OnDriver
  <2>2. /\ KeepsDriver(s, d)
        /\ Over(x) => HoldsRide(s, r)
        /\ x.seen => /\ HoldsRide(s, r) /\ status[r] = "searching" /\ (lease[r] = None \/ Over(x))
                     /\ offer[r][d] = "none"
                     /\ \A q \in Ride \ {r} : lease[q] = d => expired[q]
    BY <1>1, <1>5 DEF OfferKnows
  <2>3. Over(x) => lease[r] \in Driver
    BY <1>1, <2>1 DEF Over, WellFormed, Core, Agreement, ColumnsMatchStatus, TypeOK
  <2>4. /\ Core' /\ Touches(r, d, None)
        /\ ~x.seen /\ ~Over(x) => SameColumns(r)
        /\ ~x.seen => NotAsked(d)
    BY <1>1, <1>5, <2>1, <2>2, <2>3, OfferEffect
  <2> QED
    BY <1>1, <2>2, <2>4 DEF Touches, OwnRows
<1>6. CASE x.kind \in {"reject", "time_out", "reconcile"} /\ CommitFinish(s, r)
  <2>1. r \in Ride
    BY <1>2, <1>6 DEF Kind, OnDriver
  <2>2. HoldsRide(s, r) /\ status[r] = "searching"
    BY <1>1, <1>6 DEF RefusalKnows
  <2>3. lease[r] \in Driver
    <3>1. CASE x.kind = "reconcile"
      BY <1>1, <2>1, <3>1 DEF RefusalKnows, Over, WellFormed, Core, Agreement, ColumnsMatchStatus, TypeOK
    <3>2. CASE x.kind # "reconcile"
      BY <1>1, <1>6, <3>2 DEF RefusalKnows, WellFormed
    <3> QED
      BY <3>1, <3>2
  <2>4. Core' /\ Touches(r, None, None)
    BY <1>1, <2>1, <2>2, <2>3, <1>6, RefusalEffect
  <2> QED
    BY <1>1, <2>2, <2>4 DEF Touches, OwnRows
<1>7. ASSUME r \in Ride, HoldsRide(s, r), Core', Touches(r, None, None) PROVE Core' /\ OwnRows(s)
  BY <1>1, <1>7 DEF Touches, OwnRows
<1>8. CASE x.kind \in {"cancel", "fail"} /\ CommitEnd(s, r, "cancelled")
  <2>1. r \in Ride /\ HoldsRide(s, r) /\ status[r] \in Cancellable
    BY <1>1, <1>2, <1>8 DEF EndKnows, Kind, OnDriver, Unleased, Cancellable
  <2>2. avail' \in [Driver -> Availability]
    BY <1>1, <1>8 DEF CommitEnd, ReleasedTo, Core, TypeOK, Availability
  <2>3. Core' /\ Touches(r, None, None)
    BY <1>1, <1>8, <2>1, <2>2, MovedEffect DEF CommitEnd
  <2> QED
    BY <1>7, <2>1, <2>3
<1>9. CASE x.kind = "complete" /\ CommitEnd(s, r, "completed")
  <2>1. r \in Ride /\ HoldsRide(s, r) /\ status[r] \in Active
    BY <1>1, <1>2, <1>9 DEF EndKnows, Kind, OnDriver, Active
  <2>2. avail' \in [Driver -> Availability]
    BY <1>1, <1>9 DEF CommitEnd, ReleasedTo, Core, TypeOK, Availability
  <2>3. Core' /\ Touches(r, None, None)
    BY <1>1, <1>9, <2>1, <2>2, MovedEffect DEF CommitEnd
  <2> QED
    BY <1>7, <2>1, <2>3
<1>10. CASE (x.kind = "progress" /\ \E p \in Active : Transition(r, p)) \/ (x.kind = "pin" /\ StartTrip(r))
  <2>1. r \in Ride /\ HoldsRide(s, r)
    BY <1>1, <1>2, <1>10 DEF EndKnows, Kind, OnDriver
  <2>2. PICK p \in Active : /\ status[r] \in Active /\ status' = [status EXCEPT ![r] = p]
                            /\ offer' = ClosedOffers(r, {})
                            /\ UNCHANGED <<assigned, lease, expired, avail, online, fresh, standing>>
    BY <1>10 DEF Transition, StartTrip, ProgressEdge, Active, driverVars
  <2>3. Core' /\ Touches(r, None, None)
    BY <1>1, <2>1, <2>2, MovedEffect DEF Core, TypeOK, Active
  <2> QED
    BY <1>7, <2>1, <2>3
<1>11. ASSUME UNCHANGED rideVars, avail' \in [Driver -> Availability],
              online' \in [Driver -> BOOLEAN], UNCHANGED <<fresh, standing>>
       PROVE  Core' /\ OwnRows(s)
  BY <1>1, <1>11, DriverEffect DEF OwnRows, Touches, NotAsked, NotEngaged, Serves, SameColumns, rideVars
<1>12. CASE x.kind = "pin" /\ UNCHANGED vars
  BY <1>1, <1>11, <1>12 DEF vars, rideVars, Core, TypeOK
<1>13. CASE x.kind \in OnDriver /\ (CommitOnline(d) \/ GoOffline(d) \/ CommitFix(s, d) \/ CommitLost(d))
  BY <1>1, <1>11, <1>13
  DEF CommitOnline, GoOffline, CommitFix, CommitLost, Core, TypeOK, Availability
<1> QED
  BY <1>4, <1>5, <1>6, <1>8, <1>9, <1>10, <1>12, <1>13 DEF Commit, OnDriver

-----------------------------------------------------------------------------
(* Every statement learns what the next one relies on. *)

Advances(s) ==
  \E next \in Txn : Moves(s, next) /\ locks' \in [Session -> SUBSET (Row \X Mode)] /\ Knows(s, next)'

LEMMA Advance ==
  ASSUME TxnInv, NEW s \in Session, NEW next \in Txn,
         Passed(s, next) \/ (Locked(s, next) /\ Wanted(txn[s]) \in Row \X Mode),
         WellFormed(next), AcceptKnows(s, next)', OfferKnows(s, next)',
         RefusalKnows(s, next)', EndKnows(s, next)'
  PROVE  Advances(s)
<1>1. locks' \in [Session -> SUBSET (Row \X Mode)]
  BY DEF Moves, Locked, Passed, TxnInv, TxnTypeOK
<1>2. UNCHANGED vars
  BY DEF Moves, Locked, Passed
<1>3. WellFormed(next)'
  BY <1>2 DEF WellFormed, vars
<1>4. Knows(s, next)'
  BY <1>3 DEF Knows
<1>5. Moves(s, next)
  BY DEF Moves
<1> QED
  BY <1>1, <1>4, <1>5 DEF Advances

\* What is held stays held, and the wanted row is added.
LEMMA LocksGrow ==
  ASSUME TxnInv, NEW s \in Session, NEW next, Moves(s, next)
  PROVE  /\ locks[s] \subseteq locks'[s]
         /\ Locked(s, next) => Wanted(txn[s]) \in locks'[s]
         /\ UNCHANGED vars
  BY DEF Moves, Locked, Passed, TxnInv, TxnTypeOK

LEMMA RowModes ==
  /\ \A r \in Ride : <<<<"ride", r>>, "update">> \in Row \X Mode
  /\ \A r \in Ride, d \in Driver : <<<<"attempt", r, d>>, "no_key_update">> \in Row \X Mode
  /\ \A d \in Driver : <<<<"active", d>>, "update">> \in Row \X Mode
  /\ \A d \in Driver, m \in Mode : <<<<"driver", d>>, m>> \in Row \X Mode
  BY DEF Row, Mode

LEMMA BeginStep ==
  ASSUME TxnInv, NEW s \in Session, NEW k \in Kind, NEW r \in Ride \cup {None},
         NEW d \in Driver \cup {None}, Begin(s, k, r, d)
  PROVE  Advances(s)
<1> PICK next : next = [kind |-> k, ride |-> r, driver |-> d, at |-> First(k),
                        seen |-> SeesAtStart(k, r, d), over |-> {q \in Ride : expired[q]}]
  OBVIOUS
<1>1. /\ Passed(s, next)
      /\ (r = None) = (k \in OnDriver)
      /\ d = None => k \in {"reconcile", "cancel", "fail"}
  BY DEF Begin
<1>2. /\ next.at \in {"asked", "driver", "ride"}
      /\ next.at = "driver" => k \in {"offer", "pin"} \cup OnDriver
  BY DEF First, Kind, OnDriver
<1>3. next.seen \in BOOLEAN
  BY DEF SeesAtStart
<1>4. next \in Txn
  BY <1>2, <1>3 DEF Txn, Statement
<1>5. WellFormed(next)
  BY <1>1, NoneAssumption DEF WellFormed, Kind, OnDriver
<1>6. next.kind = k
  OBVIOUS
<1>7. AcceptKnows(s, next)' /\ OfferKnows(s, next)' /\ RefusalKnows(s, next)' /\ EndKnows(s, next)'
  BY <1>2, <1>6 DEF AcceptKnows, OfferKnows, RefusalKnows, EndKnows, OnDriver
<1> QED
  BY <1>1, <1>4, <1>5, <1>7, Advance

LEMMA ToFields ==
  ASSUME TxnInv, NEW s \in Session, NEW place \in Statement, NEW next, next = To(s, place)
  PROVE  /\ next \in Txn /\ WellFormed(next)
         /\ next.kind = txn[s].kind /\ next.ride = txn[s].ride /\ next.driver = txn[s].driver
         /\ next.at = place /\ next.seen = txn[s].seen /\ next.over = txn[s].over
<1>1. txn[s] \in Txn /\ WellFormed(txn[s])
  BY DEF TxnInv, TxnTypeOK, Knows
<1> QED
  BY <1>1 DEF Txn, To, WellFormed

LEMMA AcceptStep ==
  ASSUME TxnInv, NEW s \in Session, AcceptStatement(s)
  PROVE  RollsBack(s) \/ Advances(s)
<1> PICK x : x = txn[s]
  OBVIOUS
<1> DEFINE r == x.ride
           d == x.driver
<1>1. x \in Txn /\ x.kind = "accept" /\ AcceptKnows(s, x)
  BY DEF AcceptStatement, TxnInv, TxnTypeOK, Knows
<1>2. r \in Ride /\ d \in Driver
  BY <1>1 DEF TxnInv, Knows, WellFormed, Kind, OnDriver
<1>3. ASSUME NEW place \in {"active", "attempt", "key", "driver", "commit"},
             NEW next, next = To(s, place), Locked(s, next), Wanted(x) \in Row \X Mode,
             AcceptKnows(s, next)'
      PROVE  Advances(s)
  <2>1. /\ next \in Txn /\ WellFormed(next) /\ next.kind = "accept"
    BY <1>1, <1>3, ToFields DEF Statement
  <2>2. OfferKnows(s, next)' /\ RefusalKnows(s, next)' /\ EndKnows(s, next)'
    BY <2>1 DEF OfferKnows, RefusalKnows, EndKnows
  <2> QED
    BY <1>3, <2>1, <2>2, Advance
<1>4. CASE x.at = "ride" /\ StillOffered(x) /\ Locked(s, To(s, "active"))
  <2> PICK next : next = To(s, "active")
    OBVIOUS
  <2>1. Wanted(x) = <<<<"ride", r>>, "update">>
    BY <1>4 DEF Wanted
  <2>2. next.kind = "accept" /\ next.ride = r /\ next.driver = d /\ next.at = "active"
    BY <1>1, ToFields DEF Statement
  <2>3. HoldsRide(s, r)' /\ UNCHANGED vars
    BY <1>4, <2>1, LocksGrow DEF Moves, HoldsRide
  <2>4. AcceptKnows(s, next)'
    BY <1>4, <2>2, <2>3 DEF AcceptKnows, StillOffered, HoldsRide, vars
  <2> QED
    BY <1>2, <1>3, <1>4, <2>1, <2>4, RowModes
<1>5. CASE x.at = "active" /\ ~Serves(d) /\ Locked(s, To(s, "attempt"))
  <2> PICK next : next = To(s, "attempt")
    OBVIOUS
  <2>1. Wanted(x) = <<<<"active", d>>, "update">>
    BY <1>5 DEF Wanted
  <2>2. next.kind = "accept" /\ next.ride = r /\ next.driver = d /\ next.at = "attempt"
    BY <1>1, ToFields DEF Statement
  <2>3. HoldsActive(s, d)' /\ UNCHANGED vars /\ locks[s] \subseteq locks'[s]
    BY <1>5, <2>1, LocksGrow DEF Moves, HoldsActive
  <2>4. AcceptKnows(s, next)'
    BY <1>1, <1>5, <2>2, <2>3 DEF AcceptKnows, HoldsRide, HoldsActive, Serves, vars
  <2> QED
    BY <1>2, <1>3, <1>5, <2>1, <2>4, RowModes
<1>6. ASSUME NEW place \in {"key", "driver", "commit"}, x.at \in {"attempt", "key", "driver"},
             Locked(s, To(s, place))
      PROVE  Advances(s)
  <2> PICK next : next = To(s, place)
    OBVIOUS
  <2>1. Wanted(x) \in Row \X Mode
    <3>1. x.at = "attempt" => Wanted(x) = <<<<"attempt", r, d>>, "no_key_update">>
      BY <1>1 DEF Wanted
    <3>2. x.at = "key" => Wanted(x) = <<<<"driver", d>>, "key_share">>
      BY <1>1 DEF Wanted
    <3>3. x.at = "driver" => Wanted(x) = <<<<"driver", d>>, "no_key_update">>
      BY <1>1 DEF Wanted
    <3> QED
      BY <1>2, <1>6, <3>1, <3>2, <3>3, RowModes DEF Mode
  <2>2. next.kind = "accept" /\ next.ride = r /\ next.driver = d /\ next.at = place
    BY <1>1, ToFields DEF Statement
  <2>3. UNCHANGED vars /\ locks[s] \subseteq locks'[s]
    BY <1>6, LocksGrow DEF Moves
  <2>4. AcceptKnows(s, next)'
    BY <1>1, <1>6, <2>2, <2>3 DEF AcceptKnows, HoldsRide, HoldsActive, Serves, vars
  <2> QED
    BY <1>3, <1>6, <2>1, <2>4
<1> QED
  BY <1>4, <1>5, <1>6 DEF AcceptStatement

LEMMA OfferStep ==
  ASSUME TxnInv, NEW s \in Session, OfferStatement(s)
  PROVE  Advances(s)
<1> PICK x : x = txn[s]
  OBVIOUS
<1> DEFINE r == x.ride
           d == x.driver
<1>1. x \in Txn /\ x.kind = "offer" /\ OfferKnows(s, x) /\ WellFormed(x)
  BY DEF OfferStatement, TxnInv, TxnTypeOK, Knows
<1>2. r \in Ride /\ d \in Driver
  BY <1>1 DEF WellFormed, Kind, OnDriver
<1>3. ASSUME NEW place \in {"attempt", "clear", "lease", "commit"}, NEW saw \in BOOLEAN,
             NEW next, next = [To(s, place) EXCEPT !.seen = saw],
             Passed(s, next) \/ (Locked(s, next) /\ Wanted(x) \in Row \X Mode),
             OfferKnows(s, next)'
      PROVE  Advances(s)
  <2>1. next \in Txn /\ WellFormed(next) /\ next.kind = "offer"
    BY <1>1, <1>3 DEF To, Txn, Statement, WellFormed
  <2>2. AcceptKnows(s, next)' /\ RefusalKnows(s, next)' /\ EndKnows(s, next)'
    BY <2>1 DEF AcceptKnows, RefusalKnows, EndKnows
  <2> QED
    BY <1>3, <2>1, <2>2, Advance
<1>4. CASE x.at = "driver" /\ Locked(s, To(s, "attempt"))
  <2> PICK next : next = [To(s, "attempt") EXCEPT !.seen = x.seen]
    OBVIOUS
  <2>1. next = To(s, "attempt") /\ x.seen \in BOOLEAN
    BY <1>1 DEF To, Txn
  <2>2. Wanted(x) = <<<<"driver", d>>, "update">>
    BY <1>1, <1>4 DEF Wanted
  <2>3. KeepsDriver(s, d)'
    BY <1>4, <2>2, LocksGrow DEF Moves, KeepsDriver
  <2>4. OfferKnows(s, next)'
    BY <1>1, <2>1, <2>3 DEF To, Txn, OfferKnows
  <2>5. Wanted(x) \in Row \X Mode
    BY <1>2, <2>2, RowModes DEF Mode
  <2> QED
    BY <1>3, <1>4, <2>1, <2>4, <2>5
<1>5. CASE /\ x.at = "attempt"
           /\ IF Over(x) /\ offer[r][lease[r]] = "offered"
              THEN Locked(s, To(s, "clear")) ELSE Passed(s, To(s, "clear"))
  <2> PICK next : next = [To(s, "clear") EXCEPT !.seen = x.seen]
    OBVIOUS
  <2>1. next = To(s, "clear") /\ x.seen \in BOOLEAN
    BY <1>1 DEF To, Txn
  <2>2. KeepsDriver(s, d)'
    BY <1>1, <1>5, LocksGrow DEF Moves, KeepsDriver, OfferKnows
  <2>3. OfferKnows(s, next)'
    BY <1>1, <2>1, <2>2 DEF To, Txn, OfferKnows
  <2>4. Over(x) => Wanted(x) \in Row \X Mode
    <3>1. Wanted(x) = <<<<"attempt", r, lease[r]>>, "no_key_update">>
      BY <1>1, <1>5 DEF Wanted
    <3>2. Over(x) => lease[r] \in Driver
      BY <1>1, <1>2 DEF Over, WellFormed, TxnInv, Core, Agreement, ColumnsMatchStatus, TypeOK
    <3> QED
      BY <1>2, <3>1, <3>2, RowModes
  <2> QED
    BY <1>3, <1>5, <2>1, <2>3, <2>4
<1>6. CASE /\ x.at = "clear"
           /\ LET next == [To(s, "lease") EXCEPT !.seen = EligibleAt(x) /\ offer[r][d] = "none"]
              IN  IF Over(x) THEN Locked(s, next) ELSE Passed(s, next)
  <2> PICK saw \in BOOLEAN : saw = (EligibleAt(x) /\ offer[r][d] = "none")
    BY DEF EligibleAt
  <2> PICK next : next = [To(s, "lease") EXCEPT !.seen = saw]
    OBVIOUS
  <2>1. /\ next.kind = "offer" /\ next.ride = r /\ next.driver = d /\ next.at = "lease"
        /\ next.seen = saw /\ next.over = x.over
    BY <1>1 DEF To, Txn
  <2>2. IF Over(x) THEN Locked(s, next) ELSE Passed(s, next)
    BY <1>6
  <2>3. Wanted(x) = <<<<"ride", r>>, "update">>
    BY <1>6 DEF Wanted
  <2>4. KeepsDriver(s, d)' /\ (Over(x) => HoldsRide(s, r)') /\ UNCHANGED vars
    BY <1>1, <1>6, <2>2, <2>3, LocksGrow DEF Moves, KeepsDriver, HoldsRide, OfferKnows
  <2>5. saw => \A q \in Ride \ {r} : lease[q] = d => expired[q]
    BY <1>1, <1>2, NoneAssumption
    DEF EligibleAt, WellFormed, TxnInv, Core, Agreement, ColumnsMatchStatus
  <2>6. OfferKnows(s, next)'
    BY <2>1, <2>4, <2>5 DEF OfferKnows, Over, KeepsDriver, HoldsRide, vars
  <2> QED
    BY <1>2, <1>3, <2>2, <2>3, <2>6, RowModes
<1>7. CASE /\ x.at = "lease" /\ Leasable(x) /\ Locked(s, To(s, "commit"))
  <2> PICK next : next = [To(s, "commit") EXCEPT !.seen = x.seen]
    OBVIOUS
  <2>1. /\ next.kind = "offer" /\ next.ride = r /\ next.driver = d /\ next.at = "commit"
        /\ next.seen = x.seen /\ next.over = x.over /\ next = To(s, "commit") /\ x.seen \in BOOLEAN
    BY <1>1 DEF To, Txn
  <2>2. Wanted(x) = <<<<"ride", r>>, "update">>
    BY <1>7 DEF Wanted
  <2>3. KeepsDriver(s, d)' /\ HoldsRide(s, r)' /\ UNCHANGED vars
    BY <1>1, <1>7, <2>2, LocksGrow DEF Moves, KeepsDriver, HoldsRide, OfferKnows
  <2>4. OfferKnows(s, next)'
    BY <1>1, <1>7, <2>1, <2>3 DEF OfferKnows, Over, Leasable, KeepsDriver, HoldsRide, vars
  <2> QED
    BY <1>2, <1>3, <1>7, <2>1, <2>2, <2>4, RowModes
<1>8. CASE x.at = "lease" /\ Passed(s, [To(s, "commit") EXCEPT !.seen = FALSE])
  <2> PICK next : next = [To(s, "commit") EXCEPT !.seen = FALSE]
    OBVIOUS
  <2>1. /\ next.kind = "offer" /\ next.ride = r /\ next.driver = d /\ next.at = "commit"
        /\ next.seen = FALSE /\ next.over = x.over
    BY <1>1 DEF To, Txn
  <2>2. KeepsDriver(s, d)' /\ (Over(x) => HoldsRide(s, r)')
    BY <1>1, <1>8, LocksGrow DEF Moves, KeepsDriver, HoldsRide, OfferKnows
  <2>3. OfferKnows(s, next)'
    BY <2>1, <2>2 DEF OfferKnows, Over
  <2> QED
    BY <1>3, <1>8, <2>3
<1> QED
  BY <1>4, <1>5, <1>6, <1>7, <1>8 DEF OfferStatement

LEMMA RefusalStep ==
  ASSUME TxnInv, NEW s \in Session, FinishStatement(s) \/ ReconcileStatement(s)
  PROVE  RollsBack(s) \/ Advances(s)
<1> PICK x : x = txn[s]
  OBVIOUS
<1> DEFINE r == x.ride
           d == x.driver
<1>1. /\ x \in Txn /\ x.kind \in {"reject", "time_out", "reconcile"}
      /\ RefusalKnows(s, x) /\ WellFormed(x)
  BY DEF FinishStatement, ReconcileStatement, TxnInv, TxnTypeOK, Knows
<1>2. r \in Ride /\ (x.kind # "reconcile" => d \in Driver)
  BY <1>1 DEF WellFormed, Kind, OnDriver
<1>3. ASSUME NEW place \in {"attempt", "commit"}, NEW next, next = To(s, place),
             Locked(s, next), Wanted(x) \in Row \X Mode, RefusalKnows(s, next)'
      PROVE  Advances(s)
  <2>1. next \in Txn /\ WellFormed(next) /\ next.kind = x.kind
    BY <1>1, <1>3, ToFields DEF Statement
  <2>2. AcceptKnows(s, next)' /\ OfferKnows(s, next)' /\ EndKnows(s, next)'
    BY <1>1, <2>1 DEF AcceptKnows, OfferKnows, EndKnows
  <2> QED
    BY <1>3, <2>1, <2>2, Advance
<1>4. CASE x.at = "ride" /\ Locked(s, To(s, "attempt"))
           /\ (x.kind # "reconcile" => status[r] = "searching" /\ lease[r] = d)
  <2> PICK next : next = To(s, "attempt")
    OBVIOUS
  <2>1. Wanted(x) = <<<<"ride", r>>, "update">>
    BY <1>4 DEF Wanted
  <2>2. next.kind = x.kind /\ next.ride = r /\ next.driver = d /\ next.at = "attempt"
    BY <1>1, ToFields DEF Statement
  <2>3. HoldsRide(s, r)' /\ UNCHANGED vars
    BY <1>4, <2>1, LocksGrow DEF Moves, HoldsRide
  <2>4. RefusalKnows(s, next)'
    BY <1>4, <2>2, <2>3 DEF RefusalKnows, HoldsRide, vars
  <2> QED
    BY <1>2, <1>3, <1>4, <2>1, <2>4, RowModes
<1>5. CASE x.at = "attempt" /\ Locked(s, To(s, "commit"))
           /\ (x.kind = "reconcile" => status[r] = "searching" /\ Over(x))
  <2> PICK next : next = To(s, "commit")
    OBVIOUS
  <2>1. Wanted(x) \in Row \X Mode
    <3>1. x.kind # "reconcile" => Wanted(x) = <<<<"attempt", r, d>>, "no_key_update">>
      BY <1>1, <1>5 DEF Wanted
    <3>2. x.kind = "reconcile" => Wanted(x) = <<<<"attempt", r, lease[r]>>, "no_key_update">>
      BY <1>1, <1>5 DEF Wanted
    <3>3. x.kind = "reconcile" => lease[r] \in Driver
      BY <1>1, <1>2, <1>5 DEF Over, WellFormed, TxnInv, Core, Agreement, ColumnsMatchStatus, TypeOK
    <3> QED
      BY <1>2, <3>1, <3>2, <3>3, RowModes
  <2>2. /\ next.kind = x.kind /\ next.ride = r /\ next.driver = d /\ next.at = "commit"
        /\ next.over = x.over
    BY <1>1, ToFields DEF Statement
  <2>3. UNCHANGED vars /\ locks[s] \subseteq locks'[s]
    BY <1>5, LocksGrow DEF Moves
  <2>4. RefusalKnows(s, next)'
    BY <1>1, <1>5, <2>2, <2>3 DEF RefusalKnows, HoldsRide, Over, vars
  <2> QED
    BY <1>3, <1>5, <2>1, <2>4
<1> QED
  BY <1>4, <1>5 DEF FinishStatement, ReconcileStatement

LEMMA EndStep ==
  ASSUME TxnInv, NEW s \in Session, EndStatement(s)
  PROVE  RollsBack(s) \/ Advances(s)
<1> PICK x : x = txn[s]
  OBVIOUS
<1> PICK r : r = x.ride
  OBVIOUS
<1> PICK d : d = assigned[r]
  OBVIOUS
<1>1. x \in Txn /\ x.kind \in {"cancel", "complete"} /\ EndKnows(s, x) /\ WellFormed(x)
  BY DEF EndStatement, TxnInv, TxnTypeOK, Knows
<1>2. r \in Ride /\ d \in Driver \cup {None}
  BY <1>1 DEF WellFormed, Kind, OnDriver, TxnInv, Core, TypeOK
<1>3. ASSUME NEW place \in {"attempt", "release", "driver", "commit"}, NEW saw \in BOOLEAN,
             NEW next, next = [To(s, place) EXCEPT !.driver = d, !.seen = saw],
             Passed(s, next) \/ (Locked(s, next) /\ Wanted(x) \in Row \X Mode),
             place = "driver" => d # None,
             HoldsRide(s, r)',
             IF x.kind = "cancel" THEN status[r] \in Cancellable ELSE status[r] = "in_progress"
      PROVE  Advances(s)
  <2> DEFINE moved == To(s, place)
  <2>0. moved \in Txn /\ moved.kind = x.kind /\ moved.ride = r /\ moved.at = place /\ moved.over = x.over
    BY <1>3, ToFields DEF Statement
  <2> HIDE DEF moved
  <2>a. next = [moved EXCEPT !.driver = d, !.seen = saw]
    BY <1>3 DEF moved
  <2>1. /\ next \in Txn /\ next.kind = x.kind /\ next.ride = r /\ next.driver = d
        /\ next.at = place /\ next.over = x.over
    BY <1>2, <1>3, <2>0, <2>a DEF Txn
  <2>2. WellFormed(next)
    BY <1>1, <2>1 DEF WellFormed, OnDriver
  <2>3. AcceptKnows(s, next)' /\ OfferKnows(s, next)' /\ RefusalKnows(s, next)'
    BY <1>1, <2>1 DEF AcceptKnows, OfferKnows, RefusalKnows
  <2>4. UNCHANGED vars
    BY <1>3 DEF Passed, Locked
  <2>5. EndKnows(s, next)'
    BY <1>1, <1>3, <2>1, <2>4 DEF EndKnows, HoldsRide, vars
  <2> QED
    BY <1>3, <2>1, <2>2, <2>3, <2>5, Advance
<1>4. CASE /\ x.at = "ride" /\ Locked(s, [To(s, "attempt") EXCEPT !.driver = d])
           /\ IF x.kind = "cancel" THEN status[r] \in Cancellable ELSE status[r] = "in_progress"
  <2> PICK next : next = [To(s, "attempt") EXCEPT !.driver = d, !.seen = x.seen]
    OBVIOUS
  <2>1. next = [To(s, "attempt") EXCEPT !.driver = d] /\ x.seen \in BOOLEAN
    BY <1>1 DEF To, Txn
  <2>2. Wanted(x) = <<<<"ride", r>>, "update">>
    BY <1>4 DEF Wanted
  <2>3. HoldsRide(s, r)'
    BY <1>4, <2>2, LocksGrow DEF Moves, HoldsRide
  <2>4. Locked(s, next)
    BY <1>4, <2>1
  <2>5. Wanted(x) \in Row \X Mode
    BY <1>2, <2>2, RowModes
  <2>6. IF x.kind = "cancel" THEN status[r] \in Cancellable ELSE status[r] = "in_progress"
    BY <1>4
  <2> QED
    BY <1>3, <2>1, <2>3, <2>4, <2>5, <2>6
<1>5. ASSUME x.at \in {"attempt", "release", "driver"}, NEW next, Moves(s, next)
      PROVE  /\ x.driver = d /\ HoldsRide(s, r)' /\ (x.at = "driver" => d # None)
             /\ IF x.kind = "cancel" THEN status[r] \in Cancellable ELSE status[r] = "in_progress"
  BY <1>1, <1>5, LocksGrow DEF EndKnows, HoldsRide
<1>6. CASE x.at = "attempt" /\ (IF lease[r] # None THEN Locked(s, To(s, "release"))
                                                  ELSE Passed(s, To(s, "release")))
  <2> PICK next : next = To(s, "release")
    OBVIOUS
  <2>1. Moves(s, next)
    BY <1>6 DEF Moves
  <2>2. x.seen \in BOOLEAN /\ next = [To(s, "release") EXCEPT !.driver = d, !.seen = x.seen]
    BY <1>1, <1>5, <1>6, <2>1 DEF To, Txn
  <2>3. Wanted(x) = <<<<"attempt", r, lease[r]>>, "no_key_update">>
    BY <1>1, <1>6 DEF Wanted
  <2>4. lease[r] # None => Wanted(x) \in Row \X Mode
    BY <1>2, <2>3, RowModes DEF TxnInv, Core, TypeOK
  <2> QED
    BY <1>3, <1>5, <1>6, <2>1, <2>2, <2>4
<1>7. CASE x.at = "release" /\ d = None /\ Passed(s, To(s, "commit"))
  <2> PICK next : next = To(s, "commit")
    OBVIOUS
  <2>1. Moves(s, next)
    BY <1>7 DEF Moves
  <2>2. x.seen \in BOOLEAN /\ next = [To(s, "commit") EXCEPT !.driver = d, !.seen = x.seen]
    BY <1>1, <1>5, <1>7, <2>1 DEF To, Txn
  <2> QED
    BY <1>3, <1>5, <1>7, <2>1, <2>2
<1>8. CASE x.at = "release" /\ d # None
           /\ Passed(s, [To(s, "driver") EXCEPT !.seen = ~ServesOtherThan(d, r)])
  <2> PICK saw \in BOOLEAN : saw = ~ServesOtherThan(d, r)
    BY DEF ServesOtherThan
  <2> PICK next : next = [To(s, "driver") EXCEPT !.seen = saw]
    OBVIOUS
  <2>1. Passed(s, next) /\ Moves(s, next)
    BY <1>8 DEF Moves
  <2>2. next = [To(s, "driver") EXCEPT !.driver = d, !.seen = saw]
    BY <1>1, <1>5, <1>8, <2>1 DEF To, Txn
  <2> QED
    BY <1>3, <1>5, <1>8, <2>1, <2>2
<1>9. CASE x.at = "driver" /\ Locked(s, To(s, "commit"))
  <2> PICK next : next = To(s, "commit")
    OBVIOUS
  <2>1. Moves(s, next)
    BY <1>9 DEF Moves
  <2>2. x.seen \in BOOLEAN /\ next = [To(s, "commit") EXCEPT !.driver = d, !.seen = x.seen]
    BY <1>1, <1>5, <1>9, <2>1 DEF To, Txn
  <2>3. x.driver \in Driver
    BY <1>2, <1>5, <1>9, <2>1
  <2>4. Wanted(x) = <<<<"driver", x.driver>>, "no_key_update">>
    BY <1>1, <1>9 DEF Wanted
  <2>5. Wanted(x) \in Row \X Mode
    BY <2>3, <2>4, RowModes DEF Mode
  <2> QED
    BY <1>3, <1>5, <1>9, <2>1, <2>2, <2>5
<1>10. CASE x.at = "driver" /\ Passed(s, [To(s, "commit") EXCEPT !.seen = FALSE])
  <2> PICK next : next = [To(s, "commit") EXCEPT !.seen = FALSE]
    OBVIOUS
  <2>1. Moves(s, next)
    BY <1>10 DEF Moves
  <2>2. next = [To(s, "commit") EXCEPT !.driver = d, !.seen = FALSE]
    BY <1>1, <1>5, <1>10, <2>1 DEF To, Txn
  <2> QED
    BY <1>3, <1>5, <1>10, <2>1, <2>2
<1> QED
  BY <1>1, <1>4, <1>6, <1>7, <1>8, <1>9, <1>10 DEF EndStatement

\* transition, failDispatch and the PIN lock the ride last.
LEMMA RideStep ==
  ASSUME TxnInv, NEW s \in Session, PinStatement(s) \/ RideStatement(s)
  PROVE  RollsBack(s) \/ Advances(s)
<1> PICK x : x = txn[s]
  OBVIOUS
<1> DEFINE r == x.ride
           d == x.driver
<1>1. x \in Txn /\ x.kind \in {"progress", "pin", "fail"} /\ WellFormed(x)
  BY DEF PinStatement, RideStatement, TxnInv, TxnTypeOK, Knows
<1>2. r \in Ride /\ (x.kind = "pin" => d \in Driver)
  BY <1>1 DEF WellFormed, Kind, OnDriver
<1>3. ASSUME NEW place \in {"ride", "commit"}, NEW next, next = To(s, place),
             Locked(s, next), Wanted(x) \in Row \X Mode, EndKnows(s, next)'
      PROVE  Advances(s)
  <2>1. next \in Txn /\ WellFormed(next) /\ next.kind = x.kind
    BY <1>1, <1>3, ToFields DEF Statement
  <2>2. AcceptKnows(s, next)' /\ OfferKnows(s, next)' /\ RefusalKnows(s, next)'
    BY <1>1, <2>1 DEF AcceptKnows, OfferKnows, RefusalKnows
  <2> QED
    BY <1>3, <2>1, <2>2, Advance
<1>4. CASE x.kind = "pin" /\ x.at = "driver" /\ Locked(s, To(s, "ride"))
  <2> PICK next : next = To(s, "ride")
    OBVIOUS
  <2>1. Wanted(x) = <<<<"driver", d>>, "share">>
    BY <1>4 DEF Wanted
  <2>2. next.kind = "pin" /\ next.at = "ride"
    BY <1>4, ToFields DEF Statement
  <2>3. EndKnows(s, next)'
    BY <2>2 DEF EndKnows
  <2> QED
    BY <1>2, <1>3, <1>4, <2>1, <2>3, RowModes DEF Mode
<1>5. CASE x.at = "ride" /\ Locked(s, To(s, "commit")) /\ (x.kind = "fail" => Unleased(r))
  <2> PICK next : next = To(s, "commit")
    OBVIOUS
  <2>1. Wanted(x) = <<<<"ride", r>>, "update">>
    BY <1>5 DEF Wanted
  <2>2. next.kind = x.kind /\ next.ride = r /\ next.at = "commit"
    BY ToFields DEF Statement
  <2>3. HoldsRide(s, r)' /\ UNCHANGED vars
    BY <1>5, <2>1, LocksGrow DEF Moves, HoldsRide
  <2>4. EndKnows(s, next)'
    BY <1>1, <1>5, <2>2, <2>3 DEF EndKnows, HoldsRide, Unleased, vars
  <2> QED
    BY <1>2, <1>3, <1>5, <2>1, <2>4, RowModes
<1> QED
  BY <1>4, <1>5 DEF PinStatement, RideStatement

LEMMA OnDriverStep ==
  ASSUME TxnInv, NEW s \in Session, DriverStatement(s)
  PROVE  RollsBack(s) \/ Advances(s)
<1> PICK x : x = txn[s]
  OBVIOUS
<1>1. x \in Txn /\ x.kind \in OnDriver /\ WellFormed(x)
  BY DEF DriverStatement, TxnInv, TxnTypeOK, Knows
<1>2. x.driver \in Driver
  BY <1>1 DEF WellFormed
<1>3. ASSUME NEW place \in {"driver", "commit"}, NEW saw \in BOOLEAN,
             NEW next, next = [To(s, place) EXCEPT !.seen = saw],
             Passed(s, next) \/ (Locked(s, next) /\ Wanted(x) \in Row \X Mode)
      PROVE  Advances(s)
  <2>1. next \in Txn /\ next.kind = x.kind /\ WellFormed(next)
    BY <1>1, <1>3 DEF To, Txn, Statement, WellFormed
  <2>2. AcceptKnows(s, next)' /\ OfferKnows(s, next)' /\ RefusalKnows(s, next)' /\ EndKnows(s, next)'
    BY <1>1, <2>1 DEF AcceptKnows, OfferKnows, RefusalKnows, EndKnows, OnDriver
  <2> QED
    BY <1>3, <2>1, <2>2, Advance
<1>4. CASE x.at = "asked"
           /\ Passed(s, [To(s, "driver") EXCEPT !.seen = SeesAtStart("online", None, x.driver)])
  <2> PICK saw \in BOOLEAN : saw = SeesAtStart("online", None, x.driver)
    BY DEF SeesAtStart, OnDriver
  <2> QED
    BY <1>3, <1>4
<1>5. CASE x.at = "driver" /\ Locked(s, To(s, "commit"))
  <2>1. x.seen \in BOOLEAN /\ To(s, "commit") = [To(s, "commit") EXCEPT !.seen = x.seen]
    BY <1>1 DEF To, Txn
  <2>2. Wanted(x) = <<<<"driver", x.driver>>, "no_key_update">>
    BY <1>1, <1>5 DEF Wanted, OnDriver
  <2> QED
    BY <1>2, <1>3, <1>5, <2>1, <2>2, RowModes DEF Mode
<1> QED
  BY <1>4, <1>5 DEF DriverStatement

\* A session moves to a statement whose facts hold, ends its transaction or commits it.
SessionMoves(s) == Advances(s) \/ RollsBack(s) \/ Commit(s)

LEMMA Steps ==
  ASSUME TxnInv, TxnNext
  PROVE  Passing \/ \E s \in Session : SessionMoves(s)
<1>1. ASSUME NEW s \in Session, TxnStep(s) PROVE SessionMoves(s)
  BY <1>1, AcceptStep, OfferStep, RefusalStep, EndStep, RideStep, OnDriverStep
  DEF TxnStep, SessionMoves
<1>2. ASSUME NEW s \in Session, Victim(s) PROVE SessionMoves(s)
  BY <1>2 DEF Victim, SessionMoves
<1>3. ASSUME NEW s \in Session, NEW k \in Kind, NEW r \in Ride \cup {None},
             NEW d \in Driver \cup {None}, Begin(s, k, r, d)
      PROVE  SessionMoves(s)
  BY <1>3, BeginStep DEF SessionMoves
<1> QED
  BY <1>1, <1>2, <1>3 DEF TxnNext

-----------------------------------------------------------------------------
(* The invariant. *)

LEMMA StayExclusive ==
  ASSUME TxnInv, Passing \/ \E s \in Session : SessionMoves(s)
  PROVE  Exclusive'
<1>1. ASSUME \A s \in Session : locks'[s] \subseteq locks[s] PROVE Exclusive'
  BY <1>1 DEF TxnInv, Exclusive
<1>2. CASE Passing
  BY <1>1, <1>2 DEF Passing
<1>3. ASSUME NEW s \in Session, Closed(s) PROVE Exclusive'
  <2>1. \A q \in Session : locks'[q] \subseteq locks[q]
    BY <1>3 DEF Closed, TxnInv, TxnTypeOK
  <2> QED
    BY <1>1, <2>1
<1>4. ASSUME NEW s \in Session, NEW next, Passed(s, next) PROVE Exclusive'
  BY <1>1, <1>4 DEF Passed
<1>5. ASSUME NEW s \in Session, NEW next, Locked(s, next) PROVE Exclusive'
  <2> PICK w : w = Wanted(txn[s])
    OBVIOUS
  <2>1. /\ locks'[s] = locks[s] \cup {w}
        /\ \A q \in Session \ {s} : locks'[q] = locks[q]
    BY <1>5 DEF Locked, TxnInv, TxnTypeOK
  <2>2. \A q \in Session \ {s} : \A l \in locks[q] : l[1] = w[1] => {l[2], w[2]} \notin Conflict
    BY <1>5 DEF Locked, Blockers
  <2>3. \A a, b : {a, b} = {b, a}
    OBVIOUS
  <2>4. \A q \in Session \ {s} : \A l \in locks[q] : w[1] = l[1] => {w[2], l[2]} \notin Conflict
    BY <2>2, <2>3
  <2> SUFFICES ASSUME NEW p \in Session, NEW q \in Session, p # q,
                      NEW l \in locks'[p], NEW m \in locks'[q], l[1] = m[1]
               PROVE  {l[2], m[2]} \notin Conflict
    BY DEF Exclusive
  <2>5. CASE l \in locks[p] /\ m \in locks[q]
    BY <2>5 DEF TxnInv, Exclusive
  <2>6. CASE p = s /\ l = w
    BY <2>1, <2>4, <2>6
  <2>7. CASE q = s /\ m = w
    BY <2>1, <2>2, <2>7
  <2> QED
    BY <2>1, <2>5, <2>6, <2>7
<1> QED
  BY <1>2, <1>3, <1>4, <1>5 DEF SessionMoves, Advances, Moves, RollsBack, Commit

LEMMA NothingKnown ==
  ASSUME NEW s \in Session
  PROVE  Knows(s, NoTxn)
<1>1. NoTxn.kind = "none" /\ NoTxn.over = {}
  BY DEF NoTxn
<1> QED
  BY <1>1 DEF Knows, WellFormed, AcceptKnows, OfferKnows, RefusalKnows, EndKnows, Kind, OnDriver

LEMMA TxnInvStep ==
  ASSUME TxnInv, [TxnNext]_txnVars
  PROVE  TxnInv'
<1>1. ASSUME Core', Exclusive', txn' \in [Session -> Txn], locks' \in [Session -> SUBSET (Row \X Mode)],
             \A q \in Session : Knows(q, txn[q])'
      PROVE  TxnInv'
  BY <1>1 DEF TxnInv, TxnTypeOK, Core
<1>2. CASE UNCHANGED txnVars
  <2>1. Core'
    BY <1>2
    DEF txnVars, TxnInv, Core, TypeOK, LiveLease, Agreement, ColumnsMatchStatus,
        LeaseMatchesOffer, AssignedByAcceptance, OneRidePerDriver, OneLiveOfferPerDriver
  <2>2. Exclusive'
    BY <1>2 DEF txnVars, TxnInv, Exclusive
  <2>3. ASSUME NEW q \in Session PROVE Knows(q, txn[q])'
    <3>1. txn[q] = [txn[q] EXCEPT !.over = {r \in @ : expired'[r]}]
      BY <1>2, SameOver DEF TxnInv, txnVars
    <3>2. Undisturbed(q)
      BY <1>2, <3>1 DEF txnVars, Undisturbed, NotAsked, NotEngaged, Serves
    <3> QED
      BY <3>2, StillKnows DEF TxnInv
  <2> QED
    BY <1>1, <1>2, <2>1, <2>2, <2>3 DEF TxnInv, TxnTypeOK, txnVars
<1>3. CASE Passing
  <2>1. PICK r \in Ride : LeaseExpires(r)
    BY <1>3 DEF Passing
  <2>2. Core'
    BY <2>1
    DEF LeaseExpires, TxnInv, Core, TypeOK, driverVars, LiveLease, Agreement, ColumnsMatchStatus,
        LeaseMatchesOffer, AssignedByAcceptance, OneRidePerDriver, OneLiveOfferPerDriver
  <2>3. \A q \in Session : Knows(q, txn[q])'
    BY <1>3, TimeAside, StillKnows DEF TxnInv
  <2> QED
    BY <1>1, <1>3, <2>2, <2>3, StayExclusive DEF Passing, TxnInv, TxnTypeOK
<1>4. ASSUME NEW s \in Session, Advances(s) PROVE TxnInv'
  <2> PICK next \in Txn : /\ Moves(s, next) /\ locks' \in [Session -> SUBSET (Row \X Mode)]
                          /\ Knows(s, next)'
    BY <1>4 DEF Advances
  <2>1. txn' = [txn EXCEPT ![s] = next] /\ UNCHANGED vars
    BY DEF Moves, Locked, Passed
  <2>2. txn' \in [Session -> Txn] /\ txn'[s] = next
    BY <2>1 DEF TxnInv, TxnTypeOK
  <2>3. Core'
    BY <2>1
    DEF vars, TxnInv, Core, TypeOK, LiveLease, Agreement, ColumnsMatchStatus,
        LeaseMatchesOffer, AssignedByAcceptance, OneRidePerDriver, OneLiveOfferPerDriver
  <2>4. \A q \in Session \ {s} : Knows(q, txn[q])'
    BY MoveAside, StillKnows DEF TxnInv
  <2>5. Knows(s, txn[s])'
    BY <2>2 DEF Knows, WellFormed, AcceptKnows, OfferKnows, RefusalKnows, EndKnows
  <2> QED
    BY <1>1, <1>4, <2>2, <2>3, <2>4, <2>5, StayExclusive DEF SessionMoves
<1>5. ASSUME NEW s \in Session, Core', OwnRows(s), Closed(s), Exclusive' PROVE TxnInv'
  <2>1. \A q \in Session \ {s} : Knows(q, txn[q])'
    BY <1>5, CloseAside, StillKnows DEF TxnInv
  <2>2. txn'[s] = NoTxn
    BY <1>5 DEF Closed
  <2>3. Knows(s, txn[s])'
    BY <2>2, NothingKnown
    DEF Knows, WellFormed, AcceptKnows, OfferKnows, RefusalKnows, EndKnows, NoTxn, Kind, OnDriver
  <2>4. txn' \in [Session -> Txn] /\ locks' \in [Session -> SUBSET (Row \X Mode)]
    BY SMTT(30), <1>5 DEF Closed, TxnInv, TxnTypeOK, Txn, NoTxn, Statement
  <2> QED
    BY <1>1, <1>5, <2>1, <2>3, <2>4
<1>6. ASSUME NEW s \in Session, Commit(s) PROVE TxnInv'
  BY <1>5, <1>6, CommitEffect, StayExclusive DEF Commit, SessionMoves
<1>7. ASSUME NEW s \in Session, RollsBack(s) PROVE TxnInv'
  <2>1. Core' /\ OwnRows(s)
    BY <1>7
    DEF RollsBack, vars, TxnInv, Core, TypeOK, LiveLease, Agreement, ColumnsMatchStatus,
        LeaseMatchesOffer, AssignedByAcceptance, OneRidePerDriver, OneLiveOfferPerDriver,
        OwnRows, SameColumns, NotAsked, NotEngaged, Serves
  <2> QED
    BY <1>5, <1>7, <2>1, StayExclusive DEF RollsBack, SessionMoves
<1> QED
  BY <1>2, <1>3, <1>4, <1>6, <1>7, Steps DEF SessionMoves

LEMMA InitTxnInv == TxnInit => TxnInv
<1> SUFFICES ASSUME TxnInit PROVE TxnInv
  OBVIOUS
<1>1. TxnTypeOK
  BY DEF TxnInit, TxnTypeOK, TypeOK, RideStatus, OfferStatus, Availability, Standing,
         NoTxn, Txn, Statement
<1>2. Core
  BY <1>1, NoneAssumption
  DEF TxnInit, TxnTypeOK, Core, Agreement, ColumnsMatchStatus, LeaseMatchesOffer,
      AssignedByAcceptance, OneRidePerDriver, OneLiveOfferPerDriver, LiveLease, Active
<1>3. Exclusive
  BY DEF TxnInit, Exclusive
<1> QED
  BY <1>1, <1>2, <1>3, NothingKnown DEF TxnInit, TxnInv

LEMMA TxnInvariance == TxnSpec => []TxnInv
<1> QED
  BY InitTxnInv, TxnInvStep, PTL DEF TxnSpec

\* Every reachable state of the tables, the open transactions and their locks has its type.
THEOREM TxnTypeCorrect == TxnSpec => []TxnTypeOK
<1>1. TxnInv => TxnTypeOK
  BY DEF TxnInv
<1> QED
  BY <1>1, TxnInvariance, PTL

\* Two transactions never hold a row in modes that conflict, and what is committed agrees:
\* leases with attempts, drivers of rides with acceptances, one ride and one live offer per
\* driver.  No hypothesis about going online: that race damages availability only.
THEOREM RidesAgree ==
  TxnSpec => [](/\ Exclusive /\ ColumnsMatchStatus /\ LeaseMatchesOffer /\ AssignedByAcceptance
                /\ OneRidePerDriver /\ OneLiveOfferPerDriver)
<1>1. TxnInv => /\ Exclusive /\ ColumnsMatchStatus /\ LeaseMatchesOffer /\ AssignedByAcceptance
                /\ OneRidePerDriver /\ OneLiveOfferPerDriver
  BY DEF TxnInv, Core, Agreement
<1> QED
  BY <1>1, TxnInvariance, PTL

-----------------------------------------------------------------------------
(* Every commit is a step of DispatchContract, every other step is none. *)

LEMMA OfferCommitMaps ==
  ASSUME TxnInv, NEW s \in Session, txn[s].at = "commit", txn[s].kind = "offer",
         CommitOffer(s, txn[s].ride, txn[s].driver)
  PROVE  \/ Contract!Ask(txn[s].ride, txn[s].driver)
         \/ Contract!Withdraw(txn[s].ride)
         \/ UNCHANGED Contract!contractVars
<1> PICK x : x = txn[s]
  OBVIOUS
<1> DEFINE r == x.ride
           d == x.driver
<1> USE NoneAssumption
<1>1. x \in Txn /\ Core /\ OfferKnows(s, x) /\ WellFormed(x) /\ CommitOffer(s, r, d)
  BY DEF TxnInv, TxnTypeOK, Knows
<1>2. r \in Ride /\ d \in Driver /\ x.seen \in BOOLEAN
  BY <1>1 DEF WellFormed, Kind, OnDriver, Txn
<1>3. /\ UNCHANGED <<status, assigned>> /\ TypeOK /\ Agreement
      /\ \A q \in Ride \ {r} : SameRow(q)
  BY <1>1, <1>2 DEF CommitOffer, Core, TypeOK, SameRow
<1>4. Over(x) => lease[r] \in Driver /\ status[r] = "searching" /\ offer[r][lease[r]] = "offered"
  BY <1>1, <1>2 DEF Over, WellFormed, Core, TypeOK, Agreement, ColumnsMatchStatus, LeaseMatchesOffer
<1>5. CASE x.seen
  <2>1. status[r] = "searching" /\ offer[r][d] = "none" /\ assigned[r] = None
    BY <1>1, <1>2, <1>5 DEF OfferKnows, Core, Agreement, ColumnsMatchStatus
  <2>2. lease'[r] = d
    BY <1>1, <1>2, <1>5 DEF CommitOffer, Core, TypeOK
  <2>3. \A e \in Driver : offer'[r][e] # "none" <=> e = d \/ offer[r][e] # "none"
    BY <1>1, <1>2, <1>4, <1>5 DEF CommitOffer, Core, TypeOK
  <2> QED
    BY <1>2, <1>3, <2>1, <2>2, <2>3, AskMaps
<1>6. CASE ~x.seen /\ Over(x)
  <2>1. offer' = [offer EXCEPT ![r][lease[r]] = "timed_out"]
    BY <1>1, <1>2, <1>6 DEF CommitOffer, Core, TypeOK
  <2>2. ClearLease(r)
    BY <1>1, <1>2, <1>6 DEF CommitOffer, ClearLease, Core, TypeOK
  <2> QED
    <3>1. "timed_out" \in OfferStatus \ {"none"}
      BY DEF OfferStatus
    <3>2. Contract!Withdraw(r)
      BY <1>2, <1>3, <1>4, <1>6, <2>1, <2>2, <3>1, WithdrawMaps
    <3> QED
      BY <3>2
<1>7. CASE ~x.seen /\ ~Over(x)
  <2>1. SameRow(r)
    BY <1>1, <1>2, <1>3, <1>7 DEF CommitOffer, Core, TypeOK, SameRow
  <2> QED
    BY <1>3, <2>1, RowView, Stutters
<1> QED
  BY <1>2, <1>5, <1>6, <1>7

LEMMA CommitMaps ==
  ASSUME TxnInv, NEW s \in Session, Commit(s)
  PROVE  [Contract!ContractNext]_(Contract!contractVars)
<1> PICK x : x = txn[s]
  OBVIOUS
<1> DEFINE r == x.ride
           d == x.driver
<1> USE NoneAssumption
<1>1. /\ x \in Txn /\ x.at = "commit" /\ Core /\ Knows(s, x)
      /\ TypeOK /\ Agreement
      /\ x.kind \in Kind \ OnDriver => r \in Ride
  BY DEF TxnInv, TxnTypeOK, Core, Commit, Knows, WellFormed
<1> USE DEF Knows
<1>2. ASSUME UNCHANGED rideVars PROVE UNCHANGED Contract!contractVars
  BY <1>2, RowView, Stutters DEF rideVars, SameRow
<1>3. CASE x.kind = "accept" /\ CommitAccept(r, d)
  <2>1. r \in Ride /\ d \in Driver
    BY <1>1, <1>3 DEF WellFormed, Kind, OnDriver
  <2>2. status[r] = "searching" /\ lease[r] = d /\ ~Serves(d)
    BY <1>1, <1>3 DEF AcceptKnows
  <2>3. Contract!Engage(r)
    BY <1>1, <1>3, <2>1, <2>2, EngageMaps DEF CommitAccept
  <2> QED
    BY <2>1, <2>3 DEF Contract!ContractNext
<1>4. CASE x.kind = "offer" /\ CommitOffer(s, r, d)
  <2>1. r \in Ride /\ d \in Driver
    BY <1>1, <1>4 DEF WellFormed, Kind, OnDriver
  <2> QED
    BY <1>1, <1>4, <2>1, OfferCommitMaps DEF Contract!ContractNext
<1>5. CASE x.kind \in {"reject", "time_out", "reconcile"} /\ CommitFinish(s, r)
  <2>1. r \in Ride /\ status[r] = "searching"
    BY <1>1, <1>5 DEF RefusalKnows, Kind, OnDriver
  <2>2. lease[r] \in Driver
    <3>1. CASE x.kind = "reconcile"
      BY <1>1, <2>1, <3>1 DEF RefusalKnows, Over, WellFormed, Agreement, ColumnsMatchStatus, TypeOK
    <3>2. CASE x.kind # "reconcile"
      BY <1>1, <1>5, <3>2 DEF RefusalKnows, WellFormed
    <3> QED
      BY <3>1, <3>2
  <2> PICK answer : answer = IF Over(x) THEN "timed_out" ELSE "rejected"
    OBVIOUS
  <2>3. answer \in OfferStatus \ {"none"} /\ offer' = [offer EXCEPT ![r][lease[r]] = answer]
    BY <1>5 DEF CommitFinish, OfferStatus
  <2>4. ClearLease(r) /\ UNCHANGED <<status, assigned>>
    BY <1>5 DEF CommitFinish
  <2>5. Contract!Withdraw(r)
    BY <1>1, <2>1, <2>2, <2>3, <2>4, WithdrawMaps
  <2> QED
    BY <2>1, <2>5 DEF Contract!ContractNext
<1>6. CASE x.kind \in {"cancel", "fail"} /\ CommitEnd(s, r, "cancelled")
  <2>1. r \in Ride /\ status[r] \in Cancellable
    BY <1>1, <1>6 DEF EndKnows, Kind, OnDriver, Unleased, Cancellable
  <2>2. AskedOf(r)' = AskedOf(r) /\ \A q \in Ride \ {r} : offer'[q] = offer[q]
    BY <1>1, <1>6, <2>1, ClosedAsked DEF CommitEnd, TypeOK
  <2>3. \A q \in Ride \ {r} : SameRow(q)
    BY <1>1, <1>6, <2>1, <2>2 DEF CommitEnd, ClearLease, SameRow, TypeOK
  <2>4. status'[r] = "cancelled" /\ lease'[r] = None /\ UNCHANGED assigned
    BY <1>1, <1>6, <2>1 DEF CommitEnd, ClearLease, TypeOK
  <2>5. Contract!CallOff(r)
    BY <1>1, <2>1, <2>2, <2>3, <2>4, CallOffMaps
  <2> QED
    BY <2>1, <2>5 DEF Contract!ContractNext
<1>7. CASE x.kind = "complete" /\ CommitEnd(s, r, "completed")
  <2>1. r \in Ride /\ status[r] = "in_progress"
    BY <1>1, <1>7 DEF EndKnows, Kind, OnDriver
  <2>2. AskedOf(r)' = AskedOf(r) /\ \A q \in Ride \ {r} : offer'[q] = offer[q]
    BY <1>1, <1>7, <2>1, ClosedAsked DEF CommitEnd, TypeOK
  <2>3. \A q \in Ride \ {r} : SameView(q)
    BY <1>1, <1>7, <2>1, <2>2, RowView DEF CommitEnd, ClearLease, SameRow, TypeOK
  <2>4. PhaseOf(r) = "riding" /\ PhaseOf(r)' = "completed"
    BY <1>1, <1>7, <2>1 DEF CommitEnd, PhaseOf, TypeOK
  <2>5. PartyOf(r)' = PartyOf(r)
    BY <1>1, <1>7, <2>1 DEF CommitEnd, PartyOf, Agreement, ColumnsMatchStatus, Active
  <2>6. Contract!Arrive(r)
    BY <1>1, <2>1, <2>2, <2>3, <2>4, <2>5 DEF Contract!Arrive, SameView
  <2> QED
    BY <2>1, <2>6 DEF Contract!ContractNext
<1>8. CASE x.kind = "progress" /\ \E p \in Active : Transition(r, p)
  BY <1>1, <1>8, HiddenSteps DEF Kind, OnDriver
<1>9. CASE x.kind = "pin" /\ StartTrip(r)
  <2>1. r \in Ride
    BY <1>1, <1>9 DEF Kind, OnDriver
  <2>2. Contract!PickUp(r) \/ Contract!Arrive(r)
    BY <1>1, <1>9, <2>1, TripMaps
  <2> QED
    BY <2>1, <2>2 DEF Contract!ContractNext
<1>10. CASE x.kind = "pin" /\ UNCHANGED vars
  BY <1>2, <1>10 DEF vars, rideVars
<1>11. CASE x.kind \in OnDriver /\ (CommitOnline(d) \/ GoOffline(d) \/ CommitFix(s, d) \/ CommitLost(d))
  BY <1>2, <1>11 DEF CommitOnline, GoOffline, CommitFix, CommitLost
<1> QED
  BY <1>3, <1>4, <1>5, <1>6, <1>7, <1>8, <1>9, <1>10, <1>11 DEF Commit, OnDriver

LEMMA TxnStepMaps ==
  ASSUME TxnInv, [TxnNext]_txnVars
  PROVE  [Contract!ContractNext]_(Contract!contractVars)
<1>1. ASSUME UNCHANGED vars PROVE UNCHANGED Contract!contractVars
  BY <1>1, RowView, Stutters DEF vars, SameRow
<1>2. ASSUME NEW s \in Session, Advances(s) \/ RollsBack(s) PROVE UNCHANGED vars
  BY <1>2 DEF Advances, Moves, Locked, Passed, RollsBack
<1>3. CASE Passing
  BY <1>3, HiddenSteps DEF Passing, TxnInv, Core
<1>4. CASE UNCHANGED txnVars
  BY <1>1, <1>4 DEF txnVars, vars
<1> QED
  BY <1>1, <1>2, <1>3, <1>4, Steps, CommitMaps DEF SessionMoves

\* Statement by statement, every transaction makes one step of the dispatch contract when it
\* commits and none before: one driver asked at a time and once, the one who accepts is the one
\* served by, and whoever waited for a lock acts on what its holder left.
THEOREM KeepsContractAlways == TxnSpec => KeepsContract
<1> QED
  BY TxnInvariance, TxnStepMaps, PTL DEF TxnSpec, KeepsContract

-----------------------------------------------------------------------------
(* Availability. *)

BusyIsServing == \A d \in Driver : avail[d] = "busy" <=> Serves(d)

\* The driver's row is locked before it is written, the driver of a ride that ends is found
\* busy, and a driver who goes online has no ride.
DriverKnows(s, x) ==
  /\ x.kind \in OnDriver \cup {"accept"} /\ x.at = "commit" => HoldsDriver(s, x.driver)
  /\ x.kind = "online" /\ x.at \in {"driver", "commit"} /\ x.seen => ~Serves(x.driver)
  /\ x.kind = "online" /\ x.at = "commit" => x.seen
  /\ x.kind = "lost" /\ x.at = "commit" => avail[x.driver] = "available"
  /\ x.kind \in {"cancel", "complete"} /\ x.driver # None =>
       /\ x.at \in {"driver", "commit"} => x.seen
       /\ x.at = "commit" => HoldsDriver(s, x.driver)

AvailInv == BusyIsServing /\ \A s \in Session : DriverKnows(s, txn[s])

\* What a commit leaves to others: availability it has no lock for, and idle drivers.
OwnDrivers(s) ==
  /\ \A d \in Driver : ~HoldsDriver(s, d) => avail'[d] = avail[d]
  /\ txn[s].kind # "accept" => \A d \in Driver : NotEngaged(d)

LEMMA AvailEffect ==
  ASSUME TxnInv, AvailInv, NEW s \in Session, Commit(s)
  PROVE  BusyIsServing' /\ OwnDrivers(s)
<1> PICK x : x = txn[s]
  OBVIOUS
<1> DEFINE r == x.ride
           d == x.driver
<1> USE NoneAssumption
<1>1. /\ x \in Txn /\ x.at = "commit" /\ Knows(s, x) /\ DriverKnows(s, x)
      /\ TypeOK /\ Agreement /\ OneRidePerDriver /\ BusyIsServing
      /\ x.kind \in Kind \ OnDriver => r \in Ride
      /\ x.kind \in {"accept"} \cup OnDriver => d \in Driver
  BY DEF TxnInv, TxnTypeOK, Core, Commit, Knows, WellFormed, AvailInv
<1> USE DEF Knows
<1>2. ASSUME UNCHANGED avail, \A e \in Driver : Serves(e)' <=> Serves(e)
      PROVE  BusyIsServing' /\ OwnDrivers(s)
  BY <1>1, <1>2 DEF BusyIsServing, OwnDrivers, NotEngaged
<1>3. ASSUME UNCHANGED rideVars, d \in Driver, HoldsDriver(s, d), \A e \in Driver \ {d} : avail'[e] = avail[e],
             avail'[d] = "busy" <=> avail[d] = "busy"
      PROVE  BusyIsServing' /\ OwnDrivers(s)
  <2>1. \A e \in Driver : Serves(e)' <=> Serves(e)
    BY <1>3 DEF Serves, rideVars
  <2>2. BusyIsServing'
    BY <1>1, <1>3, <2>1 DEF BusyIsServing
  <2> QED
    BY <1>3, <2>1, <2>2 DEF OwnDrivers, NotEngaged
<1>4. CASE x.kind = "accept" /\ CommitAccept(r, d)
  <2>1. r \in Ride /\ d \in Driver /\ status[r] = "searching" /\ HoldsDriver(s, d)
    BY <1>1, <1>4 DEF AcceptKnows, DriverKnows, Kind, OnDriver
  <2>2. \A e \in Driver \ {d} : Serves(e)' <=> Serves(e)
    BY <1>1, <1>4, <2>1 DEF CommitAccept, Serves, TypeOK, Agreement, ColumnsMatchStatus, Active
  <2>3. Serves(d)'
    BY <1>1, <1>4, <2>1 DEF CommitAccept, Serves, TypeOK, Active
  <2>4. avail'[d] = "busy" /\ \A e \in Driver \ {d} : avail'[e] = avail[e]
    BY <1>1, <1>4, <2>1 DEF CommitAccept, TypeOK
  <2>5. BusyIsServing'
    BY <1>1, <2>2, <2>3, <2>4 DEF BusyIsServing
  <2> QED
    BY <1>4, <2>1, <2>4, <2>5 DEF OwnDrivers
<1>5. CASE \/ x.kind = "offer" /\ CommitOffer(s, r, d)
           \/ x.kind \in {"reject", "time_out", "reconcile"} /\ CommitFinish(s, r)
  <2>1. UNCHANGED <<status, assigned, avail>>
    BY <1>5 DEF CommitOffer, CommitFinish, driverVars
  <2> QED
    BY <1>2, <2>1 DEF Serves
<1>6. ASSUME x.kind \in {"cancel", "fail", "complete"}, NEW last \in {"cancelled", "completed"},
             CommitEnd(s, r, last)
      PROVE  BusyIsServing' /\ OwnDrivers(s)
  <2>1. r \in Ride /\ status'[r] = last /\ \A q \in Ride \ {r} : status'[q] = status[q]
    BY <1>1, <1>6 DEF CommitEnd, TypeOK, Kind, OnDriver
  <2>2. UNCHANGED assigned /\ last \notin Active
    BY <1>6 DEF CommitEnd, Active
  <2>3. \A e \in Driver : avail'[e] = IF e = assigned[r] /\ x.seen THEN ReleasedTo(e) ELSE avail[e]
    BY <1>6 DEF CommitEnd
  <2>4. CASE assigned[r] = None
    <3>1. \A e \in Driver : (Serves(e)' <=> Serves(e)) /\ avail'[e] = avail[e]
      BY <2>1, <2>2, <2>3, <2>4 DEF Serves
    <3> QED
      BY <1>1, <3>1 DEF BusyIsServing, OwnDrivers, NotEngaged
  <2>5. CASE assigned[r] # None
    <3>1. x.kind \in {"cancel", "complete"} /\ d = assigned[r] /\ d \in Driver
      BY <1>1, <1>6, <2>1, <2>5 DEF EndKnows, Unleased, TypeOK
    <3>2. status[r] \in Active
      BY <1>1, <2>1, <2>5, <3>1 DEF EndKnows, Cancellable, Active, Agreement, ColumnsMatchStatus
    <3>3. x.seen /\ HoldsDriver(s, d)
      BY <1>1, <3>1 DEF DriverKnows
    <3>4. avail[d] = "busy"
      BY <1>1, <2>1, <3>1, <3>2 DEF BusyIsServing, Serves
    <3>5. avail'[d] # "busy" /\ \A e \in Driver \ {d} : avail'[e] = avail[e]
      BY <1>1, <2>3, <3>1, <3>3, <3>4 DEF ReleasedTo, TypeOK
    <3>6. ~Serves(d)'
      BY <1>1, <2>1, <2>2, <3>1, <3>2 DEF Serves, OneRidePerDriver
    <3>7. \A e \in Driver \ {d} : Serves(e)' <=> Serves(e)
      BY <2>1, <2>2, <3>1 DEF Serves
    <3>8. BusyIsServing'
      BY <1>1, <3>5, <3>6, <3>7 DEF BusyIsServing
    <3> QED
      BY <3>3, <3>5, <3>6, <3>7, <3>8 DEF OwnDrivers, NotEngaged
  <2> QED
    BY <2>4, <2>5
<1>7. CASE (x.kind = "progress" /\ \E p \in Active : Transition(r, p)) \/ (x.kind = "pin" /\ StartTrip(r))
  <2>1. r \in Ride
    BY <1>1, <1>7 DEF Kind, OnDriver
  <2>2. PICK p \in Active : /\ status[r] \in Active /\ status' = [status EXCEPT ![r] = p]
                            /\ UNCHANGED <<assigned, avail>>
    BY <1>7 DEF Transition, StartTrip, ProgressEdge, Active, driverVars
  <2>3. \A q \in Ride : status'[q] \in Active <=> status[q] \in Active
    BY <1>1, <2>1, <2>2 DEF TypeOK
  <2> QED
    BY <1>2, <2>2, <2>3 DEF Serves
<1>8. CASE x.kind = "pin" /\ UNCHANGED vars
  BY <1>2, <1>8 DEF vars, Serves
<1>9. CASE x.kind = "online" /\ CommitOnline(d)
  <2>1. d \in Driver /\ HoldsDriver(s, d) /\ ~Serves(d)
    BY <1>1, <1>9 DEF DriverKnows, OnDriver
  <2>2. avail[d] # "busy"
    BY <1>1, <2>1 DEF BusyIsServing
  <2> QED
    BY <1>1, <1>3, <1>9, <2>1, <2>2 DEF CommitOnline, TypeOK
<1>10. CASE x.kind \in {"offline", "fix"} /\ (GoOffline(d) \/ CommitFix(s, d))
  <2>1. d \in Driver /\ HoldsDriver(s, d)
    BY <1>1, <1>10 DEF DriverKnows, OnDriver
  <2> QED
    BY <1>1, <1>3, <1>10, <2>1 DEF GoOffline, CommitFix, TypeOK
<1>11. CASE x.kind = "lost" /\ CommitLost(d)
  <2>1. d \in Driver /\ HoldsDriver(s, d) /\ avail[d] = "available"
    BY <1>1, <1>11 DEF DriverKnows, OnDriver
  <2> QED
    BY <1>1, <1>3, <1>11, <2>1 DEF CommitLost, TypeOK
<1> QED
  BY <1>4, <1>5, <1>6, <1>7, <1>8, <1>9, <1>10, <1>11 DEF Commit

\* An acceptance is the one step that engages a driver; nobody is going online meanwhile.
LEMMA StillFree ==
  ASSUME TxnInv, NEW q \in Session, DriverKnows(q, txn[q]), Undisturbed(q),
         \A d \in Driver : HoldsDriver(q, d) => avail'[d] = avail[d],
         txn[q].kind = "online" => \A d \in Driver : NotEngaged(d)
  PROVE  DriverKnows(q, txn[q])'
<1> DEFINE x == txn[q]
<1>1. /\ x'.kind = x.kind /\ x'.driver = x.driver /\ x'.at = x.at /\ x'.seen = x.seen
      /\ \A d \in Driver : HoldsDriver(q, d)' <=> HoldsDriver(q, d)
      /\ x \in Txn /\ WellFormed(x)
  BY DEF TxnInv, TxnTypeOK, Txn, Undisturbed, HoldsDriver, Knows
<1>2. /\ x.kind \in OnDriver \cup {"accept"} => x.driver \in Driver
      /\ x.driver # None => x.driver \in Driver
  BY <1>1 DEF WellFormed, Txn
<1>3. DriverKnows(q, x)
  OBVIOUS
<1>4. x.kind = "online" => \A d \in Driver : Serves(d)' => Serves(d)
  BY DEF NotEngaged
<1>5. \A d \in Driver : HoldsDriver(q, d) => avail'[d] = avail[d]
  OBVIOUS
<1> HIDE DEF x
<1> USE DEF OnDriver
<1>6. x'.kind \in OnDriver \cup {"accept"} /\ x'.at = "commit" => HoldsDriver(q, x.driver)'
  BY <1>1, <1>2, <1>3 DEF DriverKnows
<1>7. /\ x'.kind = "online" /\ x'.at \in {"driver", "commit"} /\ x'.seen => ~Serves(x.driver)'
      /\ x'.kind = "online" /\ x'.at = "commit" => x'.seen
  BY <1>1, <1>2, <1>3, <1>4 DEF DriverKnows
<1>8. x'.kind = "lost" /\ x'.at = "commit" => avail'[x.driver] = "available"
  BY <1>1, <1>2, <1>3, <1>5 DEF DriverKnows
<1>9. x'.kind \in {"cancel", "complete"} /\ x'.driver # None =>
        /\ x'.at \in {"driver", "commit"} => x'.seen
        /\ x'.at = "commit" => HoldsDriver(q, x.driver)'
  BY <1>1, <1>2, <1>3 DEF DriverKnows
<1> QED
  BY <1>1, <1>6, <1>7, <1>8, <1>9 DEF DriverKnows, HoldsDriver, Serves, x

LEMMA Learnt ==
  ASSUME TxnInv, NEW s \in Session, NEW next, Moves(s, next), DriverKnows(s, next)'
  PROVE  DriverKnows(s, txn[s])'
<1>1. txn'[s] = next
  BY DEF Moves, Locked, Passed, TxnInv, TxnTypeOK
<1> QED
  BY <1>1 DEF DriverKnows, HoldsDriver, Serves

\* The transactions that write no driver, or have not come to the driver's row.
LEMMA NothingLearnt ==
  ASSUME NEW s \in Session, NEW next,
         \/ next.kind \notin OnDriver \cup {"accept", "cancel", "complete"}
         \/ next.at \notin {"driver", "commit"}
  PROVE  DriverKnows(s, next)'
  BY DEF DriverKnows, OnDriver

LEMMA OverLearns ==
  ASSUME TxnInv, NEW s \in Session, Closed(s)
  PROVE  DriverKnows(s, txn[s])'
<1>1. txn'[s] = NoTxn /\ NoTxn.kind = "none"
  BY DEF Closed, NoTxn
<1> QED
  BY <1>1 DEF DriverKnows, OnDriver

LEMMA BeginLearns ==
  ASSUME TxnInv, NEW s \in Session, NEW k \in Kind, NEW r \in Ride \cup {None},
         NEW d \in Driver \cup {None}, Begin(s, k, r, d)
  PROVE  DriverKnows(s, txn[s])'
<1> PICK next : next = [kind |-> k, ride |-> r, driver |-> d, at |-> First(k),
                        seen |-> SeesAtStart(k, r, d), over |-> {q \in Ride : expired[q]}]
  OBVIOUS
<1>1. Moves(s, next)
  BY DEF Begin, Moves
<1>2. next.kind = k /\ next.at # "commit" /\ (k \in {"online", "cancel", "complete"} => next.at # "driver")
  BY DEF First
<1>3. DriverKnows(s, next)'
  BY <1>2 DEF DriverKnows
<1> QED
  BY <1>1, <1>3, Learnt

LEMMA AcceptLearns ==
  ASSUME TxnInv, NEW s \in Session, AcceptStatement(s)
  PROVE  DriverKnows(s, txn[s])'
<1> PICK x : x = txn[s]
  OBVIOUS
<1>1. x \in Txn /\ x.kind = "accept" /\ x.driver \in Driver
  BY DEF AcceptStatement, TxnInv, TxnTypeOK, Knows, WellFormed
<1>2. ASSUME NEW place \in {"active", "attempt", "key", "driver", "commit"}, Locked(s, To(s, place)),
             place = "commit" => x.at = "driver"
      PROVE  DriverKnows(s, txn[s])'
  <2> PICK next : next = To(s, place)
    OBVIOUS
  <2>1. next.kind = "accept" /\ next.driver = x.driver /\ next.at = place
    BY <1>1, ToFields DEF Statement
  <2>2. Moves(s, next)
    BY <1>2 DEF Moves
  <2>3. ASSUME place = "commit" PROVE HoldsDriver(s, x.driver)'
    <3>1. Wanted(x) = <<<<"driver", x.driver>>, "no_key_update">>
      BY <1>1, <1>2, <2>3 DEF Wanted
    <3> QED
      BY <1>2, <2>2, <3>1, LocksGrow DEF HoldsDriver
  <2>4. DriverKnows(s, next)'
    BY <2>1, <2>3 DEF DriverKnows
  <2> QED
    BY <2>2, <2>4, Learnt
<1> QED
  BY <1>1, <1>2, OverLearns DEF AcceptStatement, RollsBack

\* Whoever ends a ride finds its driver busy: the driver serves that ride and no other.
LEMMA EndLearns ==
  ASSUME TxnInv, AvailInv, NEW s \in Session, EndStatement(s)
  PROVE  DriverKnows(s, txn[s])'
<1> PICK x : x = txn[s]
  OBVIOUS
<1> PICK r : r = x.ride
  OBVIOUS
<1> PICK d : d = assigned[r]
  OBVIOUS
<1>1. /\ x \in Txn /\ x.kind \in {"cancel", "complete"} /\ EndKnows(s, x) /\ WellFormed(x)
      /\ DriverKnows(s, x)
  BY DEF EndStatement, TxnInv, TxnTypeOK, Knows, AvailInv
<1>2. r \in Ride /\ d \in Driver \cup {None}
  BY <1>1 DEF WellFormed, Kind, OnDriver, TxnInv, Core, TypeOK
<1>3. ASSUME x.at \in {"release", "driver"}, d # None
      PROVE  x.driver = d /\ avail[d] = "busy" /\ ~ServesOtherThan(d, r)
  <2>1. x.driver = d /\ status[r] \in Cancellable \cup {"in_progress"}
    BY <1>1, <1>3 DEF EndKnows
  <2>2. d \in Driver /\ status[r] \in Active
    BY <1>2, <1>3, <2>1 DEF TxnInv, Core, Agreement, ColumnsMatchStatus, Cancellable, Active
  <2>3. avail[d] = "busy"
    BY <1>2, <2>2 DEF AvailInv, BusyIsServing, Serves
  <2>4. ~ServesOtherThan(d, r)
    BY <1>2, <1>3, <2>2 DEF ServesOtherThan, TxnInv, Core, OneRidePerDriver
  <2> QED
    BY <2>1, <2>3, <2>4
<1>4. ASSUME NEW next, Moves(s, next), next.at \notin {"driver", "commit"}
      PROVE  DriverKnows(s, txn[s])'
  BY <1>4, NothingLearnt, Learnt
<1>5. CASE /\ x.at = "ride"
           /\ Locked(s, [To(s, "attempt") EXCEPT !.driver = d])
  <2> PICK next : next = [To(s, "attempt") EXCEPT !.driver = d]
    OBVIOUS
  <2>1. next.at = "attempt"
    BY <1>1 DEF To, Txn
  <2> QED
    BY <1>4, <1>5, <2>1 DEF Moves
<1>6. CASE x.at = "attempt" /\ (Locked(s, To(s, "release")) \/ Passed(s, To(s, "release")))
  <2> PICK next : next = To(s, "release")
    OBVIOUS
  <2>1. next.at = "release"
    BY <1>1 DEF To, Txn
  <2> QED
    BY <1>4, <1>6, <2>1 DEF Moves
<1>7. CASE x.at = "release" /\ d = None /\ Passed(s, To(s, "commit"))
  <2> PICK next : next = To(s, "commit")
    OBVIOUS
  <2>1. next.kind = x.kind /\ next.driver = x.driver
    BY <1>1 DEF To, Txn
  <2>2. x.driver = None
    BY <1>1, <1>7 DEF EndKnows
  <2>3. DriverKnows(s, next)'
    BY <1>1, <2>1, <2>2 DEF DriverKnows, OnDriver
  <2> QED
    BY <1>7, <2>3, Learnt DEF Moves
<1>8. CASE x.at = "release" /\ d # None
           /\ Passed(s, [To(s, "driver") EXCEPT !.seen = ~ServesOtherThan(d, r)])
  <2> PICK next : next = [To(s, "driver") EXCEPT !.seen = TRUE]
    OBVIOUS
  <2>1. Passed(s, next)
    BY <1>3, <1>8
  <2>2. next.kind = x.kind /\ next.at = "driver" /\ next.seen
    BY <1>1 DEF To, Txn
  <2>3. DriverKnows(s, next)'
    BY <1>1, <2>2 DEF DriverKnows, OnDriver
  <2> QED
    BY <2>1, <2>3, Learnt DEF Moves
<1>9. CASE x.at = "driver" /\ x.seen /\ Locked(s, To(s, "commit"))
  <2> PICK next : next = To(s, "commit")
    OBVIOUS
  <2>1. next.kind = x.kind /\ next.at = "commit" /\ next.seen /\ next.driver = x.driver
    BY <1>1, <1>9 DEF To, Txn
  <2>2. Wanted(x) = <<<<"driver", x.driver>>, "no_key_update">>
    BY <1>1, <1>9 DEF Wanted
  <2>3. HoldsDriver(s, x.driver)'
    BY <1>9, <2>2, LocksGrow DEF Moves, HoldsDriver
  <2>4. DriverKnows(s, next)'
    BY <1>1, <2>1, <2>3 DEF DriverKnows, OnDriver
  <2> QED
    BY <1>9, <2>4, Learnt DEF Moves
<1>10. x.at = "driver" => x.seen /\ avail[x.driver] = "busy"
  <2>1. x.at = "driver" => x.driver = d /\ d # None
    BY <1>1 DEF EndKnows
  <2>2. x.at = "driver" => x.seen
    BY <1>1, <2>1 DEF DriverKnows
  <2> QED
    BY <1>3, <2>1, <2>2
<1>11. x.at = "driver" => d = x.driver
  BY <1>1 DEF EndKnows
<1>12. \/ RollsBack(s)
       \/ x.at = "ride" /\ Locked(s, [To(s, "attempt") EXCEPT !.driver = d])
       \/ x.at = "attempt" /\ (Locked(s, To(s, "release")) \/ Passed(s, To(s, "release")))
       \/ x.at = "release" /\ d = None /\ Passed(s, To(s, "commit"))
       \/ x.at = "release" /\ d # None
          /\ Passed(s, [To(s, "driver") EXCEPT !.seen = ~ServesOtherThan(d, r)])
       \/ x.at = "driver" /\ x.seen /\ Locked(s, To(s, "commit"))
  BY <1>10, <1>11 DEF EndStatement
<1> QED
  BY <1>5, <1>6, <1>7, <1>8, <1>9, <1>12, OverLearns DEF RollsBack

LEMMA OnDriverLearns ==
  ASSUME TxnInv, AvailInv, NEW s \in Session, DriverStatement(s)
  PROVE  DriverKnows(s, txn[s])'
<1> PICK x : x = txn[s]
  OBVIOUS
<1>1. x \in Txn /\ x.kind \in OnDriver /\ DriverKnows(s, x)
  BY DEF DriverStatement, TxnInv, TxnTypeOK, AvailInv
<1>2. CASE x.at = "asked"
           /\ Passed(s, [To(s, "driver") EXCEPT !.seen = SeesAtStart("online", None, x.driver)])
  <2> PICK saw \in BOOLEAN : saw = SeesAtStart("online", None, x.driver)
    BY DEF SeesAtStart, OnDriver
  <2> PICK next : next = [To(s, "driver") EXCEPT !.seen = saw]
    OBVIOUS
  <2>1. next.kind = x.kind /\ next.at = "driver" /\ next.seen = saw /\ next.driver = x.driver
    BY <1>1 DEF To, Txn
  <2>2. Passed(s, next)
    BY <1>2
  <2>3. saw => ~Serves(x.driver)'
    BY <2>2 DEF Passed, SeesAtStart, OnDriver, vars, Serves
  <2>4. DriverKnows(s, next)'
    BY <1>1, <2>1, <2>3 DEF DriverKnows, OnDriver
  <2> QED
    BY <2>2, <2>4, Learnt DEF Moves
<1>3. CASE x.at = "driver" /\ Locked(s, To(s, "commit"))
           /\ (x.kind \in {"fix", "offline"} \/ (x.seen /\ (x.kind = "lost" => avail[x.driver] = "available")))
  <2> PICK next : next = To(s, "commit")
    OBVIOUS
  <2>1. next.kind = x.kind /\ next.at = "commit" /\ next.seen = x.seen /\ next.driver = x.driver
    BY <1>1 DEF To, Txn
  <2>2. Wanted(x) = <<<<"driver", x.driver>>, "no_key_update">>
    BY <1>1, <1>3 DEF Wanted, OnDriver
  <2>3. HoldsDriver(s, x.driver)' /\ UNCHANGED vars
    BY <1>3, <2>2, LocksGrow DEF Moves, HoldsDriver
  <2>4. x.kind = "online" => x.seen /\ ~Serves(x.driver)
    BY <1>1, <1>3 DEF DriverKnows
  <2>5. DriverKnows(s, next)'
    BY <1>1, <1>3, <2>1, <2>3, <2>4 DEF DriverKnows, OnDriver, Serves, vars
  <2> QED
    BY <1>3, <2>5, Learnt DEF Moves
<1> QED
  BY <1>2, <1>3, OverLearns DEF DriverStatement, RollsBack

\* The other transactions leave drivers alone.
LEMMA OtherLearns ==
  ASSUME TxnInv, NEW s \in Session,
         \/ OfferStatement(s) \/ FinishStatement(s) \/ ReconcileStatement(s)
         \/ PinStatement(s) \/ RideStatement(s)
  PROVE  DriverKnows(s, txn[s])'
<1>1. txn[s] \in Txn
  BY DEF TxnInv, TxnTypeOK
<1>2. \A place : To(s, place).kind = txn[s].kind
              /\ \A saw : [To(s, place) EXCEPT !.seen = saw].kind = txn[s].kind
  BY <1>1 DEF To, Txn
<1>3. ASSUME NEW next, Moves(s, next), next.kind = txn[s].kind,
             txn[s].kind \notin OnDriver \cup {"accept", "cancel", "complete"}
      PROVE  DriverKnows(s, txn[s])'
  BY <1>3, NothingLearnt, Learnt
<1>4. CASE OfferStatement(s)
  BY <1>2, <1>3, <1>4 DEF OfferStatement, Moves, OnDriver
<1>5. CASE FinishStatement(s) \/ ReconcileStatement(s)
  BY <1>2, <1>3, <1>5, OverLearns DEF FinishStatement, ReconcileStatement, Moves, OnDriver, RollsBack
<1>6. CASE PinStatement(s) \/ RideStatement(s)
  BY <1>2, <1>3, <1>6, OverLearns DEF PinStatement, RideStatement, Moves, OnDriver, RollsBack
<1> QED
  BY <1>4, <1>5, <1>6

LEMMA AvailStep ==
  ASSUME TxnInv, AvailInv, OnlineApart, [TxnNext]_txnVars
  PROVE  AvailInv'
<1>1. ASSUME UNCHANGED <<status, assigned, avail>>, NEW q \in Session, Undisturbed(q)
      PROVE  DriverKnows(q, txn[q])'
  BY <1>1, StillFree DEF AvailInv, NotEngaged, Serves
<1>2. ASSUME UNCHANGED <<status, assigned, avail>> PROVE BusyIsServing'
  BY <1>2 DEF AvailInv, BusyIsServing, Serves
<1>3. CASE UNCHANGED txnVars
  BY <1>3 DEF txnVars, AvailInv, BusyIsServing, DriverKnows, HoldsDriver, Serves
<1>4. CASE Passing
  <2>1. UNCHANGED <<status, assigned, avail>>
    BY <1>4 DEF Passing, LeaseExpires, driverVars
  <2> QED
    BY <1>1, <1>2, <1>4, <2>1, TimeAside DEF AvailInv
<1>5. ASSUME NEW s \in Session, UNCHANGED vars, Closed(s) \/ \E next : Moves(s, next),
             DriverKnows(s, txn[s])'
      PROVE  AvailInv'
  <2>1. UNCHANGED <<status, assigned, avail>>
    BY <1>5 DEF vars
  <2>2. OwnRows(s)
    BY <1>5 DEF vars, OwnRows, SameColumns, NotAsked, NotEngaged, Serves
  <2>3. \A q \in Session \ {s} : Undisturbed(q)
    BY <1>5, <2>2, CloseAside, MoveAside
  <2> QED
    BY <1>1, <1>2, <1>5, <2>1, <2>3 DEF AvailInv
<1>6. ASSUME NEW s \in Session, Commit(s) PROVE AvailInv'
  <2>1. /\ OwnRows(s) /\ Closed(s) /\ BusyIsServing'
        /\ \A d \in Driver : ~HoldsDriver(s, d) => avail'[d] = avail[d]
        /\ txn[s].kind # "accept" => \A d \in Driver : NotEngaged(d)
    BY <1>6, CommitEffect, AvailEffect DEF OwnDrivers, Commit
  <2>2. ASSUME NEW q \in Session \ {s} PROVE DriverKnows(q, txn[q])'
    <3>1. Undisturbed(q)
      BY <2>1, CloseAside
    <3>2. \A d \in Driver : HoldsDriver(q, d) => avail'[d] = avail[d]
      BY <2>1, HeldAlone DEF TxnInv
    <3>3. txn[q].kind = "online" => txn[s].kind # "accept"
      BY DEF OnlineApart
    <3> QED
      BY <2>1, <3>1, <3>2, <3>3, StillFree DEF AvailInv
  <2>3. DriverKnows(s, txn[s])'
    BY <2>1, OverLearns
  <2> QED
    BY <2>1, <2>2, <2>3 DEF AvailInv
<1>7. ASSUME NEW s \in Session, NEW k \in Kind, NEW r \in Ride \cup {None},
             NEW d \in Driver \cup {None}, Begin(s, k, r, d)
      PROVE  AvailInv'
  <2>1. UNCHANGED vars /\ \E next : Moves(s, next)
    BY <1>7 DEF Begin, Passed, Moves
  <2> QED
    BY <1>5, <1>7, <2>1, BeginLearns
<1>8. ASSUME NEW s \in Session, RollsBack(s) PROVE AvailInv'
  BY <1>5, <1>8, OverLearns DEF RollsBack
<1>9. ASSUME NEW s \in Session,
             \/ AcceptStatement(s) \/ OfferStatement(s) \/ FinishStatement(s) \/ ReconcileStatement(s)
             \/ EndStatement(s) \/ PinStatement(s) \/ RideStatement(s) \/ DriverStatement(s)
      PROVE  AvailInv'
  <2>1. DriverKnows(s, txn[s])'
    BY <1>9, AcceptLearns, EndLearns, OnDriverLearns, OtherLearns
  <2>2. Advances(s) \/ RollsBack(s)
    BY <1>9, AcceptStep, OfferStep, RefusalStep, EndStep, RideStep, OnDriverStep
  <2>3. UNCHANGED vars /\ (Closed(s) \/ \E next : Moves(s, next))
    BY <2>2 DEF Advances, Moves, Locked, Passed, RollsBack
  <2> QED
    BY <1>5, <2>1, <2>3
<1> QED
  BY <1>3, <1>4, <1>6, <1>7, <1>8, <1>9 DEF TxnNext, TxnStep, Victim

LEMMA InitAvailInv == TxnInit => AvailInv
<1> SUFFICES ASSUME TxnInit PROVE AvailInv
  OBVIOUS
<1>1. BusyIsServing
  BY DEF TxnInit, BusyIsServing, Serves, Active
<1>2. NoTxn.kind = "none"
  BY DEF NoTxn
<1> QED
  BY <1>1, <1>2 DEF TxnInit, AvailInv, DriverKnows, OnDriver

\* Availability tells the truth about the rides in every committed state, if no driver goes
\* online while somebody accepts.
THEOREM AvailabilityHolds == TxnSpec /\ []OnlineApart => []CommittedAgree
<1>1. TxnInv /\ AvailInv => CommittedAgree
  BY DEF TxnInv, AvailInv, Core, Agreement, BusyIsServing, CommittedAgree,
     AvailabilityIsTrue, BusyHasRide, AvailableIsFree
<1>2. TxnInv /\ AvailInv /\ OnlineApart /\ [TxnNext]_txnVars => AvailInv'
  BY AvailStep
<1> QED
  BY <1>1, <1>2, InitAvailInv, TxnInvariance, PTL DEF TxnSpec

=============================================================================
