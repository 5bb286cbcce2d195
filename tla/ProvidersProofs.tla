--------------------------- MODULE ProvidersProofs ---------------------------
(***************************************************************************)
(* Proofs about the providers' components, for any number of owners,       *)
(* vehicles, drivers, connections, requests, files and reviewers:          *)
(* VehicleCodes, Fleet, DocumentFiles and Approvals.                       *)
(***************************************************************************)
EXTENDS VehicleCodes, Fleet, DocumentFiles, Approvals, SequenceTheorems, TLAPS

-----------------------------------------------------------------------------
(* Vehicle codes: an owner has an elected vehicle as soon as the owner has *)
(* any, and it is the first.                                               *)

Txn == [op : {"idle", "register", "reserve", "claim"}, v : Vehicles \cup {None},
        d : Drivers \cup {None}, saw : Drivers \cup {None}, locked : BOOLEAN]

\* A transaction in progress is about a vehicle, a claim about a driver too.
TxnsAreAbout ==
  \A c \in Clients :
    /\ txn[c].op # "idle" => txn[c].v \in Vehicles
    /\ txn[c].op = "claim" => txn[c].d \in Drivers

ElectedIsFirst ==
  /\ elected = <<>> <=> stock = <<>>
  /\ elected # <<>> => elected[1] = stock[1]

CodesInv == VehicleCodesTypeOK /\ TxnsAreAbout /\ ElectedIsFirst

LEMMA InitCodes == VehicleCodesInit => CodesInv
BY DEF VehicleCodesInit, CodesInv, VehicleCodesTypeOK, TxnsAreAbout, ElectedIsFirst, Idle, Registered

LEMMA BeginCodes ==
  ASSUME CodesInv, NEW c \in Clients,
         \/ \E v \in Vehicles : BeginRegister(c, v)
         \/ \E v \in Vehicles, d \in Drivers \cup {None} : BeginReserve(c, v, d)
         \/ \E v \in Vehicles, d \in Drivers : BeginClaim(c, v, d)
         \/ Lock(c) \/ Abort(c)
  PROVE  CodesInv' /\ UNCHANGED <<stock, elected, resting, reserved, driver, members>>
<1>1. UNCHANGED <<stock, elected, resting, reserved, driver, members>>
  BY DEF BeginRegister, BeginReserve, BeginClaim, Begin, Lock, Abort
<1>2. txn \in [Clients -> Txn]
  BY DEF CodesInv, VehicleCodesTypeOK, Txn
<1>3. txn' \in [Clients -> Txn] /\ TxnsAreAbout'
  <2>1. ASSUME NEW v \in Vehicles, BeginRegister(c, v) PROVE txn' \in [Clients -> Txn] /\ TxnsAreAbout'
    BY <1>2, <2>1 DEF BeginRegister, Begin, Idle, Txn, CodesInv, TxnsAreAbout
  <2>2. ASSUME NEW v \in Vehicles, NEW d \in Drivers \cup {None}, BeginReserve(c, v, d)
        PROVE  txn' \in [Clients -> Txn] /\ TxnsAreAbout'
    BY <1>2, <2>2 DEF BeginReserve, Begin, Idle, Txn, CodesInv, TxnsAreAbout
  <2>3. ASSUME NEW v \in Vehicles, NEW d \in Drivers, BeginClaim(c, v, d)
        PROVE  txn' \in [Clients -> Txn] /\ TxnsAreAbout'
    <3>1. reserved[v] \in Drivers \cup {None}
      BY DEF CodesInv, VehicleCodesTypeOK
    <3> QED
      BY <1>2, <2>3, <3>1 DEF BeginClaim, Begin, Idle, Txn, CodesInv, TxnsAreAbout
  <2>4. CASE Lock(c)
    BY <1>2, <2>4 DEF Lock, Txn, CodesInv, TxnsAreAbout
  <2>5. CASE Abort(c)
    BY <1>2, <2>5 DEF Abort, Ends, Idle, Txn, CodesInv, TxnsAreAbout
  <2> QED
    BY <2>1, <2>2, <2>3, <2>4, <2>5
<1> QED
  BY <1>1, <1>3 DEF CodesInv, VehicleCodesTypeOK, ElectedIsFirst, Registered, Txn

\* A transaction that ends is about nothing.
LEMMA EndStep ==
  ASSUME CodesInv, NEW c \in Clients, Ends(c)
  PROVE  txn' \in [Clients -> Txn] /\ TxnsAreAbout'
BY DEF CodesInv, VehicleCodesTypeOK, TxnsAreAbout, Ends, Idle, Txn

LEMMA RegisterStep ==
  ASSUME CodesInv, NEW c \in Clients, CommitRegister(c)
  PROVE  /\ CodesInv'
         /\ UNCHANGED driver
         /\ elected # <<>> => elected' = elected
<1> DEFINE v == txn[c].v
<1>1. v \in Vehicles
  BY DEF CodesInv, TxnsAreAbout, CommitRegister
<1>2. /\ stock \in Seq(Vehicles) /\ elected \in Seq(Vehicles) /\ Len(elected) <= 1
      /\ resting \subseteq Registered
  BY DEF CodesInv, VehicleCodesTypeOK
<1>3. stock' = Append(stock, v) /\ elected' = IF Len(elected) = 0 THEN <<v>> ELSE elected
  BY DEF CommitRegister, Elect
<1>4. Len(elected) = 0 <=> elected = <<>>
  BY <1>2
<1>5. stock' \in Seq(Vehicles) /\ elected' \in Seq(Vehicles) /\ Len(elected') <= 1
  BY <1>1, <1>2, <1>3
<1>6. Registered \subseteq Registered'
  <2> SUFFICES ASSUME NEW i \in DOMAIN stock PROVE stock[i] \in Registered'
    BY DEF Registered
  <2>1. i \in DOMAIN stock' /\ stock'[i] = stock[i]
    BY <1>1, <1>2, <1>3
  <2> QED
    BY <2>1 DEF Registered
<1>7. ElectedIsFirst'
  <2>1. CASE elected = <<>>
    <3>1. stock = <<>> /\ stock' = <<v>> /\ elected' = <<v>>
      BY <1>1, <1>3, <1>4, <2>1 DEF CodesInv, ElectedIsFirst
    <3> QED
      BY <3>1 DEF ElectedIsFirst
  <2>2. CASE elected # <<>>
    <3>1. stock # <<>> /\ elected[1] = stock[1] /\ elected' = elected
      BY <1>3, <1>4, <2>2 DEF CodesInv, ElectedIsFirst
    <3>2. stock'[1] = stock[1] /\ stock' # <<>>
      BY <1>1, <1>2, <1>3, <3>1
    <3> QED
      BY <2>2, <3>1, <3>2 DEF ElectedIsFirst
  <2> QED
    BY <2>1, <2>2
<1>8. Ends(c) /\ UNCHANGED <<resting, reserved, driver, members>>
  BY DEF CommitRegister
<1>9. txn' \in [Clients -> Txn] /\ TxnsAreAbout'
  BY <1>8, EndStep
<1>10. VehicleCodesTypeOK'
  BY <1>2, <1>5, <1>6, <1>8, <1>9 DEF CodesInv, VehicleCodesTypeOK, Txn
<1> QED
  BY <1>3, <1>4, <1>7, <1>8, <1>9, <1>10 DEF CodesInv

LEMMA ReserveStep ==
  ASSUME CodesInv, NEW c \in Clients, CommitReserve(c)
  PROVE  CodesInv' /\ UNCHANGED <<stock, elected, driver>>
<1>1. Ends(c) /\ UNCHANGED <<stock, elected, resting, driver, members>>
  BY DEF CommitReserve
<1>2. txn' \in [Clients -> Txn] /\ TxnsAreAbout'
  BY <1>1, EndStep
<1>3. reserved' \in [Vehicles -> Drivers \cup {None}]
  BY DEF CommitReserve, CodesInv, VehicleCodesTypeOK
<1> QED
  BY <1>1, <1>2, <1>3 DEF CodesInv, VehicleCodesTypeOK, ElectedIsFirst, Registered, Txn

LEMMA ClaimStep ==
  ASSUME CodesInv, NEW c \in Clients, CommitClaim(c)
  PROVE  /\ CodesInv' /\ UNCHANGED <<stock, elected>>
         /\ \A v \in Vehicles : driver'[v] \notin {None, driver[v]} =>
              reserved[v] \in {None, driver'[v]}
<1>1. Ends(c) /\ UNCHANGED <<stock, elected, resting, reserved, members>>
  BY DEF CommitClaim
<1>2. txn' \in [Clients -> Txn] /\ TxnsAreAbout'
  BY <1>1, EndStep
<1>3. txn[c].v \in Vehicles /\ txn[c].d \in Drivers
  BY DEF CodesInv, TxnsAreAbout, CommitClaim
<1>4. \/ UNCHANGED driver
      \/ OpenTo(c) /\ driver' = [driver EXCEPT ![txn[c].v] = txn[c].d]
  BY DEF CommitClaim
<1>5. driver' \in [Vehicles -> Drivers \cup {None}]
  BY <1>3, <1>4 DEF CodesInv, VehicleCodesTypeOK
<1>6. \A v \in Vehicles : driver'[v] \notin {None, driver[v]} => reserved[v] \in {None, driver'[v]}
  BY <1>3, <1>4 DEF CodesInv, VehicleCodesTypeOK, OpenTo
<1> QED
  BY <1>1, <1>2, <1>5, <1>6 DEF CodesInv, VehicleCodesTypeOK, ElectedIsFirst, Registered, Txn

\* What releases, retires, deletes or lets a driver leave only takes vehicles away.
LEMMA OtherStep ==
  ASSUME CodesInv,
         \/ \E v \in Vehicles : Unassign(v) \/ Retire(v) \/ Delete(v) \/ Activate(v)
         \/ \E d \in Drivers : LeaveFleet(d) \/ JoinFleet(d)
  PROVE  /\ CodesInv' /\ UNCHANGED <<stock, elected>>
         /\ \A v \in Vehicles : driver'[v] \in {None, driver[v]}
<1>1. UNCHANGED <<stock, elected, txn>>
  BY DEF Unassign, Retire, Delete, Activate, LeaveFleet, JoinFleet
<1>2. /\ driver' \in [Vehicles -> Drivers \cup {None}]
      /\ reserved' \in [Vehicles -> Drivers \cup {None}]
      /\ \A v \in Vehicles : driver'[v] \in {None, driver[v]}
  BY DEF Unassign, Retire, Delete, Activate, LeaveFleet, JoinFleet, CodesInv, VehicleCodesTypeOK
<1>3. members' \subseteq Drivers
  BY DEF Unassign, Retire, Delete, Activate, LeaveFleet, JoinFleet, CodesInv, VehicleCodesTypeOK
<1>4. resting' \subseteq Registered
  BY DEF Unassign, Retire, Delete, Activate, LeaveFleet, JoinFleet, CodesInv, VehicleCodesTypeOK,
         Present
<1> QED
  BY <1>1, <1>2, <1>3, <1>4
     DEF CodesInv, VehicleCodesTypeOK, TxnsAreAbout, ElectedIsFirst, Registered

\* The step of the whole, and what it may do to the election and to drivers.
LEMMA CodesStep ==
  ASSUME CodesInv, [VehicleCodesNext]_codesVars
  PROVE  /\ CodesInv'
         /\ elected # <<>> => elected' = elected
         /\ \A v \in Vehicles : driver'[v] \notin {None, driver[v]} =>
              reserved[v] \in {None, driver'[v]}
<1>1. CASE UNCHANGED codesVars
  BY <1>1 DEF codesVars, CodesInv, VehicleCodesTypeOK, TxnsAreAbout, ElectedIsFirst, Registered
<1>2. CASE VehicleCodesNext
  BY <1>2, BeginCodes, RegisterStep, ReserveStep, ClaimStep, OtherStep DEF VehicleCodesNext
<1> QED
  BY <1>1, <1>2

LEMMA CodesInvariance == VehicleCodesSpec => []CodesInv
<1>1. CodesInv /\ [VehicleCodesNext]_codesVars => CodesInv'
  BY CodesStep
<1> QED
  BY <1>1, InitCodes, PTL DEF VehicleCodesSpec

\* Registrations, reservations, claims and releases, however they overlap, elect an owner's
\* first vehicle once, and give a reserved vehicle to nobody else.
THEOREM ElectionAndReservation == VehicleCodesSpec => ElectionAndReservationHold
<1>1. CodesInv /\ CodesInv' /\ [VehicleCodesNext]_codesVars =>
        [/\ elected # <<>> => elected' = elected
         /\ elected' # <<>> => elected'[1] = stock'[1]
         /\ \A v \in Vehicles : driver'[v] \notin {None, driver[v]} =>
              reserved[v] \in {None, driver'[v]}]_codesVars
  BY CodesStep DEF CodesInv, ElectedIsFirst
<1> QED
  BY <1>1, CodesInvariance, PTL DEF VehicleCodesSpec, ElectionAndReservationHold

\* Every reachable state of vehicles, codes and transactions has its type.
THEOREM VehicleCodesTypeCorrect == VehicleCodesSpec => []VehicleCodesTypeOK
<1>1. CodesInv => VehicleCodesTypeOK
  BY DEF CodesInv
<1> QED
  BY <1>1, CodesInvariance, PTL

-----------------------------------------------------------------------------
(* The fleet.  A link is written from both sides in one transaction, which *)
(* compares what it read before it locked.                                 *)

\* A transaction names the driver and the vehicle its operation is about.
TxnNames ==
  \A p \in Connections :
    /\ fleetTxn[p].op \in {"claim", "switch", "first", "leave", "accept"} => fleetTxn[p].d \in Crew
    /\ fleetTxn[p].op \in Operation \ {"leave"} => fleetTxn[p].v \in Cars

FleetInv == FleetTypeOK /\ TxnNames /\ LinksAgree /\ AssignedAreEntitled

FleetTxn == [op : Operation, d : Crew \cup {NoLink}, v : Cars \cup {NoLink},
        saw : SUBSET Cars, held : SUBSET RowLock]

LEMMA FleetParts ==
  ASSUME FleetInv
  PROVE  /\ FleetTypeOK /\ TxnNames /\ LinksAgree /\ AssignedAreEntitled
         /\ fleetTxn \in [Connections -> {NoTxn} \cup FleetTxn]
BY DEF FleetInv, FleetTypeOK, FleetTxn

LEMMA FleetInitially == FleetInit => FleetInv
<1> SUFFICES ASSUME FleetInit PROVE FleetInv
  OBVIOUS
<1>1. FleetTypeOK
  BY DEF FleetInit, FleetTypeOK
<1>2. TxnNames
  BY DEF FleetInit, TxnNames, NoTxn, Operation
<1>3. LinksAgree /\ AssignedAreEntitled
  BY FleetAssumption DEF FleetInit, LinksAgree, AssignedAreEntitled
<1> QED
  BY <1>1, <1>2, <1>3 DEF FleetInv

-----------------------------------------------------------------------------
(* Beginning, taking a lock and giving up touch the transactions only. *)

LEMMA TxnMoves ==
  ASSUME FleetInv, NEW p \in Connections, NEW t \in FleetTxn \cup {NoTxn},
         fleetTxn' = [fleetTxn EXCEPT ![p] = t],
         t.op \in {"claim", "switch", "first", "leave", "accept"} => t.d \in Crew,
         t.op \in Operation \ {"leave"} => t.v \in Cars,
         UNCHANGED Links
  PROVE  FleetInv'
<1> USE FleetParts
<1>1. /\ fleetTxn' \in [Connections -> {NoTxn} \cup FleetTxn]
      /\ \A q \in Connections : fleetTxn'[q] = IF q = p THEN t ELSE fleetTxn[q]
  OBVIOUS
<1>2. FleetTypeOK'
  BY <1>1 DEF FleetTypeOK, FleetTxn, Links
<1>3. TxnNames'
  BY <1>1 DEF TxnNames
<1>4. LinksAgree' /\ AssignedAreEntitled'
  BY DEF LinksAgree, AssignedAreEntitled, Entitled, Links
<1> QED
  BY <1>2, <1>3, <1>4 DEF FleetInv

LEMMA TxnEnds ==
  ASSUME FleetInv, NEW p \in Connections, EndTxn(p), UNCHANGED Links
  PROVE  FleetInv'
<1>1. NoTxn.op = "idle"
  BY DEF NoTxn
<1> QED
  BY <1>1, TxnMoves DEF EndTxn, Operation

LEMMA BeginTxnStep ==
  ASSUME FleetInv, NEW p \in Connections, NEW op \in Operation, NEW d \in Crew \cup {NoLink},
         NEW v \in Cars \cup {NoLink}, NEW saw \in SUBSET Cars, BeginTxn(p, op, d, v, saw),
         op \in {"claim", "switch", "first", "leave", "accept"} => d \in Crew,
         op # "leave" => v \in Cars
  PROVE  FleetInv'
<1> DEFINE t == [op |-> op, d |-> d, v |-> v, saw |-> saw, held |-> {}]
<1>1. t \in FleetTxn /\ t.op = op /\ t.d = d /\ t.v = v
  BY DEF FleetTxn
<1>2. fleetTxn' = [fleetTxn EXCEPT ![p] = t] /\ UNCHANGED Links
  BY DEF BeginTxn
<1> HIDE DEF t
<1> QED
  BY <1>1, <1>2, TxnMoves

LEMMA Begins ==
  ASSUME FleetInv, NEW p \in Connections,
         BeginOwner(p) \/ BeginDriver(p) \/ BeginLeave(p) \/ BeginFirst(p) \/ BeginAccept(p)
  PROVE  FleetInv'
<1>1. CASE BeginOwner(p)
  BY <1>1, BeginTxnStep DEF BeginOwner, Operation
<1>2. CASE BeginDriver(p)
  BY <1>2, BeginTxnStep DEF BeginDriver, Operation
<1>3. CASE BeginLeave(p)
  <2>1. PICK d \in Crew :
          BeginTxn(p, "leave", d, NoLink, {v \in Cars : OwnerOf[v] = FleetOwner /\ assigned[v] = d})
    BY <1>3 DEF BeginLeave
  <2>2. {v \in Cars : OwnerOf[v] = FleetOwner /\ assigned[v] = d} \in SUBSET Cars
    OBVIOUS
  <2> QED
    BY <2>1, <2>2, BeginTxnStep DEF Operation
<1>4. CASE BeginFirst(p)
  BY <1>4, BeginTxnStep DEF BeginFirst, Operation
<1>5. CASE BeginAccept(p)
  <2>1. PICK d \in Crew : Operational(d) /\ BeginTxn(p, "accept", d, active[d], {})
    BY <1>5 DEF BeginAccept
  <2>2. active[d] \in Cars
    BY <2>1, FleetParts DEF Operational, FleetTypeOK
  <2> QED
    BY <2>1, <2>2, BeginTxnStep DEF Operation
<1> QED
  BY <1>1, <1>2, <1>3, <1>4, <1>5

\* The locks a transaction still wants are locks of rows that exist.
LEMMA StagesAreLocks ==
  ASSUME FleetInv, NEW p \in Connections
  PROVE  /\ DOMAIN Stages(p) \subseteq 1..4
         /\ \A i \in DOMAIN Stages(p) : Stages(p)[i] \subseteq RowLock
<1> USE FleetParts
<1> DEFINE t == fleetTxn[p]
<1>1. \A v \in Cars : Adv(v) \in RowLock /\ VehicleRow(v, "update") \in RowLock
                      /\ VehicleRow(v, "nokey") \in RowLock /\ VehicleRow(v, "share") \in RowLock
  BY DEF Adv, VehicleRow, RowLock
<1>2. \A d \in Crew : DriverRow(d, "update") \in RowLock
                      /\ DriverRow(d, "nokey") \in RowLock /\ DriverRow(d, "share") \in RowLock
  BY DEF DriverRow, RowLock
<1>3. CASE t.op = "retire"
  <2>1. t.v \in Cars
    BY <1>3 DEF TxnNames, Operation
  <2>2. Stages(p) = <<{Adv(t.v)}, {VehicleRow(t.v, "update")},
              {DriverRow(e, "nokey") : e \in {f \in Crew : assigned[t.v] = f /\ active[f] = t.v}}>>
    BY <1>3 DEF Stages
  <2> QED
    BY <1>1, <1>2, <2>1, <2>2
<1>4. CASE t.op = "rest"
  <2>1. t.v \in Cars
    BY <1>4 DEF TxnNames, Operation
  <2>2. Stages(p) = <<{Adv(t.v)}, {VehicleRow(t.v, "update")},
              {DriverRow(e, "update") : e \in {f \in Crew : assigned[t.v] = f}}>>
    BY <1>4 DEF Stages
  <2> QED
    BY <1>1, <1>2, <2>1, <2>2
<1>5. CASE t.op = "edit"
  <2>1. t.v \in Cars
    BY <1>5 DEF TxnNames, Operation
  <2>2. Stages(p) = <<{Adv(t.v)}, {VehicleRow(t.v, "nokey")}>>
    BY <1>5 DEF Stages
  <2> QED
    BY <1>1, <2>1, <2>2
<1>6. CASE t.op \in {"claim", "first"}
  <2>1. t.v \in Cars /\ t.d \in Crew
    BY <1>6 DEF TxnNames, Operation
  <2>2. Stages(p) = <<{Adv(t.v)}, {DriverRow(t.d, "update")}, {VehicleRow(t.v, "update")}>>
    BY <1>6 DEF Stages
  <2> QED
    BY <1>1, <1>2, <2>1, <2>2
<1>7. CASE t.op = "switch"
  <2>1. t.v \in Cars /\ t.d \in Crew
    BY <1>7 DEF TxnNames, Operation
  <2>2. Stages(p) = <<{Adv(t.v)}, {DriverRow(t.d, "update")}, {VehicleRow(t.v, "update")},
              {VehicleRow(w, "nokey") : w \in {x \in Cars \ {t.v} : assigned[x] = t.d}}>>
    BY <1>7 DEF Stages
  <2> QED
    BY <1>1, <1>2, <2>1, <2>2
<1>8. CASE t.op = "leave"
  <2>1. t.d \in Crew
    BY <1>8 DEF TxnNames
  <2>2. t.saw \subseteq Cars
    BY <1>8 DEF FleetTxn, NoTxn
  <2>3. Stages(p) = <<{Adv(w) : w \in t.saw}, {DriverRow(t.d, "update")},
              {VehicleRow(w, "update") :
                w \in {x \in Cars : assigned[x] = t.d /\ OwnerOf[x] = FleetOwner}}>>
    BY <1>8 DEF Stages
  <2> QED
    BY <1>1, <1>2, <2>1, <2>2, <2>3
<1>9. CASE t.op = "accept"
  <2>1. t.v \in Cars /\ t.d \in Crew
    BY <1>9 DEF TxnNames, Operation
  <2>2. Stages(p) = <<{DriverRow(t.d, "share")}, {VehicleRow(t.v, "share")}, {DriverRow(t.d, "nokey")}>>
    BY <1>9 DEF Stages
  <2> QED
    BY <1>1, <1>2, <2>1, <2>2
<1>10. CASE t.op \notin Operation
  <2>1. Stages(p) = <<>>
    BY <1>10 DEF Stages, Operation
  <2> QED
    BY <2>1
<1> QED
  BY <1>3, <1>4, <1>5, <1>6, <1>7, <1>8, <1>9, <1>10 DEF Operation

LEMMA WantedAreLocks ==
  ASSUME FleetInv, NEW p \in Connections
  PROVE  Wanted(p) \subseteq RowLock
<1> DEFINE rest == [i \in DOMAIN Stages(p) |-> Stages(p)[i] \ fleetTxn[p].held]
           due == {i \in DOMAIN rest : rest[i] # {}}
<1>1. due \subseteq 1..4 /\ \A i \in due : rest[i] \subseteq RowLock
  BY StagesAreLocks
<1>2. CASE due = {}
  BY <1>2 DEF Wanted
<1>3. CASE due # {}
  <2>1. \E i \in due : \A j \in due : i <= j
    BY <1>1, <1>3
  <2>2. PICK i \in due : i = CHOOSE k \in due : \A j \in due : k <= j
    BY <2>1
  <2>3. Wanted(p) = rest[i]
    BY <1>3, <2>2 DEF Wanted
  <2> QED
    BY <1>1, <2>3
<1> QED
  BY <1>2, <1>3

LEMMA AcquireStep ==
  ASSUME FleetInv, NEW p \in Connections, Acquire(p)
  PROVE  FleetInv'
<1> USE FleetParts
<1>1. fleetTxn[p] \in FleetTxn /\ UNCHANGED Links
  BY DEF Acquire
<1>2. PICK l \in Wanted(p) : fleetTxn' = [fleetTxn EXCEPT ![p].held = @ \cup {l}]
  BY DEF Acquire
<1> DEFINE t == [fleetTxn[p] EXCEPT !.held = fleetTxn[p].held \cup {l}]
<1>3. t \in FleetTxn /\ t.op = fleetTxn[p].op /\ t.d = fleetTxn[p].d /\ t.v = fleetTxn[p].v
  BY <1>1, WantedAreLocks DEF FleetTxn
<1>4. fleetTxn' = [fleetTxn EXCEPT ![p] = t]
  BY <1>2
<1> HIDE DEF t
<1> QED
  BY <1>1, <1>3, <1>4, TxnMoves DEF TxnNames

-----------------------------------------------------------------------------
(* What a commit does to the rows. *)

LinksOK ==
  /\ assigned \in [Cars -> Crew \cup {NoLink}]
  /\ active \in [Crew -> Cars \cup {NoLink}]
  /\ usable \subseteq Cars
  /\ duty \in [Crew -> {"unavailable", "available", "busy"}]
  /\ aboard \in [Crew -> Cars \cup {NoLink}]
  /\ member \in [Crew -> BOOLEAN]
  /\ veterans \subseteq Owners
  /\ \A d \in Crew : duty[d] = "busy" <=> aboard[d] # NoLink
  /\ LinksAgree /\ AssignedAreEntitled

LEMMA LinksAreOK == FleetInv => LinksOK
BY DEF FleetInv, FleetTypeOK, LinksOK

\* Two transactions never own one vehicle's link: who gives a vehicle up takes it from its driver.
LEMMA DetachStep ==
  ASSUME LinksOK, NEW v \in Cars, Detach(v)
  PROVE  /\ assigned' \in [Cars -> Crew \cup {NoLink}]
         /\ active' \in [Crew -> Cars \cup {NoLink}]
         /\ LinksAgree'
         /\ \A w \in Cars : assigned'[w] # NoLink => assigned'[w] = assigned[w]
<1>1. /\ \A w \in Cars : assigned'[w] = IF w = v THEN NoLink ELSE assigned[w]
      /\ \A d \in Crew : active'[d] = IF active[d] = v THEN NoLink ELSE active[d]
  BY DEF Detach, LinksOK
<1>2. /\ assigned' \in [Cars -> Crew \cup {NoLink}]
      /\ active' \in [Crew -> Cars \cup {NoLink}]
  BY DEF Detach, LinksOK
<1>3. LinksAgree'
  BY <1>1, FleetAssumption DEF LinksAgree, LinksOK
<1> QED
  BY <1>1, <1>2, <1>3

LEMMA UnassignDriverStep ==
  ASSUME FleetInv, NEW p \in Connections, UnassignDriver(p)
  PROVE  LinksOK'
<1>1. LinksOK /\ fleetTxn[p].v \in Cars
  BY LinksAreOK, FleetParts DEF UnassignDriver, TxnNames, Operation
<1>2. Detach(fleetTxn[p].v) /\ UNCHANGED <<usable, duty, aboard, member, veterans>>
  BY DEF UnassignDriver
<1>3. AssignedAreEntitled'
  BY <1>1, <1>2, DetachStep DEF AssignedAreEntitled, Entitled, LinksOK
<1> QED
  BY <1>1, <1>2, <1>3, DetachStep DEF LinksOK

LEMMA RetireVehicleStep ==
  ASSUME FleetInv, NEW p \in Connections, RetireVehicle(p)
  PROVE  LinksOK'
<1>1. PICK v : v = fleetTxn[p].v
  OBVIOUS
<1>2. LinksOK /\ v \in Cars
  BY <1>1, LinksAreOK, FleetParts DEF RetireVehicle, TxnNames, Operation
<1>3. /\ Detach(v) /\ MayGiveUp(v) /\ usable' = usable \ {v} /\ UNCHANGED <<aboard, member, veterans>>
      /\ duty' \in {duty, [duty EXCEPT ![assigned[v]] = "unavailable"]}
      /\ duty' # duty => assigned[v] # NoLink
  BY <1>1 DEF RetireVehicle
<1>4. AssignedAreEntitled'
  BY <1>2, <1>3, DetachStep DEF AssignedAreEntitled, Entitled, LinksOK
<1>5. /\ duty' \in [Crew -> {"unavailable", "available", "busy"}]
      /\ \A d \in Crew : duty'[d] = "busy" <=> duty[d] = "busy"
  <2>1. CASE duty' = duty
    BY <1>2, <2>1 DEF LinksOK
  <2>2. CASE duty' # duty
    <3>1. assigned[v] \in Crew /\ duty[assigned[v]] # "busy"
      BY <1>2, <1>3, <2>2 DEF LinksOK, MayGiveUp
    <3> QED
      BY <1>2, <1>3, <2>2, <3>1 DEF LinksOK
  <2> QED
    BY <2>1, <2>2
<1> QED
  BY <1>2, <1>3, <1>4, <1>5, DetachStep DEF LinksOK

LEMMA EditVehicleStep ==
  ASSUME FleetInv, NEW p \in Connections, EditVehicle(p)
  PROVE  LinksOK'
BY LinksAreOK DEF EditVehicle, LinksOK, LinksAgree, AssignedAreEntitled, Entitled

\* A driver with no other vehicle takes one nobody has, or a driver switches.
LEMMA TakeStep ==
  ASSUME LinksOK, NEW d \in Crew, NEW v \in Cars, Entitled(d, v),
         assigned[v] \in {NoLink, d},
         \/ assigned' = [assigned EXCEPT ![v] = d] /\ \A w \in Cars \ {v} : assigned[w] # d
         \/ assigned' = ReleaseOthers(d, v),
         active' = [active EXCEPT ![d] = v],
         duty' \in {duty, [duty EXCEPT ![d] = "unavailable"]}, duty[d] # "busy",
         veterans' = veterans \cup ({d} \cap Owners),
         UNCHANGED <<usable, aboard, member>>
  PROVE  LinksOK'
<1>1. \A w \in Cars : assigned'[w] = IF w = v THEN d ELSE IF assigned[w] = d THEN NoLink ELSE assigned[w]
  BY DEF LinksOK, ReleaseOthers
<1>2. \A e \in Crew : active'[e] = IF e = d THEN v ELSE active[e]
  BY DEF LinksOK
<1>3. /\ assigned' \in [Cars -> Crew \cup {NoLink}]
      /\ active' \in [Crew -> Cars \cup {NoLink}]
  BY DEF LinksOK, ReleaseOthers
<1>4. LinksAgree'
  <2>1. ASSUME NEW e \in Crew, NEW w \in Cars
        PROVE  assigned'[w] = e <=> active'[e] = w
    <3>1. assigned[w] = e <=> active[e] = w
      BY DEF LinksOK, LinksAgree
    <3>2. assigned[v] = e <=> active[e] = v
      BY DEF LinksOK, LinksAgree
    <3> QED
      BY <1>1, <1>2, <3>1, <3>2, FleetAssumption
  <2> QED
    BY <2>1 DEF LinksAgree
<1>5. AssignedAreEntitled'
  BY <1>1 DEF LinksOK, AssignedAreEntitled, Entitled
<1>6. /\ duty' \in [Crew -> {"unavailable", "available", "busy"}]
      /\ \A e \in Crew : duty'[e] = "busy" <=> duty[e] = "busy"
  BY DEF LinksOK
<1>7. \A e \in Crew : duty'[e] = "busy" <=> aboard'[e] # NoLink
  BY <1>6 DEF LinksOK
<1>8. veterans' \subseteq Owners /\ UNCHANGED Owners
  BY DEF LinksOK, Owners
<1> QED
  BY <1>3, <1>4, <1>5, <1>6, <1>7, <1>8 DEF LinksOK

LEMMA FleetClaimStep ==
  ASSUME FleetInv, NEW p \in Connections, Claim(p)
  PROVE  LinksOK'
<1>1. PICK d, v : d = fleetTxn[p].d /\ v = fleetTxn[p].v
  OBVIOUS
<1>2. LinksOK /\ d \in Crew /\ v \in Cars
  BY <1>1, LinksAreOK, FleetParts DEF Claim, TxnNames, Operation
<1>3. MayClaim(d, v) /\ assigned' = [assigned EXCEPT ![v] = d] /\ active' = [active EXCEPT ![d] = v]
      /\ veterans' = veterans \cup ({d} \cap Owners) /\ UNCHANGED <<usable, duty, aboard, member>>
  BY <1>1 DEF Claim
<1> QED
  BY <1>2, <1>3, TakeStep DEF MayClaim, Entitled

LEMMA SwitchStep ==
  ASSUME FleetInv, NEW p \in Connections, Switch(p)
  PROVE  LinksOK'
<1>1. PICK d, v : d = fleetTxn[p].d /\ v = fleetTxn[p].v
  OBVIOUS
<1>2. LinksOK /\ d \in Crew /\ v \in Cars
  BY <1>1, LinksAreOK, FleetParts DEF Switch, TxnNames, Operation
<1>3. MaySwitch(d, v) /\ assigned' = ReleaseOthers(d, v) /\ active' = [active EXCEPT ![d] = v]
      /\ duty' = [duty EXCEPT ![d] = "unavailable"]
      /\ veterans' = veterans \cup ({d} \cap Owners) /\ UNCHANGED <<usable, aboard, member>>
  BY <1>1 DEF Switch
<1> QED
  BY <1>2, <1>3, TakeStep DEF MaySwitch

LEMMA FirstVehicleStep ==
  ASSUME FleetInv, NEW p \in Connections, FirstVehicle(p)
  PROVE  LinksOK'
<1>1. PICK d, v : d = fleetTxn[p].d /\ v = fleetTxn[p].v
  OBVIOUS
<1>2. LinksOK /\ d \in Crew /\ v \in Cars
  BY <1>1, LinksAreOK, FleetParts DEF FirstVehicle, TxnNames, Operation
<1>3. MayBeFirst(d, v) /\ assigned' = [assigned EXCEPT ![v] = d] /\ active' = [active EXCEPT ![d] = v]
      /\ duty' = [duty EXCEPT ![d] = "unavailable"]
      /\ veterans' = veterans \cup ({d} \cap Owners) /\ UNCHANGED <<usable, aboard, member>>
  BY <1>1 DEF FirstVehicle
<1>4. \A w \in Cars \ {v} : assigned[w] # d
  BY <1>2, <1>3, FleetAssumption DEF LinksOK, LinksAgree, MayBeFirst
<1> QED
  BY <1>2, <1>3, <1>4, TakeStep DEF MayBeFirst, Entitled

\* Who leaves the fleet keeps no vehicle of it, whatever was claimed since the vehicles were listed.
LEMMA LeaveStep ==
  ASSUME FleetInv, NEW p \in Connections, Leave(p)
  PROVE  LinksOK'
<1>1. PICK d : d = fleetTxn[p].d
  OBVIOUS
<1> DEFINE own == {v \in Cars : OwnerOf[v] = FleetOwner /\ assigned[v] = d}
           off == active[d] \in own \cup {NoLink}
<1>2. LinksOK /\ d \in Crew
  BY <1>1, LinksAreOK, FleetParts DEF Leave, TxnNames
<1>3. /\ duty[d] # "busy"
      /\ assigned' = [v \in Cars |-> IF v \in own THEN NoLink ELSE assigned[v]]
      /\ active' = IF off THEN [active EXCEPT ![d] = NoLink] ELSE active
      /\ duty' = IF off THEN [duty EXCEPT ![d] = "unavailable"] ELSE duty
      /\ member' = [member EXCEPT ![d] = FALSE]
      /\ UNCHANGED <<usable, aboard, veterans>>
  BY <1>1 DEF Leave
<1>4. \A v \in Cars : assigned'[v] = IF v \in own THEN NoLink ELSE assigned[v]
  BY <1>3
<1>5. \A e \in Crew : active'[e] = IF e = d /\ off THEN NoLink ELSE active[e]
  BY <1>2, <1>3 DEF LinksOK
<1>6. \A e \in Crew : member'[e] = IF e = d THEN FALSE ELSE member[e]
  BY <1>2, <1>3 DEF LinksOK
<1>7. /\ assigned' \in [Cars -> Crew \cup {NoLink}]
      /\ active' \in [Crew -> Cars \cup {NoLink}]
      /\ member' \in [Crew -> BOOLEAN]
  BY <1>2, <1>3 DEF LinksOK
<1>8. /\ duty' \in [Crew -> {"unavailable", "available", "busy"}]
      /\ \A e \in Crew : duty'[e] = "busy" <=> duty[e] = "busy"
  BY <1>2, <1>3 DEF LinksOK
<1>9. LinksAgree'
  <2>1. ASSUME NEW e \in Crew, NEW w \in Cars
        PROVE  assigned'[w] = e <=> active'[e] = w
    <3>1. assigned[w] = e <=> active[e] = w
      BY <1>2 DEF LinksOK, LinksAgree
    <3>2. w \in own => assigned[w] = d /\ active[d] = w
      BY <1>2 DEF LinksOK, LinksAgree
    <3>3. e = d /\ off /\ active[e] = w => w \in own
      BY FleetAssumption
    <3> QED
      BY <1>4, <1>5, <3>1, <3>2, <3>3, FleetAssumption
  <2> QED
    BY <2>1 DEF LinksAgree
<1>10. AssignedAreEntitled'
  <2>1. ASSUME NEW w \in Cars, assigned'[w] # NoLink
        PROVE  OwnerOf[w] = assigned'[w] \/ (OwnerOf[w] = FleetOwner /\ member'[assigned'[w]])
    <3>1. w \notin own /\ assigned'[w] = assigned[w] /\ assigned[w] \in Crew
      BY <2>1, <1>2, <1>4 DEF LinksOK
    <3>2. OwnerOf[w] = assigned[w] \/ (OwnerOf[w] = FleetOwner /\ member[assigned[w]])
      <4>1. AssignedAreEntitled /\ assigned[w] # NoLink
        BY <2>1, <3>1, <1>2 DEF LinksOK
      <4> QED
        BY <4>1, Zenon DEF AssignedAreEntitled, Entitled
    <3>3. CASE OwnerOf[w] = assigned[w]
      BY <3>1, <3>3
    <3>4. CASE OwnerOf[w] = FleetOwner /\ member[assigned[w]]
      <4>1. assigned[w] # d
        BY <3>1, <3>4
      <4>2. member'[assigned[w]] = member[assigned[w]]
        BY <1>6, <3>1, <4>1
      <4> QED
        BY <3>1, <3>4, <4>2
    <3> QED
      BY <3>2, <3>3, <3>4
  <2> QED
    BY <2>1 DEF AssignedAreEntitled, Entitled
<1>11. \A e \in Crew : duty'[e] = "busy" <=> aboard'[e] # NoLink
  BY <1>2, <1>3, <1>8 DEF LinksOK
<1> QED
  BY <1>2, <1>3, <1>7, <1>8, <1>9, <1>10, <1>11 DEF LinksOK, Owners

LEMMA AcceptStep ==
  ASSUME FleetInv, NEW p \in Connections, Accept(p)
  PROVE  LinksOK'
<1>1. PICK d, v : d = fleetTxn[p].d /\ v = fleetTxn[p].v
  OBVIOUS
<1>2. LinksOK /\ d \in Crew /\ v \in Cars
  BY <1>1, LinksAreOK, FleetParts DEF Accept, TxnNames, Operation
<1>3. /\ duty' = [duty EXCEPT ![d] = "busy"] /\ aboard' = [aboard EXCEPT ![d] = v]
      /\ UNCHANGED <<assigned, active, usable, member, veterans>>
  BY <1>1 DEF Accept
<1>4. /\ duty' \in [Crew -> {"unavailable", "available", "busy"}]
      /\ aboard' \in [Crew -> Cars \cup {NoLink}]
      /\ \A e \in Crew : duty'[e] = "busy" <=> aboard'[e] # NoLink
  BY <1>2, <1>3, FleetAssumption DEF LinksOK
<1> QED
  BY <1>2, <1>3, <1>4 DEF LinksOK, LinksAgree, AssignedAreEntitled, Entitled, Owners

LEMMA CommitTxnStep ==
  ASSUME FleetInv, NEW p \in Connections, CommitTxn(p)
  PROVE  FleetInv'
<1>1. LinksOK'
  BY UnassignDriverStep, RetireVehicleStep, EditVehicleStep, FleetClaimStep, SwitchStep, FirstVehicleStep,
     LeaveStep, AcceptStep DEF CommitTxn, Effects
<1>2. /\ fleetTxn' \in [Connections -> {NoTxn} \cup FleetTxn]
      /\ \A q \in Connections : fleetTxn'[q] = IF q = p THEN NoTxn ELSE fleetTxn[q]
  BY FleetParts DEF CommitTxn, EndTxn
<1>3. TxnNames'
  BY <1>2, FleetParts DEF TxnNames, NoTxn, Operation
<1> QED
  BY <1>1, <1>2, <1>3 DEF FleetInv, FleetTypeOK, LinksOK, FleetTxn

-----------------------------------------------------------------------------
(* Single statements. *)

LEMMA StatementStep ==
  ASSUME FleetInv, LinksOK', UNCHANGED fleetTxn
  PROVE  FleetInv'
BY FleetParts DEF FleetInv, FleetTypeOK, LinksOK, TxnNames

LEMMA GoOnlineStep ==
  ASSUME FleetInv, NEW d \in Crew, GoOnline(d) \/ GoOffline(d)
  PROVE  FleetInv'
<1>1. LinksOK /\ duty[d] # "busy"
  BY LinksAreOK DEF GoOnline, GoOffline
<1>2. PICK now \in {"available", "unavailable"} : duty' = [duty EXCEPT ![d] = now]
  BY DEF GoOnline, GoOffline
<1>3. UNCHANGED <<assigned, active, usable, aboard, member, veterans, fleetTxn>>
  BY DEF GoOnline, GoOffline
<1>4. /\ duty' \in [Crew -> {"unavailable", "available", "busy"}]
      /\ \A e \in Crew : duty'[e] = "busy" <=> duty[e] = "busy"
  BY <1>1, <1>2 DEF LinksOK
<1>5. LinksOK'
  BY <1>1, <1>3, <1>4 DEF LinksOK, LinksAgree, AssignedAreEntitled, Entitled, Owners
<1> QED
  BY <1>3, <1>5, StatementStep

LEMMA EndRideStep ==
  ASSUME FleetInv, NEW d \in Crew, EndRide(d)
  PROVE  FleetInv'
<1>1. LinksOK
  BY LinksAreOK
<1>2. PICK now \in {"available", "unavailable"} : duty' = [duty EXCEPT ![d] = now]
  BY DEF EndRide
<1>3. aboard' = [aboard EXCEPT ![d] = NoLink] /\ UNCHANGED <<assigned, active, usable, member, veterans, fleetTxn>>
  BY DEF EndRide
<1>4. /\ duty' \in [Crew -> {"unavailable", "available", "busy"}]
      /\ aboard' \in [Crew -> Cars \cup {NoLink}]
      /\ \A e \in Crew : duty'[e] = "busy" <=> aboard'[e] # NoLink
  BY <1>1, <1>2, <1>3 DEF LinksOK
<1>5. LinksOK'
  BY <1>1, <1>3, <1>4 DEF LinksOK, LinksAgree, AssignedAreEntitled, Entitled, Owners
<1> QED
  BY <1>3, <1>5, StatementStep

LEMMA JoinStep ==
  ASSUME FleetInv, NEW d \in Crew, Join(d)
  PROVE  FleetInv'
<1>1. LinksOK
  BY LinksAreOK
<1>2. /\ member' \in [Crew -> BOOLEAN] /\ \A e \in Crew : member[e] => member'[e]
      /\ UNCHANGED <<assigned, active, usable, duty, aboard, veterans, fleetTxn>>
  BY <1>1 DEF Join, LinksOK
<1>3. LinksOK'
  BY <1>1, <1>2 DEF LinksOK, LinksAgree, AssignedAreEntitled, Entitled, Owners
<1> QED
  BY <1>2, <1>3, StatementStep

LEMMA ActivateVehicleStep ==
  ASSUME FleetInv, NEW v \in Cars, ActivateVehicle(v)
  PROVE  FleetInv'
<1>1. LinksOK'
  BY LinksAreOK DEF ActivateVehicle, LinksOK, LinksAgree, AssignedAreEntitled, Entitled, Owners
<1> QED
  BY <1>1, StatementStep DEF ActivateVehicle

LEMMA FleetNextStep ==
  ASSUME FleetInv, [FleetNext]_fleetVars
  PROVE  FleetInv'
<1>1. ASSUME NEW p \in Connections, GiveUp(p) \/ Skip(p) \/ AbortCycle(p) PROVE FleetInv'
  BY <1>1, TxnEnds DEF GiveUp, Refuse, Skip, AbortCycle
<1>2. ASSUME NEW p \in Connections,
             \/ BeginOwner(p) \/ BeginDriver(p) \/ BeginLeave(p) \/ BeginFirst(p) \/ BeginAccept(p)
             \/ Acquire(p) \/ CommitTxn(p)
      PROVE  FleetInv'
  BY <1>2, Begins, AcquireStep, CommitTxnStep
<1>3. ASSUME NEW d \in Crew, GoOnline(d) \/ GoOffline(d) \/ EndRide(d) \/ Join(d) PROVE FleetInv'
  BY <1>3, GoOnlineStep, EndRideStep, JoinStep
<1>4. CASE UNCHANGED fleetVars
  BY <1>4 DEF fleetVars, FleetInv, FleetTypeOK, TxnNames, LinksAgree, AssignedAreEntitled, Entitled, Owners
<1> QED
  BY <1>1, <1>2, <1>3, <1>4, ActivateVehicleStep DEF FleetNext

LEMMA FleetInvariance == FleetSpec => []FleetInv
BY FleetInitially, FleetNextStep, PTL DEF FleetSpec

THEOREM FleetTypeCorrect == FleetSpec => []FleetTypeOK
<1>1. FleetInv => FleetTypeOK
  BY DEF FleetInv
<1> QED
  BY <1>1, FleetInvariance, PTL

THEOREM FleetAlwaysSound == FleetSpec => []FleetIsSound
<1>1. FleetInv => FleetIsSound
  BY DEF FleetInv, FleetIsSound
<1> QED
  BY <1>1, FleetInvariance, PTL

-----------------------------------------------------------------------------
(* The files of documents.  A bundle is known to its request alone until it*)
(* is saved; who read the row read this version or an older one.           *)

\* What a request has stored, is about to delete, and has read.
Up(c) == IF work[c] = NoCall THEN {} ELSE work[c].up
Drop(c) == IF work[c] = NoCall THEN {} ELSE work[c].drop
ReadBy(c) == IF work[c] = NoCall \/ work[c].read = NoDocument THEN {}
           ELSE Pages(work[c].read) \cup {work[c].read.id}
OfRow == IF doc = NoDocument THEN {} ELSE Pages(doc) \cup {doc.id}

\* A bundle grows to at most two pages, and is saved with at least one.
BundleOK(w) ==
  /\ w.step = "upload" =>
       \/ w.pages = 2 /\ w.up = {}
       \/ w.pages = 1 /\ (w.up = {} \/ \E a \in File : w.up = {a})
  /\ w.step = "save" => \E a, b \in File : w.up = {a, b}
  /\ w.step \notin {"upload", "save"} => w.up = {}
  /\ w.step # "clean" => w.drop = {}
  /\ w.step \in {"remove", "judge", "edit"} => w.read # NoDocument

BundlesOK == \A c \in Requests : work[c] # NoCall => BundleOK(work[c])

\* The pages of a bundle that is not saved are in storage and known to its request alone.
BundlesArePrivate ==
  \A c \in Requests :
    /\ Up(c) \subseteq stored
    /\ Up(c) \cap (OfRow \cup unheard \cup left) = {}
    /\ \A e \in Requests : Up(c) \cap (ReadBy(e) \cup Drop(e)) = {}
    /\ \A e \in Requests \ {c} : Up(c) \cap Up(e) = {}

\* Every file anyone knows of was issued.
KnownAreIssued ==
  /\ OfRow \subseteq 1..issued
  /\ \A c \in Requests : Up(c) \cup Drop(c) \cup ReadBy(c) \subseteq 1..issued

\* No page of the row is about to be deleted, except by a request that was told its save failed.
DropsAreUnheard == \A c \in Requests : Drop(c) \cap Live \subseteq unheard

\* A request that read the row read this version or an older one; if this one, then its pages,
\* and a verdict it read still stands.
SamePages(d, e) == d.first = e.first /\ d.rest = e.rest
ReadOK(d) ==
  d # NoDocument /\ doc # NoDocument /\ d.id = doc.id =>
    /\ d.version <= doc.version
    /\ d.version = doc.version =>
         SamePages(d, doc) /\ (d.status = "VERIFIED" => doc.status = "VERIFIED")
ReadsOK == \A c \in Requests : work[c] # NoCall => ReadOK(work[c].read)

FilesInv ==
  /\ FilesTypeOK /\ BundlesOK /\ BundlesArePrivate /\ KnownAreIssued
  /\ DropsAreUnheard /\ ReadsOK /\ LiveFilesKept /\ NoFileLeaks

----------------------------------------------------------------------------
\* The fields of a request's work.
LEMMA WorkFields ==
  ASSUME FilesTypeOK, NEW c \in Requests, work[c] # NoCall
  PROVE  /\ work[c] \in Work
         /\ work[c].step \in Step /\ work[c].pages \in 0..2 /\ work[c].up \subseteq File
         /\ work[c].read \in Document \cup {NoDocument} /\ work[c].to \in Status
         /\ work[c].drop \subseteq File
         /\ work[c].up \subseteq 1..issued
BY DEF FilesTypeOK, Work

\* The fields of a document.
LEMMA DocumentFields ==
  ASSUME NEW d \in Document
  PROVE  /\ d.id \in File /\ d.first \in File /\ d.rest \subseteq File
         /\ d.version \in Nat /\ d.version \in 1..MaxVersion /\ d.status \in Status
         /\ Pages(d) \subseteq File
BY FilesAssumption DEF Document, Pages, File

\* A page in hand is one a request has stored or is about to delete.
LEMMA InHandIs == \A x : x \in InHand <=> \E c \in Requests : x \in Up(c) \cup Drop(c)
BY DEF InHand, Up, Drop

\* What one request does leaves the hands of the others as they were.
LEMMA OthersKeep ==
  ASSUME FilesTypeOK, NEW c \in Requests, NEW e \in Requests, e # c,
         work'[e] = work[e]
  PROVE  Up(e)' = Up(e) /\ Drop(e)' = Drop(e) /\ ReadBy(e)' = ReadBy(e)
BY DEF Up, Drop, ReadBy

\* The state of a request that turns to cleaning up.
LEMMA CleanIs ==
  ASSUME FilesTypeOK, NEW c \in Requests, work[c] # NoCall, NEW F \in SUBSET File,
         work' = Clean(c, F)
  PROVE  /\ work' \in [Requests -> Work \cup {NoCall}]
         /\ \A e \in Requests \ {c} : work'[e] = work[e]
         /\ work'[c] # NoCall /\ work'[c].step = "clean" /\ work'[c].up = {}
         /\ work'[c].drop = F /\ work'[c].read = work[c].read
         /\ Up(c)' = {} /\ Drop(c)' = F /\ ReadBy(c)' = ReadBy(c)
<1>1. work \in [Requests -> Work \cup {NoCall}] /\ work[c] \in Work
  BY WorkFields DEF FilesTypeOK
<1>2. \A e \in Requests \ {c} : work'[e] = work[e]
  BY <1>1 DEF Clean
<1>3. work'[c] = [[[work[c] EXCEPT !.step = "clean"] EXCEPT !.up = {}] EXCEPT !.drop = F]
  BY <1>1 DEF Clean
<1>4. /\ work'[c] \in Work /\ work'[c].step = "clean" /\ work'[c].up = {}
      /\ work'[c].drop = F /\ work'[c].read = work[c].read
  BY <1>1, <1>3 DEF Work, Step
<1>5. work' \in [Requests -> Work \cup {NoCall}]
  BY <1>1, <1>2, <1>4 DEF Clean
<1>6. work'[c] # NoCall
  BY <1>4, FilesAssumption
<1> QED
  BY <1>2, <1>4, <1>5, <1>6 DEF Up, Drop, ReadBy

\* The state of a request that ends.
LEMMA EndIs ==
  ASSUME FilesTypeOK, NEW c \in Requests, work' = [work EXCEPT ![c] = NoCall]
  PROVE  /\ work' \in [Requests -> Work \cup {NoCall}]
         /\ \A e \in Requests \ {c} : work'[e] = work[e]
         /\ work'[c] = NoCall
         /\ Up(c)' = {} /\ Drop(c)' = {} /\ ReadBy(c)' = {}
BY DEF FilesTypeOK, Up, Drop, ReadBy

\* The first page of a bundle is one of its pages.
LEMMA FirstOfBundle ==
  ASSUME NEW a \in File, NEW b \in File
  PROVE  First({a, b}) \in {a, b}
<1>1. \E f \in {a, b} : \A g \in {a, b} : f <= g
  BY DEF File
<1> QED
  BY <1>1 DEF First

----------------------------------------------------------------------------
\* A request begins: it has nothing in hand, and may have read the row.
LEMMA BeginStep ==
  ASSUME FilesInv, NEW c \in Requests, NEW step \in Step \ {"save", "clean"}, NEW pages \in 0..2,
         NEW read \in {doc, NoDocument}, NEW to \in Status,
         step = "upload" => pages # 0,
         step \in {"remove", "judge", "edit"} => read # NoDocument,
         BeginWork(c, step, pages, read, to)
  PROVE  FilesInv'
<1> DEFINE w == [step |-> step, pages |-> pages, up |-> {}, read |-> read, to |-> to, drop |-> {}]
<1>1. /\ work[c] = NoCall /\ work' = [work EXCEPT ![c] = w]
      /\ UNCHANGED <<kind, doc, stored, issued, unheard, left>>
  BY DEF BeginWork
<1>2. w \in Work
  BY DEF FilesInv, FilesTypeOK, Work
<1>3. /\ work' \in [Requests -> Work \cup {NoCall}] /\ work'[c] = w /\ w # NoCall
      /\ \A e \in Requests \ {c} : work'[e] = work[e]
  BY <1>1, <1>2, FilesAssumption DEF FilesInv, FilesTypeOK
<1>4. /\ w.step = step /\ w.pages = pages /\ w.up = {} /\ w.read = read /\ w.drop = {}
  OBVIOUS
<1>5. Up(c)' = {} /\ Drop(c)' = {} /\ ReadBy(c)' \subseteq OfRow
  BY <1>3, <1>4 DEF Up, Drop, ReadBy, OfRow
<1>6. \A e \in Requests \ {c} : Up(e)' = Up(e) /\ Drop(e)' = Drop(e) /\ ReadBy(e)' = ReadBy(e)
  BY <1>3, OthersKeep DEF FilesInv
<1>7. OfRow' = OfRow /\ Live' = Live
  BY <1>1 DEF OfRow, Live, Pages
<1>8. FilesTypeOK'
  BY <1>1, <1>3, <1>4 DEF FilesInv, FilesTypeOK, File
<1>9. BundlesOK'
  <2>1. BundleOK(w)
    BY <1>4 DEF BundleOK
  <2> HIDE DEF w
  <2>2. \A e \in Requests : work'[e] # NoCall => BundleOK(work'[e])
    BY <2>1, <1>3 DEF FilesInv, BundlesOK
  <2> QED
    BY <2>2 DEF BundlesOK, BundleOK
<1>10. BundlesArePrivate'
  BY <1>1, <1>5, <1>6, <1>7 DEF FilesInv, BundlesArePrivate
<1>11. KnownAreIssued'
  BY <1>1, <1>5, <1>6, <1>7 DEF FilesInv, KnownAreIssued
<1>12. DropsAreUnheard'
  BY <1>1, <1>5, <1>6, <1>7 DEF FilesInv, DropsAreUnheard
<1>13. ReadsOK'
  <2>1. ReadOK(read)
    BY DocumentFields DEF FilesInv, FilesTypeOK, ReadOK, SamePages
  <2>2. \A e \in Requests : work'[e] # NoCall => ReadOK(work'[e].read)
    BY <2>1, <1>3, <1>4 DEF FilesInv, ReadsOK
  <2> QED
    BY <2>2, <1>1 DEF ReadsOK, ReadOK, SamePages
<1>14. LiveFilesKept' /\ NoFileLeaks'
  <2>1. InHand' = InHand
    <3>1. \A x : x \in InHand' <=> \E e \in Requests : x \in Up(e)' \cup Drop(e)'
      BY DEF InHand, Up, Drop
    <3>2. Up(c) = {} /\ Drop(c) = {}
      BY <1>1 DEF Up, Drop
    <3> QED
      BY <3>1, <3>2, <1>5, <1>6, InHandIs
  <2> QED
    BY <1>1, <1>7, <2>1 DEF FilesInv, LiveFilesKept, NoFileLeaks
<1> QED
  BY <1>8, <1>9, <1>10, <1>11, <1>12, <1>13, <1>14 DEF FilesInv

\* A page is stored under a number nobody knows yet.
LEMMA StoreStep ==
  ASSUME FilesInv, NEW c \in Requests, Store(c)
  PROVE  FilesInv'
<1> DEFINE n == issued + 1
<1>1. /\ work[c] # NoCall /\ work[c].step = "upload" /\ issued < MaxFiles
      /\ issued' = n /\ stored' = stored \cup {n}
      /\ UNCHANGED <<kind, doc, unheard, left>>
  BY DEF Store
<1>2. /\ issued \in Nat /\ n \in File /\ issued \in 0..MaxFiles /\ n \notin 1..issued
      /\ 1..n = 1..issued \cup {n}
  BY <1>1, FilesAssumption DEF FilesInv, FilesTypeOK, File
<1>3. work[c] \in Work /\ work \in [Requests -> Work \cup {NoCall}] /\ work[c].up \subseteq 1..issued
  BY <1>1, WorkFields DEF FilesInv, FilesTypeOK
<1>4. BundleOK(work[c])
  BY <1>1 DEF FilesInv, BundlesOK
<1>5. work[c].pages \in {1, 2}
  BY <1>1, <1>4 DEF BundleOK
<1>6. work' = [work EXCEPT ![c].up = @ \cup {n}, ![c].pages = @ - 1,
                           ![c].step = IF work[c].pages = 1 THEN "save" ELSE "upload"]
  BY <1>1 DEF Store
<1>7. \A e \in Requests \ {c} : work'[e] = work[e]
  BY <1>3, <1>6
<1>8. work'[c] = [[[work[c] EXCEPT !.up = work[c].up \cup {n}]
                            EXCEPT !.pages = work[c].pages - 1]
                            EXCEPT !.step = IF work[c].pages = 1 THEN "save" ELSE "upload"]
  BY <1>3, <1>6 DEF Work
<1>9. /\ work'[c] \in Work /\ work'[c].up = work[c].up \cup {n} /\ work'[c].pages = work[c].pages - 1
      /\ work'[c].step = (IF work[c].pages = 1 THEN "save" ELSE "upload")
      /\ work'[c].read = work[c].read /\ work'[c].drop = work[c].drop
  <2> DEFINE s == IF work[c].pages = 1 THEN "save" ELSE "upload"
             m == work[c].pages - 1
             u == work[c].up \cup {n}
  <2>1. s \in Step /\ m \in 0..2
    BY <1>5 DEF Step
  <2>2. u \in SUBSET File
    BY <1>2, <1>3 DEF Work
  <2>3. work'[c] = [[[work[c] EXCEPT !.up = u] EXCEPT !.pages = m] EXCEPT !.step = s]
    BY <1>8
  <2> HIDE DEF s, m, u
  <2>4. work'[c] \in Work /\ work'[c].up = u /\ work'[c].pages = m /\ work'[c].step = s
        /\ work'[c].read = work[c].read /\ work'[c].drop = work[c].drop
    BY <1>3, <2>1, <2>2, <2>3 DEF Work
  <2> QED
    BY <2>4 DEF s, m, u
<1>10. work'[c] # NoCall /\ work' \in [Requests -> Work \cup {NoCall}]
  BY <1>3, <1>6, <1>7, <1>9, FilesAssumption
<1>11. Up(c)' = Up(c) \cup {n} /\ Drop(c)' = Drop(c) /\ ReadBy(c)' = ReadBy(c)
  BY <1>1, <1>9, <1>10 DEF Up, Drop, ReadBy
<1>12. \A e \in Requests \ {c} : Up(e)' = Up(e) /\ Drop(e)' = Drop(e) /\ ReadBy(e)' = ReadBy(e)
  BY <1>7, OthersKeep DEF FilesInv
<1>13. OfRow' = OfRow /\ Live' = Live
  BY <1>1 DEF OfRow, Live, Pages
<1> HIDE DEF n
<1>14. FilesTypeOK'
  <2>1. \A e \in Requests : work'[e] # NoCall => work'[e].up \subseteq 1..issued'
    BY <1>1, <1>2, <1>3, <1>7, <1>9 DEF FilesInv, FilesTypeOK
  <2>2. issued' \in 0..MaxFiles
    BY <1>1, <1>2, FilesAssumption DEF File
  <2> QED
    BY <1>1, <1>2, <1>10, <2>1, <2>2 DEF FilesInv, FilesTypeOK
<1>15. BundlesOK'
  <2>1. BundleOK(work'[c])
    <3>1. CASE work[c].pages = 2
      BY <1>1, <1>2, <1>4, <1>9, <3>1 DEF BundleOK
    <3>2. CASE work[c].pages = 1
      <4>1. work'[c].step = "save" /\ work'[c].drop = {}
        BY <1>1, <1>4, <1>9, <3>2 DEF BundleOK
      <4>2. \E a, b \in File : work'[c].up = {a, b}
        <5>1. CASE work[c].up = {}
          <6>1. work'[c].up = {n, n}
            BY <1>9, <5>1
          <6> QED
            BY <6>1, <1>2
        <5>2. CASE \E a \in File : work[c].up = {a}
          <6>1. PICK a \in File : work[c].up = {a}
            BY <5>2
          <6>2. work'[c].up = {a, n}
            BY <1>9, <6>1
          <6> QED
            BY <6>2, <1>2
        <5> QED
          BY <1>1, <1>4, <3>2, <5>1, <5>2 DEF BundleOK
      <4> QED
        BY <4>1, <4>2 DEF BundleOK
    <3> QED
      BY <1>5, <3>1, <3>2
  <2>2. \A e \in Requests : work'[e] # NoCall => BundleOK(work'[e])
    BY <2>1, <1>7 DEF FilesInv, BundlesOK
  <2> QED
    BY <2>2 DEF BundlesOK, BundleOK
<1>16. KnownAreIssued'
  BY <1>1, <1>2, <1>11, <1>12, <1>13 DEF FilesInv, KnownAreIssued
<1>17. BundlesArePrivate'
  <2>1. n \notin OfRow \cup unheard \cup left
    BY <1>2 DEF FilesInv, KnownAreIssued, FilesTypeOK
  <2>2. \A e \in Requests : n \notin Up(e) \cup Drop(e) \cup ReadBy(e)
    BY <1>2 DEF FilesInv, KnownAreIssued
  <2> QED
    BY <1>1, <1>11, <1>12, <1>13, <2>1, <2>2 DEF FilesInv, BundlesArePrivate
<1>18. DropsAreUnheard'
  BY <1>1, <1>11, <1>12, <1>13 DEF FilesInv, DropsAreUnheard
<1>19. ReadsOK'
  <2>1. \A e \in Requests : work'[e] # NoCall => ReadOK(work'[e].read)
    BY <1>1, <1>7, <1>9 DEF FilesInv, ReadsOK
  <2> QED
    BY <2>1, <1>1 DEF ReadsOK, ReadOK, SamePages
<1>20. LiveFilesKept' /\ NoFileLeaks'
  <2>1. InHand' = InHand \cup {n}
    <3>1. \A x : x \in InHand' <=> \E e \in Requests : x \in Up(e)' \cup Drop(e)'
      BY DEF InHand, Up, Drop
    <3> QED
      BY <3>1, <1>11, <1>12, InHandIs
  <2> QED
    BY <1>1, <1>13, <2>1 DEF FilesInv, LiveFilesKept, NoFileLeaks
<1> QED
  BY <1>14, <1>15, <1>16, <1>17, <1>18, <1>19, <1>20 DEF FilesInv

----------------------------------------------------------------------------
\* A request turns to cleaning up F, or ends with F empty, while row and storage change with it:
\* what every action after the upload preserves of the other requests.
Turns(c, F) ==
  /\ work' \in [Requests -> Work \cup {NoCall}]
  /\ \A e \in Requests \ {c} : work'[e] = work[e]
  /\ work'[c] # NoCall => /\ work'[c].step = "clean" /\ work'[c].up = {} /\ work'[c].drop = F
                          /\ work[c] # NoCall /\ work'[c].read = work[c].read
  /\ F # {} => work'[c] # NoCall

LEMMA TurnStep ==
  ASSUME FilesInv, NEW c \in Requests, NEW F \in SUBSET (1..issued), Turns(c, F),
         issued' = issued
  PROVE  /\ Up(c)' = {} /\ Drop(c)' = F /\ ReadBy(c)' \subseteq ReadBy(c)
         /\ \A e \in Requests \ {c} : Up(e)' = Up(e) /\ Drop(e)' = Drop(e) /\ ReadBy(e)' = ReadBy(e)
         /\ BundlesOK'
         /\ \A e \in Requests : work'[e] # NoCall => work'[e].up \subseteq 1..issued'
         /\ \A e \in Requests : work'[e] # NoCall => work[e] # NoCall /\ work'[e].read = work[e].read
         /\ \A x : x \in InHand' <=> x \in F \/ \E e \in Requests \ {c} : x \in Up(e) \cup Drop(e)
<1>1. Up(c)' = {} /\ Drop(c)' = F /\ ReadBy(c)' \subseteq ReadBy(c)
  <2>1. CASE work'[c] = NoCall
    BY <2>1 DEF Turns, Up, Drop, ReadBy
  <2>2. CASE work'[c] # NoCall
    BY <2>2 DEF Turns, Up, Drop, ReadBy
  <2> QED
    BY <2>1, <2>2
<1>2. \A e \in Requests \ {c} : Up(e)' = Up(e) /\ Drop(e)' = Drop(e) /\ ReadBy(e)' = ReadBy(e)
  BY OthersKeep DEF FilesInv, Turns
<1>3. BundlesOK'
  <2>1. work'[c] # NoCall => BundleOK(work'[c])
    BY DEF Turns, BundleOK
  <2>2. \A e \in Requests : work'[e] # NoCall => BundleOK(work'[e])
    BY <2>1 DEF Turns, FilesInv, BundlesOK
  <2> QED
    BY <2>2 DEF BundlesOK, BundleOK
<1>4. \A e \in Requests : work'[e] # NoCall => work'[e].up \subseteq 1..issued'
  BY DEF Turns, FilesInv, FilesTypeOK
<1>5. \A e \in Requests : work'[e] # NoCall => work[e] # NoCall /\ work'[e].read = work[e].read
  BY DEF Turns
<1>6. \A x : x \in InHand' <=> x \in F \/ \E e \in Requests \ {c} : x \in Up(e) \cup Drop(e)
  <2>1. \A x : x \in InHand' <=> \E e \in Requests : x \in Up(e)' \cup Drop(e)'
    BY DEF InHand, Up, Drop
  <2> QED
    BY <2>1, <1>1, <1>2
<1> QED
  BY <1>1, <1>2, <1>3, <1>4, <1>5, <1>6

\* What a request has in hand while it saves: its bundle only.
LEMMA SaverHolds ==
  ASSUME FilesInv, NEW c \in Requests, work[c] # NoCall, work[c].step # "clean"
  PROVE  Drop(c) = {} /\ Up(c) = work[c].up
         /\ (work[c].step \notin {"upload", "save"} => Up(c) = {})
BY DEF FilesInv, BundlesOK, BundleOK, Drop, Up

\* The row stays: a request turns to cleaning up the bundle it could not save, while one page
\* more may be stored under a number nobody knows.
LEMMA AbandonStep ==
  ASSUME FilesInv, NEW c \in Requests, work[c] # NoCall, work[c].step \in {"upload", "save"},
         work' = Clean(c, work[c].up), UNCHANGED <<kind, doc, unheard>>,
         \/ UNCHANGED <<stored, issued, left>>
         \/ /\ issued < MaxFiles /\ issued' = issued + 1
            /\ stored' = stored \cup {issued'} /\ left' = left \cup {issued'}
  PROVE  FilesInv'
<1>1. PICK u : u = work[c].up
  OBVIOUS
<1>2. u \subseteq File /\ u \subseteq 1..issued /\ u = Up(c) /\ Drop(c) = {}
  BY <1>1, WorkFields, SaverHolds DEF FilesInv
<1>3. /\ work' \in [Requests -> Work \cup {NoCall}]
      /\ \A e \in Requests \ {c} : work'[e] = work[e]
      /\ work'[c] # NoCall /\ work'[c].step = "clean" /\ work'[c].up = {}
      /\ work'[c].drop = u /\ work'[c].read = work[c].read
      /\ Up(c)' = {} /\ Drop(c)' = u /\ ReadBy(c)' = ReadBy(c)
  BY <1>1, <1>2, CleanIs DEF FilesInv
<1>4. \A e \in Requests \ {c} : Up(e)' = Up(e) /\ Drop(e)' = Drop(e) /\ ReadBy(e)' = ReadBy(e)
  BY <1>3, OthersKeep DEF FilesInv
<1>5. OfRow' = OfRow /\ Live' = Live
  BY DEF OfRow, Live, Pages
<1>6. PICK new : /\ stored' = stored \cup new /\ left' = left \cup new
                 /\ 1..issued' = 1..issued \cup new /\ new \cap (1..issued) = {}
                 /\ issued' \in 0..MaxFiles
  <2>1. CASE UNCHANGED <<stored, issued, left>>
    <3>1. stored' = stored \cup {} /\ left' = left \cup {} /\ 1..issued' = 1..issued \cup {}
          /\ issued' \in 0..MaxFiles
      BY <2>1 DEF FilesInv, FilesTypeOK
    <3> QED
      BY <3>1
  <2>2. CASE /\ issued < MaxFiles /\ issued' = issued + 1
             /\ stored' = stored \cup {issued'} /\ left' = left \cup {issued'}
    <3>1. issued \in Nat /\ issued' \in 0..MaxFiles /\ issued' \notin 1..issued
          /\ 1..issued' = 1..issued \cup {issued'}
      BY <2>2, FilesAssumption DEF FilesInv, FilesTypeOK
    <3>2. {issued'} \cap (1..issued) = {}
      BY <3>1
    <3> QED
      BY <2>2, <3>1, <3>2, Zenon
  <2> QED
    BY <2>1, <2>2
<1>7. FilesTypeOK'
  <2>1. \A e \in Requests : work'[e] # NoCall => work'[e].up \subseteq 1..issued'
    BY <1>3, <1>6 DEF FilesInv, FilesTypeOK
  <2> QED
    BY <1>3, <1>6, <2>1 DEF FilesInv, FilesTypeOK
<1>8. BundlesOK'
  <2>1. BundleOK(work'[c])
    BY <1>3 DEF BundleOK
  <2>2. \A e \in Requests : work'[e] # NoCall => BundleOK(work'[e])
    BY <2>1, <1>3 DEF FilesInv, BundlesOK
  <2> QED
    BY <2>2 DEF BundlesOK, BundleOK
<1>9. KnownAreIssued'
  BY <1>2, <1>3, <1>4, <1>5, <1>6 DEF FilesInv, KnownAreIssued
<1>10. BundlesArePrivate'
  <2>1. \A e \in Requests : new \cap Up(e) = {}
    BY <1>6 DEF FilesInv, KnownAreIssued
  <2> QED
    BY <1>2, <1>3, <1>4, <1>5, <1>6, <2>1 DEF FilesInv, BundlesArePrivate
<1>11. DropsAreUnheard'
  <2>1. u \cap Live = {}
    BY <1>2 DEF FilesInv, BundlesArePrivate, OfRow, Live
  <2> QED
    BY <1>3, <1>4, <1>5, <2>1 DEF FilesInv, DropsAreUnheard
<1>12. ReadsOK'
  <2>1. \A e \in Requests : work'[e] # NoCall => ReadOK(work'[e].read)
    BY <1>3 DEF FilesInv, ReadsOK
  <2> QED
    BY <2>1 DEF ReadsOK, ReadOK, SamePages
<1>13. LiveFilesKept' /\ NoFileLeaks'
  <2>1. InHand' = InHand
    <3>1. \A x : x \in InHand' <=> \E e \in Requests : x \in Up(e)' \cup Drop(e)'
      BY DEF InHand, Up, Drop
    <3>2. \A e \in Requests : Up(e)' \cup Drop(e)' = Up(e) \cup Drop(e)
      BY <1>2, <1>3, <1>4
    <3> QED
      BY <3>1, <3>2, InHandIs
  <2> QED
    BY <1>5, <1>6, <2>1 DEF FilesInv, LiveFilesKept, NoFileLeaks
<1> QED
  BY <1>7, <1>8, <1>9, <1>10, <1>11, <1>12, <1>13 DEF FilesInv

----------------------------------------------------------------------------
\* The row that a save writes.
LEMMA RenewedIs ==
  ASSUME FilesInv, NEW c \in Requests, work[c] # NoCall, work[c].step = "save",
         doc # NoDocument => doc.version < MaxVersion
  PROVE  LET d == Renewed(doc, work[c].up)
         IN /\ d \in Document /\ Pages(d) = Up(c) /\ d.status = "PENDING"
            /\ doc # NoDocument => d.id = doc.id /\ d.version = doc.version + 1
            /\ doc = NoDocument => d.id \in Up(c)
<1> DEFINE u == work[c].up
           f == First(u)
<1>1. PICK a \in File, b \in File : u = {a, b}
  BY DEF FilesInv, BundlesOK, BundleOK
<1>2. u \subseteq File /\ f \in u /\ u = Up(c)
  BY <1>1, FirstOfBundle DEF Up
<1> HIDE DEF f, u
<1>3. CASE doc = NoDocument
  <2>1. Renewed(doc, u) = [id |-> f, first |-> f, rest |-> u \ {f}, version |-> 1, status |-> "PENDING"]
    BY <1>3 DEF Renewed, f
  <2> QED
    BY <1>2, <1>3, <2>1, FilesAssumption DEF Document, Pages, Status, u
<1>4. CASE doc # NoDocument
  <2>1. Renewed(doc, u) = [id |-> doc.id, first |-> f, rest |-> u \ {f},
                           version |-> doc.version + 1, status |-> "PENDING"]
    BY <1>4 DEF Renewed, f
  <2>2. doc \in Document /\ doc.id \in File /\ doc.version \in 1..MaxVersion
        /\ doc.version + 1 \in 1..MaxVersion
    BY <1>4, DocumentFields, FilesAssumption DEF FilesInv, FilesTypeOK
  <2>3. Renewed(doc, u) \in Document
    BY <1>2, <2>1, <2>2 DEF Document, Status
  <2> QED
    BY <1>2, <1>4, <2>1, <2>3 DEF Pages, u
<1> QED
  BY <1>3, <1>4

\* A save takes the place of the row as it is now.
LEMMA CommitStep ==
  ASSUME FilesInv, NEW c \in Requests, NEW old \in Document \cup {NoDocument}, Commit(c, old),
         old = NoDocument <=> doc = NoDocument,
         old # NoDocument => old.version = doc.version /\ SamePages(old, doc)
  PROVE  FilesInv'
<1>1. /\ work[c] # NoCall /\ work[c].step = "save" /\ doc' = Renewed(doc, work[c].up)
      /\ doc # NoDocument => doc.version < MaxVersion
      /\ UNCHANGED <<kind, stored, issued>>
  BY DEF Commit
<1>2. PICK u : u = Up(c)
  OBVIOUS
<1>3. /\ u = work[c].up /\ Drop(c) = {} /\ u \subseteq 1..issued /\ u \subseteq stored
      /\ 1..issued \subseteq File
      /\ u \cap (OfRow \cup unheard \cup left) = {}
      /\ \A e \in Requests : u \cap (ReadBy(e) \cup Drop(e)) = {}
      /\ \A e \in Requests \ {c} : u \cap Up(e) = {}
  BY <1>1, <1>2, SaverHolds, FilesAssumption
     DEF FilesInv, BundlesArePrivate, KnownAreIssued, FilesTypeOK, File
<1>4. /\ doc' \in Document /\ doc' # NoDocument /\ Live' = u /\ doc'.status = "PENDING"
      /\ doc # NoDocument => doc'.id = doc.id /\ doc'.version = doc.version + 1
      /\ doc = NoDocument => doc'.id \in u
  BY <1>1, <1>2, RenewedIs, FilesAssumption DEF Live
<1>5. OfRow' = u \cup {doc'.id} /\ (doc # NoDocument => doc'.id \in OfRow)
  BY <1>4 DEF OfRow, Live
<1>6. Live \subseteq OfRow
  BY DEF Live, OfRow
<1>7. PICK F : /\ Turns(c, F) /\ F \subseteq Live \cup u /\ F \cap u \subseteq unheard'
               /\ unheard \subseteq unheard' /\ unheard' \subseteq unheard \cup u
               /\ left \subseteq left' /\ left' \subseteq left \cup (Live \cap stored)
               /\ Live \cap stored \subseteq left' \cup F
  <2>1. Live = IF old = NoDocument THEN {} ELSE {old.first} \cup old.rest
    BY DEF Live, Pages, SamePages
  <2>2. Live \cup u \subseteq File
    BY <1>3, <1>6 DEF FilesInv, KnownAreIssued
  <2>3. CASE /\ work' = Clean(c, IF old = NoDocument THEN {} ELSE {old.first})
             /\ left' = left \cup (IF old = NoDocument THEN {} ELSE old.rest \cap stored)
             /\ UNCHANGED unheard
    <3>1. PICK F : F = IF old = NoDocument THEN {} ELSE {old.first}
      OBVIOUS
    <3>2. F \subseteq Live /\ F \in SUBSET File /\ F \cap u = {}
      BY <1>3, <1>6, <2>1, <2>2, <3>1
    <3>3. Turns(c, F)
      BY <1>1, <2>3, <3>1, <3>2, CleanIs DEF Turns, FilesInv
    <3> QED
      BY <2>1, <2>3, <3>1, <3>2, <3>3
  <2>4. CASE /\ work' = Clean(c, work[c].up)
             /\ left' = left \cup (IF old = NoDocument THEN {} ELSE Pages(old) \cap stored)
             /\ unheard' = unheard \cup work[c].up
    <3>1. u \in SUBSET File
      BY <2>2
    <3>2. Turns(c, u)
      BY <1>1, <1>3, <2>4, <3>1, CleanIs DEF Turns, FilesInv
    <3>3. left' = left \cup (Live \cap stored)
      BY <2>1, <2>4 DEF Pages
    <3> QED
      BY <1>3, <2>4, <3>2, <3>3
  <2> QED
    BY <2>3, <2>4 DEF Commit
<1>8. F \in SUBSET (1..issued) /\ issued' = issued
  BY <1>1, <1>3, <1>6, <1>7 DEF FilesInv, KnownAreIssued
<1>9. /\ Up(c)' = {} /\ Drop(c)' = F /\ ReadBy(c)' \subseteq ReadBy(c)
      /\ \A e \in Requests \ {c} : Up(e)' = Up(e) /\ Drop(e)' = Drop(e) /\ ReadBy(e)' = ReadBy(e)
      /\ BundlesOK'
      /\ \A e \in Requests : work'[e] # NoCall => work'[e].up \subseteq 1..issued'
      /\ \A e \in Requests : work'[e] # NoCall => work[e] # NoCall /\ work'[e].read = work[e].read
      /\ \A x : x \in InHand' <=> x \in F \/ \E e \in Requests \ {c} : x \in Up(e) \cup Drop(e)
  BY <1>7, <1>8, TurnStep
<1>10. FilesTypeOK'
  <2>1. work' \in [Requests -> Work \cup {NoCall}]
    BY <1>7 DEF Turns
  <2> QED
    BY <1>1, <1>3, <1>4, <1>7, <1>9, <2>1 DEF FilesInv, FilesTypeOK
<1>11. BundlesArePrivate'
  <2>1. \A e \in Requests \ {c} : Up(e) \cap (OfRow \cup u \cup unheard \cup left) = {}
    BY <1>3 DEF FilesInv, BundlesArePrivate
  <2>2. \A e \in Requests \ {c} : Up(e) \cap OfRow' = {}
    BY <1>4, <1>5, <2>1
  <2>3. \A e \in Requests \ {c} : Up(e) \cap (unheard' \cup left' \cup F) = {}
    BY <1>6, <1>7, <2>1
  <2>4. \A e \in Requests : Up(e)' \subseteq stored'
    BY <1>1, <1>9 DEF FilesInv, BundlesArePrivate
  <2>5. \A e \in Requests : Up(e)' \cap (OfRow' \cup unheard' \cup left') = {}
    BY <1>9, <2>2, <2>3
  <2>6. \A e, g \in Requests : Up(e)' \cap (ReadBy(g)' \cup Drop(g)') = {}
    BY <1>9, <2>3 DEF FilesInv, BundlesArePrivate
  <2>7. \A e \in Requests : \A g \in Requests \ {e} : Up(e)' \cap Up(g)' = {}
    BY <1>9 DEF FilesInv, BundlesArePrivate
  <2> QED
    BY <2>4, <2>5, <2>6, <2>7 DEF BundlesArePrivate
<1>12. KnownAreIssued'
  <2>1. OfRow' \subseteq 1..issued'
    BY <1>3, <1>4, <1>5, <1>8 DEF FilesInv, KnownAreIssued
  <2>2. \A e \in Requests : Up(e)' \cup Drop(e)' \cup ReadBy(e)' \subseteq 1..issued'
    BY <1>8, <1>9 DEF FilesInv, KnownAreIssued
  <2> QED
    BY <2>1, <2>2 DEF KnownAreIssued
<1>13. DropsAreUnheard'
  BY <1>3, <1>4, <1>7, <1>9 DEF FilesInv, DropsAreUnheard
<1>14. ReadsOK'
  <2>1. ASSUME NEW e \in Requests, work'[e] # NoCall
        PROVE  ReadOK(work[e].read)'
    <3>1. PICK d : d = work'[e].read
      OBVIOUS
    <3>2. work[e] # NoCall /\ d = work[e].read /\ ReadOK(d) /\ d \in Document \cup {NoDocument}
      BY <1>9, <2>1, <3>1, WorkFields DEF FilesInv, ReadsOK
    <3>3. d # NoDocument /\ d.id = doc'.id => doc # NoDocument /\ d.version < doc'.version
      <4>1. d # NoDocument => d.id \in ReadBy(e)
        BY <3>2 DEF ReadBy
      <4>2. d # NoDocument /\ d.id = doc'.id => doc # NoDocument
        BY <1>3, <1>4, <4>1
      <4>3. doc # NoDocument => doc.version \in Nat /\ doc'.version = doc.version + 1 /\ doc'.id = doc.id
        BY <1>4, DocumentFields DEF FilesInv, FilesTypeOK
      <4>4. d # NoDocument => d.version \in Nat
        BY <3>2, DocumentFields
      <4> QED
        BY <3>2, <4>2, <4>3, <4>4 DEF ReadOK
    <3>4. d # NoDocument => d.version \in Nat
      BY <3>2, DocumentFields
    <3>5. doc'.version \in Nat
      BY <1>4, DocumentFields
    <3>6. ReadOK(d)'
      BY <3>3, <3>4, <3>5 DEF ReadOK, SamePages
    <3> QED
      BY <3>1, <3>6 DEF ReadOK, SamePages
  <2> QED
    BY <2>1 DEF ReadsOK
<1>15. LiveFilesKept'
  BY <1>1, <1>3, <1>4 DEF LiveFilesKept
<1>16. NoFileLeaks'
  <2>1. \A x : x \in InHand => x \in u \/ x \in InHand'
    BY <1>2, <1>3, <1>9, InHandIs
  <2> QED
    BY <1>1, <1>4, <1>7, <1>9, <2>1 DEF FilesInv, NoFileLeaks
<1> QED
  BY <1>9, <1>10, <1>11, <1>12, <1>13, <1>14, <1>15, <1>16 DEF FilesInv

----------------------------------------------------------------------------
\* A clean-up deletes what its request superseded or could not save; what it fails to delete is left.
LEMMA CleanUpStep ==
  ASSUME FilesInv, NEW c \in Requests, CleanUp(c)
  PROVE  FilesInv'
<1>1. /\ work[c] # NoCall /\ work[c].step = "clean" /\ work' = [work EXCEPT ![c] = NoCall]
      /\ UNCHANGED <<kind, doc, issued, unheard>>
  BY DEF CleanUp
<1>2. PICK F : F = Drop(c) /\ F = work[c].drop
  BY <1>1 DEF Drop
<1>3. PICK kept \in SUBSET (F \cap stored) :
        stored' = stored \ (F \ kept) /\ left' = (left \ F) \cup kept
  BY <1>2 DEF CleanUp
<1>4. Turns(c, {}) /\ {} \in SUBSET (1..issued)
  BY <1>1, EndIs DEF Turns, FilesInv
<1>5. /\ Up(c)' = {} /\ Drop(c)' = {} /\ ReadBy(c)' \subseteq ReadBy(c)
      /\ \A e \in Requests \ {c} : Up(e)' = Up(e) /\ Drop(e)' = Drop(e) /\ ReadBy(e)' = ReadBy(e)
      /\ BundlesOK'
      /\ \A e \in Requests : work'[e] # NoCall => work'[e].up \subseteq 1..issued'
      /\ \A e \in Requests : work'[e] # NoCall => work[e] # NoCall /\ work'[e].read = work[e].read
      /\ \A x : x \in InHand' <=> x \in {} \/ \E e \in Requests \ {c} : x \in Up(e) \cup Drop(e)
  BY <1>1, <1>4, TurnStep
<1>6. Up(c) = {}
  BY <1>1 DEF FilesInv, BundlesOK, BundleOK, Up
<1>7. OfRow' = OfRow /\ Live' = Live
  BY <1>1 DEF OfRow, Live, Pages
<1>8. FilesTypeOK'
  <2>1. work' \in [Requests -> Work \cup {NoCall}]
    BY <1>4 DEF Turns
  <2> QED
    BY <1>1, <1>3, <1>5, <2>1 DEF FilesInv, FilesTypeOK
<1>9. BundlesArePrivate'
  <2>1. \A e \in Requests : Up(e) \cap F = {}
    BY <1>2 DEF FilesInv, BundlesArePrivate
  <2> QED
    BY <1>1, <1>3, <1>5, <1>7, <2>1 DEF FilesInv, BundlesArePrivate
<1>10. KnownAreIssued'
  BY <1>1, <1>5, <1>7 DEF FilesInv, KnownAreIssued
<1>11. DropsAreUnheard'
  BY <1>1, <1>5, <1>7 DEF FilesInv, DropsAreUnheard
<1>12. ReadsOK'
  <2>1. \A e \in Requests : work'[e] # NoCall => ReadOK(work'[e].read)
    BY <1>5 DEF FilesInv, ReadsOK
  <2> QED
    BY <2>1, <1>1 DEF ReadsOK, ReadOK, SamePages
<1>13. LiveFilesKept'
  <2>1. F \cap Live \subseteq unheard
    BY <1>2 DEF FilesInv, DropsAreUnheard
  <2> QED
    BY <1>1, <1>3, <1>7, <2>1 DEF FilesInv, LiveFilesKept
<1>14. NoFileLeaks'
  <2>1. \A x : x \in InHand => x \in F \/ x \in InHand'
    BY <1>2, <1>5, <1>6, InHandIs
  <2> QED
    BY <1>3, <1>7, <2>1 DEF FilesInv, NoFileLeaks
<1> QED
  BY <1>5, <1>8, <1>9, <1>10, <1>11, <1>12, <1>13, <1>14 DEF FilesInv

\* The row is removed, and its pages with it or left behind.
LEMMA GoneStep ==
  ASSUME FilesInv, NEW c \in Requests, work[c] # NoCall, work[c].step = "remove",
         doc # NoDocument, NEW F \in SUBSET Pages(work[c].read), Gone(c, F),
         UNCHANGED <<kind, stored, issued, unheard>>
  PROVE  FilesInv'
<1>1. doc' = NoDocument /\ work' = Clean(c, F) /\ left' = left \cup ((Live \ F) \cap stored)
  BY DEF Gone, Live
<1>2. F \subseteq ReadBy(c)
  BY DEF FilesInv, BundlesOK, BundleOK, ReadBy
<1>3. F \in SUBSET (1..issued) /\ F \in SUBSET File
  BY <1>2, FilesAssumption DEF FilesInv, KnownAreIssued, FilesTypeOK, File
<1>4. Turns(c, F)
  BY <1>1, <1>3, CleanIs DEF Turns, FilesInv
<1>5. /\ Up(c)' = {} /\ Drop(c)' = F /\ ReadBy(c)' \subseteq ReadBy(c)
      /\ \A e \in Requests \ {c} : Up(e)' = Up(e) /\ Drop(e)' = Drop(e) /\ ReadBy(e)' = ReadBy(e)
      /\ BundlesOK'
      /\ \A e \in Requests : work'[e] # NoCall => work'[e].up \subseteq 1..issued'
      /\ \A e \in Requests : work'[e] # NoCall => work[e] # NoCall /\ work'[e].read = work[e].read
      /\ \A x : x \in InHand' <=> x \in F \/ \E e \in Requests \ {c} : x \in Up(e) \cup Drop(e)
  BY <1>3, <1>4, TurnStep
<1>6. Up(c) = {} /\ Drop(c) = {}
  BY SaverHolds
<1>7. OfRow' = {} /\ Live' = {} /\ Live \subseteq OfRow
  BY <1>1 DEF OfRow, Live
<1>8. FilesTypeOK'
  <2>1. work' \in [Requests -> Work \cup {NoCall}]
    BY <1>4 DEF Turns
  <2> QED
    BY <1>1, <1>5, <2>1 DEF FilesInv, FilesTypeOK
<1>9. BundlesArePrivate'
  <2>1. \A e \in Requests : Up(e) \cap (OfRow \cup left \cup F) = {}
    BY <1>2 DEF FilesInv, BundlesArePrivate
  <2>2. \A e \in Requests : Up(e)' \cap (left' \cup F) = {}
    BY <1>1, <1>5, <1>7, <2>1
  <2> QED
    BY <1>5, <1>7, <2>2 DEF FilesInv, BundlesArePrivate
<1>10. KnownAreIssued'
  BY <1>3, <1>5, <1>7 DEF FilesInv, KnownAreIssued
<1>11. DropsAreUnheard'
  BY <1>7 DEF DropsAreUnheard
<1>12. ReadsOK'
  BY <1>1 DEF ReadsOK, ReadOK
<1>13. LiveFilesKept' /\ NoFileLeaks'
  <2>1. \A x : x \in InHand => x \in InHand'
    BY <1>5, <1>6, InHandIs
  <2> QED
    BY <1>1, <1>5, <1>7, <2>1 DEF FilesInv, LiveFilesKept, NoFileLeaks
<1> QED
  BY <1>5, <1>8, <1>9, <1>10, <1>11, <1>12, <1>13 DEF FilesInv

\* A request ends that had nothing in hand, and the row, if changed, is still the same file keys.
LEMMA RequestEnds ==
  ASSUME FilesInv, NEW c \in Requests, work[c] # NoCall,
         work[c].step \in {"remove", "judge", "edit"}, work' = [work EXCEPT ![c] = NoCall],
         UNCHANGED <<kind, stored, issued, unheard, left>>,
         doc' # doc => /\ doc # NoDocument /\ doc' \in Document
                       /\ doc'.id = doc.id /\ SamePages(doc, doc')
                       /\ \/ doc'.version = doc.version + 1
                          \/ /\ doc'.version = doc.version
                             /\ doc.status = "VERIFIED" => doc'.status = "VERIFIED"
  PROVE  FilesInv'
<1>1. Turns(c, {}) /\ {} \in SUBSET (1..issued)
  BY EndIs DEF Turns, FilesInv
<1>2. /\ Up(c)' = {} /\ Drop(c)' = {} /\ ReadBy(c)' \subseteq ReadBy(c)
      /\ \A e \in Requests \ {c} : Up(e)' = Up(e) /\ Drop(e)' = Drop(e) /\ ReadBy(e)' = ReadBy(e)
      /\ BundlesOK'
      /\ \A e \in Requests : work'[e] # NoCall => work'[e].up \subseteq 1..issued'
      /\ \A e \in Requests : work'[e] # NoCall => work[e] # NoCall /\ work'[e].read = work[e].read
      /\ \A x : x \in InHand' <=> x \in {} \/ \E e \in Requests \ {c} : x \in Up(e) \cup Drop(e)
  BY <1>1, TurnStep
<1>3. Up(c) = {} /\ Drop(c) = {}
  BY SaverHolds
<1>4. OfRow' = OfRow /\ Live' = Live
  BY FilesAssumption DEF OfRow, Live, Pages, SamePages
<1>5. FilesTypeOK'
  <2>1. work' \in [Requests -> Work \cup {NoCall}]
    BY <1>1 DEF Turns
  <2> QED
    BY <1>2, <2>1 DEF FilesInv, FilesTypeOK
<1>6. BundlesArePrivate'
  BY <1>2, <1>4 DEF FilesInv, BundlesArePrivate
<1>7. KnownAreIssued'
  BY <1>2, <1>4 DEF FilesInv, KnownAreIssued
<1>8. DropsAreUnheard'
  BY <1>2, <1>4 DEF FilesInv, DropsAreUnheard
<1>9. ReadsOK'
  <2>1. ASSUME NEW e \in Requests, work'[e] # NoCall
        PROVE  ReadOK(work[e].read)'
    <3>1. PICK d : d = work'[e].read
      OBVIOUS
    <3>2. work[e] # NoCall /\ d = work[e].read /\ ReadOK(d) /\ d \in Document \cup {NoDocument}
      BY <1>2, <2>1, <3>1, WorkFields DEF FilesInv, ReadsOK
    <3>3. d # NoDocument => d.version \in Nat
      BY <3>2, DocumentFields
    <3>4. doc # NoDocument => doc.version \in Nat
      BY DocumentFields DEF FilesInv, FilesTypeOK
    <3>5. CASE doc' = doc
      BY <3>1, <3>2, <3>5 DEF ReadOK, SamePages
    <3>6. CASE doc' # doc
      BY <3>1, <3>2, <3>3, <3>4, <3>6 DEF ReadOK, SamePages
    <3> QED
      BY <3>5, <3>6
  <2> QED
    BY <2>1 DEF ReadsOK
<1>10. LiveFilesKept' /\ NoFileLeaks'
  <2>1. \A x : x \in InHand => x \in InHand'
    BY <1>2, <1>3, InHandIs
  <2> QED
    BY <1>4, <2>1 DEF FilesInv, LiveFilesKept, NoFileLeaks
<1> QED
  BY <1>2, <1>5, <1>6, <1>7, <1>8, <1>9, <1>10 DEF FilesInv

\* A crash drops every request; what they had in hand and no row has is left.
LEMMA CrashStep ==
  ASSUME FilesInv, Crash
  PROVE  FilesInv'
<1>1. /\ left' = left \cup ((InHand \cap stored) \ Live)
      /\ work' = [c \in Requests |-> NoCall] /\ UNCHANGED <<kind, doc, stored, issued, unheard>>
  BY DEF Crash
<1>2. \A c \in Requests : work'[c] = NoCall /\ Up(c)' = {} /\ Drop(c)' = {} /\ ReadBy(c)' = {}
  BY <1>1 DEF Up, Drop, ReadBy
<1>3. OfRow' = OfRow /\ Live' = Live
  BY <1>1 DEF OfRow, Live, Pages
<1>4. FilesTypeOK'
  BY <1>1, <1>2 DEF FilesInv, FilesTypeOK
<1>5. BundlesOK' /\ ReadsOK'
  BY <1>2 DEF BundlesOK, ReadsOK
<1>6. BundlesArePrivate' /\ DropsAreUnheard'
  BY <1>2 DEF BundlesArePrivate, DropsAreUnheard
<1>7. KnownAreIssued'
  BY <1>1, <1>2, <1>3 DEF FilesInv, KnownAreIssued
<1>8. LiveFilesKept' /\ NoFileLeaks'
  BY <1>1, <1>3 DEF FilesInv, LiveFilesKept, NoFileLeaks
<1> QED
  BY <1>4, <1>5, <1>6, <1>7, <1>8 DEF FilesInv

----------------------------------------------------------------------------
\* A verdict changes the status only, and none replaces VERIFIED.
LEMMA JudgeStep ==
  ASSUME FilesInv, NEW c \in Requests, Judge(c)
  PROVE  FilesInv'
<1>1. PICK to : to = work[c].to
  OBVIOUS
<1>2. /\ work[c] # NoCall /\ work[c].step = "judge" /\ work' = [work EXCEPT ![c] = NoCall]
      /\ UNCHANGED <<kind, stored, issued, unheard, left>>
      /\ doc' # doc => /\ AsRead(c) /\ doc' = [doc EXCEPT !.status = to]
                       /\ doc.status = to \/ <<doc.status, to>> \in Allowed
  BY <1>1 DEF Judge
<1>3. to \in Status
  BY <1>1, <1>2, WorkFields DEF FilesInv
<1>4. doc.status = "VERIFIED" /\ (doc.status = to \/ <<doc.status, to>> \in Allowed) => to = "VERIFIED"
  BY DEF Allowed
<1>5. ASSUME doc' # doc
      PROVE  /\ doc # NoDocument /\ doc' \in Document
             /\ doc'.id = doc.id /\ SamePages(doc, doc') /\ doc'.version = doc.version
             /\ doc.status = "VERIFIED" => doc'.status = "VERIFIED"
  <2>1. doc # NoDocument /\ doc \in Document /\ doc' = [doc EXCEPT !.status = to]
    BY <1>2, <1>5 DEF AsRead, FilesInv, FilesTypeOK
  <2>2. doc' \in Document /\ doc'.status = to /\ doc'.id = doc.id /\ doc'.version = doc.version
        /\ doc'.first = doc.first /\ doc'.rest = doc.rest
    BY <1>3, <2>1 DEF Document
  <2> QED
    BY <1>2, <1>4, <1>5, <2>1, <2>2 DEF SamePages
<1> QED
  BY <1>2, <1>5, RequestEnds

\* An edit writes back the pages of the version it read: those of the row.
LEMMA EditIs ==
  ASSUME FilesInv, NEW c \in Requests, Edit(c)
  PROVE  /\ work[c] # NoCall /\ work[c].step = "edit" /\ work' = [work EXCEPT ![c] = NoCall]
         /\ UNCHANGED <<kind, stored, issued, unheard, left>>
         /\ doc' # doc =>
              /\ doc # NoDocument /\ doc' \in Document
              /\ doc'.id = doc.id /\ SamePages(doc, doc')
              /\ \/ doc'.version = doc.version + 1 /\ doc'.status = "PENDING"
                 \/ /\ doc'.version = doc.version
                    /\ doc.status = "VERIFIED" <=> doc'.status = "VERIFIED"
<1>1. PICK read : read = work[c].read
  OBVIOUS
<1>2. /\ work[c] # NoCall /\ work[c].step = "edit" /\ work' = [work EXCEPT ![c] = NoCall]
      /\ UNCHANGED <<kind, stored, issued, unheard, left>>
      /\ doc' # doc =>
           /\ AsRead(c)
           /\ \/ /\ doc.version < MaxVersion
                 /\ doc' = [doc EXCEPT !.first = read.first, !.rest = read.rest,
                                !.version = doc.version + 1, !.status = "PENDING"]
              \/ /\ doc.status = read.status \/ <<doc.status, read.status>> \in Allowed
                 /\ doc' = [doc EXCEPT !.first = read.first, !.rest = read.rest,
                                !.status = read.status]
  BY <1>1 DEF Edit
<1>3. ASSUME doc' # doc
      PROVE  /\ doc # NoDocument /\ doc' \in Document
             /\ doc'.id = doc.id /\ SamePages(doc, doc')
             /\ \/ doc'.version = doc.version + 1 /\ doc'.status = "PENDING"
                \/ /\ doc'.version = doc.version
                   /\ doc.status = "VERIFIED" <=> doc'.status = "VERIFIED"
  <2>1. /\ doc # NoDocument /\ doc \in Document
        /\ read # NoDocument /\ read \in Document /\ read.id = doc.id /\ read.version = doc.version
    BY <1>1, <1>2, <1>3, WorkFields DEF AsRead, FilesInv, FilesTypeOK, BundlesOK, BundleOK
  <2>2. SamePages(read, doc) /\ (read.status = "VERIFIED" => doc.status = "VERIFIED")
    BY <1>1, <1>2, <2>1 DEF FilesInv, ReadsOK, ReadOK
  <2>3. doc.status \in Status /\ read.status \in Status /\ doc.first \in File /\ doc.rest \subseteq File
        /\ doc.version \in 1..MaxVersion
    BY <2>1, DocumentFields
  <2>4. CASE /\ doc.version < MaxVersion
             /\ doc' = [doc EXCEPT !.first = read.first, !.rest = read.rest,
                            !.version = doc.version + 1, !.status = "PENDING"]
    <3>1. doc.version + 1 \in 1..MaxVersion
      BY <2>3, <2>4, FilesAssumption
    <3>2. /\ doc' \in Document /\ doc'.id = doc.id /\ doc'.first = doc.first /\ doc'.rest = doc.rest
          /\ doc'.version = doc.version + 1 /\ doc'.status = "PENDING"
      BY <2>1, <2>2, <2>3, <2>4, <3>1 DEF Document, SamePages, Status
    <3> QED
      BY <2>1, <3>2 DEF SamePages
  <2>5. CASE /\ doc.status = read.status \/ <<doc.status, read.status>> \in Allowed
             /\ doc' = [doc EXCEPT !.first = read.first, !.rest = read.rest,
                            !.status = read.status]
    <3>1. /\ doc' \in Document /\ doc'.id = doc.id /\ doc'.first = doc.first /\ doc'.rest = doc.rest
          /\ doc'.version = doc.version /\ doc'.status = read.status
      BY <2>1, <2>2, <2>3, <2>5 DEF Document, SamePages
    <3>2. doc.status = "VERIFIED" => read.status = "VERIFIED"
      BY <2>5 DEF Allowed
    <3> QED
      BY <2>1, <2>2, <3>1, <3>2 DEF SamePages
  <2> QED
    BY <1>2, <1>3, <2>4, <2>5
<1> QED
  BY <1>2, <1>3

\* Saves: a driver's slot is locked as it is, a partner's row is new or as it was read.
LEMMA SaveStep ==
  ASSUME FilesInv, NEW c \in Requests, SaveBundle(c) \/ CreateMetadata(c) \/ ReplaceMetadata(c)
  PROVE  FilesInv' /\ doc' # NoDocument /\ doc'.status = "PENDING"
<1>1. PICK old \in Document \cup {NoDocument} :
        /\ Commit(c, old) /\ (old = NoDocument <=> doc = NoDocument)
        /\ old # NoDocument => old.version = doc.version /\ SamePages(old, doc)
  <2>1. CASE SaveBundle(c)
    BY <2>1 DEF SaveBundle, Locked, SamePages, FilesInv, FilesTypeOK
  <2>2. CASE CreateMetadata(c)
    BY <2>2 DEF CreateMetadata
  <2>3. CASE ReplaceMetadata(c)
    <3>1. /\ work[c] # NoCall /\ work[c].read # NoDocument /\ AsRead(c) /\ Commit(c, work[c].read)
      BY <2>3 DEF ReplaceMetadata
    <3>2. work[c].read \in Document /\ SamePages(work[c].read, doc)
          /\ work[c].read.version = doc.version /\ doc # NoDocument
      BY <3>1, WorkFields DEF FilesInv, ReadsOK, ReadOK, AsRead
    <3> QED
      BY <3>1, <3>2
  <2> QED
    BY <2>1, <2>2, <2>3
<1>2. FilesInv'
  BY <1>1, CommitStep
<1>3. doc' # NoDocument /\ doc'.status = "PENDING"
  <2>1. /\ work[c] # NoCall /\ work[c].step = "save" /\ doc' = Renewed(doc, work[c].up)
        /\ doc # NoDocument => doc.version < MaxVersion
    BY <1>1 DEF Commit
  <2> QED
    BY <2>1, RenewedIs, FilesAssumption
<1> QED
  BY <1>2, <1>3

\* Removals: the row goes with the pages it had when it was read, or the request ends.
LEMMA RemoveStep ==
  ASSUME FilesInv, NEW c \in Requests, RemoveDriverDocument(c) \/ RemovePartnerDocument(c)
  PROVE  FilesInv' /\ (doc' = doc \/ doc' = NoDocument)
<1>1. PICK may \in BOOLEAN, drop \in SUBSET Pages(work[c].read) : Remove(c, may, drop)
  <2>1. CASE RemoveDriverDocument(c)
    BY <2>1 DEF RemoveDriverDocument, Pages
  <2>2. CASE RemovePartnerDocument(c)
    BY <2>2 DEF RemovePartnerDocument
  <2> QED
    BY <2>1, <2>2
<1>2. work[c] # NoCall /\ work[c].step = "remove" /\ UNCHANGED <<kind, stored, issued, unheard>>
  BY <1>1 DEF Remove
<1>3. CASE doc # NoDocument /\ Gone(c, drop)
  BY <1>2, <1>3, GoneStep DEF Gone
<1>4. CASE work' = [work EXCEPT ![c] = NoCall] /\ UNCHANGED <<doc, left>>
  BY <1>2, <1>4, RequestEnds
<1> QED
  BY <1>1, <1>3, <1>4 DEF Remove

\* Begins: the row is read as it is, or not read.
LEMMA BeginsStep ==
  ASSUME FilesInv, NEW c \in Requests,
         \/ BeginDriverUpload(c) \/ BeginPartnerUpload(c) \/ BeginReplace(c)
         \/ BeginRemove(c) \/ BeginEdit(c) \/ \E s \in Status : BeginJudge(c, s)
  PROVE  FilesInv' /\ doc' = doc
<1>1. PICK step \in Step \ {"save", "clean"}, pages \in 0..2, read \in {doc, NoDocument}, to \in Status :
        /\ step = "upload" => pages # 0
        /\ step \in {"remove", "judge", "edit"} => read # NoDocument
        /\ BeginWork(c, step, pages, read, to)
  <2> USE DEF Step, Status
  <2>1. CASE BeginDriverUpload(c) \/ BeginPartnerUpload(c)
    BY <2>1 DEF BeginDriverUpload, BeginPartnerUpload
  <2>2. CASE BeginReplace(c)
    BY <2>2 DEF BeginReplace
  <2>3. CASE BeginRemove(c)
    BY <2>3 DEF BeginRemove
  <2>4. CASE BeginEdit(c)
    <3>1. doc # NoDocument /\ BeginWork(c, "edit", 0, doc, doc.status) /\ doc.status \in Status
      BY <2>4, DocumentFields DEF BeginEdit, FilesInv, FilesTypeOK
    <3> QED
      BY <3>1
  <2>5. CASE \E s \in Status : BeginJudge(c, s)
    BY <2>5 DEF BeginJudge
  <2> QED
    BY <2>1, <2>2, <2>3, <2>4, <2>5
<1>2. FilesInv'
  BY <1>1, BeginStep
<1>3. doc' = doc
  BY <1>1 DEF BeginWork
<1> QED
  BY <1>2, <1>3

----------------------------------------------------------------------------
LEMMA FilesInitially == FilesInit => FilesInv
<1> SUFFICES ASSUME FilesInit PROVE FilesInv
  OBVIOUS
<1>1. FilesTypeOK
  BY FilesAssumption DEF FilesInit, FilesTypeOK
<1>2. \A c \in Requests : work[c] = NoCall /\ Up(c) = {} /\ Drop(c) = {} /\ ReadBy(c) = {}
  BY DEF FilesInit, Up, Drop, ReadBy
<1>3. OfRow = {} /\ Live = {}
  BY DEF FilesInit, OfRow, Live
<1> QED
  BY <1>1, <1>2, <1>3 DEF FilesInit, FilesInv, BundlesOK, BundlesArePrivate, KnownAreIssued,
     DropsAreUnheard, ReadsOK, LiveFilesKept, NoFileLeaks

\* A verdict that a step writes is of a reviewer who read the version it is written on.
VerdictStep ==
  doc' # NoDocument /\ doc'.status = "VERIFIED" /\ doc # NoDocument /\ doc.status # "VERIFIED"
  => \E c \in Requests :
       /\ work[c] # NoCall /\ work[c].step = "judge" /\ work[c].to = "VERIFIED"
       /\ Pages(work[c].read) = Pages(doc')
       /\ work[c].read.version = doc'.version

LEMMA JudgesVerdict ==
  ASSUME FilesInv, NEW c \in Requests, Judge(c)
  PROVE  VerdictStep
<1> SUFFICES ASSUME doc' # NoDocument, doc'.status = "VERIFIED", doc # NoDocument, doc.status # "VERIFIED"
             PROVE  /\ work[c] # NoCall /\ work[c].step = "judge" /\ work[c].to = "VERIFIED"
                    /\ Pages(work[c].read) = Pages(doc')
                    /\ work[c].read.version = doc'.version
  BY DEF VerdictStep
<1>1. PICK to, read : to = work[c].to /\ read = work[c].read
  OBVIOUS
<1>2. /\ work[c] # NoCall /\ work[c].step = "judge"
      /\ AsRead(c) /\ doc' = [doc EXCEPT !.status = to]
  BY <1>1 DEF Judge
<1>3. doc \in Document
  BY DEF FilesInv, FilesTypeOK
<1>4. doc'.status = to /\ doc'.version = doc.version /\ Pages(doc') = Pages(doc)
  BY <1>2, <1>3 DEF Document, Pages
<1>5. read # NoDocument /\ read.id = doc.id /\ read.version = doc.version /\ SamePages(read, doc)
  BY <1>1, <1>2 DEF AsRead, FilesInv, BundlesOK, BundleOK, ReadsOK, ReadOK
<1> QED
  BY <1>1, <1>2, <1>4, <1>5 DEF Pages, SamePages

LEMMA FilesStep == FilesInv /\ [FilesNext]_filesVars => FilesInv' /\ VerdictStep
<1> SUFFICES ASSUME FilesInv, [FilesNext]_filesVars PROVE FilesInv' /\ VerdictStep
  OBVIOUS
<1>1. ASSUME NEW c \in Requests,
             \/ BeginDriverUpload(c) \/ BeginPartnerUpload(c) \/ BeginReplace(c)
             \/ BeginRemove(c) \/ BeginEdit(c) \/ \E s \in Status : BeginJudge(c, s)
      PROVE  FilesInv' /\ VerdictStep
  BY <1>1, BeginsStep DEF VerdictStep
<1>2. ASSUME NEW c \in Requests, Store(c) PROVE FilesInv' /\ VerdictStep
  BY <1>2, StoreStep DEF VerdictStep, Store
<1>3. ASSUME NEW c \in Requests, StoreFails(c) \/ SaveFails(c) PROVE FilesInv' /\ VerdictStep
  <2>1. CASE StoreFails(c)
    <3>1. FilesInv'
      BY <2>1, AbandonStep DEF StoreFails
    <3> QED
      BY <2>1, <3>1 DEF VerdictStep, StoreFails
  <2>2. CASE SaveFails(c)
    <3>1. FilesInv'
      BY <2>2, AbandonStep DEF SaveFails
    <3> QED
      BY <2>2, <3>1 DEF VerdictStep, SaveFails
  <2> QED
    BY <1>3, <2>1, <2>2
<1>4. ASSUME NEW c \in Requests, CleanUp(c) PROVE FilesInv' /\ VerdictStep
  BY <1>4, CleanUpStep DEF VerdictStep, CleanUp
<1>5. ASSUME NEW c \in Requests, SaveBundle(c) \/ CreateMetadata(c) \/ ReplaceMetadata(c)
      PROVE  FilesInv' /\ VerdictStep
  BY <1>5, SaveStep DEF VerdictStep
<1>6. ASSUME NEW c \in Requests, RemoveDriverDocument(c) \/ RemovePartnerDocument(c)
      PROVE  FilesInv' /\ VerdictStep
  BY <1>6, RemoveStep DEF VerdictStep
<1>7. ASSUME NEW c \in Requests, Judge(c) PROVE FilesInv' /\ VerdictStep
  BY <1>7, JudgeStep, JudgesVerdict
<1>8. ASSUME NEW c \in Requests, Edit(c) PROVE FilesInv' /\ VerdictStep
  <2>1. FilesInv'
    BY <1>8, EditIs, RequestEnds
  <2>2. VerdictStep
    BY <1>8, EditIs DEF VerdictStep
  <2> QED
    BY <2>1, <2>2
<1>9. CASE Crash
  BY <1>9, CrashStep DEF VerdictStep, Crash
<1>10. CASE UNCHANGED filesVars
  <2>1. FilesInv'
    BY <1>10 DEF filesVars, FilesInv, FilesTypeOK, BundlesOK, BundleOK, BundlesArePrivate,
       KnownAreIssued, DropsAreUnheard, ReadsOK, ReadOK, SamePages, LiveFilesKept, NoFileLeaks,
       Up, Drop, ReadBy, OfRow, Live, Pages, InHand
  <2> QED
    BY <1>10, <2>1 DEF filesVars, VerdictStep
<1> QED
  BY <1>1, <1>2, <1>3, <1>4, <1>5, <1>6, <1>7, <1>8, <1>9, <1>10 DEF FilesNext

LEMMA FilesInvariant == FilesSpec => []FilesInv
<1>1. FilesInv /\ [FilesNext]_filesVars => FilesInv'
  BY FilesStep
<1> QED
  BY <1>1, FilesInitially, PTL DEF FilesSpec

\* The state of rows, files and requests stays of its type.
THEOREM FilesTypeCorrect == FilesSpec => []FilesTypeOK
<1>1. FilesInv => FilesTypeOK
  BY DEF FilesInv
<1> QED
  BY <1>1, FilesInvariant, PTL

\* However many requests save, edit, judge and remove a document, fail half-way or are told of a
\* failure that did not happen, and however often the process dies: a live row's pages are in
\* storage unless its save was reported as failed, and no file is left that the code does not
\* know of.
THEOREM FilesAlwaysSound == FilesSpec => []FilesAreSound
<1>1. FilesInv => FilesAreSound
  BY DEF FilesInv, FilesAreSound
<1> QED
  BY <1>1, FilesInvariant, PTL

\* VERIFIED is written only for a reviewer who read this version of these pages.
THEOREM VerdictsAreOnVersionRead == FilesSpec => VerdictOnVersionRead
<1>1. FilesInv /\ [FilesNext]_filesVars => [VerdictStep]_filesVars
  BY FilesStep
<1>2. FilesSpec => [][VerdictStep]_filesVars
  BY <1>1, FilesInvariant, PTL DEF FilesSpec
<1> QED
  BY <1>2 DEF VerdictStep, VerdictOnVersionRead

-----------------------------------------------------------------------------
(* Approvals: a queue of requests is a sequence without repetition.        *)

Queues == {q \in Seq(Purpose) : IsInjective(q)}

LEMMA EmptyQueue == <<>> \in Queues /\ Range(<<>>) = {}
BY DEF Queues, IsInjective, Range

\* Closing a request takes it out of its queue, and no other.
LEMMA WithoutIs ==
  ASSUME NEW q \in Queues, NEW k \in Purpose
  PROVE  Without(q, k) \in Queues /\ Range(Without(q, k)) = Range(q) \ {k}
<1>0. q \in Seq(Purpose) /\ IsInjective(q) /\ DOMAIN q = 1..Len(q) /\ Len(q) \in Nat
  BY DEF Queues
<1>3. ASSUME NEW m \in Int, NEW n \in Int, \A j \in m..n : q[j] \in Purpose
      PROVE  /\ SubSeq(q, m, n) \in Seq(Purpose)
             /\ Len(SubSeq(q, m, n)) = IF m <= n THEN n - m + 1 ELSE 0
             /\ \A j \in 1..(n - m + 1) : SubSeq(q, m, n)[j] = q[m + j - 1]
  BY <1>3, SubSeqProperties
<1>1. CASE k \notin Range(q)
  BY <1>1 DEF Without
<1>2. CASE k \in Range(q)
  <2> DEFINE i == CHOOSE j \in DOMAIN q : q[j] = k
             before == SubSeq(q, 1, i - 1)
             after == SubSeq(q, i + 1, Len(q))
             w == before \o after
  <2>1. i \in 1..Len(q) /\ q[i] = k
    BY <1>0, <1>2 DEF Range
  <2>2. Without(q, k) = w
    BY <1>2 DEF Without
  <2> HIDE DEF i
  <2>3. /\ before \in Seq(Purpose) /\ Len(before) = i - 1
        /\ \A j \in 1..(i - 1) : before[j] = q[j]
    <3>1. \A j \in 1..(i - 1) : q[j] \in Purpose
      BY <1>0, <2>1
    <3>2. /\ before \in Seq(Purpose) /\ Len(before) = IF 1 <= i - 1 THEN (i - 1) - 1 + 1 ELSE 0
          /\ \A j \in 1..((i - 1) - 1 + 1) : before[j] = q[1 + j - 1]
      BY <1>0, <2>1, <3>1, <1>3
    <3> HIDE DEF before
    <3>3. (i - 1) - 1 + 1 = i - 1 /\ \A j \in 1..(i - 1) : 1 + j - 1 = j
      BY <2>1
    <3>4. Len(before) = i - 1
      BY <2>1, <3>2
    <3>5. ASSUME NEW j \in 1..(i - 1) PROVE before[j] = q[j]
      <4>1. before[j] = q[1 + j - 1]
        BY <3>2, <3>3
      <4> QED
        BY <3>3, <4>1
    <3> QED
      BY <3>2, <3>4, <3>5
  <2>4. /\ after \in Seq(Purpose) /\ Len(after) = Len(q) - i
        /\ \A j \in 1..(Len(q) - i) : after[j] = q[i + j]
    <3>1. \A j \in (i + 1)..Len(q) : q[j] \in Purpose
      BY <1>0, <2>1
    <3>2. /\ after \in Seq(Purpose)
          /\ Len(after) = IF i + 1 <= Len(q) THEN Len(q) - (i + 1) + 1 ELSE 0
          /\ \A j \in 1..(Len(q) - (i + 1) + 1) : after[j] = q[(i + 1) + j - 1]
      BY <1>0, <2>1, <3>1, <1>3
    <3> HIDE DEF after
    <3>3. Len(q) - (i + 1) + 1 = Len(q) - i /\ \A j \in 1..(Len(q) - i) : (i + 1) + j - 1 = i + j
      BY <1>0, <2>1
    <3>4. Len(after) = Len(q) - i
      <4>1. Len(q) \in Nat /\ i \in 1..Len(q)
        BY <1>0, <2>1
      <4>2. Len(after) = IF i + 1 <= Len(q) THEN Len(q) - (i + 1) + 1 ELSE 0
        BY <3>2
      <4> QED
        BY <4>1, <4>2
    <3>5. ASSUME NEW j \in 1..(Len(q) - i) PROVE after[j] = q[i + j]
      <4>1. after[j] = q[(i + 1) + j - 1]
        BY <3>2, <3>3
      <4> QED
        BY <3>3, <4>1
    <3> QED
      BY <3>2, <3>4, <3>5
  <2> HIDE DEF before, after
  <2>5. /\ before \o after \in Seq(Purpose) /\ Len(before \o after) = Len(before) + Len(after)
        /\ \A j \in 1..(Len(before) + Len(after)) :
             (before \o after)[j] = IF j <= Len(before) THEN before[j] ELSE after[j - Len(before)]
    BY <2>3, <2>4, ConcatProperties
  <2>6. w = before \o after
    OBVIOUS
  <2> HIDE DEF w
  <2>7. /\ w \in Seq(Purpose) /\ Len(w) = Len(q) - 1 /\ DOMAIN w = 1..Len(w)
        /\ \A j \in 1..Len(w) : w[j] = IF j < i THEN q[j] ELSE q[j + 1]
    <3>1. w \in Seq(Purpose) /\ Len(w) = Len(q) - 1 /\ DOMAIN w = 1..Len(w)
      <4>1. Len(before \o after) = Len(q) - 1
        BY <1>0, <2>1, <2>3, <2>4, <2>5
      <4> QED
        BY <2>5, <2>6, <4>1
    <3>2. ASSUME NEW j \in 1..Len(w) PROVE w[j] = IF j < i THEN q[j] ELSE q[j + 1]
      <4>1. w[j] = IF j <= i - 1 THEN before[j] ELSE after[j - (i - 1)]
        BY <1>0, <2>1, <2>3, <2>4, <2>5, <2>6, <3>1
      <4>2. CASE j < i
        BY <2>1, <2>3, <4>1, <4>2
      <4>3. CASE ~(j < i)
        <5>1. j - (i - 1) \in 1..(Len(q) - i) /\ i + (j - (i - 1)) = j + 1
          BY <1>0, <2>1, <3>1, <4>3
        <5>2. after[j - (i - 1)] = q[j + 1]
          BY <2>4, <5>1
        <5>3. ~(j <= i - 1)
          BY <2>1, <3>1, <4>3
        <5> QED
          BY <4>1, <4>3, <5>2, <5>3
      <4> QED
        BY <4>2, <4>3
    <3> QED
      BY <3>1, <3>2
  <2>8. IsInjective(w)
    <3> SUFFICES ASSUME NEW j \in 1..Len(w), NEW n \in 1..Len(w), w[j] = w[n] PROVE j = n
      BY <2>7 DEF IsInjective
    <3> DEFINE from(m) == IF m < i THEN m ELSE m + 1
    <3>1. from(j) \in 1..Len(q) /\ from(n) \in 1..Len(q) /\ q[from(j)] = q[from(n)]
      BY <1>0, <2>1, <2>7
    <3>2. from(j) = from(n)
      BY <1>0, <3>1 DEF IsInjective
    <3> QED
      BY <2>1, <3>2
  <2>9. Range(w) = Range(q) \ {k}
    <3>1. ASSUME NEW x \in Range(w) PROVE x \in Range(q) \ {k}
      BY <1>0, <2>1, <2>7, <3>1 DEF Range, IsInjective
    <3>2. ASSUME NEW x \in Range(q) \ {k} PROVE x \in Range(w)
      <4>1. PICK n \in 1..Len(q) : q[n] = x
        BY <1>0, <3>2 DEF Range
      <4>2. n # i
        BY <2>1, <3>2, <4>1
      <4>3. CASE n < i
        BY <2>1, <2>7, <4>1, <4>3 DEF Range
      <4>4. CASE n > i
        <5>1. n - 1 \in 1..Len(w) /\ w[n - 1] = q[n]
          BY <1>0, <2>1, <2>7, <4>1, <4>4
        <5> QED
          BY <2>7, <4>1, <5>1 DEF Range
      <4> QED
        BY <2>1, <4>1, <4>2, <4>3, <4>4
    <3> QED
      BY <3>1, <3>2
  <2> QED
    BY <2>2, <2>7, <2>8, <2>9 DEF Queues
<1> QED
  BY <1>1, <1>2

\* A request that is not pending is put at the end of its queue.
LEMMA AppendIs ==
  ASSUME NEW q \in Queues, NEW k \in Purpose, k \notin Range(q)
  PROVE  Append(q, k) \in Queues /\ Range(Append(q, k)) = Range(q) \cup {k}
<1>1. q \in Seq(Purpose) /\ IsInjective(q) /\ DOMAIN q = 1..Len(q) /\ Len(q) \in Nat
  BY DEF Queues
<1> DEFINE w == Append(q, k)
<1>2. w \in Seq(Purpose) /\ Len(w) = Len(q) + 1 /\ DOMAIN w = 1..(Len(q) + 1)
      /\ w[Len(q) + 1] = k /\ \A j \in 1..Len(q) : w[j] = q[j]
  BY <1>1
<1> HIDE DEF w
<1>3. IsInjective(w)
  BY <1>1, <1>2 DEF IsInjective, Range
<1>4. Range(w) = Range(q) \cup {k}
  <2>1. ASSUME NEW x \in Range(w) PROVE x \in Range(q) \cup {k}
    BY <1>1, <1>2, <2>1 DEF Range
  <2>2. ASSUME NEW x \in Range(q) \cup {k} PROVE x \in Range(w)
    BY <1>1, <1>2, <2>2 DEF Range
  <2> QED
    BY <2>1, <2>2
<1> QED
  BY <1>2, <1>3, <1>4 DEF Queues, w

\* A request that asks alone.
LEMMA Single ==
  ASSUME NEW k \in Purpose
  PROVE  <<k>> \in Queues /\ Range(<<k>>) = {k}
BY DEF Queues, IsInjective, Range

\* The trigger leaves a request of its own about the row, and the rest as it is.
LEMMA EnqueueIs ==
  ASSUME NEW q \in [Target -> Queues], NEW t \in Target
  PROVE  /\ Enqueue(q, t) \in [Target -> Queues]
         /\ Range(Enqueue(q, t)[t]) = Range(q[t]) \cup {"handoff"}
         /\ \A s \in Target \ {t} : Enqueue(q, t)[s] = q[s]
<1>1. Without(q[t], "handoff") \in Queues /\ Range(Without(q[t], "handoff")) = Range(q[t]) \ {"handoff"}
  BY WithoutIs DEF Purpose
<1>2. /\ Append(Without(q[t], "handoff"), "handoff") \in Queues
      /\ Range(Append(Without(q[t], "handoff"), "handoff")) = Range(q[t]) \cup {"handoff"}
  BY <1>1, AppendIs DEF Purpose
<1>3. Enqueue(q, t) = [q EXCEPT ![t] = Append(Without(q[t], "handoff"), "handoff")]
  BY DEF Enqueue
<1> QED
  BY <1>2, <1>3

-----------------------------------------------------------------------------
(* The invariant.  What an untouched row shows on a page is what it holds.  *)

Waiting(rows, q) ==
  \A t \in Target : rows[t].state = "pending" => \E k \in Range(q[t]) : k # "association"

PagesShowRows ==
  \A r \in Reviewers : page[r] # Nothing =>
    /\ page[r].live \subseteq page[r].items
    /\ \A t \in Rows(page[r].items) \cap page[r].fresh : page[r].shown[t] = row[t].content

ApprovalsInv == ApprovalsTypeOK /\ PagesShowRows /\ ReviewsAreSound

ReviewRow == [state : State, content : 0..MaxContent, expired : BOOLEAN]

LEMMA ApprovalsTypes ==
  ASSUME ApprovalsInv
  PROVE  /\ row \in [Target -> ReviewRow] /\ queue \in [Target -> Queues]
         /\ Waiting(row, queue) /\ ApprovedWasSeen /\ judged \in [Target -> 0..MaxContent]
BY DEF ApprovalsInv, ApprovalsTypeOK, ReviewRow, Queues, Waiting, ReviewsAreSound, WaitingIsQueued

LEMMA ApprovalsTypesThen ==
  ASSUME row' \in [Target -> ReviewRow], queue' \in [Target -> Queues],
         Waiting(row', queue'), ApprovedWasSeen', judged' \in [Target -> 0..MaxContent],
         page' \in [Reviewers -> Page \cup {Nothing}], required' \subseteq Docs,
         receipt' \in [rows : SUBSET Target, fresh : SUBSET Target] \cup {Nothing},
         PagesShowRows'
  PROVE  ApprovalsInv'
<1>1. queue' \in [Target -> Seq(Purpose)] /\ \A t \in Target : IsInjective(queue'[t])
  BY DEF Queues
<1>2. ApprovalsTypeOK'
  BY <1>1 DEF ApprovalsTypeOK, ReviewRow
<1>3. WaitingIsQueued'
  BY DEF Waiting, WaitingIsQueued
<1> QED
  BY <1>2, <1>3 DEF ApprovalsInv, ReviewsAreSound

LEMMA InitApprovals == ApprovalsInit => ApprovalsInv
<1> SUFFICES ASSUME ApprovalsInit PROVE ApprovalsInv
  OBVIOUS
<1>1. row \in [Target -> ReviewRow] /\ judged \in [Target -> 0..MaxContent]
  BY ApprovalsAssumption DEF ApprovalsInit, ReviewRow, State
<1>2. queue \in [Target -> Queues]
  BY EmptyQueue DEF ApprovalsInit
<1>3. ApprovalsTypeOK
  BY <1>1, <1>2 DEF ApprovalsInit, ApprovalsTypeOK, ReviewRow, Queues
<1> QED
  BY <1>3 DEF ApprovalsInit, ApprovalsInv, PagesShowRows, ReviewsAreSound, ApprovedWasSeen, WaitingIsQueued

\* A row that is touched leaves what is fresh on the pages; the others hold what they held.
LEMMA Touched ==
  ASSUME ApprovalsInv, NEW T \in SUBSET Target, NEW q, Seen(T, q),
         \A t \in Target \ T : row'[t].content = row[t].content
  PROVE  /\ page' \in [Reviewers -> Page \cup {Nothing}]
         /\ receipt' \in [rows : SUBSET Target, fresh : SUBSET Target] \cup {Nothing}
         /\ PagesShowRows'
<1>1. page \in [Reviewers -> Page \cup {Nothing}]
      /\ receipt \in [rows : SUBSET Target, fresh : SUBSET Target] \cup {Nothing}
  BY DEF ApprovalsInv, ApprovalsTypeOK
<1>2. receipt' \in [rows : SUBSET Target, fresh : SUBSET Target] \cup {Nothing}
  <2>1. CASE receipt = Nothing
    BY <2>1 DEF Seen
  <2>2. CASE receipt # Nothing
    <3>1. receipt \in [rows : SUBSET Target, fresh : SUBSET Target]
      BY <1>1, <2>2
    <3>2. receipt' = [receipt EXCEPT !.fresh = @ \ T]
      BY <2>2 DEF Seen
    <3> QED
      BY <3>1, <3>2
  <2> QED
    BY <2>1, <2>2
<1>3. ASSUME NEW r \in Reviewers, page[r] # Nothing
      PROVE  /\ page[r] \in Page /\ page'[r] \in Page
             /\ page'[r].items = page[r].items /\ page'[r].shown = page[r].shown
             /\ page'[r].live \subseteq page[r].live /\ page'[r].fresh = page[r].fresh \ T
  <2>1. page[r] \in Page
    BY <1>1, <1>3
  <2>2. page'[r] = [page[r] EXCEPT !.fresh = @ \ T, !.live = @ \cap Pending(q)]
    BY <1>3 DEF Seen
  <2> HIDE DEF Pending
  <2> QED
    BY <2>1, <2>2 DEF Page
<1>4. ASSUME NEW r \in Reviewers, page[r] = Nothing PROVE page'[r] = Nothing
  BY <1>4 DEF Seen
<1>5. page' \in [Reviewers -> Page \cup {Nothing}]
  <2>1. page' = [r \in Reviewers |-> page'[r]]
    BY DEF Seen
  <2> QED
    BY <1>3, <1>4, <2>1
<1>6. PagesShowRows'
  <2> SUFFICES ASSUME NEW r \in Reviewers, page'[r] # Nothing
               PROVE  /\ page'[r].live \subseteq page'[r].items
                      /\ \A t \in Rows(page'[r].items) \cap page'[r].fresh :
                           page'[r].shown[t] = row'[t].content
    BY DEF PagesShowRows, Rows
  <2>1. page[r] # Nothing
    BY <1>4
  <2>2. /\ page[r].live \subseteq page[r].items /\ page[r].fresh \subseteq Target
        /\ \A t \in Rows(page[r].items) \cap page[r].fresh : page[r].shown[t] = row[t].content
    BY <1>3, <2>1 DEF ApprovalsInv, PagesShowRows, Page
  <2> QED
    BY <1>3, <2>1, <2>2
<1> QED
  BY <1>2, <1>5, <1>6

\* Nothing of the rows and pages is touched.
LEMMA Untouched ==
  ASSUME ApprovalsInv, page' = page, \A t \in Target : row'[t].content = row[t].content
  PROVE  page' \in [Reviewers -> Page \cup {Nothing}] /\ PagesShowRows'
<1>1. page \in [Reviewers -> Page \cup {Nothing}]
  BY DEF ApprovalsInv, ApprovalsTypeOK
<1>2. ASSUME NEW r \in Reviewers, page[r] # Nothing PROVE page[r].fresh \subseteq Target
  BY <1>1, <1>2 DEF Page
<1> QED
  BY <1>1, <1>2 DEF ApprovalsInv, PagesShowRows, Rows

\* A row that is sent back has a request of the trigger.
LEMMA SentBack ==
  ASSUME NEW rows, NEW q \in [Target -> Queues], NEW t \in Target, Waiting(rows, q), NEW next,
         \A s \in Target \ {t} : next[s].state = "pending" => rows[s].state = "pending"
  PROVE  Waiting(next, Enqueue(q, t))
<1> SUFFICES ASSUME NEW s \in Target, next[s].state = "pending"
             PROVE  \E k \in Range(Enqueue(q, t)[s]) : k # "association"
  BY DEF Waiting
<1>1. CASE s = t
  <2>1. "handoff" \in Range(Enqueue(q, t)[t]) /\ "handoff" # "association"
    BY EnqueueIs
  <2> QED
    BY <1>1, <2>1
<1>2. CASE s # t
  BY <1>2, EnqueueIs DEF Waiting
<1> QED
  BY <1>1, <1>2

LEMMA ProfileIsTarget == "profile" \in Target /\ Docs \subseteq Target /\ Licence \in Docs
BY ApprovalsAssumption DEF Target

LEMMA ResubmittedIs ==
  ASSUME ApprovalsInv, NEW t \in Target, row[t].content < MaxContent
  PROVE  /\ Resubmitted(t) \in ReviewRow /\ Resubmitted(t).state = "pending"
         /\ "pending" \in State /\ "pending" # "approved"
<1>1. row[t] \in ReviewRow
  BY ApprovalsTypes
<1> QED
  BY <1>1, ApprovalsAssumption DEF Resubmitted, ReviewRow, State

LEMMA SaveProfileStep ==
  ASSUME ApprovalsInv, SaveProfile
  PROVE  ApprovalsInv'
<1> DEFINE p == "profile"
<1>1. p \in Target
  BY ProfileIsTarget
<1>2. /\ row' = [row EXCEPT ![p] = Resubmitted(p)] /\ queue' = Enqueue(queue, p)
      /\ Seen({p}, queue) /\ required' = required /\ judged' = judged
  BY DEF SaveProfile
<1>3. Resubmitted(p) \in ReviewRow /\ Resubmitted(p).state = "pending"
  BY <1>1, ResubmittedIs DEF SaveProfile
<1>4. /\ row \in [Target -> ReviewRow] /\ queue \in [Target -> Queues] /\ Waiting(row, queue)
      /\ ApprovedWasSeen /\ judged \in [Target -> 0..MaxContent]
  BY ApprovalsTypes
<1> HIDE DEF p
<1>5. row' \in [Target -> ReviewRow] /\ \A t \in Target \ {p} : row'[t] = row[t]
  BY <1>1, <1>2, <1>3, <1>4
<1>6. queue' \in [Target -> Queues] /\ Waiting(row', queue')
  BY <1>1, <1>2, <1>4, <1>5, EnqueueIs, SentBack
<1>7. ApprovedWasSeen'
  BY <1>1, <1>2, <1>3, <1>4, <1>5 DEF ApprovedWasSeen
<1>8. /\ page' \in [Reviewers -> Page \cup {Nothing}] /\ PagesShowRows'
      /\ receipt' \in [rows : SUBSET Target, fresh : SUBSET Target] \cup {Nothing}
  BY <1>1, <1>2, <1>5, Touched
<1>9. required' \subseteq Docs
  BY <1>2 DEF ApprovalsInv, ApprovalsTypeOK
<1> QED
  BY <1>2, <1>4, <1>5, <1>6, <1>7, <1>8, <1>9, ApprovalsTypesThen

LEMMA UploadStep ==
  ASSUME ApprovalsInv, NEW d \in Docs, Upload(d)
  PROVE  ApprovalsInv'
<1> DEFINE p == "profile"
           back == IF d = Licence THEN {d, p} ELSE {d}
           queued == Enqueue(queue, d)
           final == IF d = Licence THEN Enqueue(queued, p) ELSE queued
<1>1. p \in Target /\ d \in Target /\ p # d
  BY ProfileIsTarget, ApprovalsAssumption
<1>2. /\ row' = [t \in Target |-> IF t = d THEN Resubmitted(d)
                                  ELSE IF t \in back THEN [row[t] EXCEPT !.state = "pending"]
                                  ELSE row[t]]
      /\ queue' = final
      /\ Seen(back, queue) /\ required' = required /\ judged' = judged
      /\ row[d].content < MaxContent
  BY DEF Upload
<1>3. Resubmitted(d) \in ReviewRow /\ Resubmitted(d).state = "pending" /\ "pending" \in State
  BY <1>1, <1>2, ResubmittedIs
<1>4. /\ row \in [Target -> ReviewRow] /\ queue \in [Target -> Queues] /\ Waiting(row, queue)
      /\ ApprovedWasSeen /\ judged \in [Target -> 0..MaxContent]
  BY ApprovalsTypes
<1>5. back \subseteq {d, p} /\ d \in back
  OBVIOUS
<1>6. Seen(back, queue)
  BY <1>2
<1>7. queue' = final /\ (d = Licence => back = {d, p}) /\ (d # Licence => back = {d})
  BY <1>2
<1> HIDE DEF p, back
<1>8. /\ row' \in [Target -> ReviewRow] /\ \A t \in Target \ back : row'[t] = row[t]
      /\ \A t \in back : row'[t].state = "pending"
  <2>1. \A t \in Target : [row[t] EXCEPT !.state = "pending"] \in ReviewRow
                          /\ [row[t] EXCEPT !.state = "pending"].state = "pending"
    BY <1>3, <1>4 DEF ReviewRow
  <2> QED
    BY <1>1, <1>2, <1>3, <1>4, <1>5, <2>1
<1>9. queue' \in [Target -> Queues] /\ Waiting(row', queue')
  <2> DEFINE middle == [row EXCEPT ![d].state = "pending"]
  <2>1. middle[d].state = "pending" /\ \A s \in Target \ {d} : middle[s] = row[s]
    BY <1>1, <1>4 DEF ReviewRow
  <2> HIDE DEF middle
  <2>2. queued \in [Target -> Queues] /\ Waiting(middle, queued)
    BY <1>1, <1>4, <2>1, EnqueueIs, SentBack
  <2>3. CASE d = Licence
    <3>1. \A s \in Target \ {p} : row'[s].state = "pending" => middle[s].state = "pending"
      BY <1>7, <1>8, <2>1, <2>3
    <3> HIDE DEF queued
    <3>2. Enqueue(queued, p) \in [Target -> Queues] /\ Waiting(row', Enqueue(queued, p))
      BY <1>1, <2>2, <3>1, EnqueueIs, SentBack
    <3> QED
      BY <1>7, <2>3, <3>2
  <2>4. CASE d # Licence
    <3>1. \A s \in Target \ {d} : row'[s].state = "pending" => row[s].state = "pending"
      BY <1>7, <1>8, <2>4
    <3>2. Waiting(row', Enqueue(queue, d))
      BY <1>1, <1>4, <3>1, SentBack
    <3> QED
      BY <1>7, <2>2, <2>4, <3>2
  <2> QED
    BY <2>3, <2>4
<1>10. ApprovedWasSeen'
  BY <1>1, <1>2, <1>4, <1>5, <1>8 DEF ApprovedWasSeen
<1>11. /\ page' \in [Reviewers -> Page \cup {Nothing}] /\ PagesShowRows'
       /\ receipt' \in [rows : SUBSET Target, fresh : SUBSET Target] \cup {Nothing}
  <2>1. back \in SUBSET Target
    BY <1>1, <1>5
  <2> QED
    BY <1>6, <1>8, <2>1, Touched
<1>12. required' \subseteq Docs
  BY <1>2 DEF ApprovalsInv, ApprovalsTypeOK
<1> QED
  BY <1>2, <1>4, <1>8, <1>9, <1>10, <1>11, <1>12, ApprovalsTypesThen

\* Requests are made, none is closed, and rows and pages are left alone.
LEMMA AsksStep ==
  ASSUME ApprovalsInv, queue' \in [Target -> Queues],
         \A t \in Target : Range(queue[t]) \subseteq Range(queue'[t]),
         row' = row, page' = page, required' = required, judged' = judged,
         receipt' \in [rows : SUBSET Target, fresh : SUBSET Target] \cup {Nothing}
  PROVE  ApprovalsInv'
<1>1. /\ row \in [Target -> ReviewRow] /\ Waiting(row, queue)
      /\ ApprovedWasSeen /\ judged \in [Target -> 0..MaxContent]
  BY ApprovalsTypes
<1>2. Waiting(row', queue') /\ ApprovedWasSeen'
  BY <1>1 DEF Waiting, ApprovedWasSeen
<1>3. page' \in [Reviewers -> Page \cup {Nothing}] /\ PagesShowRows'
  BY Untouched
<1>4. required' \subseteq Docs
  BY DEF ApprovalsInv, ApprovalsTypeOK
<1> QED
  BY <1>1, <1>2, <1>3, <1>4, ApprovalsTypesThen

LEMMA InsertIs ==
  ASSUME NEW q \in [Target -> Queues], NEW t \in Target, NEW k \in Purpose
  PROVE  /\ Insert(q, t, k) \in [Target -> Queues]
         /\ \A s \in Target : Range(q[s]) \subseteq Range(Insert(q, t, k)[s])
<1>1. CASE k \in Range(q[t])
  <2>1. <<t, k>> \in Pending(q)
    BY <1>1 DEF Pending, Request
  <2> QED
    BY <2>1 DEF Insert
<1>2. CASE k \notin Range(q[t])
  <2>1. <<t, k>> \notin Pending(q)
    BY <1>2 DEF Pending, Request
  <2>2. Insert(q, t, k) = [q EXCEPT ![t] = Append(@, k)]
    BY <2>1 DEF Insert
  <2>3. Append(q[t], k) \in Queues /\ Range(Append(q[t], k)) = Range(q[t]) \cup {k}
    BY <1>2, AppendIs
  <2> QED
    BY <2>2, <2>3
<1> QED
  BY <1>1, <1>2

LEMMA AskStep ==
  ASSUME ApprovalsInv, Associate \/ \E t \in Target : Ask(t)
  PROVE  ApprovalsInv'
<1>1. PICK t \in Target, k \in Purpose : queue' = Insert(queue, t, k)
  BY ProfileIsTarget DEF Associate, Ask, Purpose
<1>2. queue \in [Target -> Queues]
  BY ApprovalsTypes
<1>3. queue' \in [Target -> Queues] /\ \A s \in Target : Range(queue[s]) \subseteq Range(queue'[s])
  BY <1>1, <1>2, InsertIs
<1>4. receipt \in [rows : SUBSET Target, fresh : SUBSET Target] \cup {Nothing}
  BY DEF ApprovalsInv, ApprovalsTypeOK
<1>5. row' = row /\ page' = page /\ required' = required /\ judged' = judged /\ receipt' = receipt
  BY DEF Associate, Ask
<1> QED
  BY <1>3, <1>4, <1>5, AsksStep

LEMMA SubmitStep ==
  ASSUME ApprovalsInv, Submit \/ SubmitFleet
  PROVE  ApprovalsInv'
<1>1. queue \in [Target -> Queues]
  BY ApprovalsTypes
<1>2. <<"asked">> \in Queues
  BY Single DEF Purpose
<1>3. PICK T \in SUBSET Target :
        queue' = [t \in Target |-> IF t \in T /\ queue[t] = <<>> THEN <<"asked">> ELSE queue[t]]
  <2>1. CASE Submit
    <3> DEFINE T == {t \in Submitted : row[t].state # "approved"}
    <3>1. Submitted \subseteq Target
      BY ProfileIsTarget DEF Submitted
    <3> HIDE DEF Submitted
    <3>2. queue' = [t \in Target |-> IF t \in T /\ queue[t] = <<>> THEN <<"asked">> ELSE queue[t]]
      BY <2>1 DEF Submit
    <3> QED
      BY <3>1, <3>2
  <2>2. CASE SubmitFleet
    <3> DEFINE T == {t \in Target : Waits(t)}
    <3>2. queue' = [t \in Target |-> IF t \in T /\ queue[t] = <<>> THEN <<"asked">> ELSE queue[t]]
      BY <2>2 DEF SubmitFleet
    <3> QED
      BY <3>2
  <2> QED
    BY <2>1, <2>2
<1>4. queue' \in [Target -> Queues] /\ \A s \in Target : Range(queue[s]) \subseteq Range(queue'[s])
  BY <1>1, <1>2, <1>3, EmptyQueue
<1>5. receipt' \in [rows : SUBSET Target, fresh : SUBSET Target] \cup {Nothing}
  <2>1. CASE Submit
    <3>1. Submitted \in SUBSET Target
      BY ProfileIsTarget DEF Submitted
    <3>2. receipt' = [rows |-> Submitted, fresh |-> Submitted]
      BY <2>1 DEF Submit
    <3> QED
      BY <3>1, <3>2
  <2>2. CASE SubmitFleet
    BY <2>2 DEF SubmitFleet, ApprovalsInv, ApprovalsTypeOK
  <2> QED
    BY <2>1, <2>2
<1>6. row' = row /\ page' = page /\ required' = required /\ judged' = judged
  BY DEF Submit, SubmitFleet
<1> QED
  BY <1>4, <1>5, <1>6, AsksStep

LEMMA OpenStep ==
  ASSUME ApprovalsInv, NEW r \in Reviewers, NEW I \in SUBSET Pending(queue), NEW group \in BOOLEAN,
         Open(r, I, group)
  PROVE  ApprovalsInv'
<1> DEFINE shown == [t \in Target |-> IF t \in Rows(I) THEN row[t].content ELSE 0]
           fresh == Rows(I) \cup (IF group THEN {"profile"} ELSE {})
           new == [items |-> I, live |-> I, group |-> group, fresh |-> fresh, shown |-> shown]
<1>1. I \subseteq Request /\ Rows(I) \subseteq Target
  BY DEF Pending, Request, Rows
<1>2. /\ row \in [Target -> ReviewRow] /\ queue \in [Target -> Queues] /\ Waiting(row, queue)
      /\ ApprovedWasSeen /\ judged \in [Target -> 0..MaxContent]
  BY ApprovalsTypes
<1>3. page \in [Reviewers -> Page \cup {Nothing}] /\ required \subseteq Docs
      /\ receipt \in [rows : SUBSET Target, fresh : SUBSET Target] \cup {Nothing}
  BY DEF ApprovalsInv, ApprovalsTypeOK
<1>4. page' = [page EXCEPT ![r] = new] /\ UNCHANGED <<row, queue, required, receipt, judged>>
  BY DEF Open
<1>5. shown \in [Target -> 0..MaxContent] /\ \A t \in Rows(I) : shown[t] = row[t].content
  BY <1>1, <1>2, ApprovalsAssumption DEF ReviewRow
<1>6. fresh \subseteq Target
  BY <1>1, ProfileIsTarget
<1> HIDE DEF shown, fresh
<1>7. new \in Page
  BY <1>1, <1>5, <1>6 DEF Page
<1>8. page' \in [Reviewers -> Page \cup {Nothing}]
  BY <1>3, <1>4, <1>7
<1>9. PagesShowRows'
  <2> SUFFICES ASSUME NEW s \in Reviewers, page'[s] # Nothing
               PROVE  /\ page'[s].live \subseteq page'[s].items
                      /\ \A t \in Rows(page'[s].items) \cap page'[s].fresh :
                           page'[s].shown[t] = row'[t].content
    BY DEF PagesShowRows, Rows
  <2>1. CASE s = r
    BY <1>3, <1>4, <1>5, <2>1
  <2>2. CASE s # r
    BY <1>3, <1>4, <2>2 DEF ApprovalsInv, PagesShowRows
  <2> QED
    BY <2>1, <2>2
<1>10. Waiting(row', queue') /\ ApprovedWasSeen'
  BY <1>2, <1>4 DEF ApprovedWasSeen
<1> QED
  BY <1>2, <1>3, <1>4, <1>8, <1>9, <1>10, ApprovalsTypesThen

LEMMA OutcomeIs ==
  ASSUME NEW verdict \in {"APPROVED", "REJECTED"}
  PROVE  /\ Outcome(verdict) \in State /\ Outcome(verdict) # "pending"
         /\ Outcome(verdict) = "approved" <=> verdict = "APPROVED"
BY DEF Outcome, State

\* A verdict on the rows T: they are no longer pending and nothing about them is, and their
\* approval is of the content seen.
LEMMA JudgeRows ==
  ASSUME ApprovalsInv, NEW T \in SUBSET Target, NEW verdict \in {"APPROVED", "REJECTED"},
         NEW from \in [Target -> Queues], Waiting(row, from),
         row' = [t \in Target |-> IF t \in T THEN [row[t] EXCEPT !.state = Outcome(verdict)]
                                  ELSE row[t]],
         queue' = Synchronize(from, T),
         judged' = [t \in Target |-> IF t \in T /\ verdict = "APPROVED" THEN row[t].content
                                     ELSE judged[t]],
         Seen(T, queue'), required' = required
  PROVE  ApprovalsInv'
<1>1. /\ row \in [Target -> ReviewRow] /\ ApprovedWasSeen /\ judged \in [Target -> 0..MaxContent]
  BY ApprovalsTypes
<1>2. ASSUME NEW t \in Target
      PROVE  /\ row'[t] \in ReviewRow /\ row'[t].content = row[t].content
             /\ t \in T => row'[t].state = Outcome(verdict)
             /\ t \notin T => row'[t] = row[t]
  BY <1>1, OutcomeIs DEF ReviewRow
<1>3. row' \in [Target -> ReviewRow]
  BY <1>2
<1>4. queue' \in [Target -> Queues] /\ \A t \in Target \ T : queue'[t] = from[t]
  BY EmptyQueue DEF Synchronize
<1>5. Waiting(row', queue')
  BY <1>2, <1>4, OutcomeIs DEF Waiting
<1>6. ApprovedWasSeen' /\ judged' \in [Target -> 0..MaxContent]
  <2>1. ASSUME NEW t \in Target
        PROVE  /\ judged'[t] \in 0..MaxContent
               /\ row'[t].state = "approved" => judged'[t] = row'[t].content
    BY <1>1, <1>2, OutcomeIs DEF ApprovedWasSeen, ReviewRow
  <2> QED
    BY <2>1 DEF ApprovedWasSeen
<1>7. /\ page' \in [Reviewers -> Page \cup {Nothing}] /\ PagesShowRows'
      /\ receipt' \in [rows : SUBSET Target, fresh : SUBSET Target] \cup {Nothing}
  <2>1. \A t \in Target \ T : row'[t].content = row[t].content
    BY <1>2
  <2> QED
    BY <2>1, Touched
<1>8. required' \subseteq Docs
  BY DEF ApprovalsInv, ApprovalsTypeOK
<1> QED
  BY <1>3, <1>4, <1>5, <1>6, <1>7, <1>8, ApprovalsTypesThen

LEMMA DecideStep ==
  ASSUME ApprovalsInv, NEW w \in Request, NEW verdict \in {"APPROVED", "REJECTED"}, NEW seen,
         NEW from \in [Target -> Queues], Waiting(row, from),
         seen = row[w[1]].content, Decide(w, verdict, seen, from)
  PROVE  ApprovalsInv'
<1> DEFINE t == w[1]
<1>1. t \in Target /\ w[2] \in Purpose
  BY DEF Request
<1>2. /\ row \in [Target -> ReviewRow] /\ ApprovedWasSeen /\ judged \in [Target -> 0..MaxContent]
  BY ApprovalsTypes
<1>3. CASE w[2] = "association"
  <2>1. /\ queue' = [from EXCEPT ![t] = Without(from[t], "association")]
        /\ Seen({}, queue') /\ UNCHANGED <<row, required, judged>>
    BY <1>3 DEF Decide
  <2>2. /\ Without(from[t], "association") \in Queues
        /\ Range(Without(from[t], "association")) = Range(from[t]) \ {"association"}
    BY <1>1, WithoutIs DEF Purpose
  <2> HIDE DEF t
  <2>3. queue' \in [Target -> Queues]
        /\ \A s \in Target : Range(from[s]) \ {"association"} \subseteq Range(queue'[s])
    BY <1>1, <2>1, <2>2
  <2>4. Waiting(row', queue') /\ ApprovedWasSeen'
    BY <1>2, <2>1, <2>3 DEF Waiting, ApprovedWasSeen
  <2>5. /\ page' \in [Reviewers -> Page \cup {Nothing}] /\ PagesShowRows'
        /\ receipt' \in [rows : SUBSET Target, fresh : SUBSET Target] \cup {Nothing}
    BY <2>1, Touched
  <2>6. required' \subseteq Docs
    BY <2>1 DEF ApprovalsInv, ApprovalsTypeOK
  <2> QED
    BY <1>2, <2>1, <2>3, <2>4, <2>5, <2>6, ApprovalsTypesThen
<1>4. CASE w[2] # "association"
  <2>1. /\ row' = [row EXCEPT ![t].state = Outcome(verdict)]
        /\ queue' = Synchronize(from, {t})
        /\ judged' = IF verdict = "APPROVED" THEN [judged EXCEPT ![t] = seen] ELSE judged
        /\ Seen({t}, queue') /\ required' = required
    BY <1>4 DEF Decide
  <2>2. seen = row[t].content
    OBVIOUS
  <2> HIDE DEF t
  <2>3. row' = [s \in Target |-> IF s \in {t} THEN [row[s] EXCEPT !.state = Outcome(verdict)]
                                 ELSE row[s]]
    BY <1>1, <1>2, <2>1
  <2>4. judged' = [s \in Target |-> IF s \in {t} /\ verdict = "APPROVED" THEN row[s].content
                                    ELSE judged[s]]
    BY <1>1, <1>2, <2>1, <2>2
  <2> QED
    BY <1>1, <2>1, <2>3, <2>4, JudgeRows
<1> QED
  BY <1>3, <1>4

LEMMA ReviewStep ==
  ASSUME ApprovalsInv, NEW r \in Reviewers, NEW verdict \in {"APPROVED", "REJECTED"},
         Review(r, verdict)
  PROVE  ApprovalsInv'
<1>1. page[r] \in Page /\ page[r] # Nothing
  BY DEF Review, ApprovalsInv, ApprovalsTypeOK
<1>2. PICK w \in page[r].live :
        /\ Unmoved(r, w[1])
        /\ Decide(w, verdict, page[r].shown[w[1]], queue)
  BY DEF Review
<1>3. page[r].live \subseteq page[r].items
      /\ \A t \in Rows(page[r].items) \cap page[r].fresh : page[r].shown[t] = row[t].content
  BY <1>1 DEF ApprovalsInv, PagesShowRows
<1>4. w \in Request /\ w[1] \in Rows(page[r].items) /\ w[1] \in page[r].fresh
  BY <1>1, <1>2, <1>3 DEF Page, Rows, Unmoved
<1>5. page[r].shown[w[1]] = row[w[1]].content
  BY <1>3, <1>4
<1>6. queue \in [Target -> Queues] /\ Waiting(row, queue)
  BY ApprovalsTypes
<1> QED
  BY <1>2, <1>4, <1>5, <1>6, DecideStep

LEMMA ReviewOnboardingStep ==
  ASSUME ApprovalsInv, NEW r \in Reviewers, NEW verdict \in {"APPROVED", "REJECTED"},
         ReviewOnboarding(r, verdict)
  PROVE  ApprovalsInv'
<1> DEFINE T == Rows(GroupItems)
<1>1. page[r] \in Page /\ page[r] # Nothing
  BY DEF ReviewOnboarding, GroupMatches, ApprovalsInv, ApprovalsTypeOK
<1>2. GroupItems = page[r].items /\ T \subseteq page[r].fresh
  BY DEF ReviewOnboarding, GroupMatches
<1>3. \A t \in T : page[r].shown[t] = row[t].content
  BY <1>1, <1>2 DEF ApprovalsInv, PagesShowRows
<1>4. T \subseteq Target
  BY <1>1, <1>2 DEF Page
<1>5. /\ row' = [t \in Target |-> IF t \in T THEN [row[t] EXCEPT !.state = Outcome(verdict)]
                                  ELSE row[t]]
      /\ queue' = Synchronize(queue, T)
      /\ judged' = [t \in Target |-> IF t \in T /\ verdict = "APPROVED" THEN page[r].shown[t]
                                     ELSE judged[t]]
      /\ Seen(T, queue') /\ required' = required
  BY DEF ReviewOnboarding, GroupRows
<1> HIDE DEF T
<1>6. judged' = [t \in Target |-> IF t \in T /\ verdict = "APPROVED" THEN row[t].content
                                  ELSE judged[t]]
  BY <1>3, <1>5
<1>7. queue \in [Target -> Queues] /\ Waiting(row, queue)
  BY ApprovalsTypes
<1> QED
  BY <1>4, <1>5, <1>6, <1>7, JudgeRows

LEMMA LegacyStep ==
  ASSUME ApprovalsInv
  PROVE  /\ \A verdict \in {"APPROVED", "REJECTED"} : LegacyReview(verdict) => ApprovalsInv'
         /\ LegacyReset => ApprovalsInv'
<1> DEFINE p == "profile"
<1>1. p \in Target
  BY ProfileIsTarget
<1>2. /\ row \in [Target -> ReviewRow] /\ queue \in [Target -> Queues] /\ Waiting(row, queue)
      /\ ApprovedWasSeen /\ judged \in [Target -> 0..MaxContent]
  BY ApprovalsTypes
<1>3. ASSUME NEW verdict \in {"APPROVED", "REJECTED"}, LegacyReview(verdict) PROVE ApprovalsInv'
  <2> DEFINE from == IF queue[p] = <<>> THEN Enqueue(queue, p) ELSE queue
  <2>1. Decide(<<p, Head(from[p])>>, verdict, row[p].content, from)
    BY <1>3 DEF LegacyReview
  <2>2. Enqueue(queue, p) \in [Target -> Queues] /\ Waiting(row, Enqueue(queue, p))
        /\ "handoff" \in Range(Enqueue(queue, p)[p])
    BY <1>1, <1>2, EnqueueIs, SentBack
  <2>3. from \in [Target -> Queues] /\ Waiting(row, from) /\ from[p] # <<>>
    BY <1>2, <2>2, EmptyQueue
  <2> HIDE DEF from
  <2>4. Head(from[p]) \in Purpose
    BY <1>1, <2>3, HeadTailProperties DEF Queues
  <2>5. <<p, Head(from[p])>> \in Request /\ <<p, Head(from[p])>>[1] = p
    BY <1>1, <2>4 DEF Request
  <2> HIDE DEF p
  <2> QED
    BY <2>1, <2>3, <2>5, DecideStep
<1>4. ASSUME LegacyReset PROVE ApprovalsInv'
  <2>1. /\ row' = [row EXCEPT ![p].state = "pending"] /\ queue' = Enqueue(queue, p)
        /\ Seen({p}, queue) /\ required' = required /\ judged' = judged
    BY <1>4 DEF LegacyReset
  <2> HIDE DEF p
  <2>2. /\ row' \in [Target -> ReviewRow] /\ \A t \in Target \ {p} : row'[t] = row[t]
        /\ row'[p].state = "pending"
    BY <1>1, <1>2, <2>1 DEF ReviewRow, State
  <2>3. queue' \in [Target -> Queues] /\ Waiting(row', queue')
    BY <1>1, <1>2, <2>1, <2>2, EnqueueIs, SentBack
  <2>4. ApprovedWasSeen'
    BY <1>1, <1>2, <2>1, <2>2 DEF ApprovedWasSeen
  <2>5. /\ page' \in [Reviewers -> Page \cup {Nothing}] /\ PagesShowRows'
        /\ receipt' \in [rows : SUBSET Target, fresh : SUBSET Target] \cup {Nothing}
    BY <1>1, <2>1, <2>2, Touched
  <2>6. required' \subseteq Docs
    BY <2>1 DEF ApprovalsInv, ApprovalsTypeOK
  <2> QED
    BY <1>2, <2>1, <2>2, <2>3, <2>4, <2>5, <2>6, ApprovalsTypesThen
<1> QED
  BY <1>3, <1>4

\* Requirements and the expiry of evidence leave verdicts and queues alone.
LEMMA ConfigureStep ==
  ASSUME ApprovalsInv, NEW d \in Docs, Configure(d) \/ Expire(d)
  PROVE  ApprovalsInv'
<1>1. /\ row \in [Target -> ReviewRow] /\ queue \in [Target -> Queues] /\ Waiting(row, queue)
      /\ ApprovedWasSeen /\ judged \in [Target -> 0..MaxContent]
  BY ApprovalsTypes
<1>2. /\ row' \in [Target -> ReviewRow]
      /\ \A t \in Target : row'[t].state = row[t].state /\ row'[t].content = row[t].content
  <2>1. CASE Configure(d)
    BY <1>1, <2>1 DEF Configure
  <2>2. CASE Expire(d)
    <3>1. row[d] \in ReviewRow /\ d \in Target /\ row' = [row EXCEPT ![d] = [row[d] EXCEPT !.expired = TRUE]]
      BY <1>1, <2>2, ProfileIsTarget DEF Expire
    <3>2. /\ [row[d] EXCEPT !.expired = TRUE] \in ReviewRow
          /\ [row[d] EXCEPT !.expired = TRUE].state = row[d].state
          /\ [row[d] EXCEPT !.expired = TRUE].content = row[d].content
      BY <3>1 DEF ReviewRow
    <3> QED
      BY <1>1, <3>1, <3>2
  <2> QED
    BY <2>1, <2>2
<1>3. page' = page /\ queue' = queue /\ receipt' = receipt /\ judged' = judged
  BY DEF Configure, Expire
<1>4. required' \subseteq Docs
      /\ receipt \in [rows : SUBSET Target, fresh : SUBSET Target] \cup {Nothing}
  BY DEF ApprovalsInv, ApprovalsTypeOK, Configure, Expire
<1>5. page' \in [Reviewers -> Page \cup {Nothing}] /\ PagesShowRows'
  BY <1>2, <1>3, Untouched
<1>6. Waiting(row', queue') /\ ApprovedWasSeen'
  BY <1>1, <1>2, <1>3 DEF Waiting, ApprovedWasSeen
<1> QED
  BY <1>1, <1>2, <1>3, <1>4, <1>5, <1>6, ApprovalsTypesThen

LEMMA ApprovalsStep == ApprovalsInv /\ [ApprovalsNext]_approvalVars => ApprovalsInv'
<1> SUFFICES ASSUME ApprovalsInv, [ApprovalsNext]_approvalVars PROVE ApprovalsInv'
  OBVIOUS
<1>1. CASE SaveProfile
  BY <1>1, SaveProfileStep
<1>2. CASE Associate \/ \E t \in Target : Ask(t)
  BY <1>2, AskStep
<1>3. CASE Submit \/ SubmitFleet
  BY <1>3, SubmitStep
<1>4. ASSUME NEW d \in Docs, Upload(d) \/ Configure(d) \/ Expire(d) PROVE ApprovalsInv'
  BY <1>4, UploadStep, ConfigureStep
<1>5. ASSUME NEW r \in Reviewers, Open(r, GroupItems, TRUE) PROVE ApprovalsInv'
  <2>1. GroupItems \subseteq Pending(queue)
    BY DEF GroupItems
  <2> QED
    BY <1>5, <2>1, OpenStep
<1>6. ASSUME NEW r \in Reviewers, NEW w \in Pending(queue), Open(r, {w}, FALSE) PROVE ApprovalsInv'
  BY <1>6, OpenStep
<1>7. ASSUME NEW r \in Reviewers, NEW v \in {"APPROVED", "REJECTED"},
             Review(r, v) \/ ReviewOnboarding(r, v)
      PROVE  ApprovalsInv'
  BY <1>7, ReviewStep, ReviewOnboardingStep
<1>8. CASE LegacyReset \/ \E v \in {"APPROVED", "REJECTED"} : LegacyReview(v)
  BY <1>8, LegacyStep
<1>9. CASE UNCHANGED approvalVars
  BY <1>9 DEF approvalVars, ApprovalsInv, ApprovalsTypeOK, PagesShowRows, Rows, ReviewsAreSound,
     ApprovedWasSeen, WaitingIsQueued
<1> QED
  BY <1>1, <1>2, <1>3, <1>4, <1>5, <1>6, <1>7, <1>8, <1>9 DEF ApprovalsNext

LEMMA ApprovalsInvariant == ApprovalsSpec => []ApprovalsInv
BY InitApprovals, ApprovalsStep, PTL DEF ApprovalsSpec

\* Rows, queues, pages and verdicts stay of their types; no queue holds two requests of one
\* purpose.
THEOREM ApprovalsTypeCorrect == ApprovalsSpec => []ApprovalsTypeOK
<1>1. ApprovalsInv => ApprovalsTypeOK
  BY DEF ApprovalsInv
<1> QED
  BY <1>1, ApprovalsInvariant, PTL

\* However drivers, fleets and administrators interleave, and however old the pages are: an
\* approved row holds what was on the page it was approved from, and a row that waits for a
\* verdict has a pending request other than a fleet's.
THEOREM ReviewsAlwaysSound == ApprovalsSpec => []ReviewsAreSound
<1>1. ApprovalsInv => ReviewsAreSound
  BY DEF ApprovalsInv
<1> QED
  BY <1>1, ApprovalsInvariant, PTL
=============================================================================
