-------------------------------- MODULE Fleet --------------------------------
(***************************************************************************)
(* Who drives which vehicle.  The link is stored twice, as                 *)
(* `vehicles.driver_profile_id` and as `driver_profiles.active_vehicle_id`,*)
(* and transactions of the fleet owner, of the driver and of dispatch      *)
(* change it or rely on it.                                                *)
(*                                                                         *)
(* A transaction takes its locks one by one, an advisory lock per vehicle  *)
(* first where the code has one, then rows; it waits for a lock another    *)
(* holds, and the database aborts one transaction of a cycle.  What it     *)
(* decides, it decides on rows it holds, so its reads and writes are one   *)
(* step (CommitTxn); the reads it makes before it holds them are separate.    *)
(*                                                                         *)
(* Abstractions.  Licence classes, expiry dates, rentals and document      *)
(* policy are left out of eligibility; one fleet; a vehicle's assignment   *)
(* code is permanent, open to every member, and is the vehicle.            *)
(***************************************************************************)
EXTENDS Naturals, FiniteSets

CONSTANTS
  Crew, Cars,     \* drivers and vehicles
  OwnerOf,        \* owner of each vehicle: a driver, or the fleet
  FleetOwner,
  FirstOf,        \* owner_first_vehicle_assignments (see VehicleCodes)
  Connections,    \* database connections
  NoLink

ASSUME FleetAssumption ==
  /\ OwnerOf \in [Cars -> Crew \cup {FleetOwner}]
  /\ FirstOf \in [Crew -> Cars \cup {NoLink}]
  /\ FleetOwner \notin Crew /\ NoLink \notin Crew \cup Cars

VARIABLES
  assigned,   \* vehicles.driver_profile_id
  active,     \* driver_profiles.active_vehicle_id
  usable,     \* vehicles approved and active
  duty,       \* availability_status
  aboard,     \* assigned_vehicle_id of the driver's ride
  member,     \* partner_drivers of the fleet
  veterans,   \* owners who drive, with a vehicle in their association history
  fleetTxn    \* transactions in progress

fleetVars == <<assigned, active, usable, duty, aboard, member, veterans, fleetTxn>>

Operation == {"retire", "rest", "edit", "claim", "switch", "leave", "first", "accept"}
RowLock == {"advisory", "vehicle", "driver"} \X (Cars \cup Crew) \X {"share", "nokey", "update"}
NoTxn == [op |-> "idle", d |-> NoLink, v |-> NoLink, saw |-> {}, held |-> {}]

Owners == {OwnerOf[v] : v \in Cars} \cap Crew

FleetTypeOK ==
  /\ assigned \in [Cars -> Crew \cup {NoLink}]
  /\ active \in [Crew -> Cars \cup {NoLink}]
  /\ usable \subseteq Cars
  /\ duty \in [Crew -> {"unavailable", "available", "busy"}]
  /\ aboard \in [Crew -> Cars \cup {NoLink}]
  /\ member \in [Crew -> BOOLEAN]
  /\ veterans \subseteq Owners
  /\ fleetTxn \in [Connections -> {NoTxn} \cup
       [op : Operation, d : Crew \cup {NoLink}, v : Cars \cup {NoLink},
        saw : SUBSET Cars, held : SUBSET RowLock]]
  /\ \A d \in Crew : duty[d] = "busy" <=> aboard[d] # NoLink

Entitled(d, v) == OwnerOf[v] = d \/ (OwnerOf[v] = FleetOwner /\ member[d])

\* driverOperationalEligibilitySql.
Operational(d) ==
  /\ active[d] # NoLink
  /\ assigned[active[d]] = d /\ active[d] \in usable /\ Entitled(d, active[d])

----------------------------------------------------------------------------
(* Locks.                                                                  *)

Adv(v) == <<"advisory", v, "update">>
VehicleRow(v, mode) == <<"vehicle", v, mode>>
DriverRow(d, mode) == <<"driver", d, mode>>

\* Key-share locks, of foreign keys, go with updates that change no key.
Clash(k, l) == k[1] = l[1] /\ k[2] = l[2]
               /\ ~("share" \in {k[3], l[3]} /\ "update" \notin {k[3], l[3]})
Free(p, l) == \A q \in Connections \ {p} : \A k \in fleetTxn[q].held : ~Clash(k, l)

\* The locks that remain, given what the transaction has read under those
\* it holds; it takes one of the earliest group.
Stages(p) ==
  LET t == fleetTxn[p]
      v == t.v
      d == t.d
  IN CASE t.op = "retire" ->
            <<{Adv(v)}, {VehicleRow(v, "update")},
              {DriverRow(e, "nokey") : e \in {f \in Crew : assigned[v] = f /\ active[f] = v}}>>
       [] t.op = "rest" ->
            <<{Adv(v)}, {VehicleRow(v, "update")},
              {DriverRow(e, "update") : e \in {f \in Crew : assigned[v] = f}}>>
       [] t.op = "edit" -> <<{Adv(v)}, {VehicleRow(v, "nokey")}>>
       [] t.op \in {"claim", "first"} ->
            <<{Adv(v)}, {DriverRow(d, "update")}, {VehicleRow(v, "update")}>>
       [] t.op = "switch" ->
            <<{Adv(v)}, {DriverRow(d, "update")}, {VehicleRow(v, "update")},
              {VehicleRow(w, "nokey") : w \in {x \in Cars \ {v} : assigned[x] = d}}>>
       [] t.op = "leave" ->
            <<{Adv(w) : w \in t.saw}, {DriverRow(d, "update")},
              {VehicleRow(w, "update") :
                w \in {x \in Cars : assigned[x] = d /\ OwnerOf[x] = FleetOwner}}>>
       [] t.op = "accept" ->
            <<{DriverRow(d, "share")}, {VehicleRow(v, "share")}, {DriverRow(d, "nokey")}>>
       [] OTHER -> <<>>

Wanted(p) ==
  LET left == [i \in DOMAIN Stages(p) |-> Stages(p)[i] \ fleetTxn[p].held]
      due == {i \in DOMAIN left : left[i] # {}}
  IN IF due = {} THEN {} ELSE left[CHOOSE i \in due : \A j \in due : i <= j]

Ready(p) == fleetTxn[p] # NoTxn /\ Wanted(p) = {}
EndTxn(p) == fleetTxn' = [fleetTxn EXCEPT ![p] = NoTxn]
Links == <<assigned, active, usable, duty, aboard, member, veterans>>

Acquire(p) ==
  /\ fleetTxn[p] # NoTxn
  /\ \E l \in Wanted(p) :
       /\ Free(p, l)
       /\ fleetTxn' = [fleetTxn EXCEPT ![p].held = @ \cup {l}]
  /\ UNCHANGED Links

\* A cycle of waiting transactions: the database aborts one of them.
WaitsOn(p, q) ==
  p # q /\ \E l \in Wanted(p) : \E k \in fleetTxn[q].held : Clash(k, l)
Cycle == {p \in Connections : \E q \in Connections : WaitsOn(p, q) /\ WaitsOn(q, p)}
AbortCycle(p) == p \in Cycle /\ EndTxn(p) /\ UNCHANGED Links

----------------------------------------------------------------------------
(* Transactions begin.                                                     *)

BeginTxn(p, op, d, v, saw) ==
  /\ fleetTxn[p] = NoTxn
  /\ fleetTxn' = [fleetTxn EXCEPT ![p] = [op |-> op, d |-> d, v |-> v, saw |-> saw, held |-> {}]]
  /\ UNCHANGED Links

BeginOwner(p) == \E v \in Cars, op \in {"retire", "rest", "edit"} :
                   BeginTxn(p, op, NoLink, v, {})
BeginDriver(p) == \E d \in Crew, v \in Cars :
  \/ OwnerOf[v] = FleetOwner /\ BeginTxn(p, "claim", d, v, {})
  \/ OwnerOf[v] \in {d, FleetOwner} /\ BeginTxn(p, "switch", d, v, {})
\* deactivateMembership lists the vehicles it will lock before it holds any.
BeginLeave(p) == \E d \in Crew :
  BeginTxn(p, "leave", d, NoLink, {v \in Cars : OwnerOf[v] = FleetOwner /\ assigned[v] = d})
\* assignFirstOwnerVehicle: an owner who drives gets the first vehicle,
\* unless somebody is at work on it.
MayBeFirst(d, v) ==
  /\ OwnerOf[v] = d /\ FirstOf[d] = v /\ v \in usable /\ assigned[v] = NoLink
  /\ active[d] = NoLink /\ duty[d] # "busy" /\ d \notin veterans
BeginFirst(p) == \E d \in Crew, v \in Cars :
  MayBeFirst(d, v) /\ Free(p, Adv(v)) /\ BeginTxn(p, "first", d, v, {})
\* RideRepository.accept judges eligibility on what is committed, without a
\* lock; writing the ride takes key-share locks on driver and vehicle.
BeginAccept(p) == \E d \in Crew :
  duty[d] = "available" /\ Operational(d) /\ BeginTxn(p, "accept", d, active[d], {})

----------------------------------------------------------------------------
(* Transactions end.                                                       *)

\* protect_busy_provider_vehicle: the driver of the vehicle must not be on
\* a ride.  It looks at the row the statement itself wrote.
MayGiveUp(v) == assigned[v] # NoLink => duty[assigned[v]] # "busy"

Detach(v) ==
  /\ assigned' = [assigned EXCEPT ![v] = NoLink]
  /\ active' = [d \in Crew |-> IF active[d] = v THEN NoLink ELSE active[d]]

UnassignDriver(p) ==
  LET v == fleetTxn[p].v IN
  /\ fleetTxn[p].op = "retire" /\ MayGiveUp(v)
  /\ Detach(v)
  /\ UNCHANGED <<usable, duty, aboard, member, veterans>>

\* deactivateVehicle, and manageVehicle to INACTIVE or MAINTENANCE, which
\* also takes the driver off duty.
RetireVehicle(p) ==
  LET v == fleetTxn[p].v IN
  /\ fleetTxn[p].op \in {"retire", "rest"} /\ MayGiveUp(v)
  /\ Detach(v)
  /\ usable' = usable \ {v}
  /\ duty' = IF fleetTxn[p].op = "rest" /\ assigned[v] # NoLink /\ active[assigned[v]] = v
             THEN [duty EXCEPT ![assigned[v]] = "unavailable"] ELSE duty
  /\ UNCHANGED <<aboard, member, veterans>>

\* updateVehicle with a new identity: vehicle_operational_status makes the
\* row pending and inactive.  Triggers fire in the order of their names, so
\* provider_busy_vehicle_guard has passed the row before it is inactive.
EditVehicle(p) ==
  /\ fleetTxn[p].op = "edit"
  /\ usable' = usable \ {fleetTxn[p].v}
  /\ UNCHANGED <<assigned, active, duty, aboard, member, veterans>>

\* Mutant: a driver may claim while another vehicle is assigned.
MayClaimSecond(d, v) ==
  /\ duty[d] # "busy" /\ OwnerOf[v] = FleetOwner /\ member[d]
  /\ v \in usable /\ assigned[v] = NoLink

\* claimAssignmentCode of a vehicle that is free.
MayClaim(d, v) ==
  /\ duty[d] # "busy" /\ OwnerOf[v] = FleetOwner /\ member[d]
  /\ active[d] \in {NoLink, v} /\ \A w \in Cars \ {v} : assigned[w] # d
  /\ v \in usable /\ assigned[v] = NoLink

Claim(p) ==
  LET d == fleetTxn[p].d
      v == fleetTxn[p].v
  IN /\ fleetTxn[p].op = "claim" /\ MayClaim(d, v)
     /\ assigned' = [assigned EXCEPT ![v] = d]
     /\ active' = [active EXCEPT ![d] = v]
     /\ veterans' = veterans \cup ({d} \cap Owners)
     /\ UNCHANGED <<usable, duty, aboard, member>>

\* Mutant: an unassigned vehicle of any owner will do.
MaySwitchAny(d, v) == duty[d] # "busy" /\ v \in usable /\ assigned[v] \in {NoLink, d}

\* setActiveVehicle: a vehicle the driver has, or owns and nobody has.
MaySwitch(d, v) ==
  /\ duty[d] # "busy" /\ v \in usable /\ Entitled(d, v)
  /\ assigned[v] = d \/ (OwnerOf[v] = d /\ assigned[v] = NoLink)

\* Mutant: the other vehicles of the driver stay assigned.
ReleaseNone(d, v) == [assigned EXCEPT ![v] = d]

\* The driver's other vehicles are released with the switch.
ReleaseOthers(d, v) ==
  [w \in Cars |-> IF w = v THEN d ELSE IF assigned[w] = d THEN NoLink ELSE assigned[w]]

Switch(p) ==
  LET d == fleetTxn[p].d
      v == fleetTxn[p].v
  IN /\ fleetTxn[p].op = "switch" /\ MaySwitch(d, v)
     /\ assigned' = ReleaseOthers(d, v)
     /\ active' = [active EXCEPT ![d] = v]
     /\ duty' = [duty EXCEPT ![d] = "unavailable"]
     /\ veterans' = veterans \cup ({d} \cap Owners)
     /\ UNCHANGED <<usable, aboard, member>>

FirstVehicle(p) ==
  LET d == fleetTxn[p].d
      v == fleetTxn[p].v
  IN /\ fleetTxn[p].op = "first" /\ MayBeFirst(d, v)
     /\ assigned' = [assigned EXCEPT ![v] = d]
     /\ active' = [active EXCEPT ![d] = v]
     /\ duty' = [duty EXCEPT ![d] = "unavailable"]
     /\ veterans' = veterans \cup ({d} \cap Owners)
     /\ UNCHANGED <<usable, aboard, member>>

Leave(p) ==
  LET d == fleetTxn[p].d
      own == {v \in Cars : OwnerOf[v] = FleetOwner /\ assigned[v] = d}
      off == active[d] \in own \cup {NoLink}
  IN /\ fleetTxn[p].op = "leave" /\ member[d] /\ duty[d] # "busy"
     /\ assigned' = [v \in Cars |-> IF v \in own THEN NoLink ELSE assigned[v]]
     /\ active' = IF off THEN [active EXCEPT ![d] = NoLink] ELSE active
     /\ duty' = IF off THEN [duty EXCEPT ![d] = "unavailable"] ELSE duty
     /\ member' = [member EXCEPT ![d] = FALSE]
     /\ UNCHANGED <<usable, aboard, veterans>>

\* setBusy, the last statement of an acceptance, looks at availability only.
Accept(p) ==
  LET d == fleetTxn[p].d IN
  /\ fleetTxn[p].op = "accept" /\ duty[d] = "available"
  /\ duty' = [duty EXCEPT ![d] = "busy"]
  /\ aboard' = [aboard EXCEPT ![d] = fleetTxn[p].v]
  /\ UNCHANGED <<assigned, active, usable, member, veterans>>

\* A check fails, or a trigger raises: nothing of the transaction remains.
Refuse == UNCHANGED Links

Effects(p) == \/ UnassignDriver(p) \/ RetireVehicle(p) \/ EditVehicle(p) \/ Claim(p)
              \/ Switch(p) \/ FirstVehicle(p) \/ Leave(p) \/ Accept(p)
MayCommit(p) ==
  LET d == fleetTxn[p].d
      v == fleetTxn[p].v
  IN CASE fleetTxn[p].op \in {"retire", "rest"} -> MayGiveUp(v)
       [] fleetTxn[p].op = "edit" -> TRUE
       [] fleetTxn[p].op = "claim" -> MayClaim(d, v)
       [] fleetTxn[p].op = "switch" -> MaySwitch(d, v)
       [] fleetTxn[p].op = "first" -> MayBeFirst(d, v)
       [] fleetTxn[p].op = "leave" -> member[d] /\ duty[d] # "busy"
       [] OTHER -> duty[d] = "available"

CommitTxn(p) == Ready(p) /\ Effects(p) /\ EndTxn(p)
GiveUp(p) == Ready(p) /\ ~MayCommit(p) /\ Refuse /\ EndTxn(p)

\* FOR UPDATE SKIP LOCKED on the owner's profile.
Skip(p) ==
  /\ fleetTxn[p].op = "first"
  /\ \E l \in Wanted(p) : l[1] = "driver" /\ ~Free(p, l)
  /\ EndTxn(p) /\ UNCHANGED Links

----------------------------------------------------------------------------
(* Single statements and short transactions, on rows nobody holds.         *)

DriverFree(d) == \A q \in Connections : \A k \in fleetTxn[q].held : ~Clash(k, DriverRow(d, "nokey"))
NobodyHolds(v) == \A q \in Connections : \A k \in fleetTxn[q].held :
                    ~Clash(k, VehicleRow(v, "update")) /\ ~Clash(k, Adv(v))

\* updateAvailability.
GoOnline(d) ==
  /\ DriverFree(d) /\ duty[d] = "unavailable" /\ Operational(d)
  /\ duty' = [duty EXCEPT ![d] = "available"]
  /\ UNCHANGED <<assigned, active, usable, aboard, member, veterans, fleetTxn>>
GoOffline(d) ==
  /\ DriverFree(d) /\ duty[d] = "available"
  /\ duty' = [duty EXCEPT ![d] = "unavailable"]
  /\ UNCHANGED <<assigned, active, usable, aboard, member, veterans, fleetTxn>>

\* The ride ends: releaseBusy.
EndRide(d) ==
  /\ DriverFree(d) /\ duty[d] = "busy"
  /\ duty' = [duty EXCEPT ![d] = IF Operational(d) THEN "available" ELSE "unavailable"]
  /\ aboard' = [aboard EXCEPT ![d] = NoLink]
  /\ UNCHANGED <<assigned, active, usable, member, veterans, fleetTxn>>

\* manageVehicle to ACTIVE, of a vehicle that is approved (again).
ActivateVehicle(v) ==
  /\ NobodyHolds(v)
  /\ usable' = usable \cup {v}
  /\ UNCHANGED <<assigned, active, duty, aboard, member, veterans, fleetTxn>>

\* An association is approved.
Join(d) ==
  /\ DriverFree(d) /\ ~member[d]
  /\ member' = [member EXCEPT ![d] = TRUE]
  /\ UNCHANGED <<assigned, active, usable, duty, aboard, veterans, fleetTxn>>

----------------------------------------------------------------------------
FleetInit ==
  /\ assigned = [v \in Cars |-> NoLink]
  /\ active = [d \in Crew |-> NoLink]
  /\ usable = Cars
  /\ duty = [d \in Crew |-> "unavailable"]
  /\ aboard = [d \in Crew |-> NoLink]
  /\ member = [d \in Crew |-> TRUE]
  /\ veterans = {}
  /\ fleetTxn = [p \in Connections |-> NoTxn]

FleetNext ==
  \/ \E p \in Connections :
       \/ BeginOwner(p) \/ BeginDriver(p) \/ BeginLeave(p) \/ BeginFirst(p) \/ BeginAccept(p)
       \/ Acquire(p) \/ CommitTxn(p) \/ GiveUp(p) \/ Skip(p) \/ AbortCycle(p)
  \/ \E d \in Crew : GoOnline(d) \/ GoOffline(d) \/ EndRide(d) \/ Join(d)
  \/ \E v \in Cars : ActivateVehicle(v)

FleetSpec == FleetInit /\ [][FleetNext]_fleetVars

----------------------------------------------------------------------------
(* Properties.                                                             *)

\* The two copies of the link agree, so no driver has two vehicles and no
\* vehicle two drivers, whatever claims, switches, removals and departures
\* overlap.
LinksAgree ==
  \A d \in Crew, v \in Cars : assigned[v] = d <=> active[d] = v

\* Nobody keeps a vehicle without a right to it: a driver who leaves the
\* fleet while a claim is under way ends up without its vehicles.
AssignedAreEntitled ==
  \A v \in Cars : assigned[v] # NoLink => Entitled(assigned[v], v)

\* Both: a vehicle and its driver name each other, and a driver holds only
\* vehicles that are the driver's own or of a fleet the driver is in.
FleetIsSound == LinksAgree /\ AssignedAreEntitled

\* Transactions wait for each other in a circle only around a driver who
\* switches vehicles, where other vehicles are released without their
\* advisory locks, or around a driver whose ride is being accepted.
CyclesNeedSwitch ==
  Cycle # {} => \E p \in Cycle : fleetTxn[p].op \in {"switch", "accept", "leave"}

\* "Busy vehicle cannot be deactivated or unassigned".
BusyVehicleIsKept ==
  \A d \in Crew : duty[d] = "busy" =>
    assigned[aboard[d]] = d /\ aboard[d] \in usable
=============================================================================
