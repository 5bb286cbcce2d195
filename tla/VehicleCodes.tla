---------------------------- MODULE VehicleCodes ----------------------------
(***************************************************************************)
(* A fleet's vehicles from registration to the driver who takes them by    *)
(* their code: `createVehicle`, `generateAssignmentCode` and               *)
(* `unassignDriver` of the fleet repository, `claimAssignmentCode` of the  *)
(* driver repository.                                                      *)
(*                                                                         *)
(* Registration elects the owner's first vehicle under a lock of the       *)
(* owner; a code may be reserved for one driver, under the advisory lock   *)
(* of the vehicle, which claims and releases take too.  What waits for a   *)
(* lock, or happens before it is held, is a step of its own; the rest of a *)
(* transaction is its commit.                                              *)
(*                                                                         *)
(* Abstractions.  One owner.  A vehicle's code is permanent and names it;  *)
(* approval, licence and rental checks are the environment's (`Fleet` has  *)
(* the locks on drivers and the copy of the link in their profiles).       *)
(***************************************************************************)
EXTENDS Naturals, Sequences, FiniteSets

CONSTANTS Vehicles, Drivers, Clients, None

ASSUME CodesAssumption == None \notin Vehicles \cup Drivers

VARIABLES
  stock,      \* registered vehicles, in the order of their commits
  elected,    \* owner_first_vehicle_assignments: sequence of what was elected
  resting,    \* vehicles with is_active FALSE
  reserved,   \* intended_driver_profile_id of each vehicle's code
  driver,     \* vehicles.driver_profile_id
  members,    \* drivers with an active membership of the fleet
  txn         \* transactions in progress

codesVars == <<stock, elected, resting, reserved, driver, members, txn>>

Idle == [op |-> "idle", v |-> None, d |-> None, saw |-> None, locked |-> FALSE]
Registered == {stock[i] : i \in DOMAIN stock}
Present == Registered \ resting

VehicleCodesTypeOK ==
  /\ stock \in Seq(Vehicles) /\ elected \in Seq(Vehicles)
  /\ Len(elected) <= 1
  /\ resting \subseteq Registered
  /\ reserved \in [Vehicles -> Drivers \cup {None}]
  /\ driver \in [Vehicles -> Drivers \cup {None}]
  /\ members \subseteq Drivers
  /\ txn \in [Clients -> [op : {"idle", "register", "reserve", "claim"}, v : Vehicles \cup {None},
                          d : Drivers \cup {None}, saw : Drivers \cup {None}, locked : BOOLEAN]]

VehicleCodesInit ==
  /\ stock = <<>> /\ elected = <<>> /\ resting = {}
  /\ reserved = [v \in Vehicles |-> None]
  /\ driver = [v \in Vehicles |-> None]
  /\ members = Drivers
  /\ txn = [c \in Clients |-> Idle]

-----------------------------------------------------------------------------
(* owner_first_vehicle is one lock; provider_vehicle is one per vehicle.   *)
Holds(c, v) == txn[c].locked /\ txn[c].op # "register" /\ txn[c].v = v
VehicleFree(v) == \A c \in Clients : ~Holds(c, v)
OwnerFree == \A c \in Clients : ~(txn[c].locked /\ txn[c].op = "register")
Registering(v) == \E c \in Clients : txn[c].op = "register" /\ txn[c].v = v
Ends(c) == txn' = [txn EXCEPT ![c] = Idle]

Begin(c, what) ==
  /\ txn[c] = Idle
  /\ txn' = [txn EXCEPT ![c] = what]
  /\ UNCHANGED <<stock, elected, resting, reserved, driver, members>>

BeginRegister(c, v) ==
  /\ v \notin Registered /\ ~Registering(v)
  /\ Begin(c, [Idle EXCEPT !.op = "register", !.v = v])

BeginReserve(c, v, d) == v \in Registered /\ Begin(c, [Idle EXCEPT !.op = "reserve", !.v = v, !.d = d])

(* A claim looks the code's vehicle up before it locks it. *)
BeginClaim(c, v, d) ==
  /\ v \in Registered
  /\ Begin(c, [Idle EXCEPT !.op = "claim", !.v = v, !.d = d, !.saw = reserved[v]])

Lock(c) ==
  /\ txn[c] # Idle /\ ~txn[c].locked
  /\ IF txn[c].op = "register" THEN OwnerFree ELSE VehicleFree(txn[c].v)
  /\ txn' = [txn EXCEPT ![c].locked = TRUE]
  /\ UNCHANGED <<stock, elected, resting, reserved, driver, members>>

Abort(c) ==
  /\ txn[c] # Idle /\ Ends(c)
  /\ UNCHANGED <<stock, elected, resting, reserved, driver, members>>

(* Elected once, from all vehicles that have been registered; a later       *)
(* vehicle is not promoted when the elected one is retired.                 *)
ElectAgain(v) == IF Len(elected) = 0 \/ elected[1] \in resting THEN <<v>> ELSE elected   \* mutant: a retired election is repeated
Elect(v) == IF Len(elected) = 0 THEN <<v>> ELSE elected

CommitRegister(c) ==
  LET v == txn[c].v IN
  /\ txn[c].op = "register" /\ txn[c].locked
  /\ stock' = Append(stock, v)
  /\ elected' = Elect(v)
  /\ Ends(c)
  /\ UNCHANGED <<resting, reserved, driver, members>>

(* generateAssignmentCode: with a driver, the code becomes the driver's     *)
(* while the vehicle is free; without one, the code is returned as it is.   *)
CommitReserve(c) ==
  LET v == txn[c].v
      d == txn[c].d
  IN
  /\ txn[c].op = "reserve" /\ txn[c].locked
  /\ IF d # None /\ d \in members /\ driver[v] = None
     THEN reserved' = [reserved EXCEPT ![v] = d]
     ELSE UNCHANGED reserved
  /\ Ends(c)
  /\ UNCHANGED <<stock, elected, resting, driver, members>>

OpenToAsRead(c) == txn[c].saw \in {None, txn[c].d}   \* mutant: judged by the code as looked up
OpenTo(c) == reserved[txn[c].v] \in {None, txn[c].d}

CommitClaim(c) ==
  LET v == txn[c].v
      d == txn[c].d
  IN
  /\ txn[c].op = "claim" /\ txn[c].locked
  /\ IF OpenTo(c) /\ d \in members /\ v \in Present /\ driver[v] = None
        /\ \A w \in Vehicles : driver[w] # d
     THEN driver' = [driver EXCEPT ![v] = d]
     ELSE UNCHANGED driver
  /\ Ends(c)
  /\ UNCHANGED <<stock, elected, resting, reserved, members>>

-----------------------------------------------------------------------------
(* unassignDriver gives the permanent code back to everybody. *)
Unassign(v) ==
  /\ v \in Registered /\ VehicleFree(v)
  /\ driver' = [driver EXCEPT ![v] = None]
  /\ reserved' = [reserved EXCEPT ![v] = None]
  /\ UNCHANGED <<stock, elected, resting, members, txn>>

(* deactivateVehicle leaves the reservation in place. *)
Retire(v) ==
  /\ v \in Registered /\ VehicleFree(v)
  /\ driver' = [driver EXCEPT ![v] = None]
  /\ resting' = resting \cup {v}
  /\ UNCHANGED <<stock, elected, reserved, members, txn>>

(* deactivateMembership releases the vehicles the driver has, not the       *)
(* codes reserved for the driver.                                           *)
LeaveFleet(d) ==
  /\ d \in members
  /\ \A v \in Vehicles : driver[v] = d => VehicleFree(v)
  /\ members' = members \ {d}
  /\ driver' = [v \in Vehicles |-> IF driver[v] = d THEN None ELSE driver[v]]
  /\ UNCHANGED <<stock, elected, resting, reserved, txn>>

JoinFleet(d) ==
  /\ d \notin members
  /\ members' = members \cup {d}
  /\ UNCHANGED <<stock, elected, resting, reserved, driver, txn>>

(* An administrator's deletion keeps the row, and whoever drives it. *)
Delete(v) ==
  /\ v \in Present
  /\ resting' = resting \cup {v}
  /\ UNCHANGED <<stock, elected, reserved, driver, members, txn>>

(* manageVehicle back to ACTIVE, of an approved vehicle. *)
Activate(v) ==
  /\ v \in resting /\ VehicleFree(v)
  /\ resting' = resting \ {v}
  /\ UNCHANGED <<stock, elected, reserved, driver, members, txn>>

VehicleCodesNext ==
  \/ \E c \in Clients :
       \/ \E v \in Vehicles : BeginRegister(c, v)
       \/ \E v \in Vehicles, d \in Drivers \cup {None} : BeginReserve(c, v, d)
       \/ \E v \in Vehicles, d \in Drivers : BeginClaim(c, v, d)
       \/ Lock(c) \/ Abort(c) \/ CommitRegister(c) \/ CommitReserve(c) \/ CommitClaim(c)
  \/ \E v \in Vehicles : Unassign(v) \/ Retire(v) \/ Delete(v) \/ Activate(v)
  \/ \E d \in Drivers : LeaveFleet(d) \/ JoinFleet(d)

VehicleCodesSpec == VehicleCodesInit /\ [][VehicleCodesNext]_codesVars

-----------------------------------------------------------------------------
(* The owner's first vehicle is the first that was registered, is elected   *)
(* once, and stays the elected one after it retires; and a driver who takes *)
(* a vehicle by its code is the one the code is reserved for by then,       *)
(* however the reservation and the claim overlapped.                        *)
ElectionAndReservationHold ==
  [][/\ elected # <<>> => elected' = elected
     /\ elected' # <<>> => elected'[1] = stock'[1]
     /\ \A v \in Vehicles : driver'[v] \notin {None, driver[v]} =>
          reserved[v] \in {None, driver'[v]}]_codesVars
=============================================================================
