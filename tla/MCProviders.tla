---------------------------- MODULE MCProviders ----------------------------
(***************************************************************************)
(* TLC instance of the providers: vehicle codes, approvals, the fleet, the *)
(* files of documents and the applications of drivers.  A behaviour is of  *)
(* the one component it chooses as its subject; the others stay in one     *)
(* initial state.                                                          *)
(***************************************************************************)
EXTENDS VehicleCodes, Fleet, DocumentFiles, Approvals, TLC

CONSTANTS
  Part,                     \* the components checked
  d1, d2, v1, v2, fleet

VARIABLES
  subject,
  application, approved, eligible, staff, verification, membership, request

applicationVars == <<application, approved, eligible, staff, verification, membership, request>>
providersVars == <<subject, codesVars, approvalVars, fleetVars, filesVars, applicationVars>>

\* Two drivers, one of whom owns a vehicle; the fleet owns the other one.
SomeOwner == v1 :> fleet @@ v2 :> d1
SomeFirst == d1 :> v2 @@ d2 :> NoLink
\* The owners of two fleets and a driver.
Application == INSTANCE DriverApplications WITH
  Partners <- {"p", "q"}, Drivers <- {"d"}, Users <- {"p", "q", "driver"},
  PartnerOf <- [u \in {"p", "q", "driver"} |-> IF u = "driver" THEN Nothing ELSE u],
  DriverOf <- [u \in {"p", "q", "driver"} |-> IF u = "driver" THEN "d" ELSE Nothing],
  Admins <- {"admin"}, Handlers <- Clients, MaxApplications <- 2, NoOne <- Nothing,
  NoRequest <- Nothing

\* What the components whose start is open start with when they are not the subject.
Pinned ==
  /\ subject # "approvals" => required = {}
  /\ subject # "files" => kind = "driver"

ProvidersInit ==
  /\ subject \in Part
  /\ Pinned
  /\ VehicleCodesInit /\ ApprovalsInit /\ FleetInit /\ FilesInit
  /\ Application!ApplicationsInit

OthersRest ==
  /\ UNCHANGED subject
  /\ subject # "codes" => UNCHANGED codesVars
  /\ subject # "approvals" => UNCHANGED approvalVars
  /\ subject # "fleet" => UNCHANGED fleetVars
  /\ subject # "files" => UNCHANGED filesVars
  /\ subject # "applications" => UNCHANGED applicationVars

ProvidersNext ==
  /\ OthersRest
  /\ \/ subject = "codes" /\ VehicleCodesNext
     \/ subject = "approvals" /\ ApprovalsNext
     \/ subject = "fleet" /\ FleetNext
     \/ subject = "files" /\ FilesNext
     \/ subject = "applications" /\ Application!ApplicationsNext

ProvidersSpec == ProvidersInit /\ [][ProvidersNext]_providersVars

(* Bounds.  Vehicles are alike and v1 is registered first; one of the rows  *)
(* under review is changed again, and none expires once the onboarding is   *)
(* submitted; a vehicle is out of use or a driver left the fleet, and after *)
(* that two transactions do not meet; one driver is on duty; the third file *)
(* is the work of the only request.                                         *)
SmallWorld ==
  /\ subject = "codes" /\ stock # <<>> => stock[1] = v1
  /\ \E t \in DOMAIN row : row[t].content <= 1
  /\ receipt # Nothing => \A t \in DOMAIN row : ~row[t].expired
  /\ usable = Cars \/ \A d \in Crew : member[d]
  /\ (\E d \in Crew : ~member[d]) => \E c \in Connections : fleetTxn[c].op = "idle"
  /\ \E d \in Crew : duty[d] = "unavailable"
  /\ issued = 3 => \E c \in Requests : work[c] = Nothing

Symmetry == Permutations(Clients)

-----------------------------------------------------------------------------
\* Every component's state stays of its type.
ProvidersTypeOK ==
  CASE subject = "codes" -> VehicleCodesTypeOK
    [] subject = "approvals" -> ApprovalsTypeOK
    [] subject = "fleet" -> FleetTypeOK
    [] subject = "files" -> FilesTypeOK
    [] subject = "applications" -> Application!ApplicationsTypeOK

\* A verdict on a document is on the version its reviewer read, the verdict on an
\* application stands, and an application is listed to its own parties.
ProviderStepsHold ==
  VerdictOnVersionRead /\ Application!VerdictsStand /\ []Application!ListsAreScoped

=============================================================================
