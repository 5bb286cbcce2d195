--------------------------- MODULE DispatchContract ---------------------------
(***************************************************************************)
(* What dispatch promises about a booking, with no lease table, deadline,  *)
(* availability or trigger in sight:                                       *)
(*   - a ride is offered to one driver at a time and to each at most once; *)
(*   - only the driver holding the offer becomes the driver of the ride,   *)
(*     and stays its driver for good;                                      *)
(*   - a driver works on one ride at a time;                               *)
(*   - a ride ends once, and not by cancellation after pickup.             *)
(* RideStore implements this specification (see its refinement mapping).   *)
(***************************************************************************)

CONSTANTS Ride, Driver, None

VARIABLES
  phase,   \* how far a ride has come
  party,   \* the driver it is offered to or served by
  asked    \* the drivers it was ever offered to

contractVars == <<phase, party, asked>>

ContractInit ==
  /\ phase = [r \in Ride |-> "unborn"]
  /\ party = [r \in Ride |-> None]
  /\ asked = [r \in Ride |-> {}]

Engaged(d) == \E r \in Ride : phase[r] \in {"engaged", "riding"} /\ party[r] = d

Book(r) ==
  /\ phase[r] = "unborn"
  /\ phase' = [phase EXCEPT ![r] = "searching"]
  /\ UNCHANGED <<party, asked>>

\* An offer may replace one that ran out.
Ask(r, d) ==
  /\ phase[r] \in {"searching", "offered"}
  /\ d \notin asked[r]
  /\ phase' = [phase EXCEPT ![r] = "offered"]
  /\ party' = [party EXCEPT ![r] = d]
  /\ asked' = [asked EXCEPT ![r] = @ \cup {d}]

Withdraw(r) ==
  /\ phase[r] = "offered"
  /\ phase' = [phase EXCEPT ![r] = "searching"]
  /\ party' = [party EXCEPT ![r] = None]
  /\ UNCHANGED asked

Engage(r) ==
  /\ phase[r] = "offered"
  /\ ~Engaged(party[r])
  /\ phase' = [phase EXCEPT ![r] = "engaged"]
  /\ UNCHANGED <<party, asked>>

PickUp(r) ==
  /\ phase[r] = "engaged"
  /\ phase' = [phase EXCEPT ![r] = "riding"]
  /\ UNCHANGED <<party, asked>>

Arrive(r) ==
  /\ phase[r] = "riding"
  /\ phase' = [phase EXCEPT ![r] = "completed"]
  /\ UNCHANGED <<party, asked>>

CallOff(r) ==
  /\ phase[r] \in {"searching", "offered", "engaged"}
  /\ phase' = [phase EXCEPT ![r] = "cancelled"]
  /\ party' = [party EXCEPT ![r] = IF phase[r] = "engaged" THEN @ ELSE None]
  /\ UNCHANGED asked

ContractNext ==
  \E r \in Ride :
    \/ Book(r)
    \/ \E d \in Driver : Ask(r, d)
    \/ Withdraw(r)
    \/ Engage(r)
    \/ PickUp(r)
    \/ Arrive(r)
    \/ CallOff(r)

ContractSpec == ContractInit /\ [][ContractNext]_contractVars

=============================================================================
