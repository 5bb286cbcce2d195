------------------------------ MODULE Rentals ------------------------------
(***************************************************************************)
(* Rentals of a vehicle for a period: `RentalService` and                  *)
(* `PostgresRentalRepository`, with the unique index and the exclusion     *)
(* constraint the bookings rely on.                                        *)
(*                                                                         *)
(* An insertion is seen by nobody until it commits, and a second one that  *)
(* collides with it waits for it to end.  A client that hears nothing      *)
(* sends its request again with the same Idempotency-Key.  The database    *)
(* has at most one row per customer and key, so a row is named by them.    *)
(*                                                                         *)
(* Abstractions.  `Terms` is what a request asks for: the vehicle, the     *)
(* half-open period as the set of its hours, and the rounded amount.       *)
(* Nothing under src/ calls transitionRental but its tests: the operator   *)
(* stands for the page that will.                                          *)
(***************************************************************************)
EXTENDS Naturals, FiniteSets

CONSTANTS
  User, Key,
  Terms,        \* records [vehicle, hours, amount]
  Call,         \* requests of the customers
  Operator,     \* pages from which the lifecycle is driven
  None

ASSUME RentalsAssumption ==
  /\ \A t \in Terms : DOMAIN t = {"vehicle", "hours", "amount"} /\ t.hours # {}
  /\ None \notin User \cup Key \cup Terms

VARIABLES
  rental,   \* rows, by customer and key
  call,     \* requests in progress and their answers
  page      \* what an operator's page shows: a row and its status when read

rentalVars == <<rental, call, page>>

Row == User \X Key
RentalStatus == {"PENDING", "CONFIRMED", "ACTIVE", "COMPLETED", "CANCELLED"}
Live == {"PENDING", "CONFIRMED", "ACTIVE"}
Answers == {"rental", "unavailable", "mismatch"}

(* `by` is the request whose open transaction inserted the row, None once   *)
(* it has committed.                                                        *)
RentalRow == [terms : Terms, status : RentalStatus, by : Call \cup {None}]
NoCall == [at |-> "idle", row |-> None, terms |-> None]
Page == [row : Row, read : RentalStatus]

ASSUME NoneIsNothing == None \notin Call /\ None \notin RentalRow /\ None \notin Page

RentalsTypeOK ==
  /\ rental \in [Row -> RentalRow \cup {None}]
  /\ call \in [Call -> [at : {"idle", "asked", "inserted", "lost"} \cup Answers,
                        row : Row \cup {None}, terms : Terms \cup {None}]]
  /\ page \in [Operator -> Page \cup {None}]

RentalsInit ==
  /\ rental = [r \in Row |-> None]
  /\ call = [c \in Call |-> NoCall]
  /\ page = [o \in Operator |-> None]

-----------------------------------------------------------------------------
Stored == {r \in Row : rental[r] # None}
Committed == {r \in Stored : rental[r].by = None}

(* rentals_no_vehicle_overlap: one vehicle, periods that intersect, both   *)
(* rows live.                                                              *)
BlockingOnceConfirmed(s) == s \in {"CONFIRMED", "ACTIVE"}   \* mutant: a pending rental blocks nothing
Blocking(s) == s \in Live
Clashes(t) ==
  {r \in Stored : /\ rental[r].terms.vehicle = t.vehicle
                  /\ rental[r].terms.hours \cap t.hours # {}
                  /\ Blocking(rental[r].status)}

Answered(c, what) == call' = [call EXCEPT ![c].at = what]

(* A new request, or the client's next attempt at the one it heard nothing  *)
(* of.                                                                      *)
Ask(c, r, t) ==
  /\ call[c].at = "idle"
  /\ call' = [call EXCEPT ![c] = [at |-> "asked", row |-> r, terms |-> t]]
  /\ UNCHANGED <<rental, page>>

Retry(c) ==
  /\ call[c].at = "lost"
  /\ Answered(c, "asked")
  /\ UNCHANGED <<rental, page>>

(* ON CONFLICT (user_id, idempotency_key) DO NOTHING, then the lookup: the *)
(* row of an earlier request is the answer if it asked for the same.       *)
Repeats(c) ==
  /\ call[c].at = "asked"
  /\ call[c].row \in Committed
  /\ Answered(c, IF rental[call[c].row].terms = call[c].terms THEN "rental" ELSE "mismatch")
  /\ UNCHANGED <<rental, page>>

(* The arbiter index is consulted first, so an earlier row of this key is   *)
(* never taken for a clash.                                                 *)

KeyUnusedAlways(c) == TRUE   \* mutant: the exclusion constraint judges first
KeyUnused(c) == call[c].row \notin Stored
(* ERROR 23P01, RENTAL_AVAILABILITY_CONFLICT *)
Refuse(c) ==
  /\ call[c].at = "asked"
  /\ KeyUnused(c)
  /\ Clashes(call[c].terms) \cap Committed # {}
  /\ Answered(c, "unavailable")
  /\ UNCHANGED <<rental, page>>

InsertRental(c) ==
  /\ call[c].at = "asked"
  /\ call[c].row \notin Stored
  /\ Clashes(call[c].terms) = {}
  /\ rental' = [rental EXCEPT ![call[c].row] =
                  [terms |-> call[c].terms, status |-> "PENDING", by |-> c]]
  /\ Answered(c, "inserted")
  /\ UNCHANGED page

(* COMMIT, with its answer heard or lost; or the connection fails first.   *)
Commit(c) ==
  /\ call[c].at = "inserted"
  /\ rental' = [rental EXCEPT ![call[c].row].by = None]
  /\ Answered(c, "rental") \/ Answered(c, "lost")
  /\ UNCHANGED page

Fail(c) ==
  /\ call[c].at = "inserted"
  /\ rental' = [rental EXCEPT ![call[c].row] = None]
  /\ Answered(c, "lost")
  /\ UNCHANGED page

Forget(c) ==
  /\ call[c].at \in Answers
  /\ call' = [call EXCEPT ![c] = NoCall]
  /\ UNCHANGED <<rental, page>>

(* The customer cancels: one UPDATE under the statuses that allow it. *)
Cancel(r) ==
  /\ r \in Committed
  /\ rental[r].status \in {"PENDING", "CONFIRMED"}
  /\ rental' = [rental EXCEPT ![r].status = "CANCELLED"]
  /\ UNCHANGED <<call, page>>

OpenPage(o, r) ==
  /\ r \in Committed
  /\ page' = [page EXCEPT ![o] = [row |-> r, read |-> rental[r].status]]
  /\ UNCHANGED <<rental, call>>

(* isValidTransition also allows CANCELLED, but transition() sets no        *)
(* cancelled_at and rentals_cancelled_consistency refuses the update.       *)
Edges == {<<"PENDING", "CONFIRMED">>, <<"CONFIRMED", "ACTIVE">>, <<"ACTIVE", "COMPLETED">>}


UnmovedUnchecked(o) == TRUE   \* mutant: UPDATE ... WHERE id = $1 alone
Unmoved(o) == rental[page[o].row].status = page[o].read
Transition(o, to) ==
  /\ page[o] # None
  /\ <<page[o].read, to>> \in Edges
  /\ page' = [page EXCEPT ![o] = None]
  /\ IF Unmoved(o)
     THEN rental' = [rental EXCEPT ![page[o].row].status = to]
     ELSE UNCHANGED rental
  /\ UNCHANGED call

RentalsNext ==
  \/ \E c \in Call :
       \/ \E r \in Row, t \in Terms : Ask(c, r, t)
       \/ Retry(c) \/ Repeats(c) \/ Refuse(c) \/ InsertRental(c) \/ Commit(c) \/ Fail(c) \/ Forget(c)
  \/ \E r \in Row : Cancel(r)
  \/ \E o \in Operator :
       \/ \E r \in Row : OpenPage(o, r)
       \/ \E to \in RentalStatus : Transition(o, to)

RentalsSpec == RentalsInit /\ [][RentalsNext]_rentalVars

-----------------------------------------------------------------------------
(* A vehicle is promised to one customer at a time: no two rows that block, *)
(* committed or about to be, share a vehicle and an hour - whatever was     *)
(* cancelled, confirmed and rebooked in between.                            *)
VehiclePromisedOnce ==
  \A r, s \in Stored :
    /\ r # s
    /\ rental[r].status \in Live /\ rental[s].status \in Live
    /\ rental[r].terms.vehicle = rental[s].terms.vehicle
    => rental[r].terms.hours \cap rental[s].terms.hours = {}

(* A request sent again is never told that the vehicle is taken by its own  *)
(* first attempt, and an answer "rental" is the caller's, as asked for.     *)
RetryFindsItsRental ==
  [][\A c \in Call : call'[c] # call[c] =>
       /\ (call'[c].at = "unavailable" => call[c].row \notin Committed)
       /\ (call'[c].at = "rental" =>
             /\ rental'[call[c].row] # None
             /\ rental'[call[c].row].by = None
             /\ rental'[call[c].row].terms = call[c].terms)]_rentalVars

(* A row follows the lifecycle whatever pages were open: an operator's      *)
(* stale page never takes a cancelled or completed rental up again, nor     *)
(* takes one back.                                                          *)
LifecycleHolds ==
  [][\A r \in Committed :
       /\ rental'[r] # None
       /\ rental'[r].terms = rental[r].terms
       /\ \/ rental'[r].status = rental[r].status
          \/ <<rental[r].status, rental'[r].status>> \in
               Edges \cup {<<"PENDING", "CANCELLED">>, <<"CONFIRMED", "CANCELLED">>}]_rentalVars
=============================================================================
