------------------------------ MODULE Bookings ------------------------------
(***************************************************************************)
(* Booking of a ride at the price of a catalog the administrators edit:    *)
(* `RideService.createRide`, `PostgresRideRepository.create` and           *)
(* `PostgresVehicleRepository.mutateType`.                                 *)
(*                                                                         *)
(* A booking is a chain of awaited reads and a transaction; a client that  *)
(* hears nothing sends it again under the same request id.  Every          *)
(* statement that waits for a lock or reads a table is a step.             *)
(*                                                                         *)
(* Abstractions.  One vehicle code and one customer.  Any edit of the      *)
(* entry is a new `version`, which stands for its rates, its slabs and the *)
(* price computed from them.  The search for drivers before the insert     *)
(* finds somebody or nobody.                                               *)
(***************************************************************************)
EXTENDS Naturals, FiniteSets

CONSTANTS
  Call,         \* HTTP requests for a booking
  Key, Body,    \* client request ids, and what a request asks for (its fingerprint)
  Editor,       \* administrators with the entry's form open
  MaxVersion,   \* bound: versions of the entry
  None

BookingsAssumption ==
  /\ MaxVersion \in Nat \ {0}
  /\ None \notin Call \cup Key \cup Body \cup Editor

VARIABLES
  entry,     \* the row of vehicle_types, version 0 while there is none
  rides,     \* committed rows of rides
  call,      \* requests in progress
  form       \* edits in progress

bookingVars == <<entry, rides, call, form>>

Version == 0..MaxVersion
Price == Version \cup {None}
RideRow == [by : Call, key : Key \cup {None}, body : Body, price : Version, shown : Price]
Phase == {"new", "find", "estimate", "probe", "begin", "again", "code", "check", "insert", "answered",
          "conflict", "unavailable", "changed", "no_drivers", "duplicate", "cut_off"}
Ended == {"answered", "conflict", "unavailable", "changed", "no_drivers", "duplicate", "cut_off"}

Closed == [at |-> "closed", read |-> 0]

BookingsTypeOK ==
  /\ entry \in [version : Version, active : BOOLEAN]
  /\ rides \subseteq RideRow
  /\ call \in [Call -> [at : Phase, key : Key \cup {None}, body : Body \cup {None}, shown : Price,
                        price : Price, ride : Call \cup {None}]]
  /\ form \in [Editor -> [at : {"closed", "open", "begun"}, read : Version]]

BookingsInit ==
  /\ entry \in {[version |-> 0, active |-> FALSE], [version |-> 1, active |-> TRUE]}
  /\ rides = {}
  /\ call = [c \in Call |-> [at |-> "new", key |-> None, body |-> None, shown |-> None,
                             price |-> None, ride |-> None]]
  /\ form = [a \in Editor |-> Closed]

-----------------------------------------------------------------------------
(* Locks follow from where the transactions are: each holds what it took   *)
(* until it commits or rolls back.                                         *)
HoldsKey(c) == call[c].at \in {"again", "code", "check", "insert"}
HoldsCode(c) == call[c].at \in {"check", "insert"}
HoldsRow(c) == call[c].at = "insert"
KeyFreeAlways(k) == TRUE   \* mutant: the request id is not locked
KeyFree(k) == k = None \/ \A d \in Call : ~(HoldsKey(d) /\ call[d].key = k)
CodeShareable == \A a \in Editor : form[a].at # "begun"
CodeFree == CodeShareable /\ \A c \in Call : ~HoldsCode(c)

Moves(c, at) == call' = [call EXCEPT ![c].at = at]
Ends(c, at, ride) ==
  call' = [call EXCEPT ![c] = [@ EXCEPT !.at = at, !.ride = ride, !.shown = None, !.price = None]]

(* The client sends the request, or sends it again with another body by     *)
(* mistake; a client of an older version sends no id.                       *)
Submit(c, k, b, shown) ==
  /\ call[c].at = "new"
  /\ call' = [call EXCEPT ![c] = [@ EXCEPT !.at = "find", !.key = k, !.body = b, !.shown = shown]]
  /\ UNCHANGED <<entry, rides, form>>

Earlier(c) == {r \in rides : call[c].key # None /\ r.key = call[c].key}

(* findByClientRequest: the ride of an earlier request with this id is the *)
(* answer, unless that request asked for something else.                   *)
RepeatsAnyBody(c) == \E r \in Earlier(c) : Ends(c, "answered", r.by)   \* mutant: no fingerprint
Repeats(c) ==
  \E r \in Earlier(c) :
    IF r.body = call[c].body THEN Ends(c, "answered", r.by) ELSE Ends(c, "conflict", None)

Find(c) ==
  /\ call[c].at = "find"
  /\ \/ Repeats(c)
     \/ Earlier(c) = {} /\ Moves(c, "estimate")
  /\ UNCHANGED <<entry, rides, form>>

Bookable == entry.version > 0 /\ entry.active
QuoteStands(c) == call[c].shown = None \/ call[c].shown = entry.version

Estimate(c) ==
  /\ call[c].at = "estimate"
  /\ \/ ~Bookable /\ Ends(c, "unavailable", None)
     \/ Bookable /\ ~QuoteStands(c) /\ Ends(c, "changed", None)
     \/ /\ Bookable /\ QuoteStands(c)
        /\ call' = [call EXCEPT ![c] = [@ EXCEPT !.at = "probe", !.price = entry.version]]
  /\ UNCHANGED <<entry, rides, form>>

Probe(c) ==
  /\ call[c].at = "probe"
  /\ Moves(c, "begin") \/ Ends(c, "no_drivers", None)
  /\ UNCHANGED <<entry, rides, form>>

(* BEGIN and pg_advisory_xact_lock on the customer and the request id. *)
LockRequest(c) ==
  /\ call[c].at = "begin"
  /\ KeyFree(call[c].key)
  /\ Moves(c, "again")
  /\ UNCHANGED <<entry, rides, form>>

(* The request id is looked up once more under its lock. *)
FindAgain(c) ==
  /\ call[c].at = "again"
  /\ \/ Repeats(c)
     \/ Earlier(c) = {} /\ Moves(c, "code")
  /\ UNCHANGED <<entry, rides, form>>

LockCode(c) ==
  /\ call[c].at = "code"
  /\ CodeShareable
  /\ Moves(c, "check")
  /\ UNCHANGED <<entry, rides, form>>

SamePriceAlways(c) == TRUE   \* mutant: only checks that the entry is active
SamePrice(c) == entry.version = call[c].price

(* The entry is read FOR SHARE and compared with the one that was priced. *)
Recheck(c) ==
  /\ call[c].at = "check"
  /\ \/ ~Bookable /\ Ends(c, "unavailable", None)
     \/ Bookable /\ SamePrice(c) /\ Moves(c, "insert")
     \/ Bookable /\ ~SamePrice(c) /\ Ends(c, "changed", None)
  /\ UNCHANGED <<entry, rides, form>>

Row(c) == [by |-> c, key |-> call[c].key, body |-> call[c].body, price |-> call[c].price,
           shown |-> call[c].shown]

(* The insert and its commit; rides_customer_request_unique refuses a      *)
(* second ride of one request id.                                          *)
Insert(c) ==
  /\ call[c].at = "insert"
  /\ IF Earlier(c) # {}
     THEN Ends(c, "duplicate", None) /\ UNCHANGED rides
     ELSE /\ rides' = rides \cup {Row(c)}
          /\ Ends(c, "answered", c)
  /\ UNCHANGED <<entry, form>>

(* The connection or the process is lost before the commit. *)
CutOff(c) ==
  /\ call[c].at \notin Ended \cup {"new"}
  /\ Ends(c, "cut_off", None)
  /\ UNCHANGED <<entry, rides, form>>

-----------------------------------------------------------------------------
(* An administrator opens the form, and saves it later. *)
Open(a) ==
  /\ form[a].at = "closed"
  /\ form' = [form EXCEPT ![a] = [at |-> "open", read |-> entry.version]]
  /\ UNCHANGED <<entry, rides, call>>

LockEntry(a) ==
  /\ form[a].at = "open"
  /\ CodeFree
  /\ form' = [form EXCEPT ![a].at = "begun"]
  /\ UNCHANGED <<entry, rides, call>>

Current(a) == entry.version = form[a].read

(* The row is read FOR UPDATE and written if it is the one the form showed; *)
(* an entry created by somebody else meanwhile is a duplicate code.         *)
Save(a, active) ==
  /\ form[a].at = "begun"
  /\ \A c \in Call : ~HoldsRow(c)
  /\ IF Current(a) /\ entry.version < MaxVersion
     THEN entry' = [version |-> entry.version + 1, active |-> active]
     ELSE UNCHANGED entry
  /\ form' = [form EXCEPT ![a] = Closed]
  /\ UNCHANGED <<rides, call>>

-----------------------------------------------------------------------------
CallStep(c) ==
  \/ Find(c) \/ Estimate(c) \/ Probe(c) \/ LockRequest(c) \/ FindAgain(c) \/ LockCode(c)
  \/ Recheck(c) \/ Insert(c)
EditStep(a) == LockEntry(a) \/ \E active \in BOOLEAN : Save(a, active)

BookingsNext ==
  \/ \E c \in Call : CallStep(c) \/ CutOff(c)
  \/ \E c \in Call, k \in Key \cup {None}, b \in Body, shown \in {None, entry.version} : Submit(c, k, b, shown)
  \/ \E a \in Editor : Open(a) \/ EditStep(a)

BookingsSpec == BookingsInit /\ [][BookingsNext]_bookingVars

-----------------------------------------------------------------------------
(* However often a booking is sent, one ride exists for its request id, and *)
(* every answer is the ride of that id and of what this request asked for.  *)
AnswersAreOwn ==
  /\ \A r, s \in rides : r.key # None /\ r.key = s.key => r = s
  /\ \A c \in Call : call[c].at = "answered" =>
       \E r \in rides : r.by = call[c].ride /\ r.key = call[c].key /\ r.body = call[c].body

(* A retry never meets the unique index: the second look under the lock of *)
(* the request id finds the ride first and answers it.                      *)
RetryIsAnswered == \A c \in Call : call[c].at # "duplicate"

(* A ride is stored at the tariff in force at that moment, whatever was     *)
(* edited since it was priced, and at the price the client was shown.       *)
BookedAtTariff ==
  [][\A r \in rides' \ rides :
       /\ entry.active /\ r.price = entry.version
       /\ r.shown # None => r.price = r.shown]_bookingVars
=============================================================================
