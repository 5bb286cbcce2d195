----------------------------- MODULE TripsProofs -----------------------------
(***************************************************************************)
(* Proofs about what a customer and a provider do around a trip, for any   *)
(* users, keys, amounts and requests in progress: Rentals, Payments,       *)
(* Wallet and Settlements with the sums of money they rest on, and Fares.  *)
(***************************************************************************)
EXTENDS Rentals, Payments, Wallet, Settlements, Fares, FiniteSetTheorems, WellFoundedInduction, TLAPS

-----------------------------------------------------------------------------
(* Rentals.  That a vehicle is promised once needs to know what an open    *)
(* transaction owns: the row it inserted, with the terms it was asked for. *)
(* And pages show committed rows, which are never removed.                 *)

\* A request beyond its start names a row and terms; between its insertion and its commit
\* the row is its own.
CallsOwnRows ==
  \A c \in Call :
    /\ call[c].at # "idle" => call[c].row \in Row /\ call[c].terms \in Terms
    /\ call[c].at = "inserted" =>
         /\ call[c].row \in Stored
         /\ rental[call[c].row].by = c
         /\ rental[call[c].row].terms = call[c].terms

PagesShowRows == \A o \in Operator : page[o] # None => page[o].row \in Committed

RentalsInv == RentalsTypeOK /\ CallsOwnRows /\ PagesShowRows

LEMMA InitRentals == RentalsInit => RentalsInv /\ VehiclePromisedOnce
BY DEF RentalsInit, RentalsInv, RentalsTypeOK, CallsOwnRows, PagesShowRows, NoCall,
       VehiclePromisedOnce, Stored

LEMMA StepOfCalls ==
  ASSUME RentalsInv, NEW c \in Call,
         \/ \E r \in Row, t \in Terms : Ask(c, r, t)
         \/ Retry(c) \/ Repeats(c) \/ Refuse(c) \/ Forget(c)
  PROVE  RentalsInv' /\ UNCHANGED rental
<1>1. ASSUME NEW r \in Row, NEW t \in Terms, Ask(c, r, t) PROVE RentalsInv' /\ UNCHANGED rental
  BY <1>1 DEF RentalsInv, RentalsTypeOK, CallsOwnRows, PagesShowRows, Ask, Committed, Stored
<1>2. CASE Retry(c)
  BY <1>2 DEF RentalsInv, RentalsTypeOK, CallsOwnRows, PagesShowRows, Retry, Answered, Committed, Stored
<1>3. CASE Repeats(c)
  BY <1>3 DEF RentalsInv, RentalsTypeOK, CallsOwnRows, PagesShowRows, Repeats, Answered, Answers,
              Committed, Stored
<1>4. CASE Refuse(c)
  BY <1>4 DEF RentalsInv, RentalsTypeOK, CallsOwnRows, PagesShowRows, Refuse, Answered, Answers,
              Committed, Stored
<1>5. CASE Forget(c)
  BY <1>5 DEF RentalsInv, RentalsTypeOK, CallsOwnRows, PagesShowRows, Forget, NoCall, Committed, Stored
<1> QED
  BY <1>1, <1>2, <1>3, <1>4, <1>5

LEMMA StepOfInsert ==
  ASSUME RentalsInv, NEW c \in Call, InsertRental(c)
  PROVE  RentalsInv'
<1> DEFINE row == [terms |-> call[c].terms, status |-> "PENDING", by |-> c]
<1>1. call[c].row \in Row /\ call[c].terms \in Terms
  BY DEF RentalsInv, CallsOwnRows, InsertRental
<1>2. row \in RentalRow /\ row # None
  BY <1>1, NoneIsNothing DEF RentalRow, RentalStatus
<1>3. rental' = [rental EXCEPT ![call[c].row] = row] /\ call[c].row \notin Stored
  BY DEF InsertRental
<1>4. RentalsTypeOK'
  BY <1>1, <1>2, <1>3 DEF RentalsInv, RentalsTypeOK, InsertRental, Answered
<1>5. Stored' = Stored \cup {call[c].row} /\ \A r \in Stored : rental'[r] = rental[r]
  BY <1>1, <1>2, <1>3 DEF Stored, RentalsInv, RentalsTypeOK
<1>6. CallsOwnRows'
  BY <1>1, <1>2, <1>3, <1>5 DEF RentalsInv, RentalsTypeOK, CallsOwnRows, InsertRental, Answered
<1>7. PagesShowRows'
  BY <1>5 DEF RentalsInv, PagesShowRows, Committed, InsertRental
<1> QED
  BY <1>4, <1>6, <1>7 DEF RentalsInv

LEMMA StepOfCommit ==
  ASSUME RentalsInv, NEW c \in Call, Commit(c)
  PROVE  /\ RentalsInv'
         /\ rental' = [rental EXCEPT ![call[c].row].by = None]
         /\ call[c].row \in Stored
         /\ rental'[call[c].row] = [rental[call[c].row] EXCEPT !.by = None]
         /\ rental'[call[c].row] \in RentalRow
<1> DEFINE r == call[c].row
<1>1. /\ r \in Stored /\ r \in Row /\ rental[r] \in RentalRow
      /\ rental[r].by = c /\ rental[r].terms = call[c].terms
  BY DEF RentalsInv, RentalsTypeOK, CallsOwnRows, Commit, Stored
<1>2. rental' = [rental EXCEPT ![r].by = None]
  BY DEF Commit
<1>3. rental'[r] = [rental[r] EXCEPT !.by = None] /\ rental'[r] \in RentalRow /\ rental'[r] # None
  BY <1>1, <1>2, NoneIsNothing DEF RentalsInv, RentalsTypeOK, RentalRow
<1>4. \A q \in Row : q # r => rental'[q] = rental[q]
  BY <1>1, <1>2 DEF RentalsInv, RentalsTypeOK
<1>5. RentalsTypeOK'
  BY <1>1, <1>2, <1>3 DEF RentalsInv, RentalsTypeOK, Commit, Answered, Answers
<1>6. Stored' = Stored /\ Committed' = Committed \cup {r}
  BY <1>1, <1>3, <1>4 DEF Stored, Committed, RentalRow
<1>7. \A e \in Call : e # c /\ call[e].at = "inserted" => call[e].row # r
  BY <1>1 DEF RentalsInv, CallsOwnRows
<1>8. CallsOwnRows'
  BY <1>1, <1>4, <1>6, <1>7 DEF RentalsInv, RentalsTypeOK, CallsOwnRows, Commit, Answered, Stored
<1>9. PagesShowRows'
  BY <1>6 DEF RentalsInv, PagesShowRows, Commit
<1> QED
  BY <1>1, <1>2, <1>3, <1>5, <1>8, <1>9 DEF RentalsInv

LEMMA StepOfFail ==
  ASSUME RentalsInv, NEW c \in Call, Fail(c)
  PROVE  /\ RentalsInv'
         /\ Stored' = Stored \ {call[c].row}
         /\ call[c].row \in Stored \ Committed
         /\ \A q \in Row : q # call[c].row => rental'[q] = rental[q]
<1> DEFINE r == call[c].row
<1>1. r \in Stored /\ r \in Row /\ rental[r].by = c
  BY DEF RentalsInv, CallsOwnRows, Fail
<1>2. rental' = [rental EXCEPT ![r] = None]
  BY DEF Fail
<1>3. \A q \in Row : q # r => rental'[q] = rental[q]
  BY <1>1, <1>2 DEF RentalsInv, RentalsTypeOK
<1>4. RentalsTypeOK'
  BY <1>1, <1>2 DEF RentalsInv, RentalsTypeOK, Fail, Answered
<1>5. rental'[r] = None /\ Stored' = Stored \ {r}
  BY <1>1, <1>2, <1>3 DEF Stored, RentalsInv, RentalsTypeOK
<1>6. r \notin Committed /\ Committed' = Committed
  BY <1>1, <1>3, <1>5, NoneIsNothing DEF Committed, Stored
<1>7. \A e \in Call : e # c /\ call[e].at = "inserted" => call[e].row # r
  BY <1>1 DEF RentalsInv, CallsOwnRows
<1>8. CallsOwnRows'
  BY <1>1, <1>3, <1>5, <1>7 DEF RentalsInv, RentalsTypeOK, CallsOwnRows, Fail, Answered, Stored
<1>9. PagesShowRows'
  BY <1>6 DEF RentalsInv, PagesShowRows, Fail
<1> QED
  BY <1>1, <1>3, <1>4, <1>5, <1>6, <1>8, <1>9 DEF RentalsInv

\* A committed row is given another status; who waits and what pages show stays true.
LEMMA StepOfStatus ==
  ASSUME RentalsInv, NEW r \in Committed, NEW s \in RentalStatus,
         rental' = [rental EXCEPT ![r].status = s], UNCHANGED call,
         page' \in [Operator -> Page \cup {None}],
         \A o \in Operator : page'[o] \in {page[o], None}
  PROVE  /\ RentalsInv'
         /\ Stored' = Stored
         /\ rental'[r] = [rental[r] EXCEPT !.status = s]
         /\ rental[r] \in RentalRow
         /\ \A q \in Row : q # r => rental'[q] = rental[q]
<1>1. r \in Row /\ rental[r] \in RentalRow /\ rental[r].by = None
  BY DEF Committed, Stored, RentalsInv, RentalsTypeOK
<1>2. rental'[r] = [rental[r] EXCEPT !.status = s] /\ rental'[r] \in RentalRow /\ rental'[r] # None
  BY <1>1, NoneIsNothing DEF RentalsInv, RentalsTypeOK, RentalRow
<1>3. \A q \in Row : q # r => rental'[q] = rental[q]
  BY <1>1 DEF RentalsInv, RentalsTypeOK
<1>4. RentalsTypeOK'
  BY <1>1, <1>2 DEF RentalsInv, RentalsTypeOK
<1>5. Stored' = Stored /\ Committed' = Committed
  BY <1>1, <1>2, <1>3 DEF Stored, Committed, RentalRow
<1>6. \A e \in Call : call[e].at = "inserted" => call[e].row # r
  BY <1>1, NoneIsNothing DEF RentalsInv, CallsOwnRows
<1>7. CallsOwnRows'
  BY <1>3, <1>5, <1>6 DEF RentalsInv, CallsOwnRows
<1>8. PagesShowRows'
  BY <1>5 DEF RentalsInv, PagesShowRows
<1> QED
  BY <1>1, <1>2, <1>3, <1>4, <1>5, <1>7, <1>8 DEF RentalsInv

-----------------------------------------------------------------------------
(* The two writers of a status. *)

LEMMA CancelIsStatus ==
  ASSUME RentalsInv, NEW r \in Row, Cancel(r)
  PROVE  /\ r \in Committed /\ rental[r].status \in {"PENDING", "CONFIRMED"}
         /\ rental' = [rental EXCEPT ![r].status = "CANCELLED"]
         /\ RentalsInv' /\ Stored' = Stored
         /\ rental'[r] = [rental[r] EXCEPT !.status = "CANCELLED"]
         /\ rental[r] \in RentalRow
         /\ \A q \in Row : q # r => rental'[q] = rental[q]
<1>1. /\ r \in Committed /\ UNCHANGED <<call, page>> /\ "CANCELLED" \in RentalStatus
      /\ rental' = [rental EXCEPT ![r].status = "CANCELLED"]
  BY DEF Cancel, RentalStatus
<1>2. page' \in [Operator -> Page \cup {None}] /\ \A o \in Operator : page'[o] \in {page[o], None}
  BY <1>1 DEF RentalsInv, RentalsTypeOK
<1> QED
  BY <1>1, <1>2, StepOfStatus DEF Cancel

\* An operator's page moves its row along an edge of the life cycle, or changes nothing.
LEMMA TransitionIsStatus ==
  ASSUME RentalsInv, NEW o \in Operator, NEW to \in RentalStatus, Transition(o, to)
  PROVE  /\ RentalsInv'
         /\ \/ UNCHANGED rental
            \/ \E r \in Committed :
                 /\ <<rental[r].status, to>> \in Edges
                 /\ Stored' = Stored
                 /\ rental'[r] = [rental[r] EXCEPT !.status = to]
                 /\ rental[r] \in RentalRow
                 /\ \A q \in Row : q # r => rental'[q] = rental[q]
<1> DEFINE r == page[o].row
<1>1. r \in Committed /\ <<page[o].read, to>> \in Edges /\ UNCHANGED call
  BY DEF RentalsInv, PagesShowRows, Transition
<1>2. page' \in [Operator -> Page \cup {None}] /\ \A w \in Operator : page'[w] \in {page[w], None}
  BY DEF RentalsInv, RentalsTypeOK, Transition
<1>3. CASE Unmoved(o)
  <2>1. rental' = [rental EXCEPT ![r].status = to] /\ <<rental[r].status, to>> \in Edges
    BY <1>1, <1>3 DEF Transition, Unmoved
  <2> HIDE DEF r
  <2> QED
    BY <1>1, <1>2, <2>1, StepOfStatus
<1>4. CASE ~Unmoved(o)
  <2>1. UNCHANGED rental
    BY <1>4 DEF Transition
  <2> QED
    BY <1>1, <1>2, <2>1 DEF RentalsInv, RentalsTypeOK, CallsOwnRows, PagesShowRows, Committed, Stored
<1> QED
  BY <1>3, <1>4

LEMMA OpenPageStep ==
  ASSUME RentalsInv, NEW o \in Operator, NEW r \in Row, OpenPage(o, r)
  PROVE  RentalsInv' /\ UNCHANGED rental
<1>1. rental[r].status \in RentalStatus
  BY DEF RentalsInv, RentalsTypeOK, OpenPage, Committed, Stored, RentalRow
<1> QED
  BY <1>1 DEF RentalsInv, RentalsTypeOK, CallsOwnRows, PagesShowRows, OpenPage, Page, Committed, Stored

-----------------------------------------------------------------------------
(* A vehicle is promised once. *)

LEMMA InsertPromises ==
  ASSUME RentalsInv, VehiclePromisedOnce, NEW c \in Call, InsertRental(c)
  PROVE  VehiclePromisedOnce'
<1> DEFINE n == call[c].row
           row == [terms |-> call[c].terms, status |-> "PENDING", by |-> c]
<1>1. n \in Row /\ rental'[n] = row /\ n \notin Stored /\ \A q \in Row : q # n => rental'[q] = rental[q]
  BY DEF RentalsInv, RentalsTypeOK, CallsOwnRows, InsertRental
<1>2. \A q \in Stored : /\ rental[q].status \in Live
                        /\ rental[q].terms.vehicle = row.terms.vehicle
                        => rental[q].terms.hours \cap row.terms.hours = {}
  BY DEF InsertRental, Clashes, Blocking
<1>3. Stored' \subseteq Stored \cup {n}
  BY <1>1 DEF Stored
<1> QED
  BY <1>1, <1>2, <1>3 DEF VehiclePromisedOnce, Stored

\* Rows that keep their terms and do not come back to life promise nothing new.
LEMMA FewerPromises ==
  ASSUME VehiclePromisedOnce, Stored' \subseteq Stored,
         \A q \in Stored' : /\ rental'[q].terms = rental[q].terms
                            /\ rental'[q].status \in Live => rental[q].status \in Live
  PROVE  VehiclePromisedOnce'
BY DEF VehiclePromisedOnce

LEMMA RentalsStep ==
  ASSUME RentalsInv, VehiclePromisedOnce, [RentalsNext]_rentalVars
  PROVE  RentalsInv' /\ VehiclePromisedOnce'
<1> DEFINE Same == UNCHANGED rental
<1>0. Same => VehiclePromisedOnce'
  BY DEF VehiclePromisedOnce, Stored
<1>1. ASSUME NEW c \in Call,
             \/ \E r \in Row, t \in Terms : Ask(c, r, t)
             \/ Retry(c) \/ Repeats(c) \/ Refuse(c) \/ Forget(c)
      PROVE  RentalsInv' /\ VehiclePromisedOnce'
  BY <1>0, <1>1, StepOfCalls
<1>2. ASSUME NEW c \in Call, InsertRental(c) PROVE RentalsInv' /\ VehiclePromisedOnce'
  BY <1>2, StepOfInsert, InsertPromises
<1>3. ASSUME NEW c \in Call, Commit(c) PROVE RentalsInv' /\ VehiclePromisedOnce'
  <2>1. RentalsInv' /\ Stored' \subseteq Stored
    BY <1>3, StepOfCommit DEF Stored, RentalsInv, RentalsTypeOK
  <2>2. \A q \in Stored : rental'[q].terms = rental[q].terms /\ rental'[q].status = rental[q].status
    <3>1. \A q \in Stored : q # call[c].row => rental'[q] = rental[q]
      BY <1>3, StepOfCommit DEF Stored, RentalsInv, RentalsTypeOK
    <3>2. rental[call[c].row] \in RentalRow
      BY <1>3, StepOfCommit DEF Stored, RentalsInv, RentalsTypeOK
    <3>3. rental'[call[c].row] = [rental[call[c].row] EXCEPT !.by = None]
      BY <1>3, StepOfCommit
    <3>4. /\ rental'[call[c].row].terms = rental[call[c].row].terms
          /\ rental'[call[c].row].status = rental[call[c].row].status
      BY <3>2, <3>3 DEF RentalRow
    <3> QED
      BY <3>1, <3>4
  <2> QED
    BY <2>1, <2>2, FewerPromises
<1>4. ASSUME NEW c \in Call, Fail(c) PROVE RentalsInv' /\ VehiclePromisedOnce'
  <2>1. RentalsInv' /\ Stored' \subseteq Stored /\ \A q \in Stored' : rental'[q] = rental[q]
    BY <1>4, StepOfFail DEF Stored
  <2> QED
    BY <2>1, FewerPromises
<1>5. ASSUME NEW r \in Row, Cancel(r) PROVE RentalsInv' /\ VehiclePromisedOnce'
  <2>1. RentalsInv' /\ Stored' = Stored /\ rental[r].status \in Live
    BY <1>5, CancelIsStatus DEF Live
  <2>2. \A q \in Stored : /\ rental'[q].terms = rental[q].terms
                          /\ rental'[q].status \in Live => rental[q].status \in Live
    BY <1>5, <2>1, CancelIsStatus DEF Stored, RentalRow
  <2> QED
    BY <2>1, <2>2, FewerPromises
<1>6. ASSUME NEW o \in Operator, NEW r \in Row, OpenPage(o, r) PROVE RentalsInv' /\ VehiclePromisedOnce'
  BY <1>0, <1>6, OpenPageStep
<1>7. ASSUME NEW o \in Operator, NEW to \in RentalStatus, Transition(o, to)
      PROVE  RentalsInv' /\ VehiclePromisedOnce'
  <2>1. RentalsInv'
    BY <1>7, TransitionIsStatus
  <2>2. ASSUME NEW r \in Committed, <<rental[r].status, to>> \in Edges, Stored' = Stored,
               rental'[r] = [rental[r] EXCEPT !.status = to], rental[r] \in RentalRow,
               \A q \in Row : q # r => rental'[q] = rental[q]
        PROVE  VehiclePromisedOnce'
    <3>1. rental[r].status \in Live
      BY <2>2 DEF Edges, Live
    <3>2. \A q \in Stored : /\ rental'[q].terms = rental[q].terms
                            /\ rental'[q].status \in Live => rental[q].status \in Live
      BY <2>2, <3>1 DEF Stored, RentalRow
    <3> QED
      BY <2>2, <3>2, FewerPromises
  <2> QED
    BY <1>0, <1>7, <2>1, <2>2, TransitionIsStatus
<1>8. CASE UNCHANGED rentalVars
  BY <1>0, <1>8 DEF rentalVars, RentalsInv, RentalsTypeOK, CallsOwnRows, PagesShowRows, Committed, Stored
<1> QED
  BY <1>1, <1>2, <1>3, <1>4, <1>5, <1>6, <1>7, <1>8 DEF RentalsNext

LEMMA RentalsInvariance == RentalsSpec => [](RentalsInv /\ VehiclePromisedOnce)
<1>1. RentalsInv /\ VehiclePromisedOnce /\ [RentalsNext]_rentalVars => (RentalsInv /\ VehiclePromisedOnce)'
  BY RentalsStep
<1> QED
  BY <1>1, InitRentals, PTL DEF RentalsSpec

\* rentals_no_vehicle_overlap and the statements around it, whatever bookings, retries,
\* cancellations and pages overlap: no two customers hold a vehicle for the same hour.
THEOREM PromisedOnce == RentalsSpec => []VehiclePromisedOnce
<1> QED
  BY RentalsInvariance, PTL

-----------------------------------------------------------------------------
(* The life of one row. *)

Kept(r) ==
  /\ rental'[r] # None
  /\ rental'[r].terms = rental[r].terms
  /\ \/ rental'[r].status = rental[r].status
     \/ <<rental[r].status, rental'[r].status>> \in
          Edges \cup {<<"PENDING", "CANCELLED">>, <<"CONFIRMED", "CANCELLED">>}

LEMMA LifeStep ==
  ASSUME RentalsInv, [RentalsNext]_rentalVars, NEW r \in Committed
  PROVE  Kept(r)
<1>0. /\ r \in Row /\ r \in Stored /\ rental[r] # None /\ rental[r] \in RentalRow
      /\ rental[r].by = None
  BY DEF Committed, Stored, RentalsInv, RentalsTypeOK
<1>1. rental'[r] = rental[r] => Kept(r)
  BY <1>0 DEF Kept
<1>2. ASSUME NEW c \in Call,
             \/ \E q \in Row, t \in Terms : Ask(c, q, t)
             \/ Retry(c) \/ Repeats(c) \/ Refuse(c) \/ Forget(c)
      PROVE  Kept(r)
  BY <1>1, <1>2, StepOfCalls
<1>3. ASSUME NEW c \in Call, InsertRental(c) PROVE Kept(r)
  BY <1>0, <1>1, <1>3 DEF InsertRental, RentalsInv, RentalsTypeOK
<1>4. ASSUME NEW c \in Call, Commit(c) PROVE Kept(r)
  <2>1. r # call[c].row
    BY <1>0, <1>4, NoneIsNothing DEF RentalsInv, CallsOwnRows, Commit
  <2> QED
    BY <1>0, <1>1, <1>4, <2>1 DEF Commit, RentalsInv, RentalsTypeOK
<1>5. ASSUME NEW c \in Call, Fail(c) PROVE Kept(r)
  BY <1>0, <1>1, <1>5, StepOfFail
<1>6. ASSUME NEW q \in Row, Cancel(q) PROVE Kept(r)
  <2>1. CASE q = r
    <3>1. rental'[r] = [rental[r] EXCEPT !.status = "CANCELLED"] /\ RentalsInv' /\ Stored' = Stored
      BY <1>6, <2>1, CancelIsStatus
    <3>2. rental'[r] # None
      BY <1>0, <3>1 DEF Stored
    <3> QED
      BY <1>0, <1>6, <2>1, <3>1, <3>2 DEF Cancel, RentalRow, Kept
  <2>2. CASE q # r
    BY <1>0, <1>1, <1>6, <2>2, CancelIsStatus
  <2> QED
    BY <2>1, <2>2
<1>7. ASSUME NEW o \in Operator, NEW q \in Row, OpenPage(o, q) PROVE Kept(r)
  BY <1>1, <1>7 DEF OpenPage
<1>8. ASSUME NEW o \in Operator, NEW to \in RentalStatus, Transition(o, to) PROVE Kept(r)
  <2>1. ASSUME NEW q \in Committed, <<rental[q].status, to>> \in Edges, Stored' = Stored,
               rental'[q] = [rental[q] EXCEPT !.status = to], rental[q] \in RentalRow,
               \A w \in Row : w # q => rental'[w] = rental[w]
        PROVE  Kept(r)
    <3>1. CASE q = r
      <4>1. rental'[r] # None
        BY <1>0, <2>1 DEF Stored
      <4> QED
        BY <1>0, <2>1, <3>1, <4>1 DEF RentalRow, Kept
    <3>2. CASE q # r
      BY <1>0, <1>1, <2>1, <3>2
    <3> QED
      BY <3>1, <3>2
  <2> QED
    BY <1>1, <1>8, <2>1, TransitionIsStatus
<1>9. CASE UNCHANGED rentalVars
  BY <1>1, <1>9 DEF rentalVars
<1> QED
  BY <1>2, <1>3, <1>4, <1>5, <1>6, <1>7, <1>8, <1>9 DEF RentalsNext

-----------------------------------------------------------------------------
(* What a request is told. *)

Told(c) ==
  /\ call'[c].at = "unavailable" => call[c].row \notin Committed
  /\ call'[c].at = "rental" =>
       /\ rental'[call[c].row] # None
       /\ rental'[call[c].row].by = None
       /\ rental'[call[c].row].terms = call[c].terms

LEMMA AnswerStep ==
  ASSUME RentalsInv, NEW c \in Call,
         \/ \E r \in Row, t \in Terms : Ask(c, r, t)
         \/ Retry(c) \/ Repeats(c) \/ Refuse(c) \/ InsertRental(c) \/ Commit(c) \/ Fail(c) \/ Forget(c)
  PROVE  Told(c) /\ \A d \in Call \ {c} : call'[d] = call[d]
<1>0. \A e \in Call : call[e] \in [at : {"idle", "asked", "inserted", "lost"} \cup Answers,
                                   row : Row \cup {None}, terms : Terms \cup {None}]
  BY DEF RentalsInv, RentalsTypeOK
<1>1. ASSUME NEW at, Answered(c, at)
      PROVE  call'[c].at = at /\ \A d \in Call \ {c} : call'[d] = call[d]
  BY <1>0, <1>1 DEF Answered, RentalsInv, RentalsTypeOK
<1>2. ASSUME NEW r \in Row, NEW t \in Terms, Ask(c, r, t)
      PROVE  Told(c) /\ \A d \in Call \ {c} : call'[d] = call[d]
  BY <1>2 DEF Ask, Told, RentalsInv, RentalsTypeOK
<1>3. CASE Retry(c) \/ InsertRental(c) \/ Fail(c)
  <2>1. PICK at \in {"asked", "inserted", "lost"} : Answered(c, at)
    BY <1>3 DEF Retry, InsertRental, Fail
  <2> QED
    BY <1>1, <2>1 DEF Told
<1>4. CASE Repeats(c)
  <2> DEFINE at == IF rental[call[c].row].terms = call[c].terms THEN "rental" ELSE "mismatch"
  <2>1. Answered(c, at) /\ UNCHANGED rental /\ call[c].row \in Committed
    BY <1>4 DEF Repeats
  <2>2. call'[c].at = at /\ \A d \in Call \ {c} : call'[d] = call[d]
    BY <1>1, <2>1
  <2> QED
    BY <2>1, <2>2 DEF Told, Committed, Stored
<1>5. CASE Refuse(c)
  <2>1. Answered(c, "unavailable") /\ call[c].row \notin Stored
    BY <1>5 DEF Refuse, KeyUnused
  <2> QED
    BY <1>1, <2>1 DEF Told, Committed
<1>6. CASE Commit(c)
  <2>1. PICK at \in {"rental", "lost"} : Answered(c, at)
    BY <1>6 DEF Commit
  <2>2. rental[call[c].row] \in RentalRow /\ rental[call[c].row].terms = call[c].terms
    BY <1>6 DEF RentalsInv, RentalsTypeOK, CallsOwnRows, Commit, Stored
  <2>3. rental'[call[c].row] = [rental[call[c].row] EXCEPT !.by = None] /\ rental'[call[c].row] \in RentalRow
    BY <1>6, StepOfCommit
  <2>4. /\ rental'[call[c].row] # None /\ rental'[call[c].row].by = None
        /\ rental'[call[c].row].terms = call[c].terms
    BY <2>2, <2>3, NoneIsNothing DEF RentalRow
  <2> QED
    BY <1>1, <2>1, <2>4 DEF Told
<1>7. CASE Forget(c)
  BY <1>7 DEF Forget, NoCall, Told, RentalsInv, RentalsTypeOK
<1> QED
  BY <1>2, <1>3, <1>4, <1>5, <1>6, <1>7

LEMMA ToldStep ==
  ASSUME RentalsInv, [RentalsNext]_rentalVars, NEW c \in Call, call'[c] # call[c]
  PROVE  Told(c)
<1>1. ASSUME NEW d \in Call,
             \/ \E r \in Row, t \in Terms : Ask(d, r, t)
             \/ Retry(d) \/ Repeats(d) \/ Refuse(d) \/ InsertRental(d) \/ Commit(d) \/ Fail(d) \/ Forget(d)
      PROVE  Told(c)
  BY <1>1, AnswerStep
<1>2. CASE UNCHANGED call
  BY <1>2
<1> QED
  BY <1>1, <1>2 DEF RentalsNext, Cancel, OpenPage, Transition, rentalVars

\* A request sent again with its key is answered with its own rental: it is never refused
\* because of its first attempt, nor told of somebody else's terms as its own.
THEOREM RetriesFindTheirs == RentalsSpec => RetryFindsItsRental
<1>1. RentalsInv /\ [RentalsNext]_rentalVars =>
        [\A c \in Call : call'[c] # call[c] => Told(c)]_rentalVars
  BY ToldStep
<1> QED
  BY <1>1, RentalsInvariance, PTL DEF RentalsSpec, RetryFindsItsRental, Told

\* Rows, requests and pages have their types in every reachable state.
THEOREM RentalsTypeCorrect == RentalsSpec => []RentalsTypeOK
<1>1. RentalsInv => RentalsTypeOK
  BY DEF RentalsInv
<1> QED
  BY <1>1, RentalsInvariance, PTL

\* Cancellations and pages that show an old status move a rental only along its life cycle.
THEOREM LifecycleKept == RentalsSpec => LifecycleHolds
<1>1. RentalsInv /\ [RentalsNext]_rentalVars =>
        [\A r \in Committed : Kept(r)]_rentalVars
  BY LifeStep
<1> QED
  BY <1>1, RentalsInvariance, PTL DEF RentalsSpec, LifecycleHolds, Kept


-----------------------------------------------------------------------------
(* Sums over finite sets.  MapThenSumSet takes the elements in the order   *)
(* CHOOSE gives them; the lemmas say that the order does not matter.  They *)
(* rest on there being a smallest set among any sets that are finite.      *)

\* The element a sum takes next.
Taking(s) == CHOOSE x \in s : TRUE

\* g gives every subset of S the sum of its weights, element by element.
AddsUp(g, w, S) ==
  g = [s \in SUBSET S |-> IF s = {} THEN 0 ELSE w[Taking(s)] + g[s \ {Taking(s)}]]

Weighs(w, S) == \A x \in S : w[x] \in Int

Total(w, S) == MapThenSumSet(LAMBDA x : w[x], S)

\* Of any subsets of a finite set one has no other of them in it.
LEMMA SmallestSet ==
  ASSUME NEW S, IsFiniteSet(S), NEW Bad \in SUBSET (SUBSET S), Bad # {}
  PROVE  \E T \in Bad : \A U \in Bad : U \subseteq T => U = T
<1>1. IsWellFoundedOn(StrictSubsetOrdering(S), FiniteSubsetsOf(S))
  BY FS_StrictSubsetOrderingWellFounded
<1>2. FiniteSubsetsOf(S) = SUBSET S
  BY FS_FiniteSubsetsOfFinite
<1>3. \E T \in Bad : \A U \in Bad : ~(<<U, T>> \in StrictSubsetOrdering(S))
  <2>1. /\ IsWellFoundedOn(StrictSubsetOrdering(S), SUBSET S)
        /\ Bad \subseteq SUBSET S /\ Bad # {}
    BY <1>1, <1>2
  <2>2. \E T \in Bad : \A U \in Bad : ~(<<U, T>> \in StrictSubsetOrdering(S))
    BY <2>1, WFMin, ZenonT(60)
  <2> QED
    BY <2>2
<1> QED
  BY <1>3 DEF StrictSubsetOrdering

LEMMA TakingIsIn == ASSUME NEW s, s # {} PROVE Taking(s) \in s
BY DEF Taking

\* Two functions that add up the same weights agree.
LEMMA OneWayToAdd ==
  ASSUME NEW S, IsFiniteSet(S), NEW v, NEW w, \A x \in S : v[x] = w[x],
         NEW f, NEW g, AddsUp(f, v, S), AddsUp(g, w, S)
  PROVE  f = g
<1> DEFINE Bad == {s \in SUBSET S : f[s] # g[s]}
<1>1. f = [s \in SUBSET S |-> f[s]] /\ g = [s \in SUBSET S |-> g[s]]
  BY DEF AddsUp
<1>2. Bad = {}
  <2> SUFFICES ASSUME Bad # {} PROVE FALSE
    OBVIOUS
  <2>1. PICK T \in Bad : \A U \in Bad : U \subseteq T => U = T
    <3>1. Bad \in SUBSET (SUBSET S) /\ Bad # {}
      OBVIOUS
    <3> HIDE DEF Bad
    <3> QED
      BY <3>1, SmallestSet
  <2>2. T # {}
    <3>1. f[{}] = 0
      BY DEF AddsUp
    <3>2. g[{}] = 0
      BY DEF AddsUp
    <3> QED
      BY <2>1, <3>1, <3>2
  <2>3. Taking(T) \in T
    BY <2>2, TakingIsIn
  <2>4. T \ {Taking(T)} \notin Bad
    BY <2>1, <2>3
  <2>5. f[T \ {Taking(T)}] = g[T \ {Taking(T)}]
    BY <2>4
  <2>6. f[T] = v[Taking(T)] + f[T \ {Taking(T)}]
    BY <2>2 DEF AddsUp
  <2>7. g[T] = w[Taking(T)] + g[T \ {Taking(T)}]
    BY <2>2 DEF AddsUp
  <2> QED
    BY <2>3, <2>5, <2>6, <2>7
<1>3. \A s \in SUBSET S : f[s] = g[s]
  BY <1>2
<1> QED
  BY <1>1, <1>3

\* A function on the subsets of S that have at most n elements.
AddsUpTo(g, w, S, n) ==
  g = [s \in {t \in SUBSET S : Cardinality(t) <= n} |->
         IF s = {} THEN 0 ELSE w[Taking(s)] + g[s \ {Taking(s)}]]

LEMMA AddsOneMore ==
  ASSUME NEW S, IsFiniteSet(S), NEW w, NEW n \in Nat, NEW g, AddsUpTo(g, w, S, n)
  PROVE  \E h : AddsUpTo(h, w, S, n + 1)
<1> DEFINE Small == {t \in SUBSET S : Cardinality(t) <= n}
           Next == {t \in SUBSET S : Cardinality(t) <= n + 1}
           Rest(s) == s \ {Taking(s)}
           h == [s \in Next |-> IF s = {} THEN 0 ELSE w[Taking(s)] + g[Rest(s)]]
<1>1. \A s \in Next : s # {} => Rest(s) \in Small
  <2> SUFFICES ASSUME NEW s \in Next, s # {} PROVE Rest(s) \in Small
    OBVIOUS
  <2>1. IsFiniteSet(s)
    BY FS_Subset
  <2>2. Taking(s) \in s
    BY TakingIsIn
  <2>3. Cardinality(Rest(s)) = Cardinality(s) - 1
    BY <2>1, <2>2, FS_RemoveElement
  <2>4. Cardinality(s) \in Nat
    BY <2>1, FS_CardinalityType
  <2> QED
    BY <2>3, <2>4
<1>2. \A s \in Small : s \in Next
  <2> SUFFICES ASSUME NEW s \in Small PROVE s \in Next
    OBVIOUS
  <2>1. Cardinality(s) \in Nat
    BY FS_Subset, FS_CardinalityType
  <2> QED
    BY <2>1
<1>3. \A s \in Small : g[s] = (IF s = {} THEN 0 ELSE w[Taking(s)] + g[Rest(s)])
  BY DEF AddsUpTo
<1>4. \A s \in Small : h[s] = g[s]
  BY <1>2, <1>3
<1>5. h = [s \in Next |-> IF s = {} THEN 0 ELSE w[Taking(s)] + h[Rest(s)]]
  BY <1>1, <1>4
<1> QED
  BY <1>5 DEF AddsUpTo

\* Of any natural numbers one is the smallest: if not, none would begin a
\* finite interval of them.
LEMMA SmallestNumber ==
  ASSUME NEW T \in SUBSET Nat, T # {}
  PROVE  \E n \in T : \A m \in T : n <= m
<1>1. PICK k \in T : TRUE
  OBVIOUS
<1> DEFINE Below == {m \in T : m <= k}
<1>2. IsFiniteSet(0..k)
  BY FS_Interval
<1> DEFINE Bad == {0..m : m \in Below}
<1>3. Bad \in SUBSET (SUBSET (0..k)) /\ Bad # {}
  BY <1>1
<1>4. PICK B \in Bad : \A U \in Bad : U \subseteq B => U = B
  <2> DEFINE K == 0..k
  <2>1. IsFiniteSet(K) /\ Bad \in SUBSET (SUBSET K) /\ Bad # {}
    BY <1>2, <1>3
  <2> HIDE DEF Bad, K
  <2> QED
    BY <2>1, SmallestSet
<1>5. PICK n \in Below : B = 0..n
  BY <1>4
<1>6. \A m \in T : n <= m
  <2> SUFFICES ASSUME NEW m \in T, m < n PROVE FALSE
    OBVIOUS
  <2>1. 0..m \in Bad /\ 0..m \subseteq 0..n
    OBVIOUS
  <2>2. n \in 0..n /\ n \notin 0..m
    OBVIOUS
  <2> QED
    BY <1>4, <1>5, <2>1, <2>2
<1> QED
  BY <1>6

\* There is a function that adds up.
LEMMA AddingIsPossible ==
  ASSUME NEW S, IsFiniteSet(S), NEW w
  PROVE  \E g : AddsUp(g, w, S)
<1> DEFINE Bad == {n \in Nat : ~ \E g : AddsUpTo(g, w, S, n)}
<1>1. \E g : AddsUpTo(g, w, S, 0)
  <2> DEFINE g == [s \in {t \in SUBSET S : Cardinality(t) <= 0} |-> 0]
  <2>1. \A s \in {t \in SUBSET S : Cardinality(t) <= 0} : s = {}
    BY FS_Subset, FS_CardinalityType, FS_EmptySet
  <2>2. AddsUpTo(g, w, S, 0)
    BY <2>1 DEF AddsUpTo
  <2> QED
    BY <2>2
<1>2. Bad = {}
  <2> SUFFICES ASSUME Bad # {} PROVE FALSE
    OBVIOUS
  <2>1. PICK n \in Bad : \A m \in Bad : n <= m
    BY SmallestNumber
  <2>2. n # 0
    BY <1>1
  <2>3. n - 1 \in Nat /\ n - 1 \notin Bad
    BY <2>1, <2>2
  <2>4. PICK g : AddsUpTo(g, w, S, n - 1)
    BY <2>3
  <2>5. \E h : AddsUpTo(h, w, S, (n - 1) + 1)
    BY <2>3, <2>4, AddsOneMore
  <2> QED
    BY <2>3, <2>5
<1>3. Cardinality(S) \in Nat
  BY FS_CardinalityType
<1>4. PICK g : AddsUpTo(g, w, S, Cardinality(S))
  BY <1>2, <1>3
<1>5. {t \in SUBSET S : Cardinality(t) <= Cardinality(S)} = SUBSET S
  BY FS_Subset
<1>6. AddsUp(g, w, S)
  BY <1>4, <1>5 DEF AddsUp, AddsUpTo
<1> QED
  BY <1>6

-----------------------------------------------------------------------------
(* What a sum is.                                                          *)

LEMMA SumAddsUp ==
  ASSUME NEW S, IsFiniteSet(S), NEW w
  PROVE  \E g : AddsUp(g, w, S) /\ Total(w, S) = g[S]
<1> DEFINE g == CHOOSE f : AddsUp(f, w, S)
<1>1. AddsUp(g, w, S)
  BY AddingIsPossible
<1>2. Total(w, S) = g[S]
  BY DEF Total, MapThenSumSet, MapThenFoldSet, AddsUp, Taking
<1> QED
  BY <1>1, <1>2

\* The sum a function on the subsets of S gives T is the sum of T.
LEMMA SumOfPart ==
  ASSUME NEW S, IsFiniteSet(S), NEW T \in SUBSET S, NEW w, NEW g, AddsUp(g, w, S)
  PROVE  Total(w, T) = g[T]
<1>1. IsFiniteSet(T)
  BY FS_Subset
<1>2. PICK h : AddsUp(h, w, T) /\ Total(w, T) = h[T]
  BY <1>1, SumAddsUp
<1> DEFINE k == [s \in SUBSET T |-> g[s]]
<1>3. AddsUp(k, w, T)
  <2>1. \A s \in SUBSET T : s \ {Taking(s)} \in SUBSET T
    OBVIOUS
  <2>2. \A s \in SUBSET T : k[s] = IF s = {} THEN 0 ELSE w[Taking(s)] + g[s \ {Taking(s)}]
    BY DEF AddsUp
  <2>3. \A s \in SUBSET T : k[s] = IF s = {} THEN 0 ELSE w[Taking(s)] + k[s \ {Taking(s)}]
    BY <2>1, <2>2
  <2>4. k = [s \in SUBSET T |-> IF s = {} THEN 0 ELSE w[Taking(s)] + k[s \ {Taking(s)}]]
    BY <2>3
  <2> QED
    BY <2>4 DEF AddsUp
<1>4. k = h
  BY <1>1, <1>2, <1>3, OneWayToAdd
<1> QED
  BY <1>2, <1>4

LEMMA SumOfNothing ==
  ASSUME NEW w
  PROVE  Total(w, {}) = 0
<1>1. IsFiniteSet({})
  BY FS_EmptySet
<1>2. PICK g : AddsUp(g, w, {}) /\ Total(w, {}) = g[{}]
  BY <1>1, SumAddsUp
<1>3. g[{}] = 0
  BY <1>2 DEF AddsUp
<1> QED
  BY <1>2, <1>3

LEMMA SumTakes ==
  ASSUME NEW S, IsFiniteSet(S), S # {}, NEW w
  PROVE  Total(w, S) = w[Taking(S)] + Total(w, S \ {Taking(S)})
<1>1. PICK g : AddsUp(g, w, S) /\ Total(w, S) = g[S]
  BY SumAddsUp
<1>2. g[S] = w[Taking(S)] + g[S \ {Taking(S)}]
  BY <1>1 DEF AddsUp
<1>3. Total(w, S \ {Taking(S)}) = g[S \ {Taking(S)}]
  BY <1>1, SumOfPart
<1> QED
  BY <1>1, <1>2, <1>3

\* A sum stays in a set of numbers that addition does not leave.
LEMMA SumType ==
  ASSUME NEW S, IsFiniteSet(S), NEW w, NEW N, 0 \in N, \A a, b \in N : a + b \in N,
         \A x \in S : w[x] \in N
  PROVE  Total(w, S) \in N
<1> DEFINE Bad == {T \in SUBSET S : Total(w, T) \notin N}
<1>1. Bad = {}
  <2> SUFFICES ASSUME Bad # {} PROVE FALSE
    OBVIOUS
  <2>1. PICK T \in Bad : \A U \in Bad : U \subseteq T => U = T
    <3>1. Bad \in SUBSET (SUBSET S) /\ Bad # {}
      OBVIOUS
    <3> HIDE DEF Bad
    <3> QED
      BY <3>1, SmallestSet
  <2>2. T # {}
    BY <2>1, SumOfNothing
  <2>3. Taking(T) \in T
    BY <2>2, TakingIsIn
  <2>4. IsFiniteSet(T)
    BY FS_Subset
  <2>5. Total(w, T) = w[Taking(T)] + Total(w, T \ {Taking(T)})
    BY <2>2, <2>4, SumTakes
  <2>6. Total(w, T \ {Taking(T)}) \in N
    BY <2>1, <2>3
  <2>7. w[Taking(T)] \in N
    BY <2>3
  <2> QED
    BY <2>5, <2>6, <2>7
<1> QED
  BY <1>1

LEMMA SumIsInteger ==
  ASSUME NEW S, IsFiniteSet(S), NEW w, \A x \in S : w[x] \in Int
  PROVE  Total(w, S) \in Int
<1>1. 0 \in Int /\ \A a, b \in Int : a + b \in Int
  OBVIOUS
<1> QED
  BY <1>1, SumType

LEMMA SumIsNatural ==
  ASSUME NEW S, IsFiniteSet(S), NEW w, \A x \in S : w[x] \in Nat
  PROVE  Total(w, S) \in Nat
<1>1. 0 \in Nat /\ \A a, b \in Nat : a + b \in Nat
  OBVIOUS
<1> QED
  BY <1>1, SumType

\* It does not matter which element a sum takes first.
LEMMA SumTakesAny ==
  ASSUME NEW S, IsFiniteSet(S), NEW w, \A x \in S : w[x] \in Int, NEW e \in S
  PROVE  Total(w, S) = w[e] + Total(w, S \ {e})
<1> DEFINE Bad == {T \in SUBSET S : \E x \in T : Total(w, T) # w[x] + Total(w, T \ {x})}
<1>1. Bad = {}
  <2> SUFFICES ASSUME Bad # {} PROVE FALSE
    OBVIOUS
  <2>1. PICK T \in Bad : \A U \in Bad : U \subseteq T => U = T
    <3>1. Bad \in SUBSET (SUBSET S) /\ Bad # {}
      OBVIOUS
    <3> HIDE DEF Bad
    <3> QED
      BY <3>1, SmallestSet
  <2>2. PICK x \in T : Total(w, T) # w[x] + Total(w, T \ {x})
    BY <2>1
  <2> DEFINE c == Taking(T)
  <2>3. c \in T
    BY <2>2, TakingIsIn
  <2>4. IsFiniteSet(T)
    BY FS_Subset
  <2>5. Total(w, T) = w[c] + Total(w, T \ {c})
    BY <2>2, <2>4, SumTakes
  <2>6. c # x
    BY <2>2, <2>5
  <2> HIDE DEF c
  <2>7. T \ {c} \notin Bad /\ T \ {x} \notin Bad
    BY <2>1, <2>2, <2>3
  <2>8. Total(w, T \ {c}) = w[x] + Total(w, (T \ {c}) \ {x})
    BY <2>7, <2>6, <2>2
  <2>9. Total(w, T \ {x}) = w[c] + Total(w, (T \ {x}) \ {c})
    BY <2>7, <2>6, <2>3
  <2>10. (T \ {x}) \ {c} = (T \ {c}) \ {x}
    OBVIOUS
  <2>11. Total(w, (T \ {c}) \ {x}) \in Int
    <3>1. IsFiniteSet((T \ {c}) \ {x})
      BY <2>4, FS_Subset
    <3>2. \A y \in (T \ {c}) \ {x} : w[y] \in Int
      OBVIOUS
    <3> QED
      BY <3>1, <3>2, SumIsInteger
  <2>12. w[x] \in Int /\ w[c] \in Int
    BY <2>2, <2>3
  <2>13. Total(w, T \ {x}) = w[c] + Total(w, (T \ {c}) \ {x})
    BY <2>9, <2>10, Zenon
  <2> DEFINE rest == Total(w, (T \ {c}) \ {x})
  <2>14. Total(w, T) = w[c] + (w[x] + rest) /\ Total(w, T \ {x}) = w[c] + rest
    BY <2>5, <2>8, <2>13, Zenon
  <2> HIDE DEF rest
  <2>15. rest \in Int
    BY <2>11 DEF rest
  <2>16. w[c] + (w[x] + rest) = w[x] + (w[c] + rest)
    BY <2>12, <2>15
  <2> QED
    BY <2>2, <2>14, <2>16, Zenon
<1> QED
  BY <1>1

\* One element more adds its weight.
LEMMA SumGrows ==
  ASSUME NEW S, IsFiniteSet(S), NEW w, NEW e, e \notin S, \A x \in S \cup {e} : w[x] \in Int
  PROVE  Total(w, S \cup {e}) = Total(w, S) + w[e]
<1>1. IsFiniteSet(S \cup {e})
  BY FS_AddElement
<1>2. (S \cup {e}) \ {e} = S
  OBVIOUS
<1>3. Total(w, S \cup {e}) = w[e] + Total(w, (S \cup {e}) \ {e})
  BY <1>1, SumTakesAny
<1>4. Total(w, S) \in Int
  BY SumIsInteger
<1>5. w[e] \in Int
  OBVIOUS
<1>6. Total(w, S \cup {e}) = w[e] + Total(w, S)
  BY <1>2, <1>3, Zenon
<1>7. w[e] + Total(w, S) = Total(w, S) + w[e]
  BY <1>4, <1>5
<1> QED
  BY <1>6, <1>7, Zenon

\* Only the weights of the elements matter.
LEMMA SumOfSameWeights ==
  ASSUME NEW S, IsFiniteSet(S), NEW v, NEW w, \A x \in S : v[x] = w[x]
  PROVE  Total(v, S) = Total(w, S)
BY SumAddsUp, OneWayToAdd

\* A part of natural weights weighs no more than the whole.
LEMMA SumOfPartIsLess ==
  ASSUME NEW S, IsFiniteSet(S), NEW T \in SUBSET S, NEW w, \A x \in S : w[x] \in Nat
  PROVE  Total(w, T) <= Total(w, S)
<1> DEFINE Bad == {U \in SUBSET S : T \subseteq U /\ ~(Total(w, T) <= Total(w, U))}
<1>1. Bad = {}
  <2> SUFFICES ASSUME Bad # {} PROVE FALSE
    OBVIOUS
  <2>1. PICK U \in Bad : \A V \in Bad : V \subseteq U => V = U
    <3>1. Bad \in SUBSET (SUBSET S) /\ Bad # {}
      OBVIOUS
    <3> HIDE DEF Bad
    <3> QED
      BY <3>1, SmallestSet
  <2>2. IsFiniteSet(T) /\ IsFiniteSet(U)
    BY FS_Subset
  <2>3. Total(w, T) \in Nat /\ Total(w, U) \in Nat
    BY <2>2, SumIsNatural
  <2>4. U # T
    BY <2>1, <2>3
  <2>5. PICK x \in U : x \notin T
    BY <2>1, <2>4
  <2>6. U \ {x} \notin Bad
    BY <2>1, <2>5
  <2>7. Total(w, T) <= Total(w, U \ {x})
    BY <2>5, <2>6, <2>1
  <2>8. Total(w, U) = w[x] + Total(w, U \ {x})
    BY <2>2, <2>5, SumTakesAny
  <2>9. IsFiniteSet(U \ {x})
    BY <2>2, FS_RemoveElement
  <2>10. Total(w, U \ {x}) \in Nat
    BY <2>9, SumIsNatural
  <2>11. w[x] \in Nat
    BY <2>5
  <2> QED
    BY <2>1, <2>3, <2>7, <2>8, <2>10, <2>11
<1> QED
  BY <1>1


-----------------------------------------------------------------------------
(* Payments of a ride.  What a request will write rests on what it read;   *)
(* the lock of a refund keeps that true until the refund is booked.        *)

Weight == [x \in Refund |-> x.id.amount]

LEMMA WorthIsTotal ==
  ASSUME NEW S \in SUBSET Refund, IsFiniteSet(S)
  PROVE  Worth(S) = Total(Weight, S)
<1> DEFINE F(g) == [s \in SUBSET S |-> IF s = {} THEN 0 ELSE Taking(s).id.amount + g[s \ {Taking(s)}]]
           G == CHOOSE g : g = F(g)
<1>1. \A s \in SUBSET S : s # {} => Weight[Taking(s)] = Taking(s).id.amount
  BY TakingIsIn DEF Weight
<1>2. \A g : AddsUp(g, Weight, S) <=> g = F(g)
  BY <1>1 DEF AddsUp
<1>3. \E g : g = F(g)
  BY <1>2, AddingIsPossible
<1>4. G = F(G)
  BY <1>3
<1>5. AddsUp(G, Weight, S)
  BY <1>2, <1>4
<1>6. Total(Weight, S) = G[S]
  BY <1>5, SumOfPart
<1>7. Worth(S) = G[S]
  BY DEF Worth, MapThenSumSet, MapThenFoldSet, Taking
<1> QED
  BY <1>6, <1>7

LEMMA WorthIsNatural ==
  ASSUME NEW S \in SUBSET Refund, IsFiniteSet(S)
  PROVE  Worth(S) \in Nat
<1>1. \A x \in S : Weight[x] \in Nat
  BY DEF Weight, Refund, RefundId
<1> QED
  BY <1>1, WorthIsTotal, SumIsNatural

LEMMA WorthOfNothing == Worth({}) = 0
BY WorthIsTotal, SumOfNothing, FS_EmptySet

LEMMA WorthGrows ==
  ASSUME NEW S \in SUBSET Refund, IsFiniteSet(S), NEW e \in Refund, e \notin S
  PROVE  Worth(S \cup {e}) = Worth(S) + e.id.amount
<1>1. \A x \in S \cup {e} : Weight[x] \in Int
  BY DEF Weight, Refund, RefundId
<1>2. IsFiniteSet(S \cup {e})
  BY FS_AddElement
<1>3. Total(Weight, S \cup {e}) = Total(Weight, S) + Weight[e]
  BY <1>1, SumGrows
<1>4. Worth(S \cup {e}) = Total(Weight, S \cup {e}) /\ Worth(S) = Total(Weight, S)
  BY <1>2, WorthIsTotal
<1>5. Weight[e] = e.id.amount
  BY DEF Weight
<1> QED
  BY <1>3, <1>4, <1>5

LEMMA WorthOfPart ==
  ASSUME NEW S \in SUBSET Refund, IsFiniteSet(S), NEW T \in SUBSET S
  PROVE  Worth(T) <= Worth(S)
<1>1. \A x \in S : Weight[x] \in Nat
  BY DEF Weight, Refund, RefundId
<1>2. IsFiniteSet(T) /\ T \in SUBSET Refund
  BY FS_Subset
<1> QED
  BY <1>1, <1>2, WorthIsTotal, SumOfPartIsLess

RowSteps == {"order", "link", "verify", "capture", "fail"}
RefundSteps == {"refund", "submit", "record"}

PaymentJob == {Idle} \cup InsertJob \cup RowJob \cup RefundJob \cup RecordJob

\* A request writes to a row that is there.
RowIsThere(j) == j.step \in RowSteps => Exists(j.payment)

\* A refund is of a payment without stages, and no larger than what was left
\* when it was asked for.
RefundIsDue(j) ==
  j.step \in RefundSteps =>
    /\ Exists(j.id.payment) /\ ~Staged(j.id.payment)
    /\ j.id.already + j.id.amount <= Amount

\* Whoever is about to capture a gateway payment saw its order paid.
CaptureIsPaid(j) ==
  j.step = "capture" /\ pay[j.payment].provider = "cashfree" => order[j.payment] = "PAID"

\* Under its lock a refund's payment stays captured and its ledger as it was read.
LockHolds(q, j) ==
  j.step \in {"submit", "record"} =>
    /\ lock[j.id.payment] = q
    /\ Has(j.id.payment, {"CAPTURED"})
    /\ GivenBack(j.id.payment) = j.id.already
    /\ j.step = "record" /\ pay[j.id.payment].provider = "cashfree" => j.id \in accepted

JobFits(q, j) == RowIsThere(j) /\ RefundIsDue(j) /\ CaptureIsPaid(j) /\ LockHolds(q, j)

RequestsFit == \A q \in Asker : JobFits(q, req[q])

EventsTrue == \A p \in Payment : <<p, "SUCCESS">> \in events => order[p] = "PAID"

\* The refunds booked follow each other.
RefundsFollow ==
  /\ IsFiniteSet(refunds)
  /\ \A x \in refunds :
       /\ Has(x.id.payment, {"CAPTURED", "REFUNDED"}) /\ ~Staged(x.id.payment)
       /\ x.id.already + x.id.amount <= GivenBack(x.id.payment)

PaymentsInv ==
  /\ PaymentsTypeOK /\ PaymentsAgree
  /\ RequestsFit /\ EventsTrue /\ RefundsFollow

LEMMA InitPayments == PaymentsInit => PaymentsInv
<1> SUFFICES ASSUME PaymentsInit PROVE PaymentsInv
  OBVIOUS
<1>1. /\ \A p \in Payment : pay[p] = Nil /\ lock[p] = Nil /\ order[p] = "none"
      /\ refunds = {} /\ accepted = {} /\ events = {}
      /\ \A q \in Asker : req[q] = Idle
      /\ \A r \in Ride : ride[r] = "booked"
  BY DEF PaymentsInit
<1>2. PaymentsTypeOK
  BY DEF PaymentsInit, PaymentsTypeOK, RidePhase
<1>3. OneLivePayment /\ StagesGateRide /\ CaptureIsBacked
  <2>1. planned \subseteq Ride
    BY <1>2 DEF PaymentsTypeOK
  <2> QED
    BY <1>1, <2>1 DEF OneLivePayment, StagesGateRide, CaptureIsBacked, Has, Exists
<1>4. LedgerFollowsGateway
  <2>1. \A p \in Payment : GivenBack(p) = 0 /\ Confirmed(p) = 0
    <3>1. \A p \in Payment : Given(p) = {} /\ {x \in Given(p) : x.status = "SUCCESS"} = {}
      BY <1>1 DEF Given
    <3> QED
      BY <3>1, WorthOfNothing DEF GivenBack, Confirmed
  <2> QED
    BY <1>1, <2>1, PaymentsAssumption DEF LedgerFollowsGateway, Has, Exists
<1>5. RequestsFit
  <2>1. Idle.step = "idle"
    BY DEF Idle
  <2> QED
    BY <1>1, <2>1 DEF RequestsFit, JobFits, RowIsThere, RefundIsDue, CaptureIsPaid, LockHolds,
       RowSteps, RefundSteps
<1>6. EventsTrue /\ RefundsFollow
  BY <1>1, FS_EmptySet DEF EventsTrue, RefundsFollow
<1> QED
  BY <1>2, <1>3, <1>4, <1>5, <1>6 DEF PaymentsInv, PaymentsAgree

-----------------------------------------------------------------------------
(* What a step leaves to the requests that do not take it.                 *)

RowsStay ==
  \A p \in Payment : Exists(p) =>
    /\ pay'[p] # Nil
    /\ pay'[p].ride = pay[p].ride /\ pay'[p].stage = pay[p].stage
    /\ pay'[p].provider = pay[p].provider

OrdersStay == \A p \in Payment : order[p] = "PAID" => order'[p] = "PAID"

LocksStay(q) ==
  \A p \in Payment : lock[p] = q /\ Exists(p) =>
    /\ lock'[p] = q /\ pay'[p] = pay[p]
    /\ {x \in refunds' : x.id.payment = p} = Given(p)

LEMMA JobKinds ==
  ASSUME NEW j \in PaymentJob
  PROVE  /\ j.step \in RowSteps => j \in RowJob /\ j.payment \in Payment
         /\ j.step \in RefundSteps =>
              /\ j.id \in RefundId /\ j.id.payment \in Payment
              /\ j.id.already \in 0..Amount /\ j.id.amount \in 1..Amount
         /\ j.step = "record" => j.outcome \in {"SUCCESS", "PENDING"}
         /\ j.step = "insert" => j.ride \in Ride /\ j.provider \in Provider
BY DEF PaymentJob, Idle, InsertJob, RowJob, RefundJob, RecordJob, RefundId, RowSteps, RefundSteps

LEMMA JobStays ==
  ASSUME NEW q \in Asker, NEW j \in PaymentJob, JobFits(q, j),
         RowsStay, OrdersStay, LocksStay(q), accepted \subseteq accepted'
  PROVE  JobFits(q, j)'
<1>1. RowIsThere(j)'
  BY JobKinds DEF JobFits, RowIsThere, RowsStay, Exists
<1>2. RefundIsDue(j)'
  BY JobKinds DEF JobFits, RefundIsDue, RowsStay, Exists, Staged
<1>3. CaptureIsPaid(j)'
  <2>1. j.step = "capture" => j.payment \in Payment /\ Exists(j.payment)
    BY JobKinds DEF JobFits, RowIsThere, RowSteps
  <2> QED
    BY <2>1 DEF JobFits, CaptureIsPaid, RowsStay, OrdersStay
<1>4. LockHolds(q, j)'
  <2> SUFFICES ASSUME j.step \in {"submit", "record"} PROVE LockHolds(q, j)'
    BY DEF LockHolds
  <2> DEFINE p == j.id.payment
  <2>1. p \in Payment /\ lock[p] = q /\ Has(p, {"CAPTURED"}) /\ GivenBack(p) = j.id.already
    BY JobKinds DEF JobFits, LockHolds, RefundSteps
  <2>2. lock'[p] = q /\ pay'[p] = pay[p] /\ Given(p)' = Given(p)
    BY <2>1 DEF LocksStay, Given, Has
  <2>3. Has(p, {"CAPTURED"})' /\ GivenBack(p)' = j.id.already
    BY <2>1, <2>2 DEF Has, Exists, GivenBack
  <2>4. j.step = "record" /\ pay[p].provider = "cashfree" => j.id \in accepted
    BY DEF JobFits, LockHolds
  <2> QED
    BY <2>2, <2>3, <2>4 DEF LockHolds
<1> QED
  BY <1>1, <1>2, <1>3, <1>4 DEF JobFits

\* One request moves on, or none does.
LEMMA RequestsStay ==
  ASSUME PaymentsInv, NEW Q \in SUBSET Asker,
         req' \in [Asker -> PaymentJob],
         \A r \in Asker \ Q : req'[r] = req[r],
         \A r \in Q, j \in PaymentJob : req'[r] = j => JobFits(r, j)',
         RowsStay, OrdersStay, accepted \subseteq accepted',
         \A r \in Asker \ Q : LocksStay(r)
  PROVE  RequestsFit'
<1> SUFFICES ASSUME NEW r \in Asker PROVE JobFits(r, req[r])'
  BY DEF RequestsFit
<1>1. PICK j \in PaymentJob : j = req'[r]
  OBVIOUS
<1>2. JobFits(r, j)'
  <2>1. CASE r \in Q
    BY <1>1, <2>1
  <2>2. CASE r \notin Q
    <3>1. JobFits(r, j)
      BY <1>1, <2>2 DEF PaymentsInv, RequestsFit
    <3> QED
      BY <2>2, <3>1, JobStays
  <2> QED
    BY <2>1, <2>2
<1> QED
  BY <1>1, <1>2 DEF JobFits, RowIsThere, RefundIsDue, CaptureIsPaid, LockHolds

\* A request that takes a step goes on to a job that fits the new state.
LEMMA RequestMoves ==
  ASSUME PaymentsInv, NEW q \in Asker, NEW task \in PaymentJob, Does(q, task), JobFits(q, task)',
         RowsStay, OrdersStay, accepted \subseteq accepted',
         \A r \in Asker \ {q} : LocksStay(r)
  PROVE  RequestsFit' /\ req' \in [Asker -> PaymentJob]
<1>1. req \in [Asker -> PaymentJob] /\ req' = [req EXCEPT ![q] = task]
  BY DEF PaymentsInv, PaymentsTypeOK, PaymentJob, Does
<1>2. req' \in [Asker -> PaymentJob] /\ req'[q] = task /\ \A r \in Asker \ {q} : req'[r] = req[r]
  BY <1>1
<1>3. \A r \in {q}, j \in PaymentJob : req'[r] = j => JobFits(r, j)'
  <2> SUFFICES ASSUME NEW r \in {q}, NEW j \in PaymentJob, req'[r] = j PROVE JobFits(r, j)'
    OBVIOUS
  <2>1. r = q /\ j = task
    BY <1>2
  <2> QED
    BY <2>1 DEF JobFits, RowIsThere, RefundIsDue, CaptureIsPaid, LockHolds
<1>4. \A r \in Asker \ {q} : req'[r] = req[r]
  BY <1>2
<1> DEFINE Q == {q}
<1>5. Q \in SUBSET Asker
  OBVIOUS
<1>6. /\ \A r \in Asker \ Q : req'[r] = req[r]
      /\ \A r \in Q, j \in PaymentJob : req'[r] = j => JobFits(r, j)'
      /\ \A r \in Asker \ Q : LocksStay(r)
  BY <1>3, <1>4
<1> HIDE DEF Q
<1>7. RequestsFit'
  BY <1>2, <1>5, <1>6, RequestsStay
<1> QED
  BY <1>2, <1>7

LEMMA NothingElseMoves ==
  ASSUME PaymentsInv, UNCHANGED <<ride, planned, rows, gateway>>
  PROVE  PaymentsAgree' /\ EventsTrue' /\ RefundsFollow'
<1>1. /\ ride' = ride /\ planned' = planned /\ pay' = pay /\ refunds' = refunds
      /\ order' = order /\ accepted' = accepted /\ events' = events
  BY DEF rows, gateway
<1>2. OneLivePayment'
  BY <1>1 DEF PaymentsInv, PaymentsAgree, OneLivePayment, Has, Exists
<1>3. StagesGateRide'
  BY <1>1 DEF PaymentsInv, PaymentsAgree, StagesGateRide, UpfrontPaid, Upfront, Has, Exists
<1>4. CaptureIsBacked'
  BY <1>1 DEF PaymentsInv, PaymentsAgree, CaptureIsBacked, Has, Exists, Staged
<1>5. \A p : GivenBack(p)' = GivenBack(p) /\ Confirmed(p)' = Confirmed(p)
  BY <1>1 DEF GivenBack, Confirmed, Given
<1>6. LedgerFollowsGateway'
  BY <1>1, <1>5 DEF PaymentsInv, PaymentsAgree, LedgerFollowsGateway, Has, Exists
<1>7. EventsTrue' /\ RefundsFollow'
  BY <1>1, <1>5 DEF PaymentsInv, EventsTrue, RefundsFollow, Has, Exists, Staged
<1> QED
  BY <1>2, <1>3, <1>4, <1>6, <1>7 DEF PaymentsAgree

LEMMA RequestOnly ==
  ASSUME PaymentsInv, NEW q \in Asker, NEW task \in PaymentJob, Does(q, task), JobFits(q, task),
         UNCHANGED <<ride, planned, rows, lock, gateway>>
  PROVE  PaymentsInv'
<1>1. /\ ride' = ride /\ planned' = planned /\ pay' = pay /\ refunds' = refunds /\ lock' = lock
      /\ order' = order /\ accepted' = accepted /\ events' = events
  BY DEF rows, gateway
<1>2. JobFits(q, task)'
  BY <1>1 DEF JobFits, RowIsThere, RefundIsDue, CaptureIsPaid, LockHolds, Exists, Staged, Has, GivenBack, Given
<1>3. RowsStay /\ OrdersStay /\ \A r \in Asker : LocksStay(r)
  BY <1>1 DEF RowsStay, OrdersStay, LocksStay, Exists, Given
<1>4. RequestsFit' /\ req' \in [Asker -> PaymentJob]
  BY <1>1, <1>2, <1>3, RequestMoves
<1>5. PaymentsTypeOK'
  BY <1>1, <1>4 DEF PaymentsInv, PaymentsTypeOK, PaymentJob
<1>6. PaymentsAgree' /\ EventsTrue' /\ RefundsFollow'
  BY <1>1, NothingElseMoves DEF rows, gateway
<1> QED
  BY <1>4, <1>5, <1>6 DEF PaymentsInv

LEMMA RowStepJob ==
  ASSUME NEW p \in Payment, NEW step \in RowSteps
  PROVE  /\ RowStep(step, p) \in PaymentJob
         /\ RowStep(step, p).step = step /\ RowStep(step, p).payment = p
BY DEF RowStep, RowSteps, PaymentJob, RowJob

LEMMA IdleFits == ASSUME NEW q \in Asker PROVE Idle \in PaymentJob /\ JobFits(q, Idle)
BY DEF PaymentJob, Idle, JobFits, RowIsThere, RefundIsDue, CaptureIsPaid, LockHolds, RowSteps, RefundSteps

LEMMA RowStepFits ==
  ASSUME NEW q \in Asker, NEW p \in Payment, NEW step \in RowSteps, Exists(p),
         step = "capture" /\ pay[p].provider = "cashfree" => order[p] = "PAID"
  PROVE  JobFits(q, RowStep(step, p))
<1>1. RowStep(step, p).step = step /\ RowStep(step, p).payment = p
  BY RowStepJob
<1> QED
  BY <1>1 DEF JobFits, RowIsThere, RefundIsDue, CaptureIsPaid, LockHolds, RowSteps, RefundSteps

LEMMA BeginInitiateKeeps ==
  ASSUME PaymentsInv, NEW q \in Asker, NEW r \in Ride, NEW prov \in Provider,
         BeginInitiate(q, r, prov)
  PROVE  PaymentsInv'
<1> DEFINE task == [step |-> "insert", ride |-> r, provider |-> prov]
<1>1. task \in PaymentJob
  BY DEF PaymentJob, InsertJob
<1>2. JobFits(q, task)
  BY DEF JobFits, RowIsThere, RefundIsDue, CaptureIsPaid, LockHolds, RowSteps, RefundSteps
<1> QED
  BY <1>1, <1>2, RequestOnly DEF BeginInitiate

LEMMA ResumeCheckoutKeeps ==
  ASSUME PaymentsInv, NEW q \in Asker, NEW p \in Payment,
         ResumeCheckout(q, p)
  PROVE  PaymentsInv'
<1>1. RowStep("order", p) \in PaymentJob
  BY RowStepJob DEF RowSteps
<1>2. JobFits(q, RowStep("order", p))
  BY RowStepFits DEF ResumeCheckout, Has, RowSteps
<1> QED
  BY <1>1, <1>2, RequestOnly DEF ResumeCheckout

LEMMA BeginCaptureKeeps ==
  ASSUME PaymentsInv, NEW q \in Asker, NEW p \in Payment,
         BeginCapture(q, p)
  PROVE  PaymentsInv'
<1>1. RowStep("capture", p) \in PaymentJob /\ RowStep("verify", p) \in PaymentJob
  BY RowStepJob DEF RowSteps
<1>2. JobFits(q, RowStep("verify", p))
  BY RowStepFits DEF BeginCapture, Has, RowSteps
<1>3. pay[p].provider = "cash" => JobFits(q, RowStep("capture", p))
  BY RowStepFits DEF BeginCapture, Has, RowSteps
<1>4. UNCHANGED <<ride, planned, rows, lock, gateway>>
  BY DEF BeginCapture
<1> QED
  BY <1>1, <1>2, <1>3, <1>4, RequestOnly DEF BeginCapture

LEMMA ReceiveWebhookKeeps ==
  ASSUME PaymentsInv, NEW q \in Asker, NEW p \in Payment,
         ReceiveWebhook(q, p)
  PROVE  PaymentsInv'
<1>1. RowStep("capture", p) \in PaymentJob /\ RowStep("fail", p) \in PaymentJob
  BY RowStepJob DEF RowSteps
<1>2. JobFits(q, RowStep("fail", p))
  BY RowStepFits DEF ReceiveWebhook, RowSteps
<1>3. <<p, "SUCCESS">> \in events => JobFits(q, RowStep("capture", p))
  BY RowStepFits DEF ReceiveWebhook, RowSteps, PaymentsInv, EventsTrue
<1>4. UNCHANGED <<ride, planned, rows, lock, gateway>>
  BY DEF ReceiveWebhook
<1> QED
  BY <1>1, <1>2, <1>3, <1>4, RequestOnly DEF ReceiveWebhook

LEMMA ConfirmCashKeeps ==
  ASSUME PaymentsInv, NEW q \in Asker, NEW p \in Payment,
         ConfirmCash(q, p)
  PROVE  PaymentsInv'
<1>1. RowStep("capture", p) \in PaymentJob
  BY RowStepJob DEF RowSteps
<1>2. JobFits(q, RowStep("capture", p))
  BY RowStepFits DEF ConfirmCash, Staged, RowSteps
<1> QED
  BY <1>1, <1>2, RequestOnly DEF ConfirmCash

LEMMA VerifyKeeps ==
  ASSUME PaymentsInv, NEW q \in Asker,
         Verify(q)
  PROVE  PaymentsInv'
<1> DEFINE o == req[q].payment
<1>1. req[q] \in PaymentJob /\ JobFits(q, req[q]) /\ req[q].step = "verify"
  BY DEF Verify, At, PaymentsInv, PaymentsTypeOK, PaymentJob, RequestsFit
<1>2. o \in Payment /\ Exists(o)
  BY <1>1, JobKinds DEF JobFits, RowIsThere, RowSteps
<1>3. RowStep("capture", o) \in PaymentJob /\ RowStep("fail", o) \in PaymentJob
  BY <1>2, RowStepJob DEF RowSteps
<1>4. JobFits(q, RowStep("fail", o))
  BY <1>2, RowStepFits DEF RowSteps
<1>5. order[o] = "PAID" => JobFits(q, RowStep("capture", o))
  BY <1>2, RowStepFits DEF RowSteps
<1>6. UNCHANGED <<ride, planned, rows, lock, gateway>>
  BY DEF Verify
<1>7. CASE order[o] = "PAID"
  <2>1. Does(q, RowStep("capture", o))
    BY <1>7 DEF Verify
  <2> QED
    BY <1>3, <1>5, <1>6, <1>7, <2>1, RequestOnly
<1>8. CASE order[o] = "EXPIRED"
  <2>1. Does(q, RowStep("fail", o))
    BY <1>8 DEF Verify
  <2> QED
    BY <1>3, <1>4, <1>6, <2>1, RequestOnly
<1>9. CASE order[o] \notin {"PAID", "EXPIRED"}
  <2>1. Does(q, Idle)
    BY <1>9 DEF Verify, Ends
  <2> QED
    BY <1>6, <2>1, IdleFits, RequestOnly
<1> QED
  BY <1>7, <1>8, <1>9

LEMMA BeginRefundKeeps ==
  ASSUME PaymentsInv, NEW q \in Asker, NEW p \in Payment, NEW a \in 1..Amount,
         BeginRefund(q, p, a)
  PROVE  PaymentsInv'
<1> DEFINE id == [payment |-> p, already |-> GivenBack(p), amount |-> a]
           task == [step |-> "refund", id |-> id]
<1>1. Given(p) \in SUBSET Refund /\ IsFiniteSet(Given(p))
  BY FS_Subset DEF PaymentsInv, PaymentsTypeOK, RefundsFollow, Given
<1>2. GivenBack(p) \in Nat
  BY <1>1, WorthIsNatural DEF GivenBack
<1>3. GivenBack(p) + a <= Amount
  BY DEF BeginRefund
<1>4. id \in RefundId
  BY <1>2, <1>3, PaymentsAssumption DEF RefundId
<1>5. task \in PaymentJob
  BY <1>4 DEF PaymentJob, RefundJob
<1>6. JobFits(q, task)
  BY <1>3 DEF BeginRefund, JobFits, RowIsThere, RefundIsDue, CaptureIsPaid, LockHolds, RowSteps,
     RefundSteps, Has
<1> QED
  BY <1>5, <1>6, RequestOnly DEF BeginRefund

\* The stages' rule after a step, with the ride of a row named.
LEMMA StagesGateNext ==
  ASSUME \A r \in planned' : ride'[r] \in {"in_progress", "completed"} => UpfrontPaid(r)',
         \A o \in Payment : \A r : Has(o, {"CAPTURED"})' /\ pay'[o].stage = "final" /\ r = pay'[o].ride
           => ride'[r] = "completed" /\ UpfrontPaid(r)'
  PROVE  StagesGateRide'
BY DEF StagesGateRide, UpfrontPaid, Upfront, Has, Exists

\* What a row may become: nothing that was captured or given back is taken
\* back, and nothing is captured without cause.
RowMayBe(p, x) ==
  /\ Exists(p) => /\ lock[p] = Nil
                  /\ x.ride = pay[p].ride /\ x.stage = pay[p].stage /\ x.provider = pay[p].provider
  /\ x.status \in LiveStatus =>
       \A o \in Payment \ {p} : ~(Has(o, LiveStatus) /\ pay[o].ride = x.ride /\ pay[o].stage = x.stage)
  /\ Has(p, {"CAPTURED"}) => x.status = "CAPTURED"
  /\ Has(p, {"REFUNDED"}) <=> x.status = "REFUNDED"
  /\ x.status \in {"CAPTURED", "REFUNDED"} =>
       /\ x.provider = "cashfree" => order[p] = "PAID"
       /\ x.provider = "cash" /\ x.stage # "none" => x.claimed
  /\ x.status = "CAPTURED" /\ x.stage = "final" => ride[x.ride] = "completed" /\ UpfrontPaid(x.ride)

\* A row is opened, linked, claimed, captured or failed.
LEMMA RowChange ==
  ASSUME PaymentsInv, NEW p \in Payment, NEW x \in PaymentRow,
         pay' = [pay EXCEPT ![p] = x],
         UNCHANGED <<ride, planned, refunds, lock, gateway>>,
         RowMayBe(p, x)
  PROVE  /\ PaymentsAgree' /\ EventsTrue' /\ RefundsFollow'
         /\ RowsStay /\ OrdersStay /\ \A r \in Asker : LocksStay(r)
         /\ pay' \in [Payment -> PaymentRow \cup {Nil}]
<1>1. /\ ride' = ride /\ planned' = planned /\ refunds' = refunds /\ lock' = lock
      /\ order' = order /\ accepted' = accepted /\ events' = events
  BY DEF gateway
<1> USE DEF RowMayBe
<1>2. /\ pay \in [Payment -> PaymentRow \cup {Nil}] /\ pay' \in [Payment -> PaymentRow \cup {Nil}]
      /\ pay'[p] = x /\ \A o \in Payment \ {p} : pay'[o] = pay[o]
  BY DEF PaymentsInv, PaymentsTypeOK
<1>3. x # Nil
  BY PaymentsAssumption
<1>4. \A o \in Payment \ {p} : \A S : Has(o, S)' <=> Has(o, S)
  BY <1>2 DEF Has, Exists
<1>5. \A S : Has(p, S)' <=> x.status \in S
  BY <1>2, <1>3 DEF Has, Exists
<1>6. OneLivePayment'
  <2> SUFFICES ASSUME NEW o \in Payment, NEW u \in Payment, Has(o, LiveStatus)', Has(u, LiveStatus)',
                      pay'[o].ride = pay'[u].ride, pay'[o].stage = pay'[u].stage, o # u
               PROVE FALSE
    BY DEF OneLivePayment, LiveStatus
  <2>1. CASE o # p /\ u # p
    BY <1>2, <1>4, <2>1 DEF PaymentsInv, PaymentsAgree, OneLivePayment
  <2>2. CASE o = p
    BY <1>2, <1>4, <1>5, <2>2
  <2>3. CASE u = p
    BY <1>2, <1>4, <1>5, <2>3
  <2> QED
    BY <2>1, <2>2, <2>3
<1>7. \A r : UpfrontPaid(r) => UpfrontPaid(r)'
  <2> SUFFICES ASSUME NEW r, UpfrontPaid(r) PROVE UpfrontPaid(r)'
    OBVIOUS
  <2>1. PICK o \in Payment : Upfront(r, o)
    BY DEF UpfrontPaid
  <2>2. Has(o, {"CAPTURED"}) /\ pay[o].ride = r /\ pay[o].stage = "upfront"
    BY <2>1 DEF Upfront
  <2>3. Has(o, {"CAPTURED"})' /\ pay'[o].ride = r /\ pay'[o].stage = "upfront"
    <3>1. CASE o = p
      BY <1>2, <1>5, <2>2, <3>1 DEF Has
    <3>2. CASE o # p
      BY <1>2, <1>4, <2>2, <3>2
    <3> QED
      BY <3>1, <3>2
  <2> QED
    BY <2>3 DEF UpfrontPaid, Upfront
<1>8. StagesGateRide'
  <2>1. \A r \in planned' : ride'[r] \in {"in_progress", "completed"} => UpfrontPaid(r)'
    BY <1>1, <1>7 DEF PaymentsInv, PaymentsAgree, StagesGateRide
  <2>2. ASSUME NEW o \in Payment, NEW r, Has(o, {"CAPTURED"})', pay'[o].stage = "final", r = pay'[o].ride
        PROVE  ride'[r] = "completed" /\ UpfrontPaid(r)'
    <3>1. ride[r] = "completed" /\ UpfrontPaid(r)
      <4>1. CASE o = p
        <5>1. x.status = "CAPTURED" /\ x.stage = "final" /\ r = x.ride
          BY <1>2, <1>5, <2>2, <4>1
        <5> QED
          BY <5>1
      <4>2. CASE o # p
        <5>1. Has(o, {"CAPTURED"}) /\ pay[o].stage = "final" /\ r = pay[o].ride
          BY <1>2, <1>4, <2>2, <4>2
        <5> QED
          BY <5>1 DEF PaymentsInv, PaymentsAgree, StagesGateRide
      <4> QED
        BY <4>1, <4>2
    <3> QED
      BY <1>1, <1>7, <3>1
  <2> QED
    BY <2>1, <2>2, StagesGateNext
<1>9. CaptureIsBacked'
  <2> SUFFICES ASSUME NEW o \in Payment, Has(o, {"CAPTURED", "REFUNDED"})'
               PROVE  /\ pay'[o].provider = "cashfree" => order'[o] = "PAID"
                      /\ pay'[o].provider = "cash" /\ pay'[o].stage # "none" => pay'[o].claimed
    BY DEF CaptureIsBacked, Staged
  <2>1. CASE o = p
    BY <1>1, <1>2, <1>5, <2>1
  <2>2. CASE o # p
    BY <1>1, <1>2, <1>4, <2>2 DEF PaymentsInv, PaymentsAgree, CaptureIsBacked, Staged, Has
  <2> QED
    BY <2>1, <2>2
<1>10. \A o : GivenBack(o)' = GivenBack(o) /\ Confirmed(o)' = Confirmed(o)
  BY <1>1 DEF GivenBack, Confirmed, Given
<1>11. \A o \in Payment : Has(o, {"REFUNDED"})' <=> Has(o, {"REFUNDED"})
  <2>1. Has(p, {"REFUNDED"})' <=> x.status = "REFUNDED"
    BY <1>5
  <2> QED
    BY <1>4, <2>1
<1>12. \A y \in refunds :
         /\ y.id.payment \in Payment /\ Exists(y.id.payment)
         /\ pay'[y.id.payment].provider = pay[y.id.payment].provider
         /\ pay'[y.id.payment].stage = pay[y.id.payment].stage
         /\ Has(y.id.payment, {"CAPTURED", "REFUNDED"})'
  <2> SUFFICES ASSUME NEW y \in refunds, NEW o, o = y.id.payment
               PROVE  /\ o \in Payment /\ Exists(o)
                      /\ pay'[o].provider = pay[o].provider /\ pay'[o].stage = pay[o].stage
                      /\ Has(o, {"CAPTURED", "REFUNDED"})'
    OBVIOUS
  <2>1. o \in Payment
    BY DEF PaymentsInv, PaymentsTypeOK, Refund, RefundId
  <2>2. Has(o, {"CAPTURED", "REFUNDED"})
    BY DEF PaymentsInv, RefundsFollow
  <2>3. CASE o = p
    BY <1>2, <1>5, <2>2, <2>3 DEF Has
  <2>4. CASE o # p
    BY <1>2, <1>4, <2>1, <2>2, <2>4 DEF Has
  <2> QED
    BY <2>1, <2>3, <2>4
<1>13. LedgerFollowsGateway'
  BY <1>1, <1>10, <1>11, <1>12 DEF PaymentsInv, PaymentsAgree, LedgerFollowsGateway
<1>14. RefundsFollow'
  <2>1. \A y \in refunds : ~Staged(y.id.payment)'
    BY <1>12 DEF PaymentsInv, RefundsFollow, Staged
  <2> QED
    BY <1>1, <1>10, <1>12, <2>1 DEF PaymentsInv, RefundsFollow
<1>15. EventsTrue' /\ OrdersStay
  BY <1>1 DEF PaymentsInv, EventsTrue, OrdersStay
<1>16. RowsStay
  <2> SUFFICES ASSUME NEW o \in Payment, Exists(o)
               PROVE  /\ pay'[o] # Nil
                      /\ pay'[o].ride = pay[o].ride /\ pay'[o].stage = pay[o].stage
                      /\ pay'[o].provider = pay[o].provider
    BY DEF RowsStay
  <2>1. CASE o = p
    BY <1>2, <1>3, <2>1
  <2>2. CASE o # p
    BY <1>2, <2>2 DEF Exists
  <2> QED
    BY <2>1, <2>2
<1>17. \A r \in Asker : LocksStay(r)
  <2>1. \A o \in Payment : lock[o] \in Asker /\ Exists(o) => o # p
    BY PaymentsAssumption
  <2> QED
    BY <1>1, <1>2, <2>1 DEF LocksStay, Given
<1> QED
  BY <1>2, <1>6, <1>8, <1>9, <1>13, <1>14, <1>15, <1>16, <1>17 DEF PaymentsAgree

LEMMA NoRequestMoves ==
  ASSUME PaymentsInv, req' = req, RowsStay, OrdersStay, accepted \subseteq accepted',
         \A r \in Asker : LocksStay(r)
  PROVE  RequestsFit'
<1> DEFINE Q == {}
<1>1. req' \in [Asker -> PaymentJob]
  BY DEF PaymentsInv, PaymentsTypeOK, PaymentJob
<1>2. /\ Q \in SUBSET Asker
      /\ \A r \in Asker \ Q : req'[r] = req[r]
      /\ \A r \in Q, j \in PaymentJob : req'[r] = j => JobFits(r, j)'
      /\ \A r \in Asker \ Q : LocksStay(r)
  OBVIOUS
<1> HIDE DEF Q
<1> QED
  BY <1>1, <1>2, RequestsStay

LEMMA RowWrites ==
  ASSUME PaymentsInv, NEW p \in Payment, NEW x \in PaymentRow,
         pay' = [pay EXCEPT ![p] = x],
         UNCHANGED <<ride, planned, refunds, lock, gateway>>,
         RowMayBe(p, x),
         NEW q \in Asker, NEW task \in {Idle, RowStep("order", p)}, Does(q, task)
  PROVE  PaymentsInv'
<1>1. /\ PaymentsAgree' /\ EventsTrue' /\ RefundsFollow'
      /\ RowsStay /\ OrdersStay /\ \A r \in Asker : LocksStay(r)
      /\ pay' \in [Payment -> PaymentRow \cup {Nil}]
  BY RowChange
<1>2. JobFits(q, task)'
  <2>1. CASE task = Idle
    BY <2>1, IdleFits DEF Idle, JobFits, RowIsThere, RefundIsDue, CaptureIsPaid, LockHolds, RowSteps, RefundSteps
  <2>2. CASE task = RowStep("order", p)
    <3>1. task.step = "order" /\ task.payment = p
      BY <2>2, RowStepJob DEF RowSteps
    <3>2. pay'[p] # Nil
      BY PaymentsAssumption DEF PaymentsInv, PaymentsTypeOK
    <3> QED
      BY <3>1, <3>2 DEF JobFits, RowIsThere, RefundIsDue, CaptureIsPaid, LockHolds, RowSteps, RefundSteps, Exists
  <2> QED
    BY <2>1, <2>2
<1>3. task \in PaymentJob
  BY RowStepJob, IdleFits DEF RowSteps
<1>4. RequestsFit' /\ req' \in [Asker -> PaymentJob]
  BY <1>1, <1>2, <1>3, RequestMoves DEF gateway
<1>5. PaymentsTypeOK'
  BY <1>1, <1>4 DEF PaymentsInv, PaymentsTypeOK, PaymentJob, gateway
<1> QED
  BY <1>1, <1>4, <1>5 DEF PaymentsInv

LEMMA NewRowMayBe ==
  ASSUME PaymentsInv, NEW p \in Payment, pay[p] = Nil, NEW r \in Ride, NEW s \in Stage, ~Taken(r, s),
         NEW prov \in Provider
  PROVE  NewRow(r, s, prov) \in PaymentRow /\ RowMayBe(p, NewRow(r, s, prov))
<1> DEFINE x == NewRow(r, s, prov)
<1>1. x \in PaymentRow
  BY DEF NewRow, PaymentRow, PaymentStatus
<1>2. x.ride = r /\ x.stage = s /\ x.provider = prov /\ x.status = "INITIATED"
  BY DEF NewRow
<1>3. \A o \in Payment : ~(Has(o, LiveStatus) /\ pay[o].ride = r /\ pay[o].stage = s)
  BY DEF Taken
<1> QED
  BY <1>1, <1>2, <1>3 DEF RowMayBe, Has, Exists

\* A request of a row step: its row is there.
LEMMA RowStepTaken ==
  ASSUME PaymentsInv, NEW q \in Asker, NEW step \in RowSteps, At(q, step)
  PROVE  /\ req[q].payment \in Payment /\ Exists(req[q].payment)
         /\ pay[req[q].payment] \in PaymentRow
         /\ step = "capture" /\ pay[req[q].payment].provider = "cashfree" => order[req[q].payment] = "PAID"
<1>1. req[q] \in PaymentJob /\ JobFits(q, req[q]) /\ req[q].step = step
  BY DEF At, PaymentsInv, PaymentsTypeOK, PaymentJob, RequestsFit
<1>2. req[q].payment \in Payment /\ Exists(req[q].payment)
  BY <1>1, JobKinds DEF JobFits, RowIsThere
<1> QED
  BY <1>1, <1>2 DEF JobFits, CaptureIsPaid, PaymentsInv, PaymentsTypeOK, Exists

LEMMA RowFields ==
  ASSUME NEW x \in PaymentRow, NEW s \in PaymentStatus
  PROVE  /\ [x EXCEPT !.status = s] \in PaymentRow
         /\ [x EXCEPT !.status = s].status = s
         /\ [x EXCEPT !.status = s].ride = x.ride /\ [x EXCEPT !.status = s].stage = x.stage
         /\ [x EXCEPT !.status = s].provider = x.provider /\ [x EXCEPT !.status = s].claimed = x.claimed
BY DEF PaymentRow

\* Live rows differ, so one that stays live stands alone.
LEMMA LiveAlone ==
  ASSUME PaymentsInv, NEW p \in Payment, Has(p, LiveStatus)
  PROVE  \A o \in Payment \ {p} :
           ~(Has(o, LiveStatus) /\ pay[o].ride = pay[p].ride /\ pay[o].stage = pay[p].stage)
BY DEF PaymentsInv, PaymentsAgree, OneLivePayment

LEMMA InsertPaymentKeeps ==
  ASSUME PaymentsInv, NEW q \in Asker, NEW p \in Payment, InsertPayment(q, p)
  PROVE  PaymentsInv'
<1> DEFINE task == req[q]
           x == NewRow(task.ride, "none", task.provider)
<1>1. task \in PaymentJob /\ task.step = "insert"
  BY DEF InsertPayment, At, PaymentsInv, PaymentsTypeOK, PaymentJob
<1>2. task.ride \in Ride /\ task.provider \in Provider
  BY <1>1, JobKinds
<1>3. UNCHANGED <<ride, planned, refunds, lock, gateway>>
  BY DEF InsertPayment
<1>4. CASE pay' = [pay EXCEPT ![p] = x] /\ AfterRow(q, p, task.provider) /\ ~Taken(task.ride, "none")
  <2>1. x \in PaymentRow /\ RowMayBe(p, x)
    BY <1>2, <1>4, NewRowMayBe DEF InsertPayment, Stage
  <2>2. PICK next \in {Idle, RowStep("order", p)} : Does(q, next)
    BY <1>4 DEF AfterRow, Ends
  <2> HIDE DEF x
  <2> QED
    BY <1>3, <1>4, <2>1, <2>2, RowWrites
<1>5. CASE Ends(q) /\ UNCHANGED pay
  BY <1>3, <1>5, IdleFits, RequestOnly DEF Ends, rows
<1> QED
  BY <1>4, <1>5 DEF InsertPayment

LEMMA InitiateStageKeeps ==
  ASSUME PaymentsInv, NEW q \in Asker, NEW p \in Payment, NEW r \in Ride, NEW s \in {"upfront", "final"},
         NEW prov \in Provider, InitiateStage(q, p, r, s, prov)
  PROVE  PaymentsInv'
<1> DEFINE x == NewRow(r, s, prov)
<1>1. UNCHANGED <<ride, planned, refunds, lock, gateway>>
  BY DEF InitiateStage
<1>2. CASE pay[p] = Nil /\ ~Taken(r, s) /\ pay' = [pay EXCEPT ![p] = x] /\ AfterRow(q, p, prov)
  <2>1. x \in PaymentRow /\ RowMayBe(p, x)
    BY <1>2, NewRowMayBe DEF Stage
  <2>2. PICK next \in {Idle, RowStep("order", p)} : Does(q, next)
    BY <1>2 DEF AfterRow, Ends
  <2> HIDE DEF x
  <2> QED
    BY <1>1, <1>2, <2>1, <2>2, RowWrites
<1>3. CASE Has(p, {"INITIATED"}) /\ Does(q, RowStep("order", p)) /\ UNCHANGED pay
  <2>1. RowStep("order", p) \in PaymentJob /\ JobFits(q, RowStep("order", p))
    BY <1>3, RowStepJob, RowStepFits DEF RowSteps, Has
  <2> QED
    BY <1>1, <1>3, <2>1, RequestOnly DEF rows
<1> QED
  BY <1>2, <1>3 DEF InitiateStage

LEMMA LinkOrderKeeps ==
  ASSUME PaymentsInv, NEW q \in Asker, LinkOrder(q)
  PROVE  PaymentsInv'
<1>1. PICK p : p = req[q].payment
  OBVIOUS
<1>2. p \in Payment /\ Exists(p) /\ pay[p] \in PaymentRow
  BY <1>1, RowStepTaken DEF LinkOrder, RowSteps
<1>3. PICK x : x = [pay[p] EXCEPT !.linked = TRUE]
  OBVIOUS
<1>4. /\ x \in PaymentRow /\ x.ride = pay[p].ride /\ x.stage = pay[p].stage /\ x.provider = pay[p].provider
      /\ x.status = pay[p].status /\ x.claimed = pay[p].claimed
  BY <1>2, <1>3 DEF PaymentRow
<1>5. pay' = [pay EXCEPT ![p] = x] /\ lock[p] = Nil /\ Ends(q) /\ UNCHANGED <<ride, planned, refunds, lock, gateway>>
  BY <1>1, <1>3 DEF LinkOrder, Unlocked
<1>6. RowMayBe(p, x)
  <2>1. /\ Has(p, {"CAPTURED"}) => x.status = "CAPTURED"
        /\ Has(p, {"REFUNDED"}) <=> x.status = "REFUNDED"
        /\ x.status \in {"CAPTURED", "REFUNDED"} => Has(p, {"CAPTURED", "REFUNDED"})
        /\ x.status = "CAPTURED" => Has(p, {"CAPTURED"})
        /\ x.status \in LiveStatus => Has(p, LiveStatus)
    BY <1>2, <1>4 DEF Has
  <2>2. x.status \in {"CAPTURED", "REFUNDED"} =>
           /\ x.provider = "cashfree" => order[p] = "PAID"
           /\ x.provider = "cash" /\ x.stage # "none" => x.claimed
    BY <1>2, <1>4, <2>1 DEF PaymentsInv, PaymentsAgree, CaptureIsBacked, Staged
  <2>3. x.status = "CAPTURED" /\ x.stage = "final" => ride[x.ride] = "completed" /\ UpfrontPaid(x.ride)
    BY <1>2, <1>4, <2>1 DEF PaymentsInv, PaymentsAgree, StagesGateRide
  <2> QED
    BY <1>2, <1>4, <1>5, <2>1, <2>2, <2>3, LiveAlone DEF RowMayBe
<1> QED
  BY <1>2, <1>4, <1>5, <1>6, RowWrites DEF Ends

LEMMA CaptureKeeps ==
  ASSUME PaymentsInv, NEW q \in Asker, Capture(q)
  PROVE  PaymentsInv'
<1>1. PICK p : p = req[q].payment
  OBVIOUS
<1>2. /\ p \in Payment /\ Exists(p) /\ pay[p] \in PaymentRow
      /\ pay[p].provider = "cashfree" => order[p] = "PAID"
  BY <1>1, RowStepTaken DEF Capture, RowSteps
<1>3. lock[p] = Nil /\ Ends(q) /\ UNCHANGED <<ride, planned, refunds, lock, gateway>>
  BY <1>1 DEF Capture, Unlocked
<1>4. CASE ~Capturable(p)
  BY <1>1, <1>3, <1>4, IdleFits, RequestOnly DEF Capture, Ends, rows
<1>5. CASE Capturable(p)
  <2>1. PICK x : x = [pay[p] EXCEPT !.status = "CAPTURED"]
    OBVIOUS
  <2>2. /\ x \in PaymentRow /\ x.ride = pay[p].ride /\ x.stage = pay[p].stage /\ x.provider = pay[p].provider
        /\ x.status = "CAPTURED" /\ x.claimed = pay[p].claimed
    BY <1>2, <2>1, RowFields DEF PaymentStatus
  <2>3. pay' = [pay EXCEPT ![p] = x]
    BY <1>1, <1>5, <2>1 DEF Capture, SetStatus
  <2>4. Has(p, LiveStatus) /\ ~Has(p, {"REFUNDED"})
    BY <1>5 DEF Capturable, Has, LiveStatus
  <2>5. x.provider = "cash" /\ x.stage # "none" => x.claimed
    BY <1>2, <1>5, <2>2 DEF Capturable, Staged, Has, PaymentsInv, PaymentsAgree, CaptureIsBacked
  <2>6. x.stage = "final" => ride[x.ride] = "completed" /\ UpfrontPaid(x.ride)
    BY <1>2, <1>5, <2>2 DEF Capturable, StageOpen, PaymentsInv, PaymentsAgree, StagesGateRide
  <2>7. RowMayBe(p, x)
    BY <1>2, <1>3, <2>2, <2>4, <2>5, <2>6, LiveAlone DEF RowMayBe
  <2> QED
    BY <1>2, <1>3, <2>2, <2>3, <2>7, RowWrites DEF Ends
<1> QED
  BY <1>4, <1>5

LEMMA MarkFailedKeeps ==
  ASSUME PaymentsInv, NEW q \in Asker, MarkFailed(q)
  PROVE  PaymentsInv'
<1>1. PICK p : p = req[q].payment
  OBVIOUS
<1>2. p \in Payment /\ Exists(p) /\ pay[p] \in PaymentRow
  BY <1>1, RowStepTaken DEF MarkFailed, RowSteps
<1>3. lock[p] = Nil /\ Ends(q) /\ UNCHANGED <<ride, planned, refunds, lock, gateway>>
  BY <1>1 DEF MarkFailed, Unlocked
<1>4. CASE ~Has(p, {"INITIATED", "FAILED"})
  BY <1>1, <1>3, <1>4, IdleFits, RequestOnly DEF MarkFailed, Ends, rows
<1>5. CASE Has(p, {"INITIATED", "FAILED"})
  <2>1. PICK x : x = [pay[p] EXCEPT !.status = "FAILED"]
    OBVIOUS
  <2>2. /\ x \in PaymentRow /\ x.ride = pay[p].ride /\ x.stage = pay[p].stage /\ x.provider = pay[p].provider
        /\ x.status = "FAILED"
    BY <1>2, <2>1, RowFields DEF PaymentStatus
  <2>3. pay' = [pay EXCEPT ![p] = x]
    BY <1>1, <1>5, <2>1 DEF MarkFailed, SetStatus
  <2>4. RowMayBe(p, x)
    BY <1>2, <1>3, <1>5, <2>2 DEF RowMayBe, Has, LiveStatus
  <2> QED
    BY <1>2, <1>3, <2>2, <2>3, <2>4, RowWrites DEF Ends
<1> QED
  BY <1>4, <1>5

LEMMA ClaimCashKeeps ==
  ASSUME PaymentsInv, NEW p \in Payment, ClaimCash(p)
  PROVE  PaymentsInv'
<1>1. PICK x : x = [pay[p] EXCEPT !.claimed = TRUE]
  OBVIOUS
<1>2. Exists(p) /\ pay[p] \in PaymentRow /\ Has(p, LiveStatus)
  BY DEF ClaimCash, Has, Exists, LiveStatus, PaymentsInv, PaymentsTypeOK
<1>3. /\ x \in PaymentRow /\ x.ride = pay[p].ride /\ x.stage = pay[p].stage /\ x.provider = pay[p].provider
      /\ x.status = pay[p].status /\ x.claimed
  BY <1>1, <1>2 DEF PaymentRow
<1>4. /\ pay' = [pay EXCEPT ![p] = x] /\ lock[p] = Nil /\ req' = req
      /\ UNCHANGED <<ride, planned, refunds, lock, gateway>>
  BY <1>1 DEF ClaimCash, Unlocked
<1>5. RowMayBe(p, x)
  <2>1. x.provider = "cash"
    BY <1>3 DEF ClaimCash
  <2>2. x.status = "CAPTURED" /\ x.stage = "final" => ride[x.ride] = "completed" /\ UpfrontPaid(x.ride)
    BY <1>2, <1>3 DEF PaymentsInv, PaymentsAgree, StagesGateRide, Has
  <2> QED
    BY <1>2, <1>3, <1>4, <2>1, <2>2, LiveAlone DEF RowMayBe, Has
<1>6. /\ PaymentsAgree' /\ EventsTrue' /\ RefundsFollow'
      /\ RowsStay /\ OrdersStay /\ \A r \in Asker : LocksStay(r)
      /\ pay' \in [Payment -> PaymentRow \cup {Nil}]
  BY <1>3, <1>4, <1>5, RowChange
<1>7. req' \in [Asker -> PaymentJob]
  BY <1>4 DEF PaymentsInv, PaymentsTypeOK, PaymentJob
<1>8. RequestsFit'
  BY <1>4, <1>6, <1>7, NoRequestMoves DEF gateway
<1>9. PaymentsTypeOK'
  BY <1>4, <1>6, <1>7 DEF PaymentsInv, PaymentsTypeOK, PaymentJob, gateway
<1> QED
  BY <1>6, <1>8, <1>9 DEF PaymentsInv

-----------------------------------------------------------------------------
(* The gateway, the ride and the refunds.                                  *)

LEMMA GatewayMoves ==
  ASSUME PaymentsInv, UNCHANGED <<ride, planned, rows, lock>>, OrdersStay, accepted \subseteq accepted', EventsTrue'
  PROVE  /\ PaymentsAgree' /\ RefundsFollow'
         /\ RowsStay /\ \A r \in Asker : LocksStay(r)
<1>1. ride' = ride /\ planned' = planned /\ pay' = pay /\ refunds' = refunds /\ lock' = lock
  BY DEF rows
<1>2. OneLivePayment'
  BY <1>1 DEF PaymentsInv, PaymentsAgree, OneLivePayment, Has, Exists
<1>3. StagesGateRide'
  BY <1>1 DEF PaymentsInv, PaymentsAgree, StagesGateRide, UpfrontPaid, Upfront, Has, Exists
<1>4. CaptureIsBacked'
  BY <1>1 DEF PaymentsInv, PaymentsAgree, CaptureIsBacked, Has, Exists, Staged, OrdersStay
<1>5. \A p : GivenBack(p)' = GivenBack(p) /\ Confirmed(p)' = Confirmed(p)
  BY <1>1 DEF GivenBack, Confirmed, Given
<1>6. LedgerFollowsGateway'
  BY <1>1, <1>5 DEF PaymentsInv, PaymentsAgree, LedgerFollowsGateway, Has, Exists
<1>7. RefundsFollow'
  BY <1>1, <1>5 DEF PaymentsInv, RefundsFollow, Has, Exists, Staged
<1>8. RowsStay /\ \A r \in Asker : LocksStay(r)
  BY <1>1 DEF RowsStay, LocksStay, Exists, Given
<1> QED
  BY <1>2, <1>3, <1>4, <1>6, <1>7, <1>8 DEF PaymentsAgree

LEMMA CreateOrderKeeps ==
  ASSUME PaymentsInv, NEW q \in Asker, CreateOrder(q)
  PROVE  PaymentsInv'
<1>1. PICK p : p = req[q].payment
  OBVIOUS
<1>2. p \in Payment /\ Exists(p)
  BY <1>1, RowStepTaken DEF CreateOrder, RowSteps
<1>3. /\ order' = [order EXCEPT ![p] = IF @ = "none" THEN "ACTIVE" ELSE @] /\ Does(q, RowStep("link", p))
      /\ UNCHANGED <<ride, planned, rows, lock>> /\ accepted' = accepted /\ events' = events
  BY <1>1 DEF CreateOrder
<1>4. OrdersStay /\ order' \in [Payment -> {"none", "ACTIVE", "PAID", "EXPIRED"}]
  BY <1>3 DEF OrdersStay, PaymentsInv, PaymentsTypeOK
<1>5. EventsTrue'
  BY <1>3, <1>4 DEF EventsTrue, PaymentsInv, OrdersStay
<1>6. PaymentsAgree' /\ RefundsFollow' /\ RowsStay /\ \A r \in Asker : LocksStay(r)
  BY <1>3, <1>4, <1>5, GatewayMoves
<1>7. RowStep("link", p) \in PaymentJob /\ JobFits(q, RowStep("link", p))'
  <2>1. RowStep("link", p).step = "link" /\ RowStep("link", p).payment = p /\ RowStep("link", p) \in PaymentJob
    BY <1>2, RowStepJob DEF RowSteps
  <2>2. pay'[p] # Nil
    BY <1>2, <1>6 DEF RowsStay
  <2> QED
    BY <2>1, <2>2 DEF JobFits, RowIsThere, RefundIsDue, CaptureIsPaid, LockHolds, RowSteps, RefundSteps, Exists
<1>8. RequestsFit' /\ req' \in [Asker -> PaymentJob]
  BY <1>3, <1>4, <1>6, <1>7, RequestMoves
<1>9. PaymentsTypeOK'
  BY <1>3, <1>4, <1>8 DEF PaymentsInv, PaymentsTypeOK, PaymentJob, rows
<1> QED
  BY <1>5, <1>6, <1>8, <1>9 DEF PaymentsInv

LEMMA OrdersKeep ==
  ASSUME PaymentsInv, NEW p \in Payment, PayOrder(p) \/ FailAttempt(p) \/ ExpireOrder(p)
  PROVE  PaymentsInv'
<1>1. UNCHANGED <<ride, planned, rows, req, lock, accepted>>
  BY DEF PayOrder, FailAttempt, ExpireOrder
<1>2. OrdersStay /\ order' \in [Payment -> {"none", "ACTIVE", "PAID", "EXPIRED"}]
  BY DEF PayOrder, FailAttempt, ExpireOrder, OrdersStay, PaymentsInv, PaymentsTypeOK
<1>3. events' \subseteq Payment \X {"SUCCESS", "FAILED"}
  BY DEF PayOrder, FailAttempt, ExpireOrder, PaymentsInv, PaymentsTypeOK
<1>4. EventsTrue'
  <2> SUFFICES ASSUME NEW o \in Payment, <<o, "SUCCESS">> \in events' PROVE order'[o] = "PAID"
    BY DEF EventsTrue
  <2>1. CASE <<o, "SUCCESS">> \in events
    BY <1>2, <2>1 DEF EventsTrue, PaymentsInv, OrdersStay
  <2>2. CASE <<o, "SUCCESS">> \notin events
    <3>1. PayOrder(p) /\ o = p
      BY <2>2 DEF PayOrder, FailAttempt, ExpireOrder
    <3> QED
      BY <3>1 DEF PayOrder, PaymentsInv, PaymentsTypeOK
  <2> QED
    BY <2>1, <2>2
<1>5. PaymentsAgree' /\ RefundsFollow' /\ RowsStay /\ \A r \in Asker : LocksStay(r)
  BY <1>1, <1>2, <1>4, GatewayMoves
<1>6. RequestsFit'
  BY <1>1, <1>2, <1>5, NoRequestMoves
<1>7. PaymentsTypeOK'
  BY <1>1, <1>2, <1>3 DEF PaymentsInv, PaymentsTypeOK, rows
<1> QED
  BY <1>4, <1>5, <1>6, <1>7 DEF PaymentsInv

LEMMA RideKeeps ==
  ASSUME PaymentsInv, NEW r \in Ride, AcceptRide(r) \/ CancelRide(r) \/ StartTrip(r) \/ CompleteRide(r)
  PROVE  PaymentsInv'
<1>1. /\ planned' = planned /\ pay' = pay /\ refunds' = refunds /\ req' = req /\ lock' = lock
      /\ order' = order /\ accepted' = accepted /\ events' = events
  BY DEF AcceptRide, CancelRide, StartTrip, CompleteRide, RideMoves, rows, gateway
<1>2. PICK to \in RidePhase :
        /\ ride' = [ride EXCEPT ![r] = to] /\ ride[r] # "completed"
        /\ to \in {"in_progress", "completed"} /\ r \in planned => UpfrontPaid(r)
  <2>1. CASE AcceptRide(r) \/ CancelRide(r) \/ StartTrip(r)
    BY <2>1 DEF AcceptRide, CancelRide, StartTrip, RideMoves, RidePhase
  <2>2. CASE CompleteRide(r)
    BY <2>2 DEF CompleteRide, RideMoves, RidePhase, PaymentsInv, PaymentsAgree, StagesGateRide
  <2> QED
    BY <2>1, <2>2
<1>3. PaymentsTypeOK'
  BY <1>1, <1>2 DEF PaymentsInv, PaymentsTypeOK
<1>4. \A x : UpfrontPaid(x)' <=> UpfrontPaid(x)
  BY <1>1 DEF UpfrontPaid, Upfront, Has, Exists
<1>5. StagesGateRide'
  <2>1. \A x \in planned' : ride'[x] \in {"in_progress", "completed"} => UpfrontPaid(x)'
    BY <1>1, <1>2, <1>4 DEF PaymentsInv, PaymentsAgree, StagesGateRide, PaymentsTypeOK
  <2>2. ASSUME NEW o \in Payment, NEW x, Has(o, {"CAPTURED"})', pay'[o].stage = "final", x = pay'[o].ride
        PROVE  ride'[x] = "completed" /\ UpfrontPaid(x)'
    <3>1. Has(o, {"CAPTURED"}) /\ pay[o].stage = "final" /\ x = pay[o].ride /\ x \in Ride
      BY <1>1, <2>2 DEF Has, Exists, PaymentsInv, PaymentsTypeOK, PaymentRow
    <3>2. ride[x] = "completed" /\ UpfrontPaid(x)
      BY <3>1 DEF PaymentsInv, PaymentsAgree, StagesGateRide
    <3> QED
      BY <1>2, <1>4, <3>1, <3>2 DEF PaymentsInv, PaymentsTypeOK
  <2> QED
    BY <2>1, <2>2, StagesGateNext
<1>6. OneLivePayment' /\ CaptureIsBacked'
  BY <1>1 DEF PaymentsInv, PaymentsAgree, OneLivePayment, CaptureIsBacked, Has, Exists, Staged
<1>7. \A p : GivenBack(p)' = GivenBack(p) /\ Confirmed(p)' = Confirmed(p)
  BY <1>1 DEF GivenBack, Confirmed, Given
<1>8. LedgerFollowsGateway'
  BY <1>1, <1>7 DEF PaymentsInv, PaymentsAgree, LedgerFollowsGateway, Has, Exists
<1>9. RefundsFollow'
  BY <1>1, <1>7 DEF PaymentsInv, RefundsFollow, Has, Exists, Staged
<1>10. EventsTrue' /\ RowsStay /\ OrdersStay /\ \A x \in Asker : LocksStay(x)
  BY <1>1 DEF PaymentsInv, EventsTrue, RowsStay, OrdersStay, LocksStay, Exists, Given
<1>11. RequestsFit'
  BY <1>1, <1>10, NoRequestMoves
<1> QED
  BY <1>3, <1>5, <1>6, <1>8, <1>9, <1>10, <1>11 DEF PaymentsInv, PaymentsAgree

\* The payment a refund step is about.
LEMMA RefundStepTaken ==
  ASSUME PaymentsInv, NEW q \in Asker, NEW step \in RefundSteps, At(q, step)
  PROVE  /\ req[q] \in PaymentJob /\ req[q].step = step /\ JobFits(q, req[q])
         /\ req[q].id \in RefundId /\ req[q].id.payment \in Payment
         /\ req[q].id.already \in Nat /\ req[q].id.amount \in 1..Amount
         /\ Exists(req[q].id.payment) /\ pay[req[q].id.payment] \in PaymentRow
         /\ ~Staged(req[q].id.payment)
         /\ req[q].id.already + req[q].id.amount <= Amount
<1>1. req[q] \in PaymentJob /\ JobFits(q, req[q]) /\ req[q].step = step
  BY DEF At, PaymentsInv, PaymentsTypeOK, PaymentJob, RequestsFit
<1>2. /\ req[q].id \in RefundId /\ req[q].id.payment \in Payment
      /\ req[q].id.already \in 0..Amount /\ req[q].id.amount \in 1..Amount
  BY <1>1, JobKinds
<1>3. RefundIsDue(req[q])
  BY <1>1 DEF JobFits
<1> QED
  BY <1>1, <1>2, <1>3, PaymentsAssumption DEF RefundIsDue, PaymentsInv, PaymentsTypeOK, Exists

LEMMA LockForRefundKeeps ==
  ASSUME PaymentsInv, NEW q \in Asker, LockForRefund(q)
  PROVE  PaymentsInv'
<1>1. PICK id : id = req[q].id
  OBVIOUS
<1>2. PICK p : p = id.payment
  OBVIOUS
<1>3. /\ id \in RefundId /\ p \in Payment /\ Exists(p) /\ ~Staged(p)
      /\ id.already + id.amount <= Amount
  BY <1>1, <1>2, RefundStepTaken DEF LockForRefund, RefundSteps
<1>4. UNCHANGED <<ride, planned, rows, gateway>>
  BY DEF LockForRefund
<1>5. CASE ~StillAsRead(id)
  BY <1>1, <1>4, <1>5, IdleFits, RequestOnly DEF LockForRefund, Ends
<1>6. CASE StillAsRead(id)
  <2>1. lock[p] = Nil /\ lock' = [lock EXCEPT ![p] = q]
    BY <1>1, <1>2, <1>6 DEF LockForRefund, Unlocked
  <2>2. Has(p, {"CAPTURED"}) /\ GivenBack(p) = id.already
    BY <1>2, <1>6 DEF StillAsRead
  <2>3. PICK task : /\ Does(q, task)
                   /\ \/ task = [step |-> "submit", id |-> id]
                      \/ /\ task = [step |-> "record", id |-> id, outcome |-> "SUCCESS"]
                         /\ pay[p].provider # "cashfree"
    BY <1>1, <1>2, <1>6 DEF LockForRefund
  <2>4. task \in PaymentJob /\ task.id = id /\ task.step \in {"submit", "record"}
        /\ (task.step = "record" => pay[p].provider # "cashfree")
    BY <1>3, <2>3 DEF PaymentJob, RefundJob, RecordJob
  <2>5. /\ ride' = ride /\ planned' = planned /\ pay' = pay /\ refunds' = refunds
        /\ order' = order /\ accepted' = accepted /\ events' = events
    BY <1>4 DEF rows, gateway
  <2>6. lock' \in [Payment -> Asker \cup {Nil}] /\ lock'[p] = q
    BY <1>3, <2>1 DEF PaymentsInv, PaymentsTypeOK
  <2>7. JobFits(q, task)'
    <3>1. RowIsThere(task)' /\ CaptureIsPaid(task)'
      BY <2>4 DEF RowIsThere, CaptureIsPaid, RowSteps
    <3>2. RefundIsDue(task)'
      BY <1>2, <1>3, <2>4, <2>5 DEF RefundIsDue, Exists, Staged
    <3>3. Has(p, {"CAPTURED"})' /\ GivenBack(p)' = id.already
      BY <2>2, <2>5 DEF Has, Exists, GivenBack, Given
    <3>4. LockHolds(q, task)'
      BY <1>2, <2>4, <2>5, <2>6, <3>3 DEF LockHolds
    <3> QED
      BY <3>1, <3>2, <3>4 DEF JobFits
  <2>8. \A r \in Asker \ {q} : LocksStay(r)
    BY <1>3, <2>1, <2>5, PaymentsAssumption DEF LocksStay, Given, PaymentsInv, PaymentsTypeOK
  <2>9. RowsStay /\ OrdersStay
    BY <2>5 DEF RowsStay, OrdersStay, Exists
  <2>10. RequestsFit' /\ req' \in [Asker -> PaymentJob]
    BY <2>3, <2>4, <2>5, <2>7, <2>8, <2>9, RequestMoves
  <2>11. PaymentsTypeOK'
    BY <2>5, <2>6, <2>10 DEF PaymentsInv, PaymentsTypeOK, PaymentJob
  <2> QED
    BY <1>4, <2>10, <2>11, NothingElseMoves DEF PaymentsInv
<1> QED
  BY <1>5, <1>6

LEMMA CutOffKeeps ==
  ASSUME PaymentsInv, NEW q \in Asker, CutOff(q)
  PROVE  PaymentsInv'
<1>1. /\ ride' = ride /\ planned' = planned /\ pay' = pay /\ refunds' = refunds
      /\ order' = order /\ accepted' = accepted /\ events' = events
  BY DEF CutOff, rows, gateway
<1>2. /\ lock' \in [Payment -> Asker \cup {Nil}]
      /\ \A p \in Payment : lock[p] # q => lock'[p] = lock[p]
  BY DEF CutOff, PaymentsInv, PaymentsTypeOK
<1>3. RowsStay /\ OrdersStay /\ \A r \in Asker \ {q} : LocksStay(r)
  BY <1>1, <1>2 DEF RowsStay, OrdersStay, LocksStay, Exists, Given
<1>4. Idle \in PaymentJob /\ JobFits(q, Idle)'
  BY IdleFits DEF Idle, JobFits, RowIsThere, RefundIsDue, CaptureIsPaid, LockHolds, RowSteps, RefundSteps
<1>5. RequestsFit' /\ req' \in [Asker -> PaymentJob]
  BY <1>1, <1>3, <1>4, RequestMoves DEF CutOff, Ends
<1>6. PaymentsTypeOK'
  BY <1>1, <1>2, <1>5 DEF PaymentsInv, PaymentsTypeOK, PaymentJob
<1> QED
  BY <1>5, <1>6, NothingElseMoves DEF PaymentsInv, CutOff

LEMMA SubmitRefundKeeps ==
  ASSUME PaymentsInv, NEW q \in Asker, SubmitRefund(q)
  PROVE  PaymentsInv'
<1>1. PICK id : id = req[q].id
  OBVIOUS
<1>2. PICK p : p = id.payment
  OBVIOUS
<1>3. /\ id \in RefundId /\ p \in Payment /\ Exists(p) /\ ~Staged(p)
      /\ id.already + id.amount <= Amount
      /\ req[q].step = "submit" /\ JobFits(q, req[q])
  BY <1>1, <1>2, RefundStepTaken DEF SubmitRefund, RefundSteps
<1>4. lock[p] = q /\ Has(p, {"CAPTURED"}) /\ GivenBack(p) = id.already
  BY <1>1, <1>2, <1>3 DEF JobFits, LockHolds
<1>5. /\ accepted' = accepted \cup {id} /\ UNCHANGED <<ride, planned, rows, lock>> /\ order' = order /\ events' = events
  BY <1>1 DEF SubmitRefund
<1>6. PICK o \in {"SUCCESS", "PENDING"} : Does(q, [step |-> "record", id |-> id, outcome |-> o])
  BY <1>1 DEF SubmitRefund
<1>7. PICK task : task = [step |-> "record", id |-> id, outcome |-> o]
  OBVIOUS
<1>8. task \in PaymentJob /\ task.id = id /\ task.step = "record"
  BY <1>3, <1>7 DEF PaymentJob, RecordJob
<1>9. OrdersStay /\ EventsTrue'
  BY <1>5 DEF OrdersStay, EventsTrue, PaymentsInv
<1>10. PaymentsAgree' /\ RefundsFollow' /\ RowsStay /\ \A r \in Asker : LocksStay(r)
  BY <1>5, <1>9, GatewayMoves
<1>11. JobFits(q, task)'
  <2>1. pay' = pay /\ refunds' = refunds /\ lock' = lock
    BY <1>5 DEF rows
  <2>2. RowIsThere(task)' /\ CaptureIsPaid(task)'
    BY <1>8 DEF RowIsThere, CaptureIsPaid, RowSteps
  <2>3. RefundIsDue(task)'
    BY <1>2, <1>3, <1>8, <2>1 DEF RefundIsDue, Exists, Staged
  <2>4. Has(p, {"CAPTURED"})' /\ GivenBack(p)' = id.already
    BY <1>4, <2>1 DEF Has, Exists, GivenBack, Given
  <2>5. LockHolds(q, task)'
    BY <1>2, <1>4, <1>5, <1>8, <2>1, <2>4 DEF LockHolds
  <2> QED
    BY <2>2, <2>3, <2>5 DEF JobFits
<1>12. RequestsFit' /\ req' \in [Asker -> PaymentJob]
  BY <1>5, <1>6, <1>7, <1>8, <1>9, <1>10, <1>11, RequestMoves
<1>13. PaymentsTypeOK'
  BY <1>3, <1>5, <1>12 DEF PaymentsInv, PaymentsTypeOK, PaymentJob, rows
<1> QED
  BY <1>9, <1>10, <1>12, <1>13 DEF PaymentsInv

\* A refund that is booked adds itself to its payment's ledger, and to no other.
LEMMA BookingAdds ==
  ASSUME PaymentsInv, NEW p \in Payment, NEW row \in Refund, row.id.payment = p, row \notin refunds,
         refunds' = refunds \cup {row}
  PROVE  /\ GivenBack(p)' = GivenBack(p) + row.id.amount
         /\ Confirmed(p)' = Confirmed(p) + (IF row.status = "SUCCESS" THEN row.id.amount ELSE 0)
         /\ \A o : o # p => Given(o)' = Given(o)
         /\ GivenBack(p) \in Nat /\ Confirmed(p) \in Nat
<1>1. Given(p) \in SUBSET Refund /\ IsFiniteSet(Given(p)) /\ row \notin Given(p)
  BY FS_Subset DEF PaymentsInv, PaymentsTypeOK, RefundsFollow, Given
<1>2. Given(p)' = Given(p) \cup {row} /\ \A o : o # p => Given(o)' = Given(o)
  BY DEF Given
<1> DEFINE C == {x \in Given(p) : x.status = "SUCCESS"}
<1>3. C \in SUBSET Refund /\ IsFiniteSet(C) /\ row \notin C
  BY <1>1, FS_Subset
<1>4. {x \in Given(p)' : x.status = "SUCCESS"} = IF row.status = "SUCCESS" THEN C \cup {row} ELSE C
  BY <1>2
<1>5. GivenBack(p)' = GivenBack(p) + row.id.amount
  BY <1>1, <1>2, WorthGrows DEF GivenBack
<1>6. Confirmed(p) = Worth(C)
  BY DEF Confirmed
<1>7. Confirmed(p)' = IF row.status = "SUCCESS" THEN Worth(C \cup {row}) ELSE Worth(C)
  BY <1>4 DEF Confirmed
<1> HIDE DEF C
<1>8. Worth(C \cup {row}) = Worth(C) + row.id.amount /\ Worth(C) \in Nat
  BY <1>3, WorthGrows, WorthIsNatural
<1>9. GivenBack(p) \in Nat
  BY <1>1, WorthIsNatural DEF GivenBack
<1>10. Confirmed(p)' = Confirmed(p) + (IF row.status = "SUCCESS" THEN row.id.amount ELSE 0)
  BY <1>6, <1>7, <1>8
<1> QED
  BY <1>2, <1>5, <1>6, <1>8, <1>9, <1>10

LEMMA RecordRefundKeeps ==
  ASSUME PaymentsInv, NEW q \in Asker, RecordRefund(q)
  PROVE  PaymentsInv'
<1>1. PICK id : id = req[q].id
  OBVIOUS
<1>2. PICK p : p = id.payment
  OBVIOUS
<1>3. PICK row : row = [id |-> id, by |-> q, status |-> req[q].outcome]
  OBVIOUS
<1>4. /\ id \in RefundId /\ p \in Payment /\ Exists(p) /\ ~Staged(p) /\ pay[p] \in PaymentRow
      /\ id.already \in Nat /\ id.amount \in 1..Amount /\ id.already + id.amount <= Amount
      /\ req[q] \in PaymentJob /\ req[q].step = "record" /\ JobFits(q, req[q])
  BY <1>1, <1>2, RefundStepTaken DEF RecordRefund, RefundSteps
<1>5. /\ lock[p] = q /\ Has(p, {"CAPTURED"}) /\ GivenBack(p) = id.already
      /\ pay[p].provider = "cashfree" => id \in accepted
  BY <1>1, <1>2, <1>4 DEF JobFits, LockHolds
<1>6. /\ row \in Refund /\ row.id = id /\ row.id.payment = p /\ row.id.amount = id.amount
      /\ row.status = req[q].outcome /\ row.status \in {"SUCCESS", "PENDING"}
  <2>1. req[q].outcome \in {"SUCCESS", "PENDING"}
    BY <1>4, JobKinds
  <2> QED
    BY <1>2, <1>3, <1>4, <2>1 DEF Refund
<1>7. /\ refunds' = refunds \cup {row} /\ lock' = [lock EXCEPT ![p] = Nil] /\ Ends(q)
      /\ ride' = ride /\ planned' = planned /\ order' = order /\ accepted' = accepted /\ events' = events
  BY <1>1, <1>2, <1>3 DEF RecordRefund, gateway
<1>8. \A y \in refunds : y.id # id
  <2> SUFFICES ASSUME NEW y \in refunds, y.id = id PROVE FALSE
    OBVIOUS
  <2>1. y.id.already + y.id.amount <= GivenBack(y.id.payment)
    BY DEF PaymentsInv, RefundsFollow
  <2>2. id.already + id.amount <= id.already
    BY <1>2, <1>5, <2>1
  <2> QED
    BY <1>4, <2>2, PaymentsAssumption
<1>9. /\ GivenBack(p)' = GivenBack(p) + id.amount
      /\ Confirmed(p)' = Confirmed(p) + (IF row.status = "SUCCESS" THEN id.amount ELSE 0)
      /\ \A o : o # p => Given(o)' = Given(o)
      /\ GivenBack(p) \in Nat /\ Confirmed(p) \in Nat
  BY <1>4, <1>6, <1>7, <1>8, BookingAdds
<1>10. /\ Confirmed(p)' = Amount => SetStatus(p, "REFUNDED")
       /\ Confirmed(p)' # Amount => pay' = pay
  BY <1>1, <1>2, <1>6, <1>9 DEF RecordRefund
<1>11. PICK x \in PaymentRow :
         /\ pay' = [pay EXCEPT ![p] = x]
         /\ x.ride = pay[p].ride /\ x.stage = pay[p].stage /\ x.provider = pay[p].provider
         /\ x.claimed = pay[p].claimed
         /\ x.status = IF Confirmed(p)' = Amount THEN "REFUNDED" ELSE "CAPTURED"
  <2>1. CASE Confirmed(p)' = Amount
    <3>1. PICK x : x = [pay[p] EXCEPT !.status = "REFUNDED"]
      OBVIOUS
    <3>2. /\ x \in PaymentRow /\ x.ride = pay[p].ride /\ x.stage = pay[p].stage /\ x.provider = pay[p].provider
          /\ x.claimed = pay[p].claimed /\ x.status = "REFUNDED"
      BY <1>4, <3>1, RowFields DEF PaymentStatus
    <3>3. pay' = [pay EXCEPT ![p] = x]
      BY <1>10, <2>1, <3>1 DEF SetStatus
    <3> QED
      BY <2>1, <3>2, <3>3
  <2>2. CASE Confirmed(p)' # Amount
    <3>1. pay[p].status = "CAPTURED"
      BY <1>5 DEF Has
    <3>2. pay' = [pay EXCEPT ![p] = pay[p]]
      BY <1>10, <2>2 DEF PaymentsInv, PaymentsTypeOK
    <3> QED
      BY <1>4, <2>2, <3>1, <3>2
  <2> QED
    BY <2>1, <2>2
<1>12. /\ pay \in [Payment -> PaymentRow \cup {Nil}] /\ pay' \in [Payment -> PaymentRow \cup {Nil}]
       /\ pay'[p] = x /\ \A o \in Payment \ {p} : pay'[o] = pay[o]
  BY <1>4, <1>11 DEF PaymentsInv, PaymentsTypeOK
<1>13. x # Nil /\ x.stage = "none" /\ pay[p].stage = "none"
  BY <1>4, <1>11, PaymentsAssumption DEF Staged
<1>14. \A o \in Payment \ {p} : \A S : Has(o, S)' <=> Has(o, S)
  BY <1>12 DEF Has, Exists
<1>15. \A S : Has(p, S)' <=> x.status \in S
  BY <1>12, <1>13 DEF Has, Exists
<1>16. OneLivePayment'
  <2> SUFFICES ASSUME NEW o \in Payment, NEW u \in Payment, Has(o, LiveStatus)', Has(u, LiveStatus)',
                      pay'[o].ride = pay'[u].ride, pay'[o].stage = pay'[u].stage, o # u
               PROVE FALSE
    BY DEF OneLivePayment, LiveStatus
  <2>1. \A y \in Payment : Has(y, LiveStatus)' => Has(y, LiveStatus)
    BY <1>5, <1>14 DEF Has, LiveStatus
  <2>2. \A y \in Payment : pay'[y].ride = pay[y].ride /\ pay'[y].stage = pay[y].stage
    BY <1>11, <1>12
  <2> QED
    BY <2>1, <2>2 DEF PaymentsInv, PaymentsAgree, OneLivePayment
<1>17. \A r : UpfrontPaid(r) => UpfrontPaid(r)'
  <2> SUFFICES ASSUME NEW r, UpfrontPaid(r) PROVE UpfrontPaid(r)'
    OBVIOUS
  <2>1. PICK o \in Payment : Upfront(r, o)
    BY DEF UpfrontPaid
  <2>2. Has(o, {"CAPTURED"}) /\ pay[o].ride = r /\ pay[o].stage = "upfront" /\ o # p
    BY <1>13, <2>1 DEF Upfront
  <2>3. Has(o, {"CAPTURED"})' /\ pay'[o].ride = r /\ pay'[o].stage = "upfront"
    BY <1>12, <1>14, <2>2
  <2> QED
    BY <2>3 DEF UpfrontPaid, Upfront
<1>18. StagesGateRide'
  <2>1. \A r \in planned' : ride'[r] \in {"in_progress", "completed"} => UpfrontPaid(r)'
    BY <1>7, <1>17 DEF PaymentsInv, PaymentsAgree, StagesGateRide
  <2>2. ASSUME NEW o \in Payment, NEW r, Has(o, {"CAPTURED"})', pay'[o].stage = "final", r = pay'[o].ride
        PROVE  ride'[r] = "completed" /\ UpfrontPaid(r)'
    <3>1. Has(o, {"CAPTURED"}) /\ pay[o].stage = "final" /\ r = pay[o].ride
      BY <1>12, <1>13, <1>14, <2>2
    <3>2. ride[r] = "completed" /\ UpfrontPaid(r)
      BY <3>1 DEF PaymentsInv, PaymentsAgree, StagesGateRide
    <3> QED
      BY <1>7, <1>17, <3>2
  <2> QED
    BY <2>1, <2>2, StagesGateNext
<1>19. CaptureIsBacked'
  <2> SUFFICES ASSUME NEW o \in Payment, Has(o, {"CAPTURED", "REFUNDED"})'
               PROVE  /\ pay'[o].provider = "cashfree" => order'[o] = "PAID"
                      /\ pay'[o].provider = "cash" /\ pay'[o].stage # "none" => pay'[o].claimed
    BY DEF CaptureIsBacked, Staged
  <2>1. CASE o = p
    <3>1. Has(p, {"CAPTURED", "REFUNDED"})
      BY <1>5 DEF Has
    <3> QED
      BY <1>7, <1>11, <1>12, <1>13, <2>1, <3>1 DEF PaymentsInv, PaymentsAgree, CaptureIsBacked
  <2>2. CASE o # p
    BY <1>7, <1>12, <1>14, <2>2 DEF PaymentsInv, PaymentsAgree, CaptureIsBacked, Staged, Has
  <2> QED
    BY <2>1, <2>2
<1>20. \A o : o # p => GivenBack(o)' = GivenBack(o) /\ Confirmed(o)' = Confirmed(o)
  BY <1>9 DEF GivenBack, Confirmed
<1>21. GivenBack(p)' <= Amount /\ GivenBack(p)' = id.already + id.amount
  BY <1>4, <1>5, <1>9
<1>22. Has(p, {"REFUNDED"})' <=> Confirmed(p)' = Amount
  BY <1>11, <1>15
<1>23. LedgerFollowsGateway'
  <2>1. \A y \in refunds' : pay'[y.id.payment].provider = "cashfree" => y.id \in accepted'
    <3> SUFFICES ASSUME NEW y \in refunds', pay'[y.id.payment].provider = "cashfree" PROVE y.id \in accepted
      BY <1>7
    <3>1. CASE y = row
      BY <1>5, <1>6, <1>11, <1>12, <3>1
    <3>2. CASE y \in refunds
      <4>1. y.id.payment \in Payment
        BY <3>2 DEF PaymentsInv, PaymentsTypeOK, Refund, RefundId
      <4>2. pay[y.id.payment].provider = "cashfree"
        BY <1>11, <1>12, <4>1
      <4> QED
        BY <3>2, <4>2 DEF PaymentsInv, PaymentsAgree, LedgerFollowsGateway
    <3> QED
      BY <1>7, <3>1, <3>2
  <2>2. \A y, z \in refunds' : y.id = z.id => y = z
    BY <1>6, <1>7, <1>8 DEF PaymentsInv, PaymentsAgree, LedgerFollowsGateway
  <2>3. \A o \in Payment : GivenBack(o)' <= Amount
    BY <1>20, <1>21 DEF PaymentsInv, PaymentsAgree, LedgerFollowsGateway
  <2>4. \A o \in Payment : Has(o, {"REFUNDED"})' <=> Confirmed(o)' = Amount
    BY <1>14, <1>20, <1>22 DEF PaymentsInv, PaymentsAgree, LedgerFollowsGateway
  <2> QED
    BY <2>1, <2>2, <2>3, <2>4 DEF LedgerFollowsGateway
<1>24. RefundsFollow'
  <2>1. IsFiniteSet(refunds')
    BY <1>7, FS_AddElement DEF PaymentsInv, RefundsFollow
  <2> SUFFICES ASSUME NEW y \in refunds', NEW o, o = y.id.payment
               PROVE  /\ Has(o, {"CAPTURED", "REFUNDED"})' /\ pay'[o].stage = "none"
                      /\ y.id.already + y.id.amount <= GivenBack(o)'
    BY <2>1 DEF RefundsFollow, Staged
  <2>2. CASE y = row
    <3>1. o = p /\ y.id.already = id.already /\ y.id.amount = id.amount
      BY <1>6, <2>2
    <3>2. Has(p, {"CAPTURED", "REFUNDED"})' /\ pay'[p].stage = "none"
      BY <1>11, <1>12, <1>13, <1>15
    <3>3. id.already + id.amount <= GivenBack(p)'
      BY <1>4, <1>21, PaymentsAssumption
    <3> QED
      BY <3>1, <3>2, <3>3
  <2>3. CASE y \in refunds /\ o # p
    <3>1. /\ Has(o, {"CAPTURED", "REFUNDED"}) /\ ~Staged(o) /\ y.id.already + y.id.amount <= GivenBack(o)
          /\ o \in Payment
      BY <2>3 DEF PaymentsInv, RefundsFollow, PaymentsTypeOK, Refund, RefundId
    <3> QED
      BY <1>12, <1>14, <1>20, <2>3, <3>1 DEF Staged, Has
  <2>4. CASE y \in refunds /\ o = p
    <3>0. y \in Refund
      BY <2>4 DEF PaymentsInv, PaymentsTypeOK
    <3>1. y.id.already + y.id.amount <= GivenBack(p) /\ y.id.already \in Int /\ y.id.amount \in Int
      <4>1. y.id.already \in Int /\ y.id.amount \in Int
        BY <3>0 DEF Refund, RefundId
      <4>2. y.id.already + y.id.amount <= GivenBack(y.id.payment)
        BY <2>4 DEF PaymentsInv, RefundsFollow
      <4> QED
        BY <2>4, <4>1, <4>2
    <3>2. y.id.already + y.id.amount <= GivenBack(p)'
      BY <1>4, <1>9, <3>1
    <3> QED
      BY <1>11, <1>12, <1>13, <1>15, <2>4, <3>2
  <2> QED
    BY <1>7, <2>2, <2>3, <2>4
<1>25. EventsTrue' /\ OrdersStay
  BY <1>7 DEF PaymentsInv, EventsTrue, OrdersStay
<1>26. RowsStay
  <2> SUFFICES ASSUME NEW o \in Payment, Exists(o)
               PROVE  /\ pay'[o] # Nil
                      /\ pay'[o].ride = pay[o].ride /\ pay'[o].stage = pay[o].stage
                      /\ pay'[o].provider = pay[o].provider
    BY DEF RowsStay
  <2>1. CASE o = p
    BY <1>11, <1>12, <1>13, <2>1
  <2>2. CASE o # p
    BY <1>12, <2>2 DEF Exists
  <2> QED
    BY <2>1, <2>2
<1>27. \A r \in Asker \ {q} : LocksStay(r)
  <2>1. \A o \in Payment, r \in Asker \ {q} : lock[o] = r => o # p /\ lock'[o] = r
    BY <1>5, <1>7 DEF PaymentsInv, PaymentsTypeOK
  <2> SUFFICES ASSUME NEW r \in Asker \ {q}, NEW o \in Payment, lock[o] = r
               PROVE  lock'[o] = r /\ pay'[o] = pay[o] /\ {y \in refunds' : y.id.payment = o} = Given(o)
    BY Zenon DEF LocksStay
  <2>2. o # p /\ lock'[o] = r
    BY <2>1
  <2>3. pay'[o] = pay[o]
    BY <1>12, <2>2
  <2>4. Given(o)' = Given(o)
    BY <1>9, <2>2
  <2> QED
    BY <2>2, <2>3, <2>4 DEF Given
<1>28. Idle \in PaymentJob /\ JobFits(q, Idle)'
  BY IdleFits DEF Idle, JobFits, RowIsThere, RefundIsDue, CaptureIsPaid, LockHolds, RowSteps, RefundSteps
<1>29. RequestsFit' /\ req' \in [Asker -> PaymentJob]
  BY <1>7, <1>25, <1>26, <1>27, <1>28, RequestMoves DEF Ends
<1>30. PaymentsTypeOK'
  <2>1. lock' \in [Payment -> Asker \cup {Nil}] /\ refunds' \subseteq Refund
    BY <1>6, <1>7 DEF PaymentsInv, PaymentsTypeOK
  <2> QED
    BY <1>7, <1>12, <1>29, <2>1 DEF PaymentsInv, PaymentsTypeOK, PaymentJob
<1> QED
  BY <1>16, <1>18, <1>19, <1>23, <1>24, <1>25, <1>29, <1>30 DEF PaymentsInv, PaymentsAgree

LEMMA PaymentsStep == PaymentsInv /\ [PaymentsNext]_paymentVars => PaymentsInv'
<1> SUFFICES ASSUME PaymentsInv, [PaymentsNext]_paymentVars PROVE PaymentsInv'
  OBVIOUS
<1>1. CASE \E r \in Ride : AcceptRide(r) \/ CancelRide(r) \/ StartTrip(r) \/ CompleteRide(r)
  BY <1>1, RideKeeps
<1>2. CASE \E p \in Payment : PayOrder(p) \/ FailAttempt(p) \/ ExpireOrder(p)
  BY <1>2, OrdersKeep
<1>3. CASE \E p \in Payment : ClaimCash(p)
  BY <1>3, ClaimCashKeeps
<1>4. ASSUME NEW q \in Asker, Opening(q) PROVE PaymentsInv'
  <2>1. CASE \E r \in Ride, prov \in Provider : BeginInitiate(q, r, prov)
    <3>1. PICK r \in Ride, prov \in Provider : BeginInitiate(q, r, prov)
      BY <2>1
    <3>2. 1 \in 1..Amount
      BY PaymentsAssumption
    <3> QED
      BY <3>1, <3>2, BeginInitiateKeeps
  <2>2. CASE \E p \in Payment : InsertPayment(q, p) \/ ResumeCheckout(q, p)
    BY <2>2, InsertPaymentKeeps, ResumeCheckoutKeeps
  <2>3. CASE \E p \in Payment, r \in Ride, s \in {"upfront", "final"}, prov \in Provider :
               InitiateStage(q, p, r, s, prov)
    BY <2>3, InitiateStageKeeps
  <2>4. CASE CreateOrder(q) \/ LinkOrder(q)
    BY <2>4, CreateOrderKeeps, LinkOrderKeeps
  <2> QED
    BY <1>4, <2>1, <2>2, <2>3, <2>4 DEF Opening
<1>5. ASSUME NEW q \in Asker, Deciding(q) PROVE PaymentsInv'
  <2>1. CASE \E p \in Payment : BeginCapture(q, p) \/ ReceiveWebhook(q, p) \/ ConfirmCash(q, p)
    BY <2>1, BeginCaptureKeeps, ReceiveWebhookKeeps, ConfirmCashKeeps
  <2>2. CASE Verify(q) \/ Capture(q) \/ MarkFailed(q)
    BY <2>2, VerifyKeeps, CaptureKeeps, MarkFailedKeeps
  <2> QED
    BY <1>5, <2>1, <2>2 DEF Deciding
<1>6. ASSUME NEW q \in Asker, Refunding(q) \/ CutOff(q) PROVE PaymentsInv'
  <2>1. CASE \E p \in Payment, a \in 1..Amount : BeginRefund(q, p, a)
    BY <2>1, BeginRefundKeeps
  <2>2. CASE LockForRefund(q) \/ SubmitRefund(q) \/ RecordRefund(q) \/ CutOff(q)
    BY <2>2, LockForRefundKeeps, SubmitRefundKeeps, RecordRefundKeeps, CutOffKeeps
  <2> QED
    BY <1>6, <2>1, <2>2 DEF Refunding
<1>7. CASE UNCHANGED paymentVars
  <2>1. UNCHANGED <<ride, planned, rows, gateway>> /\ req' = req /\ lock' = lock
    BY <1>7 DEF paymentVars
  <2>2. PaymentsAgree' /\ EventsTrue' /\ RefundsFollow'
    BY <2>1, NothingElseMoves
  <2>3. PaymentsTypeOK'
    BY <2>1 DEF PaymentsInv, PaymentsTypeOK, rows, gateway
  <2>4. RowsStay /\ OrdersStay /\ accepted \subseteq accepted' /\ \A r \in Asker : LocksStay(r)
    BY <2>1 DEF RowsStay, OrdersStay, LocksStay, Exists, Given, rows, gateway
  <2>5. RequestsFit'
    BY <2>1, <2>4, NoRequestMoves
  <2> QED
    BY <2>2, <2>3, <2>5 DEF PaymentsInv
<1> QED
  BY <1>1, <1>2, <1>3, <1>4, <1>5, <1>6, <1>7 DEF PaymentsNext, Outside

\* No interleaving of requests, webhooks, refunds and cut-offs leaves a payment,
\* its refunds or a request with values the schema does not allow.
THEOREM PaymentsTypeCorrect == PaymentsSpec => []PaymentsTypeOK
<1>1. PaymentsInv => PaymentsTypeOK
  BY DEF PaymentsInv
<1> QED
  BY <1>1, InitPayments, PaymentsStep, PTL DEF PaymentsSpec

\* A ride has one live payment, a logistics trip starts and its final part is captured only
\* when the rows say so, what is captured was paid, and the refunds booked are the gateway's,
\* each once and never more than was taken.
THEOREM PaymentsAlwaysAgree == PaymentsSpec => []PaymentsAgree
<1>1. PaymentsInv => PaymentsAgree
  BY DEF PaymentsInv
<1> QED
  BY <1>1, InitPayments, PaymentsStep, PTL DEF PaymentsSpec

-----------------------------------------------------------------------------
(* Every step is a step of the contract, or changes nothing it speaks of.  *)

RowPhase(x) ==
  IF x = Nil THEN "none"
  ELSE CASE x.status = "INITIATED" -> "open"
         [] x.status = "CAPTURED" -> "taken"
         [] x.status = "REFUNDED" -> "returned"
         [] x.status = "FAILED" -> "failed"

LEMMA PhaseIsOfRow ==
  ASSUME NEW p
  PROVE  PhaseOf(p) = RowPhase(pay[p]) /\ PhaseOf(p)' = RowPhase(pay'[p])
<1>1. PhaseOf(p) = RowPhase(pay[p])
  BY DEF PhaseOf, RowPhase
<1>2. PhaseOf(p)' = RowPhase(pay'[p])
  BY DEF PhaseOf, RowPhase
<1> QED
  BY <1>1, <1>2

PromiseStep == [Promise!ContractNext]_(Promise!contractVars)

LEMMA PromiseStutters ==
  ASSUME \A p \in Payment : PhaseOf(p)' = PhaseOf(p) /\ GivenBack(p)' = GivenBack(p)
  PROVE  PromiseStep
<1>1. [p \in Payment |-> PhaseOf(p)]' = [p \in Payment |-> PhaseOf(p)]
  OBVIOUS
<1>2. [p \in Payment |-> GivenBack(p)]' = [p \in Payment |-> GivenBack(p)]
  OBVIOUS
<1> QED
  BY <1>1, <1>2 DEF PromiseStep, Promise!contractVars

LEMMA RowsUntouched ==
  ASSUME UNCHANGED rows
  PROVE  PromiseStep
<1>1. pay' = pay /\ refunds' = refunds
  BY DEF rows
<1>2. \A p \in Payment : PhaseOf(p)' = PhaseOf(p) /\ GivenBack(p)' = GivenBack(p)
  BY <1>1 DEF PhaseOf, GivenBack, Given
<1> QED
  BY <1>2, PromiseStutters

LEMMA RowMovesPhase ==
  ASSUME PaymentsInv, NEW p \in Payment, NEW x \in PaymentRow,
         pay' = [pay EXCEPT ![p] = x], refunds' = refunds,
         \/ pay[p] = Nil /\ x.status = "INITIATED"
         \/ Exists(p) /\ x.status = pay[p].status
         \/ Has(p, {"INITIATED"}) /\ x.status \in {"CAPTURED", "FAILED"}
  PROVE  PromiseStep
<1>1. \A o \in Payment : GivenBack(o)' = GivenBack(o)
  BY DEF GivenBack, Given
<1>2. /\ pay'[p] = x /\ x # Nil /\ \A o \in Payment \ {p} : pay'[o] = pay[o]
  BY PaymentsAssumption DEF PaymentsInv, PaymentsTypeOK
<1>3. \A o \in Payment \ {p} : PhaseOf(o)' = PhaseOf(o)
  BY <1>2, PhaseIsOfRow
<1>4. [o \in Payment |-> GivenBack(o)]' = [o \in Payment |-> GivenBack(o)]
  BY <1>1
<1>5. CASE Exists(p) /\ x.status = pay[p].status
  <2>1. PhaseOf(p)' = PhaseOf(p)
    BY <1>2, <1>5, PhaseIsOfRow DEF RowPhase, Exists
  <2> QED
    BY <1>1, <1>3, <2>1, PromiseStutters
<1>6. CASE pay[p] = Nil /\ x.status = "INITIATED"
  <2>1. PhaseOf(p) = "none" /\ PhaseOf(p)' = "open"
    BY <1>2, <1>6 DEF PhaseOf
  <2>2. [o \in Payment |-> PhaseOf(o)]' = [[o \in Payment |-> PhaseOf(o)] EXCEPT ![p] = "open"]
    BY <1>3, <2>1
  <2>3. Promise!Open(p)
    BY <1>4, <2>1, <2>2 DEF Promise!Open, Promise!Moves
  <2> QED
    BY <2>3 DEF PromiseStep, Promise!ContractNext
<1>7. CASE Has(p, {"INITIATED"}) /\ x.status = "CAPTURED"
  <2>1. PhaseOf(p) = "open" /\ PhaseOf(p)' = "taken"
    BY <1>2, <1>7 DEF PhaseOf, Has, Exists
  <2>2. [o \in Payment |-> PhaseOf(o)]' = [[o \in Payment |-> PhaseOf(o)] EXCEPT ![p] = "taken"]
    BY <1>3, <2>1
  <2>3. Promise!Take(p)
    BY <1>4, <2>1, <2>2 DEF Promise!Take, Promise!Moves
  <2> QED
    BY <2>3 DEF PromiseStep, Promise!ContractNext
<1>8. CASE Has(p, {"INITIATED"}) /\ x.status = "FAILED"
  <2>1. PhaseOf(p) = "open" /\ PhaseOf(p)' = "failed"
    BY <1>2, <1>8 DEF PhaseOf, Has, Exists
  <2>2. [o \in Payment |-> PhaseOf(o)]' = [[o \in Payment |-> PhaseOf(o)] EXCEPT ![p] = "failed"]
    BY <1>3, <2>1
  <2>3. Promise!Fail(p)
    BY <1>4, <2>1, <2>2 DEF Promise!Fail, Promise!Moves
  <2> QED
    BY <2>3 DEF PromiseStep, Promise!ContractNext
<1> QED
  BY <1>5, <1>6, <1>7, <1>8

LEMMA InsertPaymentPromised ==
  ASSUME PaymentsInv, NEW q \in Asker, NEW p \in Payment, InsertPayment(q, p)
  PROVE  PromiseStep
<1> DEFINE task == req[q]
           x == NewRow(task.ride, "none", task.provider)
<1>1. task \in PaymentJob /\ task.step = "insert"
  BY DEF InsertPayment, At, PaymentsInv, PaymentsTypeOK, PaymentJob
<1>2. task.ride \in Ride /\ task.provider \in Provider
  BY <1>1, JobKinds
<1>3. x \in PaymentRow /\ x.status = "INITIATED"
  BY <1>2 DEF NewRow, PaymentRow, PaymentStatus, Stage
<1> HIDE DEF x
<1>4. CASE pay' = [pay EXCEPT ![p] = x]
  BY <1>3, <1>4, RowMovesPhase DEF InsertPayment
<1>5. CASE UNCHANGED pay
  BY <1>5, RowsUntouched DEF InsertPayment, rows
<1> QED
  BY <1>4, <1>5 DEF InsertPayment, x

LEMMA InitiateStagePromised ==
  ASSUME PaymentsInv, NEW q \in Asker, NEW p \in Payment, NEW r \in Ride, NEW s \in {"upfront", "final"},
         NEW prov \in Provider, InitiateStage(q, p, r, s, prov)
  PROVE  PromiseStep
<1> DEFINE x == NewRow(r, s, prov)
<1>1. x \in PaymentRow /\ x.status = "INITIATED"
  BY DEF NewRow, PaymentRow, PaymentStatus, Stage
<1> HIDE DEF x
<1>2. CASE pay[p] = Nil /\ pay' = [pay EXCEPT ![p] = x]
  BY <1>1, <1>2, RowMovesPhase DEF InitiateStage
<1>3. CASE UNCHANGED pay
  BY <1>3, RowsUntouched DEF InitiateStage, rows
<1> QED
  BY <1>2, <1>3 DEF InitiateStage, x

LEMMA LinkOrderPromised ==
  ASSUME PaymentsInv, NEW q \in Asker, LinkOrder(q)
  PROVE  PromiseStep
<1>1. PICK p : p = req[q].payment
  OBVIOUS
<1>2. p \in Payment /\ Exists(p) /\ pay[p] \in PaymentRow
  BY <1>1, RowStepTaken DEF LinkOrder, RowSteps
<1>3. PICK x : x = [pay[p] EXCEPT !.linked = TRUE]
  OBVIOUS
<1>4. x \in PaymentRow /\ x.status = pay[p].status
  BY <1>2, <1>3 DEF PaymentRow
<1>5. pay' = [pay EXCEPT ![p] = x] /\ refunds' = refunds
  BY <1>1, <1>3 DEF LinkOrder
<1> QED
  BY <1>2, <1>4, <1>5, RowMovesPhase

LEMMA CapturePromised ==
  ASSUME PaymentsInv, NEW q \in Asker, Capture(q)
  PROVE  PromiseStep
<1>1. PICK p : p = req[q].payment
  OBVIOUS
<1>2. p \in Payment /\ Exists(p) /\ pay[p] \in PaymentRow
  BY <1>1, RowStepTaken DEF Capture, RowSteps
<1>3. CASE ~Capturable(p)
  BY <1>1, <1>3, RowsUntouched DEF Capture, rows
<1>4. CASE Capturable(p)
  <2>1. PICK x : x = [pay[p] EXCEPT !.status = "CAPTURED"]
    OBVIOUS
  <2>2. x \in PaymentRow /\ x.status = "CAPTURED"
    BY <1>2, <2>1, RowFields DEF PaymentStatus
  <2>3. pay' = [pay EXCEPT ![p] = x] /\ refunds' = refunds
    BY <1>1, <1>4, <2>1 DEF Capture, SetStatus
  <2>4. Has(p, {"INITIATED"}) \/ x.status = pay[p].status
    BY <1>4, <2>2 DEF Capturable, Has
  <2> QED
    BY <1>2, <2>2, <2>3, <2>4, RowMovesPhase
<1> QED
  BY <1>3, <1>4

LEMMA MarkFailedPromised ==
  ASSUME PaymentsInv, NEW q \in Asker, MarkFailed(q)
  PROVE  PromiseStep
<1>1. PICK p : p = req[q].payment
  OBVIOUS
<1>2. p \in Payment /\ Exists(p) /\ pay[p] \in PaymentRow
  BY <1>1, RowStepTaken DEF MarkFailed, RowSteps
<1>3. CASE ~Has(p, {"INITIATED", "FAILED"})
  BY <1>1, <1>3, RowsUntouched DEF MarkFailed, rows
<1>4. CASE Has(p, {"INITIATED", "FAILED"})
  <2>1. PICK x : x = [pay[p] EXCEPT !.status = "FAILED"]
    OBVIOUS
  <2>2. x \in PaymentRow /\ x.status = "FAILED"
    BY <1>2, <2>1, RowFields DEF PaymentStatus
  <2>3. pay' = [pay EXCEPT ![p] = x] /\ refunds' = refunds
    BY <1>1, <1>4, <2>1 DEF MarkFailed, SetStatus
  <2>4. Has(p, {"INITIATED"}) \/ x.status = pay[p].status
    BY <1>4, <2>2 DEF Has
  <2> QED
    BY <1>2, <2>2, <2>3, <2>4, RowMovesPhase
<1> QED
  BY <1>3, <1>4

LEMMA ClaimCashPromised ==
  ASSUME PaymentsInv, NEW p \in Payment, ClaimCash(p)
  PROVE  PromiseStep
<1>1. PICK x : x = [pay[p] EXCEPT !.claimed = TRUE]
  OBVIOUS
<1>2. Exists(p) /\ pay[p] \in PaymentRow
  BY DEF ClaimCash, Has, Exists, PaymentsInv, PaymentsTypeOK
<1>3. x \in PaymentRow /\ x.status = pay[p].status
  BY <1>1, <1>2 DEF PaymentRow
<1> QED
  BY <1>1, <1>2, <1>3, RowMovesPhase DEF ClaimCash

LEMMA RecordRefundPromised ==
  ASSUME PaymentsInv, NEW q \in Asker, RecordRefund(q)
  PROVE  PromiseStep
<1>1. PICK id : id = req[q].id
  OBVIOUS
<1>2. PICK p : p = id.payment
  OBVIOUS
<1>3. PICK row : row = [id |-> id, by |-> q, status |-> req[q].outcome]
  OBVIOUS
<1>4. /\ id \in RefundId /\ p \in Payment /\ Exists(p) /\ pay[p] \in PaymentRow
      /\ id.already \in Nat /\ id.amount \in 1..Amount /\ id.already + id.amount <= Amount
      /\ req[q] \in PaymentJob /\ req[q].step = "record" /\ JobFits(q, req[q])
  BY <1>1, <1>2, RefundStepTaken DEF RecordRefund, RefundSteps
<1>5. Has(p, {"CAPTURED"}) /\ GivenBack(p) = id.already
  BY <1>1, <1>2, <1>4 DEF JobFits, LockHolds
<1>6. /\ row \in Refund /\ row.id = id /\ row.id.payment = p /\ row.id.amount = id.amount
      /\ row.status = req[q].outcome
  <2>1. req[q].outcome \in {"SUCCESS", "PENDING"}
    BY <1>4, JobKinds
  <2> QED
    BY <1>2, <1>3, <1>4, <2>1 DEF Refund
<1>7. refunds' = refunds \cup {row}
  BY <1>1, <1>2, <1>3 DEF RecordRefund
<1>8. row \notin refunds
  <2> SUFFICES ASSUME row \in refunds PROVE FALSE
    OBVIOUS
  <2>1. id.already + id.amount <= GivenBack(p)
    BY <1>6 DEF PaymentsInv, RefundsFollow
  <2> QED
    BY <1>4, <1>5, <2>1, PaymentsAssumption
<1>9. /\ GivenBack(p)' = GivenBack(p) + id.amount /\ GivenBack(p) \in Nat
      /\ Confirmed(p)' = Confirmed(p) + (IF row.status = "SUCCESS" THEN id.amount ELSE 0)
      /\ \A o : o # p => Given(o)' = Given(o)
  BY <1>4, <1>6, <1>7, <1>8, BookingAdds
<1>10. IF Confirmed(p)' = Amount THEN SetStatus(p, "REFUNDED") ELSE UNCHANGED pay
  BY <1>1, <1>2, <1>6, <1>9 DEF RecordRefund
<1>11. \A o \in Payment \ {p} : GivenBack(o)' = GivenBack(o)
  BY <1>9 DEF GivenBack
<1>12. PICK sum : sum = GivenBack(p)'
  OBVIOUS
<1>13. sum \in (GivenBack(p) + 1)..Amount
  BY <1>4, <1>5, <1>9, <1>12, PaymentsAssumption
<1>14. [o \in Payment |-> GivenBack(o)]' = [[o \in Payment |-> GivenBack(o)] EXCEPT ![p] = sum]
  BY <1>11, <1>12
<1>15. \A o \in Payment \ {p} : PhaseOf(o)' = PhaseOf(o)
  <2>1. \A o \in Payment \ {p} : pay'[o] = pay[o]
    BY <1>10 DEF SetStatus, PaymentsInv, PaymentsTypeOK
  <2> QED
    BY <2>1, PhaseIsOfRow
<1>16. PhaseOf(p) = "taken"
  BY <1>5 DEF PhaseOf, Has, Exists
<1>17. CASE Confirmed(p)' # Amount
  <2>1. \A o \in Payment : PhaseOf(o)' = PhaseOf(o)
    BY <1>10, <1>17, PhaseIsOfRow
  <2>2. [o \in Payment |-> PhaseOf(o)]' = [o \in Payment |-> PhaseOf(o)]
    BY <2>1
  <2>3. Promise!Return(p)
    BY <1>4, <1>13, <1>14, <1>16, <2>2 DEF Promise!Return
  <2> QED
    BY <1>4, <2>3 DEF PromiseStep, Promise!ContractNext
<1>18. CASE Confirmed(p)' = Amount
  <2>1. PhaseOf(p)' = "returned"
    <3>1. PICK x : x = [pay[p] EXCEPT !.status = "REFUNDED"]
      OBVIOUS
    <3>2. x \in PaymentRow /\ x.status = "REFUNDED"
      BY <1>4, <3>1, RowFields DEF PaymentStatus
    <3>3. pay'[p] = x
      BY <1>4, <1>10, <1>18, <3>1 DEF SetStatus, PaymentsInv, PaymentsTypeOK
    <3> QED
      BY <3>2, <3>3, PaymentsAssumption DEF PhaseOf
  <2>2. [o \in Payment |-> PhaseOf(o)]' = [[o \in Payment |-> PhaseOf(o)] EXCEPT ![p] = "returned"]
    BY <1>15, <2>1
  <2>3. GivenBack(p)' = Amount
    <3>1. Given(p)' \in SUBSET Refund /\ IsFiniteSet(Given(p)')
      <4>1. refunds' \in SUBSET Refund /\ IsFiniteSet(refunds')
        BY <1>6, <1>7, FS_AddElement DEF PaymentsInv, PaymentsTypeOK, RefundsFollow
      <4>2. Given(p)' \in SUBSET refunds'
        BY DEF Given
      <4> QED
        BY <4>1, <4>2, FS_Subset
    <3>2. Confirmed(p)' <= GivenBack(p)'
      <4>1. {y \in Given(p)' : y.status = "SUCCESS"} \in SUBSET Given(p)'
        OBVIOUS
      <4>2. Worth({y \in Given(p)' : y.status = "SUCCESS"}) <= Worth(Given(p)')
        BY <3>1, <4>1, WorthOfPart
      <4> QED
        BY <4>2 DEF Confirmed, GivenBack
    <3> QED
      BY <1>12, <1>13, <1>18, <3>2, PaymentsAssumption
  <2>4. [o \in Payment |-> GivenBack(o)]'[p] = Amount
    BY <1>4, <2>3
  <2>5. Promise!Return(p)
    BY <1>4, <1>13, <1>14, <1>16, <2>2, <2>4 DEF Promise!Return
  <2> QED
    BY <1>4, <2>5 DEF PromiseStep, Promise!ContractNext
<1> QED
  BY <1>17, <1>18

\* Racing captures, failures, webhooks and refunds make only steps of the contract.
THEOREM PaymentsKeepPromise == PaymentsSpec => KeepsPromise
<1>1. PaymentsInit => Promise!ContractInit
  <2> SUFFICES ASSUME PaymentsInit PROVE Promise!ContractInit
    OBVIOUS
  <2>1. \A p \in Payment : PhaseOf(p) = "none"
    BY DEF PaymentsInit, PhaseOf
  <2>2. \A p \in Payment : GivenBack(p) = 0
    BY WorthOfNothing DEF PaymentsInit, GivenBack, Given
  <2> QED
    BY <2>1, <2>2 DEF Promise!ContractInit
<1>2. PaymentsInv /\ [PaymentsNext]_paymentVars => PromiseStep
  <2> SUFFICES ASSUME PaymentsInv, [PaymentsNext]_paymentVars PROVE PromiseStep
    OBVIOUS
  <2>1. CASE UNCHANGED paymentVars
    BY <2>1, RowsUntouched DEF paymentVars
  <2>2. CASE Outside
    <3>1. CASE \E p \in Payment : ClaimCash(p)
      BY <3>1, ClaimCashPromised
    <3>2. CASE UNCHANGED rows
      BY <3>2, RowsUntouched
    <3> QED
      BY <2>2, <3>1, <3>2 DEF Outside, AcceptRide, CancelRide, StartTrip, CompleteRide, RideMoves,
         PayOrder, FailAttempt, ExpireOrder
  <2>3. ASSUME NEW q \in Asker, Opening(q) PROVE PromiseStep
    <3>1. CASE UNCHANGED rows
      BY <3>1, RowsUntouched
    <3> QED
      BY <2>3, <3>1, InsertPaymentPromised, InitiateStagePromised, LinkOrderPromised
      DEF Opening, BeginInitiate, ResumeCheckout, CreateOrder
  <2>4. ASSUME NEW q \in Asker, Deciding(q) PROVE PromiseStep
    <3>1. CASE UNCHANGED rows
      BY <3>1, RowsUntouched
    <3> QED
      BY <2>4, <3>1, CapturePromised, MarkFailedPromised
      DEF Deciding, BeginCapture, ReceiveWebhook, ConfirmCash, Verify
  <2>5. ASSUME NEW q \in Asker, Refunding(q) \/ CutOff(q) PROVE PromiseStep
    <3>1. CASE UNCHANGED rows
      BY <3>1, RowsUntouched
    <3> QED
      BY <2>5, <3>1, RecordRefundPromised DEF Refunding, BeginRefund, LockForRefund, SubmitRefund, CutOff
  <2> QED
    BY <2>1, <2>2, <2>3, <2>4, <2>5 DEF PaymentsNext
<1> QED
  BY <1>1, <1>2, InitPayments, PaymentsStep, PTL
  DEF PaymentsSpec, KeepsPromise, Promise!ContractSpec, PromiseStep


-----------------------------------------------------------------------------
(* What a set of entries comes to.                                         *)

EntryWeight == [x \in WalletEntry |-> x.amount]

LEMMA MoneyIsTotal ==
  ASSUME NEW S \in SUBSET WalletEntry, IsFiniteSet(S)
  PROVE  Ledger!Money(S) = Total(EntryWeight, S)
<1> DEFINE F(g) == [s \in SUBSET S |-> IF s = {} THEN 0 ELSE Taking(s).amount + g[s \ {Taking(s)}]]
           G == CHOOSE g : g = F(g)
<1>1. \A s \in SUBSET S : s # {} => EntryWeight[Taking(s)] = Taking(s).amount
  BY TakingIsIn DEF EntryWeight
<1>2. \A g : AddsUp(g, EntryWeight, S) <=> g = F(g)
  BY <1>1 DEF AddsUp
<1>3. \E g : g = F(g)
  BY <1>2, AddingIsPossible
<1>4. G = F(G)
  BY <1>3
<1>5. AddsUp(G, EntryWeight, S)
  BY <1>2, <1>4
<1>6. Total(EntryWeight, S) = G[S]
  BY <1>5, SumOfPart
<1>7. Ledger!Money(S) = G[S]
  BY DEF Ledger!Money, Ledger!MapThenSumSet, Ledger!MapThenFoldSet, Taking
<1> QED
  BY <1>6, <1>7

LEMMA MoneyOfNothing == Ledger!Money({}) = 0
BY MoneyIsTotal, SumOfNothing, FS_EmptySet

LEMMA MoneyGrows ==
  ASSUME NEW S \in SUBSET WalletEntry, IsFiniteSet(S), NEW e \in WalletEntry, e \notin S
  PROVE  Ledger!Money(S \cup {e}) = Ledger!Money(S) + e.amount /\ Ledger!Money(S) \in Int
<1>1. \A x \in S \cup {e} : EntryWeight[x] \in Int
  BY DEF EntryWeight, WalletEntry
<1>2. IsFiniteSet(S \cup {e})
  BY FS_AddElement
<1>3. Total(EntryWeight, S \cup {e}) = Total(EntryWeight, S) + EntryWeight[e]
  BY <1>1, SumGrows
<1>4. Total(EntryWeight, S) \in Int
  BY <1>1, SumIsInteger
<1>5. Ledger!Money(S \cup {e}) = Total(EntryWeight, S \cup {e}) /\ Ledger!Money(S) = Total(EntryWeight, S)
  BY <1>2, MoneyIsTotal
<1>6. EntryWeight[e] = e.amount
  BY DEF EntryWeight
<1> QED
  BY <1>3, <1>4, <1>5, <1>6

\* A new entry moves its user's balance by its amount, and no other balance.
LEMMA EntryMoves ==
  ASSUME NEW E \in SUBSET WalletEntry, IsFiniteSet(E), NEW e \in WalletEntry, e \notin E, NEW u
  PROVE  /\ Ledger!SumOf(E, u) \in Int
         /\ Ledger!SumOf(E \cup {e}, u) = Ledger!SumOf(E, u) + (IF e.user = u THEN e.amount ELSE 0)
<1> DEFINE S == {x \in E : x.user = u}
<1>1. S \in SUBSET WalletEntry /\ IsFiniteSet(S) /\ e \notin S
  BY FS_Subset
<1>2. {x \in E \cup {e} : x.user = u} = IF e.user = u THEN S \cup {e} ELSE S
  OBVIOUS
<1>3. /\ Ledger!SumOf(E, u) = Ledger!Money(S)
      /\ Ledger!SumOf(E \cup {e}, u) = IF e.user = u THEN Ledger!Money(S \cup {e}) ELSE Ledger!Money(S)
  BY <1>2 DEF Ledger!SumOf
<1> HIDE DEF S
<1>4. Ledger!Money(S \cup {e}) = Ledger!Money(S) + e.amount /\ Ledger!Money(S) \in Int
  BY <1>1, MoneyGrows
<1> QED
  BY <1>3, <1>4

-----------------------------------------------------------------------------
(* Transactions and the rows they hold.                                    *)

Mine(s) == {row \in LockRow : held[row] = s}

\* A top-up locks one row; every other transaction locks a first one before it.
TwoRows(j) == j.do # "topup"
FirstRow(j) ==
  IF j.do = "transfer" THEN WalletLock(IF j.from < j.to THEN j.from ELSE j.to) ELSE PaymentLock(j.payment)
LastRow(j) ==
  IF j.do = "transfer" THEN WalletLock(IF j.from < j.to THEN j.to ELSE j.from)
  ELSE WalletLock(owner[IF j.do = "topup" THEN j.order ELSE j.payment])

\* A transaction holds exactly the rows it no longer wants, and what it read in the
\* wallets it holds is still there.
TxnFits(s, x) ==
  /\ x = ClosedTxn => Mine(s) = {}
  /\ x # ClosedTxn =>
       /\ \/ TwoRows(x.job) /\ x.wants = <<FirstRow(x.job), LastRow(x.job)>> /\ Mine(s) = {}
          \/ x.wants = <<LastRow(x.job)>> /\ Mine(s) = IF TwoRows(x.job) THEN {FirstRow(x.job)} ELSE {}
          \/ /\ x.wants = <<>>
             /\ Mine(s) = IF TwoRows(x.job) THEN {FirstRow(x.job), LastRow(x.job)} ELSE {LastRow(x.job)}
       /\ \A u \in Holder : WalletLock(u) \in Mine(s) => x.read[u] = balance[u]
       /\ x.job.do = "transfer" => x.job.from # x.job.to
       /\ x.job.do = "refund" => x.job.already < Cost

TxnsFit == \A s \in Session : TxnFits(s, txn[s])

\* A payment is captured exactly when its debit is booked; the refunds booked are
\* those of the units given back; a credit comes with its debit.
BookingsFit ==
  /\ IsFiniteSet(entries)
  /\ \A p \in WalletPayment :
       /\ state[p] \in {"CAPTURED", "REFUNDED"} <=> Booked(owner[p], <<"pay", p>>)
       /\ state[p] = "REFUNDED" <=> returned[p] = Cost
       /\ \A a \in 0..Cost : Booked(owner[p], <<"refund", p, a>>) <=> a < returned[p]
  /\ \A x \in entries, f \in Holder, k \in TransferKey :
       x.key = <<"credit", f, k>> => Booked(f, <<"transfer", k>>)

WalletInv == WalletTypeOK /\ BalanceIsLedger /\ TxnsFit /\ BookingsFit

LEMMA Tuples ==
  ASSUME NEW a, NEW b
  PROVE  /\ Head(<<a, b>>) = a /\ Tail(<<a, b>>) = <<b>> /\ <<a, b>> # <<>>
         /\ Head(<<b>>) = b /\ Tail(<<b>>) = <<>> /\ <<b>> # <<>>
         /\ <<a, b>> # <<b>>
<1>1. Head(<<a, b>>) = a /\ Head(<<b>>) = b
  OBVIOUS
<1>2. Tail(<<a, b>>) = <<b>>
  OBVIOUS
<1>3. Tail(<<b>>) = <<>>
  OBVIOUS
<1>4. <<a, b>> # <<>> /\ <<b>> # <<>>
  OBVIOUS
<1>5. <<a, b>> # <<b>>
  OBVIOUS
<1> QED
  BY <1>1, <1>2, <1>3, <1>4, <1>5

LEMMA WalletJobKinds ==
  ASSUME NEW j \in WalletJob
  PROVE  /\ j.do \in {"topup", "transfer", "pay", "refund"}
         /\ j.do = "topup" => j.order \in TopUp
         /\ j.do = "transfer" => j.from \in Holder /\ j.to \in Holder /\ j.key \in TransferKey
         /\ j.do \in {"pay", "refund"} => j.payment \in WalletPayment
         /\ j.do = "refund" => j.already \in 0..Cost
BY DEF WalletJob

LEMMA OpenTxnFields ==
  ASSUME NEW x \in OpenTxn
  PROVE  x # ClosedTxn /\ x.job \in WalletJob /\ x.wants \in Seq(LockRow) /\ x.read \in [Holder -> Nat]
<1>1. x.job \in WalletJob /\ x.wants \in Seq(LockRow) /\ x.read \in [Holder -> Nat]
  BY DEF OpenTxn
<1>2. ClosedTxn.job = NoSession
  BY DEF ClosedTxn
<1> QED
  BY <1>1, <1>2, WalletAssumption

LEMMA RunningIsOpen ==
  ASSUME WalletInv, NEW s \in Session, Running(s)
  PROVE  txn[s] \in OpenTxn /\ txn[s].job \in WalletJob /\ TxnFits(s, txn[s])
BY OpenTxnFields DEF WalletInv, WalletTypeOK, TxnsFit, Running

LEMMA RowsOfJob ==
  ASSUME WalletTypeOK, NEW j \in WalletJob
  PROVE  /\ LastRow(j) \in LockRow
         /\ TwoRows(j) => FirstRow(j) \in LockRow
<1>1. \A u \in Holder : WalletLock(u) \in LockRow
  BY DEF WalletLock, LockRow
<1>2. \A p \in WalletPayment : PaymentLock(p) \in LockRow
  BY DEF PaymentLock, LockRow
<1>3. \A x \in TopUp \cup WalletPayment : owner[x] \in Holder
  BY DEF WalletTypeOK
<1>4. LastRow(j) \in LockRow
  BY <1>1, <1>3, WalletJobKinds DEF LastRow
<1>5. TwoRows(j) => FirstRow(j) \in LockRow
  BY <1>1, <1>2, WalletJobKinds DEF FirstRow, TwoRows
<1> QED
  BY <1>4, <1>5

LEMMA TxnStays ==
  ASSUME NEW s \in Session, NEW x, TxnFits(s, x), owner' = owner, Mine(s)' = Mine(s),
         \A u \in Holder : WalletLock(u) \in Mine(s) => balance'[u] = balance[u]
  PROVE  TxnFits(s, x)'
<1>1. FirstRow(x.job)' = FirstRow(x.job) /\ LastRow(x.job)' = LastRow(x.job)
  BY DEF FirstRow, LastRow
<1>2. \A u : WalletLock(u)' = WalletLock(u)
  BY DEF WalletLock
<1> QED
  BY <1>1, <1>2 DEF TxnFits

\* One session moves on; the others keep their rows, and the balances in them.
LEMMA SessionMoves ==
  ASSUME WalletInv, NEW s \in Session, NEW x \in {ClosedTxn} \cup OpenTxn,
         txn' = [txn EXCEPT ![s] = x], TxnFits(s, x)', owner' = owner,
         \A r \in Session \ {s} : Mine(r)' = Mine(r),
         \A u \in Holder : balance'[u] # balance[u] => WalletLock(u) \in Mine(s)
  PROVE  TxnsFit' /\ txn' \in [Session -> {ClosedTxn} \cup OpenTxn]
<1>1. txn \in [Session -> {ClosedTxn} \cup OpenTxn]
  BY DEF WalletInv, WalletTypeOK
<1>2. /\ txn' \in [Session -> {ClosedTxn} \cup OpenTxn]
      /\ txn'[s] = x /\ \A r \in Session \ {s} : txn'[r] = txn[r]
  BY <1>1
<1> SUFFICES ASSUME NEW r \in Session PROVE TxnFits(r, txn[r])'
  BY <1>2 DEF TxnsFit
<1>3. CASE r = s
  BY <1>2, <1>3 DEF TxnFits, Mine, FirstRow, LastRow
<1>4. CASE r # s
  <2>1. PICK y : y = txn[r]
    OBVIOUS
  <2>2. TxnFits(r, y)
    BY <2>1 DEF WalletInv, TxnsFit
  <2>3. \A u \in Holder : WalletLock(u) \in Mine(r) => balance'[u] = balance[u]
    BY <1>4 DEF Mine
  <2>4. TxnFits(r, y)'
    BY <1>4, <2>2, <2>3, TxnStays
  <2> QED
    BY <1>2, <1>4, <2>1, <2>4 DEF TxnFits, Mine, FirstRow, LastRow
<1> QED
  BY <1>3, <1>4

LEMMA NothingBooked ==
  ASSUME WalletInv, UNCHANGED <<balance, entries, owner, state, returned>>
  PROVE  BalanceIsLedger' /\ BookingsFit'
BY DEF WalletInv, BalanceIsLedger, BookingsFit, Booked

LEMMA BeginKeeps ==
  ASSUME WalletInv, NEW s \in Session, NEW j \in WalletJob, NEW asks \in Seq(LockRow), Begin(s, j, asks),
         asks = IF TwoRows(j) THEN <<FirstRow(j), LastRow(j)>> ELSE <<LastRow(j)>>,
         j.do = "transfer" => j.from # j.to, j.do = "refund" => j.already < Cost
  PROVE  WalletInv'
<1>1. PICK x : x = [job |-> j, wants |-> asks, read |-> NothingRead]
  OBVIOUS
<1>2. x \in OpenTxn /\ x.job = j /\ x.wants = asks
  BY <1>1 DEF OpenTxn, NothingRead
<1>3. /\ txn' = [txn EXCEPT ![s] = x]
      /\ balance' = balance /\ entries' = entries /\ owner' = owner /\ paid' = paid
      /\ state' = state /\ returned' = returned /\ held' = held
  BY <1>1 DEF Begin
<1>4. \A r : Mine(r)' = Mine(r)
  BY <1>3 DEF Mine
<1>5. Mine(s) = {}
  BY DEF Begin, Running, WalletInv, TxnsFit, TxnFits
<1>6. TxnFits(s, x)'
  <2>1. FirstRow(j)' = FirstRow(j) /\ LastRow(j)' = LastRow(j)
    BY <1>3 DEF FirstRow, LastRow
  <2>2. Mine(s)' = {} /\ x # ClosedTxn
    BY <1>2, <1>4, <1>5, OpenTxnFields
  <2> QED
    BY <1>2, <2>1, <2>2 DEF TxnFits
<1>7. TxnsFit' /\ txn' \in [Session -> {ClosedTxn} \cup OpenTxn]
  BY <1>2, <1>3, <1>4, <1>6, SessionMoves
<1>8. WalletTypeOK'
  BY <1>3, <1>7 DEF WalletInv, WalletTypeOK
<1> QED
  BY <1>3, <1>7, <1>8, NothingBooked DEF WalletInv

\* The sequences of rows that the operations ask for.
LEMMA OrdersOfRows ==
  ASSUME WalletTypeOK
  PROVE  /\ \A o \in TopUp : <<WalletLock(owner[o])>> \in Seq(LockRow)
         /\ \A p \in WalletPayment : <<PaymentLock(p), WalletLock(owner[p])>> \in Seq(LockRow)
         /\ \A f, t \in Holder : InIdOrder(f, t) \in Seq(LockRow)
<1>1. \A u \in Holder : WalletLock(u) \in LockRow
  BY DEF WalletLock, LockRow
<1>2. \A p \in WalletPayment : PaymentLock(p) \in LockRow
  BY DEF PaymentLock, LockRow
<1>3. \A x \in TopUp \cup WalletPayment : owner[x] \in Holder
  BY DEF WalletTypeOK
<1>4. \A a, b \in LockRow : <<a, b>> \in Seq(LockRow) /\ <<a>> \in Seq(LockRow)
  OBVIOUS
<1>5. \A o \in TopUp : <<WalletLock(owner[o])>> \in Seq(LockRow)
  BY <1>1, <1>3, <1>4
<1>6. \A p \in WalletPayment : <<PaymentLock(p), WalletLock(owner[p])>> \in Seq(LockRow)
  BY <1>1, <1>2, <1>3, <1>4
<1>7. \A f, t \in Holder : InIdOrder(f, t) \in Seq(LockRow)
  BY <1>1, <1>4 DEF InIdOrder
<1> QED
  BY <1>5, <1>6, <1>7

LEMMA BeginTopUpKeeps ==
  ASSUME WalletInv, NEW s \in Session, NEW o \in TopUp, BeginTopUp(s, o)
  PROVE  WalletInv'
<1>1. PICK j : j = [do |-> "topup", order |-> o]
  OBVIOUS
<1>2. j \in WalletJob /\ j.do = "topup" /\ j.order = o
  BY <1>1 DEF WalletJob
<1>3. PICK asks : asks = <<WalletLock(owner[o])>>
  OBVIOUS
<1>4. asks \in Seq(LockRow) /\ Begin(s, j, asks)
  BY <1>1, <1>3, OrdersOfRows DEF WalletInv, BeginTopUp
<1>5. ~TwoRows(j) /\ asks = <<LastRow(j)>>
  BY <1>2, <1>3 DEF TwoRows, LastRow
<1> QED
  BY <1>2, <1>4, <1>5, BeginKeeps

LEMMA BeginTransferKeeps ==
  ASSUME WalletInv, NEW s \in Session, NEW from \in Holder, NEW to \in Holder, NEW k \in TransferKey,
         BeginTransfer(s, from, to, k)
  PROVE  WalletInv'
<1>1. PICK j : j = [do |-> "transfer", from |-> from, to |-> to, key |-> k]
  OBVIOUS
<1>2. j \in WalletJob /\ j.do = "transfer" /\ j.from = from /\ j.to = to
  BY <1>1 DEF WalletJob
<1>3. PICK asks : asks = InIdOrder(from, to)
  OBVIOUS
<1>4. asks \in Seq(LockRow) /\ Begin(s, j, asks) /\ from # to
  BY <1>1, <1>3, OrdersOfRows DEF WalletInv, BeginTransfer
<1>5. TwoRows(j) /\ asks = <<FirstRow(j), LastRow(j)>>
  BY <1>2, <1>3 DEF TwoRows, LastRow, FirstRow, InIdOrder
<1> QED
  BY <1>2, <1>4, <1>5, BeginKeeps

LEMMA BeginPayKeeps ==
  ASSUME WalletInv, NEW s \in Session, NEW p \in WalletPayment, BeginPay(s, p) \/ BeginWalletRefund(s, p)
  PROVE  WalletInv'
<1>1. PICK j : \/ BeginPay(s, p) /\ j = [do |-> "pay", payment |-> p]
               \/ /\ BeginWalletRefund(s, p)
                  /\ j = [do |-> "refund", payment |-> p, already |-> returned[p]]
  OBVIOUS
<1>2. /\ j \in WalletJob /\ j.do \in {"pay", "refund"} /\ j.payment = p
      /\ j.do = "refund" => j.already < Cost
  BY <1>1 DEF WalletJob, BeginWalletRefund, WalletInv, WalletTypeOK
<1>3. PICK asks : asks = <<PaymentLock(p), WalletLock(owner[p])>>
  OBVIOUS
<1>4. asks \in Seq(LockRow) /\ Begin(s, j, asks)
  BY <1>1, <1>3, OrdersOfRows DEF WalletInv, BeginPay, BeginWalletRefund
<1>5. TwoRows(j) /\ asks = <<FirstRow(j), LastRow(j)>>
  BY <1>2, <1>3 DEF TwoRows, LastRow, FirstRow
<1> QED
  BY <1>2, <1>4, <1>5, BeginKeeps

LEMMA ReleaseFrees ==
  ASSUME WalletInv, NEW s \in Session, Release(s)
  PROVE  /\ held' \in [LockRow -> Session \cup {NoSession}]
         /\ txn' = [txn EXCEPT ![s] = ClosedTxn]
         /\ TxnFits(s, ClosedTxn)'
         /\ \A r \in Session \ {s} : Mine(r)' = Mine(r)
<1>1. held \in [LockRow -> Session \cup {NoSession}]
  BY DEF WalletInv, WalletTypeOK
<1>2. held' = [row \in LockRow |-> IF held[row] = s THEN NoSession ELSE held[row]]
  BY DEF Release
<1>3. held' \in [LockRow -> Session \cup {NoSession}]
  BY <1>1, <1>2
<1>4. Mine(s)' = {} /\ \A r \in Session \ {s} : Mine(r)' = Mine(r)
  BY <1>1, <1>2, WalletAssumption DEF Mine
<1>5. TxnFits(s, ClosedTxn)'
  BY <1>4 DEF TxnFits, ClosedTxn
<1> QED
  BY <1>3, <1>4, <1>5 DEF Release

\* A transaction ends: the rows are free, and whatever it wrote was in its own rows.
LEMMA EndKeeps ==
  ASSUME WalletInv, NEW s \in Session, Release(s), owner' = owner,
         \A u \in Holder : balance'[u] # balance[u] => WalletLock(u) \in Mine(s)
  PROVE  TxnsFit' /\ txn' \in [Session -> {ClosedTxn} \cup OpenTxn]
         /\ held' \in [LockRow -> Session \cup {NoSession}]
BY ReleaseFrees, SessionMoves

LEMMA RollBackKeeps ==
  ASSUME WalletInv, NEW s \in Session, RollBack(s)
  PROVE  WalletInv'
<1>1. /\ Release(s) /\ balance' = balance /\ entries' = entries /\ owner' = owner /\ paid' = paid
      /\ state' = state /\ returned' = returned
  BY DEF RollBack
<1>2. TxnsFit' /\ txn' \in [Session -> {ClosedTxn} \cup OpenTxn] /\ held' \in [LockRow -> Session \cup {NoSession}]
  BY <1>1, EndKeeps
<1>3. WalletTypeOK'
  BY <1>1, <1>2 DEF WalletInv, WalletTypeOK
<1> QED
  BY <1>1, <1>2, <1>3, NothingBooked DEF WalletInv

LEMMA LockKeeps ==
  ASSUME WalletInv, NEW s \in Session, Lock(s)
  PROVE  WalletInv'
<1>1. PICK t : t = txn[s]
  OBVIOUS
<1>2. /\ t \in OpenTxn /\ t # ClosedTxn /\ t.job \in WalletJob /\ t.read \in [Holder -> Nat] /\ TxnFits(s, t)
      /\ t.wants \in Seq(LockRow)
  BY <1>1, RunningIsOpen, OpenTxnFields DEF Lock
<1>3. PICK row : row = Head(t.wants)
  OBVIOUS
<1>4. PICK read : read = IF row[1] = "wallet" THEN [t.read EXCEPT ![row[2]] = balance[row[2]]] ELSE t.read
  OBVIOUS
<1>5. PICK x : x = [job |-> t.job, wants |-> Tail(t.wants), read |-> read]
  OBVIOUS
<1>6. /\ t.wants # <<>> /\ held[row] = NoSession /\ held' = [held EXCEPT ![row] = s]
      /\ balance' = balance /\ entries' = entries /\ owner' = owner /\ paid' = paid
      /\ state' = state /\ returned' = returned
  BY <1>1, <1>3 DEF Lock, Ready
<1>7. txn' = [txn EXCEPT ![s] = x]
  <2>1. txn' = [txn EXCEPT ![s].wants = Tail(@),
                           ![s].read = IF row[1] = "wallet" THEN [@ EXCEPT ![row[2]] = balance[row[2]]] ELSE @]
    BY <1>1, <1>3 DEF Lock
  <2>2. x = [t EXCEPT !.wants = Tail(@),
                      !.read = IF row[1] = "wallet" THEN [@ EXCEPT ![row[2]] = balance[row[2]]] ELSE @]
    <3>1. t = [job |-> t.job, wants |-> t.wants, read |-> t.read]
      BY <1>2 DEF OpenTxn
    <3>2. [t EXCEPT !.wants = Tail(@),
                    !.read = IF row[1] = "wallet" THEN [@ EXCEPT ![row[2]] = balance[row[2]]] ELSE @]
          = [t EXCEPT !.wants = Tail(t.wants), !.read = read]
      <4>1. CASE row[1] = "wallet"
        <5>1. read = [t.read EXCEPT ![row[2]] = balance[row[2]]]
          BY <1>4, <4>1
        <5> QED
          BY <3>1, <4>1, <5>1
      <4>2. CASE row[1] # "wallet"
        BY <1>4, <3>1, <4>2
      <4> QED
        BY <4>1, <4>2
    <3>3. [t EXCEPT !.wants = Tail(t.wants), !.read = read] = x
      <4>1. PICK w : w = Tail(t.wants)
        OBVIOUS
      <4>2. PICK v : v = [t EXCEPT !.wants = w]
        OBVIOUS
      <4>3. v = [job |-> t.job, wants |-> w, read |-> t.read]
        BY <3>1, <4>2
      <4>4. [v EXCEPT !.read = read] = x
        <5>1. x = [job |-> t.job, wants |-> w, read |-> read]
          BY <1>5, <4>1
        <5>2. [v EXCEPT !.read = read] = [job |-> v.job, wants |-> v.wants, read |-> read]
          BY <4>3
        <5> QED
          BY <4>3, <5>1, <5>2
      <4> QED
        BY <4>1, <4>2, <4>4
    <3> QED
      BY <3>2, <3>3
  <2> QED
    BY <1>1, <2>1, <2>2 DEF WalletInv, WalletTypeOK
<1>8. row \in LockRow /\ x \in OpenTxn /\ x # ClosedTxn
  <2>1. row \in LockRow /\ Tail(t.wants) \in Seq(LockRow)
    BY <1>2, <1>3, <1>6
  <2>2. row[1] = "wallet" => row[2] \in Holder
    BY <2>1 DEF LockRow
  <2>3. read \in [Holder -> Nat]
    BY <1>2, <1>4, <2>2 DEF WalletInv, WalletTypeOK
  <2>4. x \in OpenTxn
    BY <1>2, <1>5, <2>1, <2>3 DEF OpenTxn
  <2> QED
    BY <2>1, <2>4, OpenTxnFields
<1>9. /\ held' \in [LockRow -> Session \cup {NoSession}]
      /\ Mine(s)' = Mine(s) \cup {row}
      /\ \A r \in Session \ {s} : Mine(r)' = Mine(r)
  BY <1>6, <1>8, WalletAssumption DEF Mine, WalletInv, WalletTypeOK
<1>10. x.job = t.job /\ x.wants = Tail(t.wants) /\ x.read = read
  BY <1>5
<1>11. \A u \in Holder : WalletLock(u) \in Mine(s)' => read[u] = balance[u]
  <2> SUFFICES ASSUME NEW u \in Holder, WalletLock(u) \in Mine(s)' PROVE read[u] = balance[u]
    OBVIOUS
  <2>1. CASE WalletLock(u) = row
    <3>1. row[1] = "wallet" /\ row[2] = u
      BY <2>1 DEF WalletLock
    <3> QED
      BY <1>2, <1>4, <3>1
  <2>2. CASE WalletLock(u) # row
    <3>1. t.read[u] = balance[u]
      BY <1>2, <1>9, <2>2 DEF TxnFits
    <3>2. ~(row[1] = "wallet" /\ row[2] = u)
      BY <1>8, <2>2 DEF WalletLock, LockRow
    <3> QED
      BY <1>2, <1>4, <3>1, <3>2
  <2> QED
    BY <2>1, <2>2
<1>12. \/ /\ x.wants = <<LastRow(t.job)>>
          /\ Mine(s)' = IF TwoRows(t.job) THEN {FirstRow(t.job)} ELSE {}
       \/ /\ x.wants = <<>>
          /\ Mine(s)' = IF TwoRows(t.job) THEN {FirstRow(t.job), LastRow(t.job)} ELSE {LastRow(t.job)}
  <2>1. CASE TwoRows(t.job) /\ t.wants = <<FirstRow(t.job), LastRow(t.job)>> /\ Mine(s) = {}
    <3>1. row = FirstRow(t.job) /\ x.wants = <<LastRow(t.job)>>
      BY <1>3, <1>10, <2>1, Tuples
    <3> QED
      BY <1>9, <2>1, <3>1
  <2>2. CASE t.wants = <<LastRow(t.job)>> /\ Mine(s) = IF TwoRows(t.job) THEN {FirstRow(t.job)} ELSE {}
    <3>1. row = LastRow(t.job) /\ x.wants = <<>>
      BY <1>3, <1>10, <2>2, Tuples
    <3> QED
      BY <1>9, <2>2, <3>1
  <2> QED
    BY <1>2, <1>6, <2>1, <2>2 DEF TxnFits
<1>13. TxnFits(s, x)'
  <2>1. FirstRow(t.job)' = FirstRow(t.job) /\ LastRow(t.job)' = LastRow(t.job)
    BY <1>6 DEF FirstRow, LastRow
  <2>2. /\ t.job.do = "transfer" => t.job.from # t.job.to
        /\ t.job.do = "refund" => t.job.already < Cost
    BY <1>2 DEF TxnFits
  <2> QED
    BY <1>6, <1>8, <1>10, <1>11, <1>12, <2>1, <2>2 DEF TxnFits
<1>14. TxnsFit' /\ txn' \in [Session -> {ClosedTxn} \cup OpenTxn]
  BY <1>6, <1>7, <1>8, <1>9, <1>13, SessionMoves
<1>15. WalletTypeOK'
  BY <1>6, <1>9, <1>14 DEF WalletInv, WalletTypeOK
<1> QED
  BY <1>6, <1>14, <1>15, NothingBooked DEF WalletInv

-----------------------------------------------------------------------------
(* What is committed.                                                      *)

LedgerStep == [Ledger!LedgerNext]_entries

\* A transaction that has all its rows holds the wallets it will write, and its reads
\* of them are the balances.
LEMMA ReadyReads ==
  ASSUME WalletInv, NEW s \in Session, NEW j, NEW read, Running(s), Ready(s), j = txn[s].job, read = txn[s].read
  PROVE  /\ j \in WalletJob
         /\ j.do = "topup" => /\ owner[j.order] \in Holder /\ WalletLock(owner[j.order]) \in Mine(s)
                              /\ read[owner[j.order]] = balance[owner[j.order]]
         /\ j.do = "transfer" => /\ j.from # j.to
                                 /\ WalletLock(j.from) \in Mine(s) /\ read[j.from] = balance[j.from]
                                 /\ WalletLock(j.to) \in Mine(s) /\ read[j.to] = balance[j.to]
         /\ j.do \in {"pay", "refund"} => /\ owner[j.payment] \in Holder /\ WalletLock(owner[j.payment]) \in Mine(s)
                                          /\ read[owner[j.payment]] = balance[owner[j.payment]]
<1>1. PICK t : t = txn[s]
  OBVIOUS
<1>2. t \in OpenTxn /\ t # ClosedTxn /\ j \in WalletJob /\ TxnFits(s, t) /\ t.wants = <<>> /\ t.job = j /\ t.read = read
  BY <1>1, RunningIsOpen, OpenTxnFields DEF Ready
<1>3. Mine(s) = IF TwoRows(j) THEN {FirstRow(j), LastRow(j)} ELSE {LastRow(j)}
  <2>1. <<FirstRow(j), LastRow(j)>> # <<>> /\ <<LastRow(j)>> # <<>>
    BY Tuples
  <2> QED
    BY <1>2, <2>1 DEF TxnFits
<1>4. \A u \in Holder : WalletLock(u) \in Mine(s) => read[u] = balance[u]
  BY <1>2 DEF TxnFits
<1>5. \A x \in TopUp \cup WalletPayment : owner[x] \in Holder
  BY DEF WalletInv, WalletTypeOK
<1>6. j.do = "topup" => owner[j.order] \in Holder /\ WalletLock(owner[j.order]) \in Mine(s)
  BY <1>2, <1>3, <1>5, WalletJobKinds DEF LastRow, TwoRows
<1>7. j.do \in {"pay", "refund"} => owner[j.payment] \in Holder /\ WalletLock(owner[j.payment]) \in Mine(s)
  BY <1>2, <1>3, <1>5, WalletJobKinds DEF LastRow, TwoRows
<1>8. j.do = "transfer" => /\ j.from \in Holder /\ j.to \in Holder /\ j.from # j.to
                           /\ WalletLock(j.from) \in Mine(s) /\ WalletLock(j.to) \in Mine(s)
  <2> SUFFICES ASSUME j.do = "transfer"
               PROVE  /\ j.from \in Holder /\ j.to \in Holder /\ j.from # j.to
                      /\ WalletLock(j.from) \in Mine(s) /\ WalletLock(j.to) \in Mine(s)
    OBVIOUS
  <2>1. j.from \in Holder /\ j.to \in Holder /\ j.from # j.to
    BY <1>2, WalletJobKinds DEF TxnFits
  <2>2. TwoRows(j)
    BY DEF TwoRows
  <2>3. CASE j.from < j.to
    BY <1>3, <2>1, <2>2, <2>3 DEF FirstRow, LastRow
  <2>4. CASE ~(j.from < j.to)
    BY <1>3, <2>1, <2>2, <2>4 DEF FirstRow, LastRow
  <2> QED
    BY <2>1, <2>3, <2>4
<1> QED
  BY <1>2, <1>4, <1>6, <1>7, <1>8

\* One entry is booked: the balance moves with it, and the ledger by one booking.
LEMMA BooksOne ==
  ASSUME WalletInv, NEW e \in WalletEntry, ~Booked(e.user, e.key), entries' = entries \cup {e},
         balance' = [balance EXCEPT ![e.user] = balance[e.user] + e.amount], balance[e.user] + e.amount >= 0
  PROVE  /\ entries' \subseteq WalletEntry /\ IsFiniteSet(entries') /\ balance' \in [Holder -> Nat]
         /\ BalanceIsLedger' /\ LedgerStep
         /\ \A u, k : Booked(u, k)' <=> Booked(u, k) \/ (e.user = u /\ e.key = k)
         /\ \A u \in Holder : balance'[u] # balance[u] => u = e.user
<1>1. /\ entries \in SUBSET WalletEntry /\ IsFiniteSet(entries) /\ balance \in [Holder -> Nat]
      /\ e \notin entries /\ e.user \in Holder /\ e.amount \in Int
  BY DEF WalletInv, WalletTypeOK, BookingsFit, Booked, WalletEntry
<1>2. entries' \subseteq WalletEntry /\ IsFiniteSet(entries')
  BY <1>1, FS_AddElement
<1>3. balance[e.user] + e.amount \in Nat
  BY <1>1
<1>4. balance' \in [Holder -> Nat]
  BY <1>1, <1>3
<1>5. \A u, k : Booked(u, k)' <=> Booked(u, k) \/ (e.user = u /\ e.key = k)
  BY DEF Booked
<1>6. BalanceIsLedger'
  <2> SUFFICES ASSUME NEW u \in Holder PROVE balance'[u] = Ledger!SumOf(entries', u)
    BY DEF BalanceIsLedger
  <2>1. balance[u] = Ledger!SumOf(entries, u)
    BY DEF WalletInv, BalanceIsLedger
  <2>2. Ledger!SumOf(entries', u) = Ledger!SumOf(entries, u) + (IF e.user = u THEN e.amount ELSE 0)
    BY <1>1, EntryMoves
  <2>3. balance'[u] = IF e.user = u THEN balance[u] + e.amount ELSE balance[u]
    BY <1>1
  <2>4. balance[u] \in Nat
    BY <1>1
  <2> QED
    BY <2>1, <2>2, <2>3, <2>4
<1>7. LedgerStep
  <2>1. entries' \ entries = {e}
    BY <1>1
  <2>2. Ledger!Balanced(entries' \ entries)
    <3>1. Ledger!Cardinality({e}) = Cardinality({e})
      BY DEF Ledger!Cardinality, Cardinality
    <3> QED
      BY <2>1, <3>1, FS_Singleton DEF Ledger!Balanced
  <2>3. \A x \in entries' \ entries, y \in entries : <<x.user, x.key>> # <<y.user, y.key>>
    BY <2>1 DEF Booked
  <2>4. \A u \in Holder : Ledger!SumOf(entries', u) >= 0
    BY <1>4, <1>6 DEF BalanceIsLedger
  <2> QED
    BY <2>2, <2>3, <2>4 DEF LedgerStep, Ledger!LedgerNext
<1>8. \A u \in Holder : balance'[u] # balance[u] => u = e.user
  BY <1>1
<1> QED
  BY <1>2, <1>4, <1>5, <1>6, <1>7, <1>8

\* A new entry of another kind leaves the bookings of a payment alone.
LEMMA OthersBooked ==
  ASSUME owner' = owner, NEW e, \A u, k : Booked(u, k)' <=> Booked(u, k) \/ (e.user = u /\ e.key = k),
         NEW p, NEW key, e.key # key
  PROVE  Booked(owner[p], key)' <=> Booked(owner[p], key)
<1>1. PICK v : v = owner[p]
  OBVIOUS
<1>2. Booked(v, key)' <=> Booked(v, key)
  OBVIOUS
<1>3. Booked(owner[p], key) <=> Booked(v, key)
  BY <1>1
<1>4. Booked(owner[p], key)' <=> Booked(v, key)'
  BY <1>1 DEF Booked
<1> QED
  BY <1>2, <1>3, <1>4

LEMMA CommitTopUpKeeps ==
  ASSUME WalletInv, NEW s \in Session, CommitTopUp(s)
  PROVE  WalletInv' /\ LedgerStep
<1>1. PICK j, read : j = txn[s].job /\ read = txn[s].read
  OBVIOUS
<1>2. PICK o, u : o = j.order /\ u = owner[o]
  OBVIOUS
<1>3. /\ j \in WalletJob /\ j.do = "topup" /\ o \in TopUp /\ u \in Holder
      /\ WalletLock(u) \in Mine(s) /\ read[u] = balance[u]
  <2>1. Running(s) /\ Ready(s) /\ j.do = "topup"
    BY <1>1 DEF CommitTopUp, Doing
  <2>2. /\ j \in WalletJob /\ owner[j.order] \in Holder /\ WalletLock(owner[j.order]) \in Mine(s)
        /\ read[owner[j.order]] = balance[owner[j.order]]
    BY <1>1, <2>1, ReadyReads
  <2>3. j.order \in TopUp
    BY <2>1, <2>2, WalletJobKinds
  <2> QED
    BY <1>2, <2>1, <2>2, <2>3
<1>4. Release(s) /\ owner' = owner /\ paid' = paid /\ state' = state /\ returned' = returned
  BY DEF CommitTopUp
<1>5. CASE UNCHANGED <<balance, entries>>
  <2>1. RollBack(s)
    BY <1>4, <1>5 DEF RollBack, CommitTopUp, Doing
  <2> QED
    BY <1>5, <2>1, RollBackKeeps DEF LedgerStep
<1>6. CASE ~Booked(u, <<"topup", o>>) /\ Writes(s, u, 1) /\ Enters(u, 1, <<"topup", o>>)
  <2>1. PICK e : e = [user |-> u, amount |-> 1, key |-> <<"topup", o>>]
    OBVIOUS
  <2>2. e \in WalletEntry /\ e.user = u /\ e.amount = 1 /\ e.key = <<"topup", o>>
    BY <1>3, <2>1 DEF WalletEntry, EntryKey
  <2>3. entries' = entries \cup {e} /\ balance' = [balance EXCEPT ![u] = balance[u] + 1]
    BY <1>1, <1>3, <1>6, <2>1 DEF Enters, Writes
  <2>4. balance[u] + 1 >= 0
    BY <1>3 DEF WalletInv, WalletTypeOK
  <2>5. /\ entries' \subseteq WalletEntry /\ IsFiniteSet(entries') /\ balance' \in [Holder -> Nat]
        /\ BalanceIsLedger' /\ LedgerStep
        /\ \A v, k : Booked(v, k)' <=> Booked(v, k) \/ (e.user = v /\ e.key = k)
        /\ \A v \in Holder : balance'[v] # balance[v] => v = e.user
    BY <1>6, <2>2, <2>3, <2>4, BooksOne
  <2>6. BookingsFit'
    <3>1. \A p, a : <<"pay", p>> # e.key /\ <<"refund", p, a>> # e.key /\ <<"credit", p, a>> # e.key
      BY <2>2
    <3>2. \A x \in entries', f \in Holder, k \in TransferKey :
            x.key = <<"credit", f, k>> => Booked(f, <<"transfer", k>>)'
      BY <2>3, <2>5, <3>1 DEF WalletInv, BookingsFit
    <3>3. \A p \in WalletPayment :
            /\ Booked(owner[p], <<"pay", p>>)' <=> Booked(owner[p], <<"pay", p>>)
            /\ \A a \in 0..Cost : Booked(owner[p], <<"refund", p, a>>)' <=> Booked(owner[p], <<"refund", p, a>>)
      BY <1>4, <2>5, <3>1, OthersBooked
    <3> QED
      BY <1>4, <2>5, <3>2, <3>3 DEF WalletInv, BookingsFit
  <2>7. TxnsFit' /\ txn' \in [Session -> {ClosedTxn} \cup OpenTxn] /\ held' \in [LockRow -> Session \cup {NoSession}]
    BY <1>3, <1>4, <2>2, <2>5, EndKeeps
  <2>8. WalletTypeOK'
    BY <1>4, <2>5, <2>7 DEF WalletInv, WalletTypeOK
  <2> QED
    BY <2>5, <2>6, <2>7, <2>8 DEF WalletInv
<1> QED
  BY <1>1, <1>2, <1>5, <1>6 DEF CommitTopUp

\* A debit and its credit are booked together.
LEMMA BooksTwo ==
  ASSUME WalletInv, NEW d \in WalletEntry, NEW c \in WalletEntry, d.user # c.user,
         ~Booked(d.user, d.key), ~Booked(c.user, c.key), entries' = entries \cup {d, c},
         d.amount = -1, c.amount = 1, balance[d.user] >= 1,
         balance' = [balance EXCEPT ![d.user] = balance[d.user] - 1, ![c.user] = balance[c.user] + 1]
  PROVE  /\ entries' \subseteq WalletEntry /\ IsFiniteSet(entries') /\ balance' \in [Holder -> Nat]
         /\ BalanceIsLedger' /\ LedgerStep
         /\ \A u, k : Booked(u, k)' <=> \/ Booked(u, k)
                                        \/ (d.user = u /\ d.key = k) \/ (c.user = u /\ c.key = k)
         /\ \A u \in Holder : balance'[u] # balance[u] => u \in {d.user, c.user}
<1>1. /\ entries \in SUBSET WalletEntry /\ IsFiniteSet(entries) /\ balance \in [Holder -> Nat]
      /\ d \notin entries /\ c \notin entries /\ d # c /\ d.user \in Holder /\ c.user \in Holder
  BY DEF WalletInv, WalletTypeOK, BookingsFit, Booked, WalletEntry
<1> DEFINE one == entries \cup {d}
<1>2. one \in SUBSET WalletEntry /\ IsFiniteSet(one) /\ c \notin one /\ entries' = one \cup {c}
  BY <1>1, FS_AddElement
<1>3. entries' \subseteq WalletEntry /\ IsFiniteSet(entries')
  BY <1>2, FS_AddElement
<1>4. balance[d.user] - 1 \in Nat /\ balance[c.user] + 1 \in Nat
  BY <1>1
<1>5. balance' \in [Holder -> Nat]
  BY <1>1, <1>4
<1>6. \A u, k : Booked(u, k)' <=> \/ Booked(u, k)
                                  \/ (d.user = u /\ d.key = k) \/ (c.user = u /\ c.key = k)
  BY DEF Booked
<1>7. BalanceIsLedger'
  <2> SUFFICES ASSUME NEW u \in Holder PROVE balance'[u] = Ledger!SumOf(entries', u)
    BY DEF BalanceIsLedger
  <2>1. balance[u] = Ledger!SumOf(entries, u)
    BY DEF WalletInv, BalanceIsLedger
  <2>2. Ledger!SumOf(one, u) = Ledger!SumOf(entries, u) + (IF d.user = u THEN d.amount ELSE 0)
    BY <1>1, EntryMoves
  <2> HIDE DEF one
  <2>3. Ledger!SumOf(entries', u) = Ledger!SumOf(one, u) + (IF c.user = u THEN c.amount ELSE 0)
    BY <1>2, EntryMoves
  <2>4. /\ u = d.user => balance'[u] = balance[u] - 1
        /\ u = c.user => balance'[u] = balance[u] + 1
        /\ u \notin {d.user, c.user} => balance'[u] = balance[u]
    BY <1>1
  <2>5. balance[u] \in Nat
    BY <1>1
  <2> QED
    BY <2>1, <2>2, <2>3, <2>4, <2>5
<1>8. LedgerStep
  <2>1. entries' \ entries = {d, c}
    BY <1>1
  <2>2. Ledger!Cardinality({d, c}) = 2
    <3>1. Ledger!Cardinality({d, c}) = Cardinality({d, c})
      BY DEF Ledger!Cardinality, Cardinality
    <3>2. Cardinality({d}) = 1 /\ IsFiniteSet({d})
      BY FS_Singleton
    <3>3. Cardinality({d} \cup {c}) = Cardinality({d}) + 1
      BY <1>1, <3>2, FS_AddElement
    <3>4. {d} \cup {c} = {d, c}
      OBVIOUS
    <3> QED
      BY <3>1, <3>2, <3>3, <3>4
  <2>3. Ledger!Money({d, c}) = 0
    <3>1. Ledger!Money({} \cup {d}) = Ledger!Money({}) + d.amount
      BY MoneyGrows, FS_EmptySet
    <3>2. Ledger!Money({d} \cup {c}) = Ledger!Money({d}) + c.amount
      BY <1>1, MoneyGrows, FS_Singleton
    <3>3. {} \cup {d} = {d} /\ {d} \cup {c} = {d, c}
      OBVIOUS
    <3> QED
      BY <3>1, <3>2, <3>3, MoneyOfNothing
  <2>4. Ledger!Balanced(entries' \ entries)
    BY <2>1, <2>2, <2>3 DEF Ledger!Balanced
  <2>5. \A x \in entries' \ entries, y \in entries : <<x.user, x.key>> # <<y.user, y.key>>
    BY <2>1 DEF Booked
  <2>6. \A u \in Holder : Ledger!SumOf(entries', u) >= 0
    <3> SUFFICES ASSUME NEW u \in Holder PROVE Ledger!SumOf(entries', u) >= 0
      OBVIOUS
    <3>1. PICK n : n = balance'[u]
      OBVIOUS
    <3>2. n \in Nat
      BY <1>5, <3>1
    <3>3. Ledger!SumOf(entries', u) = n
      <4>1. balance'[u] = Ledger!SumOf(entries', u)
        BY <1>7 DEF BalanceIsLedger
      <4> QED
        BY <3>1, <4>1, Zenon
    <3>4. n >= 0
      BY <3>2
    <3> QED
      BY <3>3, <3>4, Zenon
  <2> QED
    BY <2>4, <2>5, <2>6 DEF LedgerStep, Ledger!LedgerNext
<1>9. \A u \in Holder : balance'[u] # balance[u] => u \in {d.user, c.user}
  BY <1>1
<1> QED
  BY <1>3, <1>5, <1>6, <1>7, <1>8, <1>9

LEMMA CommitTransferKeeps ==
  ASSUME WalletInv, NEW s \in Session, CommitTransfer(s)
  PROVE  WalletInv' /\ LedgerStep
<1>1. PICK j, read : j = txn[s].job /\ read = txn[s].read
  OBVIOUS
<1>2. PICK f, t, k : f = j.from /\ t = j.to /\ k = j.key
  OBVIOUS
<1>3. /\ j \in WalletJob /\ j.do = "transfer" /\ f \in Holder /\ t \in Holder /\ k \in TransferKey /\ f # t
      /\ WalletLock(f) \in Mine(s) /\ read[f] = balance[f] /\ WalletLock(t) \in Mine(s) /\ read[t] = balance[t]
  <2>1. Running(s) /\ Ready(s) /\ j.do = "transfer"
    BY <1>1 DEF CommitTransfer, Doing
  <2>2. /\ j \in WalletJob /\ j.from # j.to
        /\ WalletLock(j.from) \in Mine(s) /\ read[j.from] = balance[j.from]
        /\ WalletLock(j.to) \in Mine(s) /\ read[j.to] = balance[j.to]
    BY <1>1, <2>1, ReadyReads
  <2>3. j.from \in Holder /\ j.to \in Holder /\ j.key \in TransferKey
    BY <2>1, <2>2, WalletJobKinds
  <2> QED
    BY <1>2, <2>1, <2>2, <2>3
<1>4. Release(s) /\ owner' = owner /\ paid' = paid /\ state' = state /\ returned' = returned
  BY DEF CommitTransfer
<1>5. CASE UNCHANGED <<balance, entries>>
  <2>1. RollBack(s)
    BY <1>4, <1>5 DEF RollBack, CommitTransfer, Doing
  <2> QED
    BY <1>5, <2>1, RollBackKeeps DEF LedgerStep
<1> DEFINE db == [user |-> f, amount |-> -1, key |-> <<"transfer", k>>]
           cr == [user |-> t, amount |-> 1, key |-> <<"credit", f, k>>]
<1>6. CASE /\ ~Booked(f, <<"transfer", k>>) /\ read[f] >= 1
           /\ balance' = [balance EXCEPT ![f] = read[f] - 1, ![t] = read[t] + 1]
           /\ entries' = entries \cup {db, cr}
  <2>1. PICK d, c : d = db /\ c = cr
    OBVIOUS
  <2>2. /\ d \in WalletEntry /\ d.user = f /\ d.amount = -1 /\ d.key = <<"transfer", k>>
        /\ c \in WalletEntry /\ c.user = t /\ c.amount = 1 /\ c.key = <<"credit", f, k>>
    BY <1>3, <2>1 DEF WalletEntry, EntryKey
  <2>3. entries' = entries \cup {d, c}
    BY <1>6, <2>1
  <2> HIDE DEF db, cr
  <2>4. ~Booked(c.user, c.key)
    <3> SUFFICES ASSUME NEW x \in entries, x.key = <<"credit", f, k>> PROVE FALSE
      BY <2>2 DEF Booked
    <3>1. Booked(f, <<"transfer", k>>)
      BY <1>3 DEF WalletInv, BookingsFit
    <3> QED
      BY <1>6, <3>1
  <2>5. /\ balance' = [balance EXCEPT ![d.user] = balance[d.user] - 1, ![c.user] = balance[c.user] + 1]
        /\ balance[d.user] >= 1
    BY <1>3, <1>6, <2>2
  <2>6. /\ entries' \subseteq WalletEntry /\ IsFiniteSet(entries') /\ balance' \in [Holder -> Nat]
        /\ BalanceIsLedger' /\ LedgerStep
        /\ \A v, key : Booked(v, key)' <=> \/ Booked(v, key)
                                           \/ (d.user = v /\ d.key = key) \/ (c.user = v /\ c.key = key)
        /\ \A v \in Holder : balance'[v] # balance[v] => v \in {d.user, c.user}
    <3>1. d.user # c.user /\ ~Booked(d.user, d.key)
      BY <1>3, <1>6, <2>2
    <3> QED
      BY <2>2, <2>3, <2>4, <2>5, <3>1, BooksTwo
  <2>7. BookingsFit'
    <3>1. \A p, a : /\ <<"pay", p>> \notin {d.key, c.key} /\ <<"refund", p, a>> \notin {d.key, c.key}
                    /\ <<"credit", p, a>> # d.key
      BY <2>2
    <3>2. \A x \in entries', g \in Holder, l \in TransferKey :
            x.key = <<"credit", g, l>> => Booked(g, <<"transfer", l>>)'
      <4> SUFFICES ASSUME NEW x \in entries', NEW g \in Holder, NEW l \in TransferKey, x.key = <<"credit", g, l>>
                   PROVE  Booked(g, <<"transfer", l>>)'
        OBVIOUS
      <4>1. CASE x \in entries
        BY <2>6, <4>1 DEF WalletInv, BookingsFit
      <4>2. CASE x = c
        <5>1. g = f /\ l = k
          BY <2>2, <4>2
        <5> QED
          BY <2>2, <2>6, <5>1
      <4>3. x # d
        BY <3>1
      <4> QED
        BY <2>3, <4>1, <4>2, <4>3
    <3>3. \A p \in WalletPayment : \A key :
            key \notin {d.key, c.key} => (Booked(owner[p], key)' <=> Booked(owner[p], key))
      <4> SUFFICES ASSUME NEW p \in WalletPayment, NEW key, key \notin {d.key, c.key}
                   PROVE  Booked(owner[p], key)' <=> Booked(owner[p], key)
        OBVIOUS
      <4>1. PICK v : v = owner[p]
        OBVIOUS
      <4>2. Booked(v, key)' <=> Booked(v, key)
        BY <2>6
      <4>3. Booked(owner[p], key) <=> Booked(v, key)
        BY <4>1
      <4>4. Booked(owner[p], key)' <=> Booked(v, key)'
        BY <1>4, <4>1 DEF Booked
      <4> QED
        BY <4>2, <4>3, <4>4
    <3> QED
      BY <1>4, <2>6, <3>1, <3>2, <3>3 DEF WalletInv, BookingsFit
  <2>8. TxnsFit' /\ txn' \in [Session -> {ClosedTxn} \cup OpenTxn] /\ held' \in [LockRow -> Session \cup {NoSession}]
    BY <1>3, <1>4, <2>2, <2>6, EndKeeps
  <2>9. WalletTypeOK'
    BY <1>4, <2>6, <2>8 DEF WalletInv, WalletTypeOK
  <2> QED
    BY <2>6, <2>7, <2>8, <2>9 DEF WalletInv
<1> QED
  BY <1>1, <1>2, <1>5, <1>6 DEF CommitTransfer

LEMMA CommitPayKeeps ==
  ASSUME WalletInv, NEW s \in Session, CommitPay(s)
  PROVE  WalletInv' /\ LedgerStep
<1>1. PICK j, read : j = txn[s].job /\ read = txn[s].read
  OBVIOUS
<1>2. PICK p, u : p = j.payment /\ u = owner[p]
  OBVIOUS
<1>3. /\ j \in WalletJob /\ j.do = "pay" /\ p \in WalletPayment /\ u \in Holder
      /\ WalletLock(u) \in Mine(s) /\ read[u] = balance[u]
  <2>1. Running(s) /\ Ready(s) /\ j.do = "pay"
    BY <1>1 DEF CommitPay, Doing
  <2>2. /\ j \in WalletJob /\ owner[j.payment] \in Holder /\ WalletLock(owner[j.payment]) \in Mine(s)
        /\ read[owner[j.payment]] = balance[owner[j.payment]]
    BY <1>1, <2>1, ReadyReads
  <2>3. j.payment \in WalletPayment
    BY <2>1, <2>2, WalletJobKinds
  <2> QED
    BY <1>2, <2>1, <2>2, <2>3
<1>4. Release(s) /\ owner' = owner /\ paid' = paid /\ returned' = returned
  BY DEF CommitPay
<1>5. CASE UNCHANGED <<balance, entries, state>>
  <2>1. RollBack(s)
    BY <1>4, <1>5 DEF RollBack, CommitPay, Doing
  <2> QED
    BY <1>5, <2>1, RollBackKeeps DEF LedgerStep
<1>6. CASE StillOpen(p) /\ state' = [state EXCEPT ![p] = "FAILED"] /\ UNCHANGED <<balance, entries>>
  <2>1. \A o \in WalletPayment :
          /\ state'[o] \in {"CAPTURED", "REFUNDED"} <=> state[o] \in {"CAPTURED", "REFUNDED"}
          /\ state'[o] = "REFUNDED" <=> state[o] = "REFUNDED"
    <3>1. state \in [WalletPayment -> {"INITIATED", "CAPTURED", "FAILED", "REFUNDED"}]
      BY DEF WalletInv, WalletTypeOK
    <3>2. state[p] \notin {"CAPTURED", "REFUNDED"}
      BY <1>6 DEF StillOpen
    <3> QED
      BY <1>3, <1>6, <3>1, <3>2
  <2>2. BookingsFit' /\ BalanceIsLedger'
    BY <1>4, <1>6, <2>1 DEF WalletInv, BookingsFit, BalanceIsLedger, Booked
  <2>3. TxnsFit' /\ txn' \in [Session -> {ClosedTxn} \cup OpenTxn] /\ held' \in [LockRow -> Session \cup {NoSession}]
    BY <1>4, <1>6, EndKeeps
  <2>4. WalletTypeOK'
    BY <1>4, <1>6, <2>3 DEF WalletInv, WalletTypeOK
  <2> QED
    BY <1>6, <2>2, <2>3, <2>4 DEF WalletInv, LedgerStep
<1>7. CASE /\ StillOpen(p) /\ read[u] >= Cost /\ Writes(s, u, -Cost) /\ Enters(u, -Cost, <<"pay", p>>)
           /\ state' = [state EXCEPT ![p] = "CAPTURED"]
  <2>1. PICK e : e = [user |-> u, amount |-> -Cost, key |-> <<"pay", p>>]
    OBVIOUS
  <2>2. e \in WalletEntry /\ e.user = u /\ e.amount = -Cost /\ e.key = <<"pay", p>>
    BY <1>3, <2>1, WalletAssumption DEF WalletEntry, EntryKey
  <2>3. entries' = entries \cup {e} /\ balance' = [balance EXCEPT ![u] = balance[u] + (-Cost)]
    BY <1>1, <1>3, <1>7, <2>1 DEF Enters, Writes
  <2>4. balance[u] + (-Cost) >= 0
    BY <1>3, <1>7, WalletAssumption DEF WalletInv, WalletTypeOK
  <2>5. ~Booked(u, <<"pay", p>>)
    BY <1>2, <1>3, <1>7 DEF StillOpen, WalletInv, BookingsFit
  <2>6. /\ entries' \subseteq WalletEntry /\ IsFiniteSet(entries') /\ balance' \in [Holder -> Nat]
        /\ BalanceIsLedger' /\ LedgerStep
        /\ \A v, k : Booked(v, k)' <=> Booked(v, k) \/ (e.user = v /\ e.key = k)
        /\ \A v \in Holder : balance'[v] # balance[v] => v = e.user
    BY <2>2, <2>3, <2>4, <2>5, BooksOne
  <2>7. BookingsFit'
    <3>1. /\ \A o, a : <<"refund", o, a>> # e.key /\ <<"credit", o, a>> # e.key
          /\ \A o : o # p => <<"pay", o>> # e.key
      BY <2>2
    <3>2. \A x \in entries', f \in Holder, k \in TransferKey :
            x.key = <<"credit", f, k>> => Booked(f, <<"transfer", k>>)'
      BY <2>3, <2>6, <3>1 DEF WalletInv, BookingsFit
    <3>3. \A o \in WalletPayment :
            /\ o # p => (Booked(owner[o], <<"pay", o>>)' <=> Booked(owner[o], <<"pay", o>>))
            /\ \A a \in 0..Cost : Booked(owner[o], <<"refund", o, a>>)' <=> Booked(owner[o], <<"refund", o, a>>)
      BY <1>4, <2>6, <3>1, OthersBooked
    <3>4. Booked(owner[p], <<"pay", p>>)'
      <4>1. Booked(u, <<"pay", p>>)'
        BY <2>2, <2>6
      <4> QED
        BY <1>2, <1>4, <4>1 DEF Booked
    <3>5. /\ state[p] = "INITIATED" /\ state'[p] = "CAPTURED"
          /\ \A o \in WalletPayment \ {p} : state'[o] = state[o]
      BY <1>3, <1>7 DEF StillOpen, WalletInv, WalletTypeOK
    <3>6. \A o \in WalletPayment :
            /\ state'[o] \in {"CAPTURED", "REFUNDED"} <=> Booked(owner[o], <<"pay", o>>)'
            /\ state'[o] = "REFUNDED" <=> returned'[o] = Cost
      <4> SUFFICES ASSUME NEW o \in WalletPayment
                   PROVE  /\ state'[o] \in {"CAPTURED", "REFUNDED"} <=> Booked(owner[o], <<"pay", o>>)'
                          /\ state'[o] = "REFUNDED" <=> returned'[o] = Cost
        OBVIOUS
      <4>1. CASE o = p
        BY <1>4, <3>4, <3>5, <4>1 DEF WalletInv, BookingsFit
      <4>2. CASE o # p
        BY <1>4, <3>3, <3>5, <4>2 DEF WalletInv, BookingsFit
      <4> QED
        BY <4>1, <4>2
    <3>7. \A o \in WalletPayment, a \in 0..Cost : Booked(owner[o], <<"refund", o, a>>)' <=> a < returned'[o]
      BY <1>4, <3>3 DEF WalletInv, BookingsFit
    <3> QED
      BY <2>6, <3>2, <3>6, <3>7 DEF BookingsFit
  <2>8. TxnsFit' /\ txn' \in [Session -> {ClosedTxn} \cup OpenTxn] /\ held' \in [LockRow -> Session \cup {NoSession}]
    BY <1>3, <1>4, <2>2, <2>6, EndKeeps
  <2>9. WalletTypeOK'
    <3>1. state' \in [WalletPayment -> {"INITIATED", "CAPTURED", "FAILED", "REFUNDED"}]
      BY <1>7 DEF WalletInv, WalletTypeOK
    <3> QED
      BY <1>4, <2>6, <2>8, <3>1 DEF WalletInv, WalletTypeOK
  <2> QED
    BY <2>6, <2>7, <2>8, <2>9 DEF WalletInv
<1> QED
  BY <1>1, <1>2, <1>5, <1>6, <1>7 DEF CommitPay

LEMMA CommitWalletRefundKeeps ==
  ASSUME WalletInv, NEW s \in Session, CommitWalletRefund(s)
  PROVE  WalletInv' /\ LedgerStep
<1>1. PICK j, read : j = txn[s].job /\ read = txn[s].read
  OBVIOUS
<1>2. PICK p, u, n : p = j.payment /\ u = owner[p] /\ n = j.already
  OBVIOUS
<1>3. /\ j \in WalletJob /\ j.do = "refund" /\ p \in WalletPayment /\ n \in 0..Cost
      /\ u \in Holder /\ WalletLock(u) \in Mine(s) /\ read[u] = balance[u]
  <2>1. Running(s) /\ Ready(s) /\ j.do = "refund"
    BY <1>1 DEF CommitWalletRefund, Doing
  <2>2. /\ j \in WalletJob /\ owner[j.payment] \in Holder /\ WalletLock(owner[j.payment]) \in Mine(s)
        /\ read[owner[j.payment]] = balance[owner[j.payment]]
    BY <1>1, <2>1, ReadyReads
  <2>3. j.payment \in WalletPayment /\ j.already \in 0..Cost
    BY <2>1, <2>2, WalletJobKinds
  <2> QED
    BY <1>2, <2>1, <2>2, <2>3
<1>4. Release(s) /\ owner' = owner /\ paid' = paid
  BY DEF CommitWalletRefund
<1>5. CASE UNCHANGED <<balance, entries, state, returned>>
  <2>1. RollBack(s)
    BY <1>4, <1>5 DEF RollBack, CommitWalletRefund, Doing
  <2> QED
    BY <1>5, <2>1, RollBackKeeps DEF LedgerStep
<1>6. CASE /\ state[p] = "CAPTURED" /\ returned[p] = n
           /\ Writes(s, u, 1) /\ Enters(u, 1, <<"refund", p, n>>)
           /\ returned' = [returned EXCEPT ![p] = @ + 1]
           /\ state' = [state EXCEPT ![p] = IF returned'[p] = Cost THEN "REFUNDED" ELSE @]
  <2>1. PICK e : e = [user |-> u, amount |-> 1, key |-> <<"refund", p, n>>]
    OBVIOUS
  <2>2. e \in WalletEntry /\ e.user = u /\ e.amount = 1 /\ e.key = <<"refund", p, n>>
    BY <1>3, <2>1 DEF WalletEntry, EntryKey
  <2>3. entries' = entries \cup {e} /\ balance' = [balance EXCEPT ![u] = balance[u] + 1]
    BY <1>1, <1>3, <1>6, <2>1 DEF Enters, Writes
  <2>4. balance[u] + 1 >= 0
    BY <1>3 DEF WalletInv, WalletTypeOK
  <2>5. ~Booked(u, <<"refund", p, n>>)
    <3>1. Booked(owner[p], <<"refund", p, n>>) <=> n < returned[p]
      BY <1>3 DEF WalletInv, BookingsFit
    <3>2. ~(n < n)
      BY <1>3, WalletAssumption
    <3> QED
      BY <1>2, <1>6, <3>1, <3>2
  <2>6. /\ entries' \subseteq WalletEntry /\ IsFiniteSet(entries') /\ balance' \in [Holder -> Nat]
        /\ BalanceIsLedger' /\ LedgerStep
        /\ \A v, k : Booked(v, k)' <=> Booked(v, k) \/ (e.user = v /\ e.key = k)
        /\ \A v \in Holder : balance'[v] # balance[v] => v = e.user
    BY <2>2, <2>3, <2>4, <2>5, BooksOne
  <2>7. n < Cost /\ returned'[p] = n + 1 /\ \A o \in WalletPayment \ {p} : returned'[o] = returned[o]
    <3>1. returned[p] # Cost
      BY <1>3, <1>6 DEF WalletInv, BookingsFit
    <3> QED
      BY <1>3, <1>6, <3>1, WalletAssumption DEF WalletInv, WalletTypeOK
  <2>8. /\ state'[p] = IF returned'[p] = Cost THEN "REFUNDED" ELSE "CAPTURED"
        /\ \A o \in WalletPayment \ {p} : state'[o] = state[o]
    BY <1>3, <1>6 DEF WalletInv, WalletTypeOK
  <2>9. BookingsFit'
    <3>1. /\ \A o, a : <<"pay", o>> # e.key /\ <<"credit", o, a>> # e.key
          /\ \A o, a : o # p \/ a # n => <<"refund", o, a>> # e.key
      BY <2>2
    <3>2. \A x \in entries', f \in Holder, k \in TransferKey :
            x.key = <<"credit", f, k>> => Booked(f, <<"transfer", k>>)'
      BY <2>3, <2>6, <3>1 DEF WalletInv, BookingsFit
    <3>3. \A o \in WalletPayment :
            /\ Booked(owner[o], <<"pay", o>>)' <=> Booked(owner[o], <<"pay", o>>)
            /\ \A a \in 0..Cost : o # p \/ a # n =>
                 (Booked(owner[o], <<"refund", o, a>>)' <=> Booked(owner[o], <<"refund", o, a>>))
      BY <1>4, <2>6, <3>1, OthersBooked
    <3>4. Booked(owner[p], <<"refund", p, n>>)'
      <4>1. Booked(u, <<"refund", p, n>>)'
        BY <2>2, <2>6
      <4> QED
        BY <1>2, <1>4, <4>1 DEF Booked
    <3>5. \A o \in WalletPayment :
            /\ state'[o] \in {"CAPTURED", "REFUNDED"} <=> Booked(owner[o], <<"pay", o>>)'
            /\ state'[o] = "REFUNDED" <=> returned'[o] = Cost
      <4> SUFFICES ASSUME NEW o \in WalletPayment
                   PROVE  /\ state'[o] \in {"CAPTURED", "REFUNDED"} <=> Booked(owner[o], <<"pay", o>>)'
                          /\ state'[o] = "REFUNDED" <=> returned'[o] = Cost
        OBVIOUS
      <4>1. CASE o = p
        BY <1>6, <2>8, <3>3, <4>1 DEF WalletInv, BookingsFit
      <4>2. CASE o # p
        BY <2>7, <2>8, <3>3, <4>2 DEF WalletInv, BookingsFit
      <4> QED
        BY <4>1, <4>2
    <3>6. \A o \in WalletPayment, a \in 0..Cost : Booked(owner[o], <<"refund", o, a>>)' <=> a < returned'[o]
      <4> SUFFICES ASSUME NEW o \in WalletPayment, NEW a \in 0..Cost
                   PROVE  Booked(owner[o], <<"refund", o, a>>)' <=> a < returned'[o]
        OBVIOUS
      <4>1. CASE o = p /\ a = n
        <5>1. a < returned'[o]
          BY <1>3, <2>7, <4>1, WalletAssumption
        <5> QED
          BY <3>4, <4>1, <5>1
      <4>2. CASE o = p /\ a # n
        <5>1. Booked(owner[o], <<"refund", o, a>>)' <=> a < returned[o]
          BY <3>3, <4>2 DEF WalletInv, BookingsFit
        <5>2. a < returned[o] <=> a < returned'[o]
          BY <1>3, <1>6, <2>7, <4>2, WalletAssumption
        <5> QED
          BY <5>1, <5>2
      <4>3. CASE o # p
        BY <2>7, <3>3, <4>3 DEF WalletInv, BookingsFit
      <4> QED
        BY <4>1, <4>2, <4>3
    <3> QED
      BY <2>6, <3>2, <3>5, <3>6 DEF BookingsFit
  <2>10. TxnsFit' /\ txn' \in [Session -> {ClosedTxn} \cup OpenTxn] /\ held' \in [LockRow -> Session \cup {NoSession}]
    BY <1>3, <1>4, <2>2, <2>6, EndKeeps
  <2>11. WalletTypeOK'
    <3>1. state' \in [WalletPayment -> {"INITIATED", "CAPTURED", "FAILED", "REFUNDED"}]
      BY <1>3, <1>6, <2>8 DEF WalletInv, WalletTypeOK
    <3>2. returned' \in [WalletPayment -> 0..Cost]
      BY <1>3, <1>6, <2>7, WalletAssumption DEF WalletInv, WalletTypeOK
    <3> QED
      BY <1>4, <2>6, <2>10, <3>1, <3>2 DEF WalletInv, WalletTypeOK
  <2> QED
    BY <2>6, <2>9, <2>10, <2>11 DEF WalletInv
<1> QED
  BY <1>1, <1>2, <1>5, <1>6 DEF CommitWalletRefund

LEMMA InitWallet == WalletInit => WalletInv
<1> SUFFICES ASSUME WalletInit PROVE WalletInv
  OBVIOUS
<1>1. WalletTypeOK
  BY WalletAssumption DEF WalletInit, WalletTypeOK
<1>2. entries = {}
  BY DEF WalletInit
<1>3. BalanceIsLedger
  <2>1. \A u \in Holder : Ledger!SumOf(entries, u) = 0
    <3>1. \A u : {x \in entries : x.user = u} = {}
      BY <1>2
    <3> QED
      BY <3>1, MoneyOfNothing DEF Ledger!SumOf
  <2> QED
    BY <2>1 DEF BalanceIsLedger, WalletInit
<1>4. BookingsFit
  <2>1. \A u, k : ~Booked(u, k)
    BY <1>2 DEF Booked
  <2>2. \A p \in WalletPayment : state[p] = "INITIATED" /\ returned[p] = 0
    BY DEF WalletInit
  <2> QED
    BY <1>2, <2>1, <2>2, FS_EmptySet, WalletAssumption DEF BookingsFit
<1>5. TxnsFit
  <2> SUFFICES ASSUME NEW s \in Session PROVE TxnFits(s, txn[s])
    BY DEF TxnsFit
  <2>1. txn[s] = ClosedTxn /\ Mine(s) = {}
    BY WalletAssumption DEF WalletInit, Mine
  <2> QED
    BY <2>1 DEF TxnFits
<1> QED
  BY <1>1, <1>3, <1>4, <1>5 DEF WalletInv

LEMMA WalletStep == WalletInv /\ [WalletNext]_walletVars => WalletInv' /\ LedgerStep
<1> SUFFICES ASSUME WalletInv, [WalletNext]_walletVars PROVE WalletInv' /\ LedgerStep
  OBVIOUS
<1>1. CASE UNCHANGED walletVars \/ \E o \in TopUp : PayTopUp(o)
  <2>1. /\ UNCHANGED <<balance, entries, owner, state, returned, held, txn>>
        /\ paid' \subseteq TopUp
    BY <1>1 DEF walletVars, PayTopUp, WalletInv, WalletTypeOK
  <2>2. BalanceIsLedger' /\ BookingsFit' /\ LedgerStep
    BY <2>1, NothingBooked DEF LedgerStep
  <2>3. WalletTypeOK'
    BY <2>1 DEF WalletInv, WalletTypeOK
  <2>4. TxnsFit'
    <3> SUFFICES ASSUME NEW s \in Session PROVE TxnFits(s, txn[s])'
      BY DEF TxnsFit
    <3>1. PICK x : x = txn[s]
      OBVIOUS
    <3>2. TxnFits(s, x)
      BY <3>1 DEF WalletInv, TxnsFit
    <3>3. Mine(s)' = Mine(s)
      BY <2>1 DEF Mine
    <3>4. TxnFits(s, x)'
      BY <2>1, <3>2, <3>3, TxnStays
    <3> QED
      BY <2>1, <3>1, <3>4 DEF TxnFits, Mine, FirstRow, LastRow
  <2> QED
    BY <2>2, <2>3, <2>4 DEF WalletInv
<1>2. ASSUME NEW s \in Session, SessionNext(s) PROVE WalletInv' /\ LedgerStep
  <2>1. CASE \/ \E o \in TopUp : BeginTopUp(s, o)
             \/ \E from, to \in Holder, k \in TransferKey : BeginTransfer(s, from, to, k)
             \/ \E p \in WalletPayment : BeginPay(s, p) \/ BeginWalletRefund(s, p)
    <3>1. entries' = entries
      BY <2>1 DEF BeginTopUp, BeginTransfer, BeginPay, BeginWalletRefund, Begin
    <3>2. WalletInv'
      BY <2>1, BeginTopUpKeeps, BeginTransferKeeps, BeginPayKeeps
    <3> QED
      BY <3>1, <3>2 DEF LedgerStep
  <2>2. CASE Lock(s) \/ RollBack(s)
    BY <2>2, LockKeeps, RollBackKeeps DEF LedgerStep, Lock, RollBack
  <2>3. CASE CommitTopUp(s) \/ CommitTransfer(s) \/ CommitPay(s) \/ CommitWalletRefund(s)
    BY <2>3, CommitTopUpKeeps, CommitTransferKeeps, CommitPayKeeps, CommitWalletRefundKeeps
  <2> QED
    BY <1>2, <2>1, <2>2, <2>3 DEF SessionNext
<1> QED
  BY <1>1, <1>2 DEF WalletNext

\* Rows are locked in one order, so two transactions never wait for each other.
LEMMA NoneWaitInTurn == WalletInv => NoLockCycle
<1> SUFFICES ASSUME WalletInv, NEW s \in Session, NEW t \in Session, WaitsFor(s, t), WaitsFor(t, s) PROVE FALSE
  BY DEF NoLockCycle
<1>1. PICK x, y : x = txn[s] /\ y = txn[t]
  OBVIOUS
<1>2. /\ x \in OpenTxn /\ x # ClosedTxn /\ x.job \in WalletJob /\ TxnFits(s, x) /\ x.wants # <<>>
      /\ y \in OpenTxn /\ y # ClosedTxn /\ y.job \in WalletJob /\ TxnFits(t, y) /\ y.wants # <<>>
  BY <1>1, RunningIsOpen, OpenTxnFields DEF WaitsFor, Ready
<1>3. held[Head(x.wants)] = t /\ held[Head(y.wants)] = s
  BY <1>1 DEF WaitsFor
<1>4. ASSUME NEW r \in Session, NEW z \in OpenTxn, z # ClosedTxn, z.job \in WalletJob, TxnFits(r, z), z.wants # <<>>
      PROVE  Head(z.wants) \in LockRow /\ (Mine(r) # {} => /\ Mine(r) = {FirstRow(z.job)} /\ TwoRows(z.job)
                                                          /\ Head(z.wants) = LastRow(z.job))
  <2>1. LastRow(z.job) \in LockRow /\ (TwoRows(z.job) => FirstRow(z.job) \in LockRow)
    BY <1>4, RowsOfJob DEF WalletInv
  <2>2. CASE TwoRows(z.job) /\ z.wants = <<FirstRow(z.job), LastRow(z.job)>> /\ Mine(r) = {}
    BY <2>1, <2>2, Tuples
  <2>3. CASE z.wants = <<LastRow(z.job)>> /\ Mine(r) = IF TwoRows(z.job) THEN {FirstRow(z.job)} ELSE {}
    BY <2>1, <2>3, Tuples
  <2> QED
    BY <1>4, <2>2, <2>3 DEF TxnFits
<1>5. Head(x.wants) \in Mine(t) /\ Head(y.wants) \in Mine(s)
  BY <1>2, <1>3, <1>4 DEF Mine
<1>6. /\ TwoRows(x.job) /\ TwoRows(y.job)
      /\ LastRow(x.job) = FirstRow(y.job) /\ LastRow(y.job) = FirstRow(x.job)
  BY <1>2, <1>4, <1>5
<1>7. x.job.do = "transfer" /\ y.job.do = "transfer"
  BY <1>6, WalletJobKinds DEF FirstRow, LastRow, WalletLock, PaymentLock
<1>8. /\ x.job.from \in Nat /\ x.job.to \in Nat /\ x.job.from # x.job.to
      /\ y.job.from \in Nat /\ y.job.to \in Nat /\ y.job.from # y.job.to
  BY <1>2, <1>7, WalletJobKinds, WalletAssumption DEF TxnFits
<1>9. \A a, b : WalletLock(a) = WalletLock(b) => a = b
  BY DEF WalletLock
<1>10. PICK a, b, c, d \in Nat :
         /\ FirstRow(x.job) = WalletLock(a) /\ LastRow(x.job) = WalletLock(b) /\ a < b
         /\ FirstRow(y.job) = WalletLock(c) /\ LastRow(y.job) = WalletLock(d) /\ c < d
  BY <1>7, <1>8 DEF FirstRow, LastRow
<1>11. b = c /\ d = a
  BY <1>6, <1>9, <1>10
<1> QED
  BY <1>10, <1>11

LEMMA BookingsMatch == WalletInv => PaymentsMatchLedger
<1> SUFFICES ASSUME WalletInv, NEW p \in WalletPayment
             PROVE  returned[p] = Cardinality({a \in 0..Cost : Booked(owner[p], <<"refund", p, a>>)})
  BY DEF PaymentsMatchLedger, WalletInv, BookingsFit
<1>1. returned[p] \in 0..Cost
  BY DEF WalletInv, WalletTypeOK
<1>2. \A a \in 0..Cost : Booked(owner[p], <<"refund", p, a>>) <=> a < returned[p]
  BY DEF WalletInv, BookingsFit
<1>3. {a \in 0..Cost : Booked(owner[p], <<"refund", p, a>>)} = 0..(returned[p] - 1)
  <2>1. {a \in 0..Cost : Booked(owner[p], <<"refund", p, a>>)} = {a \in 0..Cost : a < returned[p]}
    BY <1>2
  <2>2. {a \in 0..Cost : a < returned[p]} = 0..(returned[p] - 1)
    BY <1>1, WalletAssumption
  <2> QED
    BY <2>1, <2>2
<1>4. Cardinality(0..(returned[p] - 1)) = returned[p]
  <2>1. PICK r : r = returned[p]
    OBVIOUS
  <2>2. r \in Nat /\ r - 1 \in Int
    BY <1>1, <2>1, WalletAssumption
  <2>3. Cardinality(0..(r - 1)) = IF 0 > r - 1 THEN 0 ELSE (r - 1) - 0 + 1
    BY <2>2, FS_Interval
  <2>4. Cardinality(0..(r - 1)) = r
    BY <2>2, <2>3
  <2> QED
    BY <2>1, <2>4
<1> QED
  BY <1>3, <1>4

\* No interleaving of the transactions leaves a wallet with values the schema does not allow.
THEOREM WalletTypeCorrect == WalletSpec => []WalletTypeOK
<1>1. WalletInv => WalletTypeOK
  BY DEF WalletInv
<1> QED
  BY <1>1, InitWallet, WalletStep, PTL DEF WalletSpec

\* The stored balance is the sum of the entries, payments and refunds match their entries,
\* and no two transactions wait for each other.
THEOREM WalletsAlwaysAgree == WalletSpec => []WalletsAgree
<1>1. WalletInv => WalletsAgree
  BY NoneWaitInTurn, BookingsMatch DEF WalletInv, WalletsAgree
<1> QED
  BY <1>1, InitWallet, WalletStep, PTL DEF WalletSpec

\* The ledger grows by whole bookings, each made once, and never below zero.
THEOREM WalletsKeepLedger == WalletSpec => KeepsLedger
<1>1. WalletInit => Ledger!LedgerInit
  BY DEF WalletInit, Ledger!LedgerInit
<1> QED
  BY <1>1, InitWallet, WalletStep, PTL DEF WalletSpec, KeepsLedger, Ledger!LedgerSpec, LedgerStep


-----------------------------------------------------------------------------
(* A provider's wallet.  A transaction that holds the wallet's row knows   *)
(* the balance, and one that holds a payout's row knows that the payout    *)
(* may still be settled.                                                   *)

OnWallet(w) == w.does \in {"request", "post", "settle"} /\ w.at = "wallet"
OnPayout(w) == w.does = "settle" /\ w.at \in {"payout", "wallet"}

\* What a transaction that does w relies on.
SettlerFits(w) ==
  /\ OnWallet(w) => w.read = providerBalance
  /\ w.does = "settle" => payout[w.key] # NoPayout
  /\ OnPayout(w) => Steppable(payout[w.key].status, w.to)

SettlersFit == \A j \in Settler : SettlerFits(job[j])

RowsHeldOnce ==
  \A i, j \in Settler :
    i # j => /\ ~(OnWallet(job[i]) /\ OnWallet(job[j]))
             /\ ~(OnPayout(job[i]) /\ OnPayout(job[j]) /\ job[i].key = job[j].key)

\* Only so many keys were ever used.
FewKeys == IsFiniteSet(PostedKeys) /\ IsFiniteSet(Standing)

SettlementsInv ==
  /\ SettlementsTypeOK
  /\ SettlersFit
  /\ RowsHeldOnce
  /\ FewKeys
  /\ WalletBacksPayouts
  /\ DestinationIsFrozen

LEMMA SettlerJobKinds ==
  ASSUME NEW w \in SettlerJob
  PROVE  /\ w.does \in {"nothing", "request", "post", "edit", "settle"}
         /\ w.does = "request" =>
              /\ w.at \in {"begun", "bank", "wallet"} /\ w.key \in PayoutKey /\ w.asked \in PayoutAmount
              /\ w.at = "wallet" => w.read \in Nat
         /\ w.does = "post" =>
              /\ w.at \in {"begun", "wallet"} /\ w.key \in PostKey /\ w.asked \in Posting
              /\ w.at = "wallet" => w.read \in Nat
         /\ w.does = "edit" => w.to \in Destination
         /\ w.does = "settle" =>
              /\ w.at \in {"begun", "payout", "wallet"} /\ w.key \in PayoutKey
              /\ w.to \in PayoutStatus \ {"PENDING"}
              /\ w.at = "wallet" => w.to = "FAILED" /\ w.read \in Nat
BY DEF SettlerJob, NoJob, PayoutStatus, OpenStatus

LEMMA NoJobFits ==
  NoJob \in SettlerJob /\ NoJob.does = "nothing" /\ SettlerFits(NoJob) /\ ~OnWallet(NoJob) /\ ~OnPayout(NoJob)
BY DEF SettlerJob, NoJob, SettlerFits, OnWallet, OnPayout

\* A transaction that moves by what it holds disturbs no other.
LEMMA SettlerMoves ==
  ASSUME SettlementsInv, NEW j \in Settler, NEW w \in SettlerJob, job' = [job EXCEPT ![j] = w],
         providerBalance' = providerBalance \/ OnWallet(job[j]),
         \A k \in PayoutKey :
           /\ payout'[k] = payout[k] \/ payout[k] = NoPayout \/ (OnPayout(job[j]) /\ job[j].key = k)
           /\ payout[k] # NoPayout => payout'[k] # NoPayout,
         OnWallet(w) => w.read = providerBalance' /\ \A i \in Settler : i # j => ~OnWallet(job[i]),
         w.does = "settle" => payout'[w.key] # NoPayout,
         OnPayout(w) => /\ Steppable(payout'[w.key].status, w.to)
                        /\ \A i \in Settler : i # j => ~(OnPayout(job[i]) /\ job[i].key = w.key)
  PROVE  SettlersFit' /\ RowsHeldOnce' /\ job' \in [Settler -> SettlerJob]
<1>1. job \in [Settler -> SettlerJob]
  BY DEF SettlementsInv, SettlementsTypeOK
<1>2. job' \in [Settler -> SettlerJob] /\ job'[j] = w /\ \A i \in Settler : i # j => job'[i] = job[i]
  BY <1>1
<1>3. SettlersFit'
  <2> SUFFICES ASSUME NEW i \in Settler PROVE SettlerFits(job[i])'
    BY DEF SettlersFit
  <2>1. CASE i = j
    BY <1>2, <2>1 DEF SettlerFits, OnWallet, OnPayout
  <2>2. CASE i # j
    <3>1. job'[i] = job[i] /\ SettlerFits(job[i])
      BY <1>2, <2>2 DEF SettlementsInv, SettlersFit
    <3>2. PICK x : x = job[i]
      OBVIOUS
    <3>3. job'[i] = x /\ SettlerFits(x) /\ x \in SettlerJob
      BY <1>1, <3>1, <3>2, Zenon
    <3>4. /\ OnWallet(x) => ~OnWallet(job[j])
          /\ OnPayout(x) => ~(OnPayout(job[j]) /\ job[j].key = x.key)
      BY <2>2, <3>2 DEF SettlementsInv, RowsHeldOnce
    <3>5. x.does = "settle" => x.key \in PayoutKey
      BY <3>3, SettlerJobKinds
    <3>6. OnWallet(x) => x.read = providerBalance'
      BY <3>3, <3>4 DEF SettlerFits
    <3>7. x.does = "settle" => payout'[x.key] # NoPayout
      BY <3>3, <3>5 DEF SettlerFits
    <3>8. OnPayout(x) => Steppable(payout'[x.key].status, x.to)
      <4> SUFFICES ASSUME OnPayout(x) PROVE Steppable(payout'[x.key].status, x.to)
        OBVIOUS
      <4>1. x.does = "settle"
        BY DEF OnPayout
      <4>2. payout[x.key] # NoPayout /\ Steppable(payout[x.key].status, x.to)
        BY <3>3, <4>1 DEF SettlerFits
      <4>3. payout'[x.key] = payout[x.key]
        BY <3>4, <3>5, <4>1, <4>2
      <4> QED
        BY <4>2, <4>3
    <3> QED
      BY <3>3, <3>6, <3>7, <3>8 DEF SettlerFits, OnWallet, OnPayout
  <2> QED
    BY <2>1, <2>2
<1>4. RowsHeldOnce'
  <2> SUFFICES ASSUME NEW h \in Settler, NEW i \in Settler, h # i
               PROVE  /\ ~(OnWallet(job[h]) /\ OnWallet(job[i]))'
                      /\ ~(OnPayout(job[h]) /\ OnPayout(job[i]) /\ job[h].key = job[i].key)'
    BY DEF RowsHeldOnce
  <2>1. CASE h # j /\ i # j
    BY <1>2, <2>1 DEF SettlementsInv, RowsHeldOnce, OnWallet, OnPayout
  <2>2. CASE h = j
    BY <1>2, <2>2 DEF OnWallet, OnPayout
  <2>3. CASE i = j
    BY <1>2, <2>3 DEF OnWallet, OnPayout
  <2> QED
    BY <2>1, <2>2, <2>3
<1> QED
  BY <1>2, <1>3, <1>4

Dues == [k \in PayoutKey |-> payout[k].amount]

\* The sums of a state are sums of functions, which those of its successor compare with.
SumsAreTotals ==
  /\ Adjusted = Total(posted, PostedKeys)
  /\ IsFiniteSet(Standing) => PaidOut = Total(Dues, Standing)

LEMMA AccountsTotal == SumsAreTotals
<1>1. Adjusted = Total(posted, PostedKeys)
  BY DEF Adjusted, Total
<1>2. ASSUME IsFiniteSet(Standing) PROVE PaidOut = Total(Dues, Standing)
  <2> DEFINE F(g) == [s \in SUBSET Standing |->
                       IF s = {} THEN 0 ELSE payout[Taking(s)].amount + g[s \ {Taking(s)}]]
             G == CHOOSE g : g = F(g)
  <2>1. \A s \in SUBSET Standing : s # {} => Dues[Taking(s)] = payout[Taking(s)].amount
    BY TakingIsIn DEF Dues, Standing, Made
  <2>2. \A g : AddsUp(g, Dues, Standing) <=> g = F(g)
    BY <2>1 DEF AddsUp
  <2>3. \E g : g = F(g)
    BY <1>2, <2>2, AddingIsPossible
  <2>4. G = F(G)
    BY <2>3
  <2>5. AddsUp(G, Dues, Standing)
    BY <2>2, <2>4
  <2>6. Total(Dues, Standing) = G[Standing]
    BY <1>2, <2>5, SumOfPart
  <2>7. PaidOut = G[Standing]
    BY DEF PaidOut, MapThenSumSet, MapThenFoldSet, Taking
  <2> QED
    BY <2>6, <2>7
<1> QED
  BY <1>1, <1>2 DEF SumsAreTotals

LEMMA AccountsTotalNext == SumsAreTotals'
BY AccountsTotal, PTL

LEMMA SameSums ==
  ASSUME SettlementsInv, UNCHANGED <<posted, payout>>
  PROVE  Adjusted' = Adjusted /\ PaidOut' = PaidOut
<1>1. PostedKeys' = PostedKeys /\ Standing' = Standing /\ Dues' = Dues /\ posted' = posted
  BY DEF PostedKeys, Standing, Made, Dues
<1>2. IsFiniteSet(Standing)
  BY DEF SettlementsInv, FewKeys
<1>3. Adjusted = Total(posted, PostedKeys) /\ PaidOut = Total(Dues, Standing)
  BY <1>2, AccountsTotal DEF SumsAreTotals
<1>4. Adjusted' = Total(posted', PostedKeys') /\ PaidOut' = Total(Dues', Standing')
  BY <1>1, <1>2, AccountsTotalNext DEF SumsAreTotals
<1> QED
  BY <1>1, <1>3, <1>4, Zenon

LEMMA NothingPaid ==
  ASSUME SettlementsInv, UNCHANGED <<providerBalance, posted, payout, reserve, refund>>,
         bank' = bank \/ \A k \in PayoutKey : payout[k] = NoPayout \/ payout[k].status \notin OpenStatus
  PROVE  FewKeys' /\ WalletBacksPayouts' /\ DestinationIsFrozen'
<1>1. FewKeys'
  BY DEF SettlementsInv, FewKeys, PostedKeys, Standing, Made
<1>2. Made' = Made
  BY DEF Made
<1>3. Adjusted' = Adjusted /\ PaidOut' = PaidOut
  BY SameSums
<1>4. WalletBacksPayouts'
  BY <1>2, <1>3 DEF SettlementsInv, WalletBacksPayouts
<1>5. DestinationIsFrozen'
  BY <1>2 DEF SettlementsInv, DestinationIsFrozen, Made
<1> QED
  BY <1>1, <1>4, <1>5

\* A step that only moves its transaction along.
LEMMA QuietStep ==
  ASSUME SettlementsInv, NEW j \in Settler, NEW w \in SettlerJob, job' = [job EXCEPT ![j] = w],
         UNCHANGED <<providerBalance, posted, payout, reserve, refund, bank, bankEdits>>,
         OnWallet(w) => w.read = providerBalance /\ WalletFree,
         w.does = "settle" => payout[w.key] # NoPayout,
         OnPayout(w) => /\ Steppable(payout[w.key].status, w.to)
                        /\ PayoutFree(w.key) \/ (OnPayout(job[j]) /\ job[j].key = w.key)
  PROVE  SettlementsInv'
<1>1. job \in [Settler -> SettlerJob]
  BY DEF SettlementsInv, SettlementsTypeOK
<1>2. ASSUME NEW i \in Settler, i # j PROVE OnWallet(w) => ~OnWallet(job[i])
  BY DEF WalletFree, WalletHeldBy, JobAt, OnWallet
<1>3. ASSUME NEW i \in Settler, i # j PROVE OnPayout(w) => ~(OnPayout(job[i]) /\ job[i].key = w.key)
  BY <1>3 DEF PayoutFree, JobAt, OnPayout, SettlementsInv, RowsHeldOnce
<1>4. SettlersFit' /\ RowsHeldOnce' /\ job' \in [Settler -> SettlerJob]
  BY <1>2, <1>3, SettlerMoves
<1>5. SettlementsTypeOK'
  BY <1>4 DEF SettlementsInv, SettlementsTypeOK
<1> QED
  BY <1>4, <1>5, NothingPaid DEF SettlementsInv

LEMMA OthersQuiet ==
  ASSUME SettlementsInv, UNCHANGED <<providerBalance, posted, payout, reserve, refund, job>>,
         bank' \in [to : Destination, verified : BOOLEAN], bank'.to = bank.to, bankEdits' = bankEdits
  PROVE  SettlementsInv'
<1>1. SettlementsTypeOK' /\ SettlersFit' /\ RowsHeldOnce'
  BY DEF SettlementsInv, SettlementsTypeOK, SettlersFit, SettlerFits, RowsHeldOnce, OnWallet, OnPayout
<1>2. FewKeys'
  BY DEF SettlementsInv, FewKeys, PostedKeys, Standing, Made
<1>3. Made' = Made
  BY DEF Made
<1>4. Adjusted' = Adjusted /\ PaidOut' = PaidOut
  BY SameSums
<1>5. WalletBacksPayouts'
  BY <1>3, <1>4 DEF SettlementsInv, WalletBacksPayouts
<1>6. DestinationIsFrozen'
  BY <1>3 DEF SettlementsInv, DestinationIsFrozen, Made
<1> QED
  BY <1>1, <1>2, <1>5, <1>6 DEF SettlementsInv

LEMMA StartKeeps ==
  ASSUME SettlementsInv, NEW j \in Settler,
         \/ \E k \in PayoutKey, a \in PayoutAmount : RequestPayout(j, k, a)
         \/ \E k \in PostKey, a \in Posting : Post(j, k, a)
         \/ \E k \in PayoutKey, to \in PayoutStatus \ {"PENDING"} : Settle(j, k, to)
         \/ \E to \in Destination : EditBank(j, to)
  PROVE  SettlementsInv'
<1>1. ASSUME NEW k \in PayoutKey, NEW a \in PayoutAmount, RequestPayout(j, k, a) PROVE SettlementsInv'
  <2> DEFINE w == [does |-> "request", at |-> "begun", key |-> k, asked |-> a]
  <2>1. w \in SettlerJob /\ w.does # "settle" /\ ~OnWallet(w) /\ ~OnPayout(w)
    BY DEF SettlerJob, OnWallet, OnPayout
  <2>2. job' = [job EXCEPT ![j] = w] /\ UNCHANGED <<providerBalance, posted, payout, reserve, refund, bank, bankEdits>>
    BY <1>1 DEF RequestPayout, Starts
  <2> HIDE DEF w
  <2> QED
    BY <2>1, <2>2, QuietStep
<1>2. ASSUME NEW k \in PostKey, NEW a \in Posting, Post(j, k, a) PROVE SettlementsInv'
  <2> DEFINE w == [does |-> "post", at |-> "begun", key |-> k, asked |-> a]
  <2>1. w \in SettlerJob /\ w.does # "settle" /\ ~OnWallet(w) /\ ~OnPayout(w)
    BY DEF SettlerJob, OnWallet, OnPayout
  <2>2. job' = [job EXCEPT ![j] = w] /\ UNCHANGED <<providerBalance, posted, payout, reserve, refund, bank, bankEdits>>
    BY <1>2 DEF Post, Starts
  <2> HIDE DEF w
  <2> QED
    BY <2>1, <2>2, QuietStep
<1>3. ASSUME NEW k \in PayoutKey, NEW to \in PayoutStatus \ {"PENDING"}, Settle(j, k, to) PROVE SettlementsInv'
  <2> DEFINE w == [does |-> "settle", at |-> "begun", key |-> k, to |-> to]
  <2>1. w \in SettlerJob /\ w.key = k /\ ~OnWallet(w) /\ ~OnPayout(w)
    BY DEF SettlerJob, OnWallet, OnPayout
  <2>2. /\ job' = [job EXCEPT ![j] = w] /\ payout[k] # NoPayout
        /\ UNCHANGED <<providerBalance, posted, payout, reserve, refund, bank, bankEdits>>
    BY <1>3 DEF Settle, Starts
  <2> HIDE DEF w
  <2> QED
    BY <2>1, <2>2, QuietStep
<1>4. ASSUME NEW to \in Destination, EditBank(j, to) PROVE SettlementsInv'
  <2>1. PICK clear \in BOOLEAN :
          clear = \A k \in PayoutKey : payout[k] = NoPayout \/ payout[k].status \notin OpenStatus
    OBVIOUS
  <2> DEFINE w == [does |-> "edit", at |-> "begun", to |-> to, clear |-> clear]
  <2>2. w \in SettlerJob /\ w.does # "settle" /\ ~OnWallet(w) /\ ~OnPayout(w)
    BY DEF SettlerJob, OnWallet, OnPayout
  <2>3. job' = [job EXCEPT ![j] = w] /\ UNCHANGED <<providerBalance, posted, payout, reserve, refund, bank, bankEdits>>
    BY <1>4, <2>1, Zenon DEF EditBank, Starts
  <2> HIDE DEF w
  <2> QED
    BY <2>2, <2>3, QuietStep
<1> QED
  BY <1>1, <1>2, <1>3, <1>4

LEMMA EndsKeep ==
  ASSUME SettlementsInv, NEW j \in Settler, Done(j),
         UNCHANGED <<providerBalance, posted, payout, reserve, refund, bank, bankEdits>>
  PROVE  SettlementsInv'
<1>1. job' = [job EXCEPT ![j] = NoJob]
  BY DEF Done
<1> QED
  BY <1>1, NoJobFits, QuietStep

LEMMA LockBankKeeps ==
  ASSUME SettlementsInv, NEW j \in Settler, LockBank(j)
  PROVE  SettlementsInv'
<1>1. UNCHANGED <<providerBalance, posted, payout, reserve, refund, bank, bankEdits>>
  BY DEF LockBank
<1>2. CASE Done(j)
  BY <1>1, <1>2, EndsKeep
<1>3. CASE Steps(j, [job[j] EXCEPT !.at = "bank"])
  <2> DEFINE w == [job[j] EXCEPT !.at = "bank"]
  <2>1. job[j] \in SettlerJob /\ job[j].does = "request" /\ job[j].at = "begun"
    BY DEF LockBank, JobAt, SettlementsInv, SettlementsTypeOK
  <2>2. w \in SettlerJob /\ w.does # "settle" /\ ~OnWallet(w) /\ ~OnPayout(w)
    BY <2>1 DEF SettlerJob, NoJob, OnWallet, OnPayout
  <2>3. job' = [job EXCEPT ![j] = w]
    BY <1>3 DEF Steps
  <2> HIDE DEF w
  <2> QED
    BY <1>1, <2>2, <2>3, QuietStep
<1> QED
  BY <1>2, <1>3 DEF LockBank

LEMMA LockWalletForPayoutKeeps ==
  ASSUME SettlementsInv, NEW j \in Settler, LockWalletForPayout(j)
  PROVE  SettlementsInv'
<1> DEFINE w == [does |-> "request", at |-> "wallet", key |-> job[j].key, asked |-> job[j].asked,
                 read |-> providerBalance]
<1>1. job[j] \in SettlerJob /\ job[j].does = "request" /\ providerBalance \in Nat
  BY DEF LockWalletForPayout, JobAt, SettlementsInv, SettlementsTypeOK
<1>2. job[j].key \in PayoutKey /\ job[j].asked \in PayoutAmount
  BY <1>1, SettlerJobKinds
<1>3. w \in SettlerJob
  BY <1>1, <1>2 DEF SettlerJob
<1>4. w.does # "settle" /\ w.read = providerBalance /\ ~OnPayout(w)
  BY DEF OnPayout
<1>5. job' = [job EXCEPT ![j] = w] /\ WalletFree
  BY DEF LockWalletForPayout, Steps
<1>6. UNCHANGED <<providerBalance, posted, payout, reserve, refund, bank, bankEdits>>
  BY DEF LockWalletForPayout
<1> HIDE DEF w
<1> QED
  BY <1>3, <1>4, <1>5, <1>6, QuietStep

LEMMA LockWalletForPostingKeeps ==
  ASSUME SettlementsInv, NEW j \in Settler, LockWalletForPosting(j)
  PROVE  SettlementsInv'
<1> DEFINE w == [does |-> "post", at |-> "wallet", key |-> job[j].key, asked |-> job[j].asked,
                 read |-> providerBalance]
<1>1. job[j] \in SettlerJob /\ job[j].does = "post" /\ providerBalance \in Nat
  BY DEF LockWalletForPosting, JobAt, SettlementsInv, SettlementsTypeOK
<1>2. job[j].key \in PostKey /\ job[j].asked \in Posting
  BY <1>1, SettlerJobKinds
<1>3. w \in SettlerJob
  BY <1>1, <1>2 DEF SettlerJob
<1>4. w.does # "settle" /\ w.read = providerBalance /\ ~OnPayout(w)
  BY DEF OnPayout
<1>5. job' = [job EXCEPT ![j] = w] /\ WalletFree
  BY DEF LockWalletForPosting, Steps
<1>6. UNCHANGED <<providerBalance, posted, payout, reserve, refund, bank, bankEdits>>
  BY DEF LockWalletForPosting
<1> HIDE DEF w
<1> QED
  BY <1>3, <1>4, <1>5, <1>6, QuietStep

LEMMA LockPayoutKeeps ==
  ASSUME SettlementsInv, NEW j \in Settler, LockPayout(j)
  PROVE  SettlementsInv'
<1>1. UNCHANGED <<providerBalance, posted, payout, reserve, refund, bank, bankEdits>>
  BY DEF LockPayout
<1>2. CASE Done(j)
  BY <1>1, <1>2, EndsKeep
<1>3. CASE Steppable(payout[job[j].key].status, job[j].to) /\ Steps(j, [job[j] EXCEPT !.at = "payout"])
  <2> DEFINE w == [job[j] EXCEPT !.at = "payout"]
  <2>1. job[j] \in SettlerJob /\ job[j].does = "settle" /\ job[j].at = "begun" /\ SettlerFits(job[j])
    BY DEF LockPayout, JobAt, SettlementsInv, SettlementsTypeOK, SettlersFit
  <2>2. /\ w \in SettlerJob /\ w.does = "settle" /\ w.at = "payout"
        /\ w.key = job[j].key /\ w.to = job[j].to
    BY <2>1 DEF SettlerJob, NoJob
  <2>3. job' = [job EXCEPT ![j] = w] /\ PayoutFree(job[j].key)
    BY <1>3 DEF Steps, LockPayout
  <2>4. payout[job[j].key] # NoPayout
    BY <2>1 DEF SettlerFits
  <2> HIDE DEF w
  <2>5. ~OnWallet(w)
    BY <2>2 DEF OnWallet
  <2>6. /\ payout[w.key] # NoPayout /\ PayoutFree(w.key)
        /\ Steppable(payout[w.key].status, w.to)
    BY <1>3, <2>2, <2>3, <2>4
  <2> QED
    BY <1>1, <2>2, <2>3, <2>5, <2>6, QuietStep
<1> QED
  BY <1>2, <1>3 DEF LockPayout

LEMMA LockWalletForRefundKeeps ==
  ASSUME SettlementsInv, NEW j \in Settler, LockWalletForRefund(j)
  PROVE  SettlementsInv'
<1> DEFINE w == [does |-> "settle", at |-> "wallet", key |-> job[j].key, to |-> "FAILED",
                 read |-> providerBalance]
<1>1. /\ job[j] \in SettlerJob /\ job[j].does = "settle" /\ job[j].at = "payout" /\ providerBalance \in Nat
      /\ job[j].to = "FAILED" /\ SettlerFits(job[j])
  BY DEF LockWalletForRefund, JobAt, SettlementsInv, SettlementsTypeOK, SettlersFit
<1>2. job[j].key \in PayoutKey /\ OnPayout(job[j])
  BY <1>1, SettlerJobKinds DEF OnPayout
<1>3. w \in SettlerJob /\ w.read = providerBalance /\ w.key = job[j].key /\ w.to = "FAILED"
  BY <1>1, <1>2 DEF SettlerJob
<1>4. job' = [job EXCEPT ![j] = w] /\ WalletFree
  BY DEF LockWalletForRefund, Steps
<1>5. UNCHANGED <<providerBalance, posted, payout, reserve, refund, bank, bankEdits>>
  BY DEF LockWalletForRefund
<1>6. payout[job[j].key] # NoPayout /\ Steppable(payout[job[j].key].status, "FAILED")
  BY <1>1, <1>2 DEF SettlerFits
<1> HIDE DEF w
<1>7. payout[w.key] # NoPayout /\ Steppable(payout[w.key].status, w.to)
  BY <1>3, <1>6
<1> QED
  BY <1>2, <1>3, <1>4, <1>5, <1>7, QuietStep

LEMMA CommitEditKeeps ==
  ASSUME SettlementsInv, NEW j \in Settler, CommitEdit(j)
  PROVE  SettlementsInv'
<1>1. UNCHANGED <<providerBalance, posted, payout, reserve, refund>> /\ job' = [job EXCEPT ![j] = NoJob]
  BY DEF CommitEdit, Done
<1>2. SettlersFit' /\ RowsHeldOnce' /\ job' \in [Settler -> SettlerJob]
  BY <1>1, NoJobFits, SettlerMoves
<1>3. CASE UNCHANGED <<bank, bankEdits>>
  BY <1>1, <1>3, EndsKeep DEF Done
<1>4. CASE NothingOpen(j) /\ bank' = [to |-> job[j].to, verified |-> FALSE] /\ bankEdits' = bankEdits + 1
  <2>1. job[j] \in SettlerJob /\ job[j].does = "edit" /\ bankEdits < MaxEdits
    BY DEF CommitEdit, JobAt, SettlementsInv, SettlementsTypeOK
  <2>2. job[j].to \in Destination
    BY <2>1, SettlerJobKinds
  <2>3. bankEdits' \in 0..MaxEdits /\ bank' \in [to : Destination, verified : BOOLEAN]
    BY <1>4, <2>1, <2>2, SettlementsAssumption DEF SettlementsInv, SettlementsTypeOK
  <2>4. SettlementsTypeOK'
    BY <1>1, <1>2, <2>3 DEF SettlementsInv, SettlementsTypeOK
  <2>5. FewKeys' /\ WalletBacksPayouts' /\ DestinationIsFrozen'
    BY <1>1, <1>4, NothingPaid DEF NothingOpen
  <2> QED
    BY <1>2, <2>4, <2>5 DEF SettlementsInv
<1> QED
  BY <1>3, <1>4 DEF CommitEdit

LEMMA PayoutRows ==
  ASSUME SettlementsInv, NEW k \in PayoutKey, payout[k] # NoPayout
  PROVE  payout[k] \in Payout
BY DEF SettlementsInv, SettlementsTypeOK

LEMMA AccountsAreIntegers ==
  ASSUME SettlementsInv
  PROVE  Adjusted \in Int /\ PaidOut \in Int
<1>1. \A k \in PostedKeys : posted[k] \in Int
  BY SettlementsAssumption DEF PostedKeys, SettlementsInv, SettlementsTypeOK
<1>2. \A k \in Standing : Dues[k] \in Int
  BY PayoutRows DEF Standing, Made, Dues, Payout
<1>3. IsFiniteSet(PostedKeys) /\ IsFiniteSet(Standing)
  BY DEF SettlementsInv, FewKeys
<1>4. Total(posted, PostedKeys) \in Int
  BY <1>1, <1>3, SumIsInteger
<1>5. Total(Dues, Standing) \in Int
  BY <1>2, <1>3, SumIsInteger
<1> QED
  BY <1>3, <1>4, <1>5, AccountsTotal DEF SumsAreTotals

\* One adjustment more moves the sum by its amount.
LEMMA PostingAdds ==
  ASSUME SettlementsInv, NEW k \in PostKey, posted[k] = NoPayout, NEW a \in Posting,
         posted' = [posted EXCEPT ![k] = a]
  PROVE  Adjusted' = Adjusted + a /\ IsFiniteSet(PostedKeys') /\ posted' \in [PostKey -> Posting \cup {NoPayout}]
<1>1. posted \in [PostKey -> Posting \cup {NoPayout}] /\ IsFiniteSet(PostedKeys)
  BY DEF SettlementsInv, SettlementsTypeOK, FewKeys
<1>2. a # NoPayout /\ a \in Int
  BY SettlementsAssumption
<1>3. posted' \in [PostKey -> Posting \cup {NoPayout}]
  BY <1>1
<1>4. PostedKeys' = PostedKeys \cup {k} /\ k \notin PostedKeys
  BY <1>1, <1>2 DEF PostedKeys
<1>5. IsFiniteSet(PostedKeys')
  BY <1>1, <1>4, FS_AddElement
<1>6. \A x \in PostedKeys : posted[x] \in Int /\ posted'[x] = posted[x]
  BY <1>1, SettlementsAssumption DEF PostedKeys
<1>7. posted'[k] = a
  BY <1>1
<1>8. Total(posted', PostedKeys) = Total(posted, PostedKeys)
  BY <1>1, <1>6, SumOfSameWeights
<1>9. Total(posted', PostedKeys \cup {k}) = Total(posted', PostedKeys) + posted'[k]
  <2>1. \A x \in PostedKeys \cup {k} : posted'[x] \in Int
    BY <1>2, <1>6, <1>7
  <2> QED
    BY <1>1, <1>4, <2>1, SumGrows
<1>10. Adjusted = Total(posted, PostedKeys) /\ Adjusted' = Total(posted', PostedKeys')
  BY AccountsTotal, AccountsTotalNext DEF SumsAreTotals
<1>11. Adjusted' = Adjusted + a
  BY <1>4, <1>7, <1>8, <1>9, <1>10, Zenon
<1> QED
  BY <1>3, <1>5, <1>11

\* A payout's row that changes moves the sum by what it counted for and what it counts for.
LEMMA PayoutMoves ==
  ASSUME SettlementsInv, NEW k \in PayoutKey, NEW row \in Payout, payout' = [payout EXCEPT ![k] = row],
         NEW was \in Int, was = IF k \in Standing THEN payout[k].amount ELSE 0,
         NEW is \in Int, is = IF row.status = "FAILED" THEN 0 ELSE row.amount
  PROVE  PaidOut' = (PaidOut - was) + is /\ IsFiniteSet(Standing')
<1> DEFINE rest == Standing \ {k}
<1>1. payout \in [PayoutKey -> Payout \cup {NoPayout}] /\ IsFiniteSet(Standing)
  BY DEF SettlementsInv, SettlementsTypeOK, FewKeys
<1>2. row # NoPayout
  BY SettlementsAssumption
<1>3. Standing' = (IF row.status = "FAILED" THEN rest ELSE rest \cup {k})
  BY <1>1, <1>2 DEF Standing, Made
<1>4. IsFiniteSet(rest)
  BY <1>1, FS_RemoveElement
<1>5. Standing = (IF k \in Standing THEN rest \cup {k} ELSE rest)
  OBVIOUS
<1>6. \A x \in rest : Dues[x] \in Int /\ Dues'[x] = Dues[x]
  <2> SUFFICES ASSUME NEW x \in rest PROVE Dues[x] \in Int /\ Dues'[x] = Dues[x]
    OBVIOUS
  <2>1. x \in PayoutKey /\ x # k /\ payout[x] \in Payout
    BY <1>1 DEF Standing, Made
  <2> QED
    BY <1>1, <2>1 DEF Dues, Payout
<1>7. Dues'[k] = row.amount /\ row.amount \in Int /\ Dues[k] = payout[k].amount
  BY <1>1 DEF Dues, Payout
<1>8. k \in Standing => Dues[k] = was
  BY <1>7
<1>9. k \notin rest
  OBVIOUS
<1> HIDE DEF rest
<1>10. IsFiniteSet(Standing')
  BY <1>3, <1>4, FS_AddElement
<1>11. Total(Dues', rest) = Total(Dues, rest) /\ Total(Dues, rest) \in Int
  <2>1. Total(Dues, rest) \in Int
    BY <1>4, <1>6, SumIsInteger
  <2>2. Total(Dues', rest) = Total(Dues, rest)
    BY <1>4, <1>6, SumOfSameWeights
  <2> QED
    BY <2>1, <2>2
<1>12. Total(Dues, Standing) = Total(Dues, rest) + was
  <2>1. CASE k \in Standing
    <3>1. \A x \in rest \cup {k} : Dues[x] \in Int
      BY <1>6, <1>8, <2>1
    <3>2. Total(Dues, rest \cup {k}) = Total(Dues, rest) + Dues[k]
      BY <1>4, <1>9, <3>1, SumGrows
    <3> QED
      BY <1>5, <1>8, <2>1, <3>2
  <2>2. CASE k \notin Standing
    <3>1. was = 0 /\ Standing = rest
      BY <1>5, <2>2
    <3>2. Total(Dues, Standing) = Total(Dues, rest)
      BY <3>1
    <3> QED
      BY <1>11, <3>1, <3>2
  <2> QED
    BY <2>1, <2>2
<1>13. Total(Dues', Standing') = Total(Dues, rest) + is
  <2>1. CASE row.status = "FAILED"
    <3>1. is = 0 /\ Standing' = rest
      BY <1>3, <2>1
    <3>2. Total(Dues', Standing') = Total(Dues', rest)
      BY <3>1
    <3> QED
      BY <1>11, <3>1, <3>2
  <2>2. CASE row.status # "FAILED"
    <3>1. is = Dues'[k] /\ Standing' = rest \cup {k}
      BY <1>3, <1>7, <2>2
    <3>2. \A x \in rest \cup {k} : Dues'[x] \in Int
      BY <1>6, <1>7
    <3>3. Total(Dues', rest \cup {k}) = Total(Dues', rest) + Dues'[k]
      BY <1>4, <1>9, <3>2, SumGrows
    <3> QED
      BY <1>11, <3>1, <3>3
  <2> QED
    BY <2>1, <2>2
<1>14. PaidOut = Total(Dues, Standing) /\ PaidOut' = Total(Dues', Standing')
  BY <1>1, <1>10, AccountsTotal, AccountsTotalNext DEF SumsAreTotals
<1>15. PICK t \in Int : t = Total(Dues, rest)
  BY <1>11
<1>16. PaidOut = t + was /\ PaidOut' = t + is
  BY <1>12, <1>13, <1>14, <1>15, Zenon
<1>17. t + is = ((t + was) - was) + is
  BY <1>15
<1> QED
  BY <1>10, <1>16, <1>17, Zenon

LEMMA CommitPostingKeeps ==
  ASSUME SettlementsInv, NEW j \in Settler, CommitPosting(j)
  PROVE  SettlementsInv'
<1>1. PICK w : w = job[j]
  OBVIOUS
<1>2. w \in SettlerJob /\ w.does = "post" /\ w.at = "wallet" /\ SettlerFits(w)
  BY <1>1 DEF CommitPosting, JobAt, SettlementsInv, SettlementsTypeOK, SettlersFit
<1>3. OnWallet(job[j]) /\ w.key \in PostKey /\ w.asked \in Posting /\ w.read = providerBalance
  BY <1>1, <1>2, SettlerJobKinds DEF OnWallet, SettlerFits
<1>4. Done(j) /\ UNCHANGED <<payout, reserve, refund, bank, bankEdits>>
  BY DEF CommitPosting
<1>5. CASE UNCHANGED <<posted, providerBalance>>
  BY <1>4, <1>5, EndsKeep
<1>6. CASE /\ posted[w.key] = NoPayout /\ w.read + w.asked >= 0
           /\ posted' = [posted EXCEPT ![w.key] = w.asked] /\ providerBalance' = w.read + w.asked
  <2>1. Adjusted' = Adjusted + w.asked /\ IsFiniteSet(PostedKeys') /\ posted' \in [PostKey -> Posting \cup {NoPayout}]
    BY <1>3, <1>6, PostingAdds
  <2>2. job' = [job EXCEPT ![j] = NoJob]
    BY <1>4 DEF Done
  <2>3. SettlersFit' /\ RowsHeldOnce' /\ job' \in [Settler -> SettlerJob]
    BY <1>3, <1>4, <2>2, NoJobFits, SettlerMoves
  <2>4. providerBalance \in Nat /\ w.asked \in Int
    BY <1>3, SettlementsAssumption DEF SettlementsInv, SettlementsTypeOK
  <2>5. providerBalance' \in Nat /\ providerBalance' = providerBalance + w.asked
    BY <1>3, <1>6, <2>4
  <2>6. SettlementsTypeOK'
    BY <1>4, <2>1, <2>3, <2>5 DEF SettlementsInv, SettlementsTypeOK
  <2>7. Standing' = Standing /\ Made' = Made /\ Dues' = Dues
    BY <1>4 DEF Standing, Made, Dues
  <2>8. FewKeys'
    BY <2>1, <2>7 DEF SettlementsInv, FewKeys
  <2>9. PaidOut' = PaidOut
    <3>1. IsFiniteSet(Standing)
      BY DEF SettlementsInv, FewKeys
    <3> QED
      BY <2>7, <3>1, AccountsTotal, AccountsTotalNext DEF SumsAreTotals
  <2>10. providerBalance' = Adjusted' - PaidOut'
    <3>1. providerBalance = Adjusted - PaidOut
      BY DEF SettlementsInv, WalletBacksPayouts
    <3>2. PICK a \in Int, b \in Int : a = Adjusted /\ b = PaidOut
      BY AccountsAreIntegers
    <3>3. Adjusted' = a + w.asked /\ PaidOut' = b /\ providerBalance = a - b
      BY <2>1, <2>9, <3>1, <3>2, Zenon
    <3>4. providerBalance' = (a + w.asked) - b
      BY <2>4, <2>5, <3>2, <3>3
    <3> QED
      BY <3>3, <3>4, Zenon
  <2>11. WalletBacksPayouts'
    BY <1>4, <2>7, <2>10 DEF SettlementsInv, WalletBacksPayouts
  <2>12. DestinationIsFrozen'
    BY <1>4, <2>7 DEF SettlementsInv, DestinationIsFrozen
  <2> QED
    BY <2>3, <2>6, <2>8, <2>11, <2>12 DEF SettlementsInv
<1> QED
  BY <1>1, <1>5, <1>6 DEF CommitPosting, Affords, Enter

LEMMA RoundsToRupees ==
  ASSUME NEW a \in Nat \ {0}
  PROVE  WholeRupee(a) \in Nat \ {0}
<1>1. (a + 1) \div 2 \in Nat /\ (a + 1) \div 2 >= 1
  OBVIOUS
<1> QED
  BY <1>1 DEF WholeRupee

\* A transaction changes one payout's row, which counted for `was` and counts for `is`, and
\* books it.
WritesPayout(j, k, row, was, is) ==
  /\ payout' = [payout EXCEPT ![k] = row] /\ Done(j) /\ UNCHANGED <<posted, bank, bankEdits>>
  /\ payout[k] = NoPayout \/ (OnPayout(job[j]) /\ job[j].key = k)
  /\ providerBalance' = providerBalance \/ OnWallet(job[j])
  /\ was = (IF k \in Standing THEN payout[k].amount ELSE 0)
  /\ is = (IF row.status = "FAILED" THEN 0 ELSE row.amount)
  /\ providerBalance' = (providerBalance + was) - is /\ providerBalance' \in Nat
  /\ row.status \in OpenStatus => row.to = bank.to

BooksPayout(k, row) ==
  /\ reserve' \in [PayoutKey -> Nat] /\ reserve'[k] = row.amount
  /\ refund' \in [PayoutKey -> Nat] /\ refund'[k] = (IF row.status = "FAILED" THEN row.amount ELSE 0)
  /\ \A x \in PayoutKey : x # k => reserve'[x] = reserve[x] /\ refund'[x] = refund[x]

LEMMA PayoutWritten ==
  ASSUME SettlementsInv, NEW j \in Settler, NEW k \in PayoutKey, NEW row \in Payout,
         NEW was \in Int, NEW is \in Int, WritesPayout(j, k, row, was, is), BooksPayout(k, row)
  PROVE  SettlementsInv'
<1>1. /\ payout \in [PayoutKey -> Payout \cup {NoPayout}]
      /\ reserve \in [PayoutKey -> Nat] /\ refund \in [PayoutKey -> Nat]
  BY DEF SettlementsInv, SettlementsTypeOK
<1>2. row # NoPayout /\ row.amount \in Nat
  BY SettlementsAssumption DEF Payout
<1>3. /\ payout' = [payout EXCEPT ![k] = row]
      /\ payout' \in [PayoutKey -> Payout \cup {NoPayout}] /\ payout'[k] = row
      /\ \A x \in PayoutKey : x # k => payout'[x] = payout[x]
  BY <1>1 DEF WritesPayout
<1>4. job' = [job EXCEPT ![j] = NoJob]
  BY DEF WritesPayout, Done
<1>5. SettlersFit' /\ RowsHeldOnce' /\ job' \in [Settler -> SettlerJob]
  <2>1. \A x \in PayoutKey :
          /\ payout'[x] = payout[x] \/ payout[x] = NoPayout \/ (OnPayout(job[j]) /\ job[j].key = x)
          /\ payout[x] # NoPayout => payout'[x] # NoPayout
    BY <1>2, <1>3 DEF WritesPayout
  <2>2. providerBalance' = providerBalance \/ OnWallet(job[j])
    BY DEF WritesPayout
  <2> QED
    BY <1>4, <2>1, <2>2, NoJobFits, SettlerMoves
<1>7. SettlementsTypeOK'
  BY <1>3, <1>5 DEF SettlementsInv, SettlementsTypeOK, WritesPayout, BooksPayout
<1>8. PaidOut' = (PaidOut - was) + is /\ IsFiniteSet(Standing')
  <2>1. /\ was = (IF k \in Standing THEN payout[k].amount ELSE 0)
        /\ is = (IF row.status = "FAILED" THEN 0 ELSE row.amount)
    BY DEF WritesPayout
  <2>2. payout' = [payout EXCEPT ![k] = row]
    BY <1>3
  <2> QED
    BY <2>1, <2>2, PayoutMoves
<1>9. posted' = posted /\ PostedKeys' = PostedKeys /\ IsFiniteSet(PostedKeys)
  BY DEF PostedKeys, SettlementsInv, FewKeys, WritesPayout
<1>10. FewKeys'
  BY <1>8, <1>9 DEF FewKeys
<1>11. Adjusted' = Adjusted
  BY <1>9, AccountsTotal, AccountsTotalNext DEF SumsAreTotals
<1>12. providerBalance' = Adjusted' - PaidOut'
  <2>1. providerBalance = Adjusted - PaidOut
    BY DEF SettlementsInv, WalletBacksPayouts
  <2>2. PICK a \in Int, b \in Int : a = Adjusted /\ b = PaidOut
    BY AccountsAreIntegers
  <2>3. Adjusted' = a /\ PaidOut' = (b - was) + is /\ providerBalance = a - b
    BY <1>8, <1>11, <2>1, <2>2, Zenon
  <2>4. providerBalance' = ((a - b) + was) - is
    BY <2>3, Zenon DEF WritesPayout
  <2>5. ((a - b) + was) - is = a - ((b - was) + is)
    BY <2>2
  <2> QED
    BY <2>3, <2>4, <2>5, Zenon
<1>13. Made' = Made \cup {k}
  BY <1>2, <1>3 DEF Made
<1>14. WalletBacksPayouts'
  <2>1. ASSUME NEW x \in PayoutKey, x # k
        PROVE  /\ x \notin Made' => reserve'[x] = 0 /\ refund'[x] = 0
               /\ x \in Made' => /\ reserve'[x] = payout'[x].amount
                                 /\ refund'[x] = IF payout'[x].status = "FAILED" THEN payout'[x].amount ELSE 0
    <3>1. reserve'[x] = reserve[x] /\ refund'[x] = refund[x] /\ payout'[x] = payout[x] /\ (x \in Made' <=> x \in Made)
      BY <1>3, <1>13, <2>1 DEF BooksPayout
    <3> QED
      BY <3>1 DEF SettlementsInv, WalletBacksPayouts
  <2>2. /\ reserve'[k] = payout'[k].amount /\ k \in Made'
        /\ refund'[k] = IF payout'[k].status = "FAILED" THEN payout'[k].amount ELSE 0
    BY <1>3, <1>13 DEF BooksPayout
  <2> QED
    BY <1>12, <2>1, <2>2 DEF WalletBacksPayouts, Made
<1>15. DestinationIsFrozen'
  BY <1>3, <1>13 DEF SettlementsInv, DestinationIsFrozen, Made, WritesPayout
<1> QED
  BY <1>5, <1>7, <1>10, <1>14, <1>15 DEF SettlementsInv

LEMMA CommitPayoutKeeps ==
  ASSUME SettlementsInv, NEW j \in Settler, CommitPayout(j)
  PROVE  SettlementsInv'
<1>1. PICK w : w = job[j]
  OBVIOUS
<1>2. w \in SettlerJob /\ w.does = "request" /\ w.at = "wallet" /\ SettlerFits(w)
  BY <1>1 DEF CommitPayout, JobAt, SettlementsInv, SettlementsTypeOK, SettlersFit
<1>3. OnWallet(job[j]) /\ w.key \in PayoutKey /\ w.asked \in PayoutAmount /\ w.read = providerBalance
  BY <1>1, <1>2, SettlerJobKinds DEF OnWallet, SettlerFits
<1>4. Done(j) /\ UNCHANGED <<posted, refund, bank, bankEdits>>
  BY DEF CommitPayout
<1>5. PICK due : due = WholeRupee(w.asked)
  OBVIOUS
<1>6. due \in Nat \ {0}
  BY <1>3, <1>5, RoundsToRupees, SettlementsAssumption
<1>7. CASE UNCHANGED <<payout, reserve, providerBalance>>
  BY <1>4, <1>7, EndsKeep
<1>8. CASE /\ payout[w.key] = NoPayout /\ w.read + (-due) >= 0
           /\ payout' = [payout EXCEPT ![w.key] = [amount |-> due, status |-> "PENDING", to |-> bank.to]]
           /\ reserve' = [reserve EXCEPT ![w.key] = reserve[w.key] + due]
           /\ providerBalance' = w.read + (-due)
  <2> DEFINE row == [amount |-> due, status |-> "PENDING", to |-> bank.to]
  <2>1. bank.to \in Destination /\ providerBalance \in Nat
    BY DEF SettlementsInv, SettlementsTypeOK
  <2>2. row \in Payout /\ row.status # "FAILED" /\ row.amount = due /\ row.to = bank.to
    BY <1>6, <2>1 DEF Payout, PayoutStatus, OpenStatus
  <2>3. payout' = [payout EXCEPT ![w.key] = row]
    BY <1>8
  <2> HIDE DEF row
  <2>4. w.key \notin Made /\ w.key \notin Standing
    BY <1>8 DEF Made, Standing
  <2>5. reserve[w.key] = 0 /\ refund[w.key] = 0 /\ reserve \in [PayoutKey -> Nat] /\ refund \in [PayoutKey -> Nat]
    BY <1>3, <2>4 DEF SettlementsInv, WalletBacksPayouts, SettlementsTypeOK
  <2>6. /\ reserve' \in [PayoutKey -> Nat] /\ reserve'[w.key] = row.amount
        /\ \A x \in PayoutKey : x # w.key => reserve'[x] = reserve[x]
    BY <1>3, <1>6, <1>8, <2>2, <2>5
  <2>7. refund' = refund /\ refund'[w.key] = IF row.status = "FAILED" THEN row.amount ELSE 0
    BY <1>4, <2>2, <2>5
  <2>8. PICK was \in Int, is \in Int : was = 0 /\ is = due
    BY <1>6
  <2>9. providerBalance' = (providerBalance + was) - is /\ providerBalance' \in Nat
    BY <1>3, <1>6, <1>8, <2>1, <2>8
  <2>10. was = IF w.key \in Standing THEN payout[w.key].amount ELSE 0
    BY <2>4, <2>8
  <2>11. is = IF row.status = "FAILED" THEN 0 ELSE row.amount
    BY <2>2, <2>8
  <2>12. PICK k \in PayoutKey : k = w.key
    BY <1>3
  <2>13. /\ payout' = [payout EXCEPT ![k] = row] /\ payout[k] = NoPayout
         /\ was = (IF k \in Standing THEN payout[k].amount ELSE 0)
    BY <1>8, <2>3, <2>10, <2>12
  <2>14. /\ reserve' \in [PayoutKey -> Nat] /\ refund' \in [PayoutKey -> Nat]
         /\ reserve'[k] = row.amount /\ refund'[k] = IF row.status = "FAILED" THEN row.amount ELSE 0
         /\ \A x \in PayoutKey : x # k => reserve'[x] = reserve[x] /\ refund'[x] = refund[x]
    BY <2>5, <2>6, <2>7, <2>12
  <2>15. /\ Done(j) /\ OnWallet(job[j]) /\ row \in Payout /\ row.to = bank.to
         /\ UNCHANGED <<posted, bank, bankEdits>>
    BY <1>3, <1>4, <2>2
  <2> QED
    <3>1. WritesPayout(j, k, row, was, is)
      BY <2>9, <2>11, <2>13, <2>15 DEF WritesPayout
    <3>2. BooksPayout(k, row)
      BY <2>14 DEF BooksPayout
    <3> QED
      BY <2>15, <3>1, <3>2, PayoutWritten
<1> QED
  BY <1>1, <1>5, <1>7, <1>8 DEF CommitPayout, Affords, Enter, Unused

LEMMA CommitProgressKeeps ==
  ASSUME SettlementsInv, NEW j \in Settler, CommitProgress(j)
  PROVE  SettlementsInv'
<1>1. PICK w : w = job[j]
  OBVIOUS
<1>2. w \in SettlerJob /\ w.does = "settle" /\ w.at = "payout" /\ SettlerFits(w) /\ w.to # "FAILED"
  BY <1>1 DEF CommitProgress, JobAt, SettlementsInv, SettlementsTypeOK, SettlersFit
<1>3. OnPayout(w) /\ w.key \in PayoutKey /\ w.to \in PayoutStatus
  BY <1>2, SettlerJobKinds DEF OnPayout
<1>4. PICK old : old = payout[w.key]
  OBVIOUS
<1>5. old # NoPayout /\ old \in Payout /\ old.status \in OpenStatus /\ w.key \in Made
  BY <1>2, <1>3, <1>4, PayoutRows DEF SettlerFits, Steppable, Made
<1> DEFINE row == [old EXCEPT !.status = w.to]
<1>6. row \in Payout /\ row.status # "FAILED" /\ row.amount = old.amount /\ row.to = old.to /\ old.amount \in Nat
  BY <1>2, <1>3, <1>5 DEF Payout
<1>7. payout' = [payout EXCEPT ![w.key] = row]
  BY <1>1, <1>4 DEF CommitProgress
<1>8. Done(j) /\ UNCHANGED <<providerBalance, posted, reserve, refund, bank, bankEdits>>
  BY DEF CommitProgress
<1> HIDE DEF row
<1>9. old.status # "FAILED" /\ w.key \in Standing
  BY <1>4, <1>5 DEF OpenStatus, Standing
<1>10. /\ reserve[w.key] = row.amount /\ refund[w.key] = 0
       /\ reserve \in [PayoutKey -> Nat] /\ refund \in [PayoutKey -> Nat]
  BY <1>4, <1>5, <1>6, <1>9 DEF SettlementsInv, WalletBacksPayouts, SettlementsTypeOK
<1>11. PICK k \in PayoutKey : k = w.key
  BY <1>3
<1>12. reserve'[k] = row.amount /\ refund'[k] = IF row.status = "FAILED" THEN row.amount ELSE 0
  BY <1>6, <1>8, <1>10, <1>11
<1>13. row.to = bank.to
  BY <1>4, <1>5, <1>6 DEF SettlementsInv, DestinationIsFrozen
<1>14. providerBalance' = (providerBalance + old.amount) - old.amount /\ providerBalance' \in Nat
  <2>1. providerBalance \in Nat
    BY DEF SettlementsInv, SettlementsTypeOK
  <2> QED
    BY <1>6, <1>8, <2>1
<1>15. old.amount = (IF w.key \in Standing THEN payout[w.key].amount ELSE 0) /\ old.amount \in Int
  BY <1>4, <1>6, <1>9
<1>16. old.amount = IF row.status = "FAILED" THEN 0 ELSE row.amount
  BY <1>6
<1>17. OnPayout(job[j]) /\ job[j].key = w.key
  BY <1>1, <1>3
<1>18. PICK was \in Int, is \in Int : was = old.amount /\ is = old.amount
  BY <1>15
<1>19. /\ providerBalance' = (providerBalance + was) - is
       /\ was = (IF k \in Standing THEN payout[k].amount ELSE 0)
       /\ is = (IF row.status = "FAILED" THEN 0 ELSE row.amount)
  BY <1>11, <1>14, <1>15, <1>16, <1>18
<1> QED
  <2>1. WritesPayout(j, k, row, was, is)
    <3>1. payout' = [payout EXCEPT ![k] = row] /\ OnPayout(job[j]) /\ job[j].key = k
      BY <1>7, <1>11, <1>17
    <3> QED
      BY <1>8, <1>13, <1>14, <1>19, <3>1 DEF WritesPayout
  <2>2. BooksPayout(k, row)
    BY <1>8, <1>10, <1>12 DEF BooksPayout
  <2> QED
    BY <1>6, <2>1, <2>2, PayoutWritten

LEMMA CommitPayoutRefundKeeps ==
  ASSUME SettlementsInv, NEW j \in Settler, CommitPayoutRefund(j)
  PROVE  SettlementsInv'
<1>1. PICK w : w = job[j]
  OBVIOUS
<1>2. w \in SettlerJob /\ w.does = "settle" /\ w.at = "wallet" /\ SettlerFits(w)
  BY <1>1 DEF CommitPayoutRefund, JobAt, SettlementsInv, SettlementsTypeOK, SettlersFit
<1>3. OnPayout(w) /\ OnWallet(w) /\ w.key \in PayoutKey /\ w.read = providerBalance
  BY <1>2, SettlerJobKinds DEF OnPayout, OnWallet, SettlerFits
<1>4. PICK old : old = payout[w.key]
  OBVIOUS
<1>5. old # NoPayout /\ old \in Payout /\ old.status \in OpenStatus /\ w.key \in Made
  BY <1>2, <1>3, <1>4, PayoutRows DEF SettlerFits, Steppable, Made
<1> DEFINE row == [old EXCEPT !.status = "FAILED"]
<1>6. row \in Payout /\ row.status = "FAILED" /\ row.amount = old.amount /\ old.amount \in Nat
  BY <1>5 DEF Payout, PayoutStatus
<1>7. payout' = [payout EXCEPT ![w.key] = row]
  BY <1>1, <1>4 DEF CommitPayoutRefund
<1>8. /\ Done(j) /\ UNCHANGED <<posted, reserve, bank, bankEdits>>
      /\ providerBalance' = w.read + old.amount
      /\ refund' = [refund EXCEPT ![w.key] = refund[w.key] + old.amount]
  BY <1>1, <1>4 DEF CommitPayoutRefund, Enter
<1> HIDE DEF row
<1>9. old.status # "FAILED" /\ w.key \in Standing
  BY <1>4, <1>5 DEF OpenStatus, Standing
<1>10. /\ reserve[w.key] = row.amount /\ refund[w.key] = 0
       /\ reserve \in [PayoutKey -> Nat] /\ refund \in [PayoutKey -> Nat]
  BY <1>4, <1>5, <1>6, <1>9 DEF SettlementsInv, WalletBacksPayouts, SettlementsTypeOK
<1>11. PICK k \in PayoutKey : k = w.key
  BY <1>3
<1>12. /\ reserve'[k] = row.amount /\ refund'[k] = IF row.status = "FAILED" THEN row.amount ELSE 0
       /\ refund' \in [PayoutKey -> Nat] /\ \A x \in PayoutKey : x # k => refund'[x] = refund[x]
  BY <1>6, <1>8, <1>10, <1>11
<1>13. row.status \notin OpenStatus
  BY <1>6 DEF OpenStatus
<1>14. providerBalance' = (providerBalance + old.amount) - 0 /\ providerBalance' \in Nat
  <2>1. providerBalance \in Nat
    BY DEF SettlementsInv, SettlementsTypeOK
  <2> QED
    BY <1>3, <1>6, <1>8, <2>1
<1>15. old.amount = (IF w.key \in Standing THEN payout[w.key].amount ELSE 0) /\ old.amount \in Int
  BY <1>4, <1>6, <1>9
<1>16. 0 = (IF row.status = "FAILED" THEN 0 ELSE row.amount) /\ 0 \in Int
  BY <1>6
<1>17. OnPayout(job[j]) /\ job[j].key = w.key /\ OnWallet(job[j])
  BY <1>1, <1>3
<1>18. PICK was \in Int, is \in Int : was = old.amount /\ is = 0
  BY <1>15
<1>19. /\ providerBalance' = (providerBalance + was) - is
       /\ was = (IF k \in Standing THEN payout[k].amount ELSE 0)
       /\ is = (IF row.status = "FAILED" THEN 0 ELSE row.amount)
  BY <1>11, <1>14, <1>15, <1>16, <1>18
<1>20. /\ payout' = [payout EXCEPT ![k] = row] /\ OnPayout(job[j]) /\ job[j].key = k
       /\ OnWallet(job[j]) /\ Done(j) /\ UNCHANGED <<posted, bank, bankEdits>>
  BY <1>7, <1>8, <1>11, <1>17
<1>21. /\ reserve' \in [PayoutKey -> Nat]
       /\ \A x \in PayoutKey : x # k => reserve'[x] = reserve[x] /\ refund'[x] = refund[x]
  BY <1>8, <1>10, <1>12
<1> QED
  <2>1. WritesPayout(j, k, row, was, is)
    BY <1>13, <1>14, <1>19, <1>20 DEF WritesPayout
  <2>2. BooksPayout(k, row)
    BY <1>12, <1>21 DEF BooksPayout
  <2> QED
    BY <1>6, <2>1, <2>2, PayoutWritten

LEMMA InitSettlements == SettlementsInit => SettlementsInv
<1> SUFFICES ASSUME SettlementsInit PROVE SettlementsInv
  OBVIOUS
<1>1. \A j \in Settler : job[j] = NoJob
  BY DEF SettlementsInit
<1>2. SettlersFit /\ RowsHeldOnce
  BY <1>1, NoJobFits DEF SettlersFit, RowsHeldOnce
<1>3. SettlementsTypeOK
  <2>1. job \in [Settler -> SettlerJob]
    BY NoJobFits DEF SettlementsInit
  <2>2. bankEdits \in 0..MaxEdits
    BY SettlementsAssumption DEF SettlementsInit
  <2> QED
    BY <2>1, <2>2 DEF SettlementsInit, SettlementsTypeOK
<1>4. Made = {} /\ PostedKeys = {} /\ Standing = {}
  BY DEF SettlementsInit, Made, PostedKeys, Standing
<1>5. FewKeys
  BY <1>4, FS_EmptySet DEF FewKeys
<1>6. Adjusted = 0 /\ PaidOut = 0
  BY <1>4, AccountsTotal, SumOfNothing, FS_EmptySet DEF SumsAreTotals
<1>7. WalletBacksPayouts
  BY <1>4, <1>6 DEF WalletBacksPayouts, SettlementsInit
<1>8. DestinationIsFrozen
  BY <1>4 DEF DestinationIsFrozen
<1> QED
  BY <1>2, <1>3, <1>5, <1>7, <1>8 DEF SettlementsInv

LEMMA SettlementsStep == SettlementsInv /\ [SettlementsNext]_settlementsVars => SettlementsInv'
<1> SUFFICES ASSUME SettlementsInv, [SettlementsNext]_settlementsVars PROVE SettlementsInv'
  OBVIOUS
<1>1. ASSUME NEW j \in Settler,
             \/ \E k \in PayoutKey, a \in PayoutAmount : RequestPayout(j, k, a)
             \/ \E k \in PostKey, a \in Posting : Post(j, k, a)
             \/ \E k \in PayoutKey, to \in PayoutStatus \ {"PENDING"} : Settle(j, k, to)
             \/ \E to \in Destination : EditBank(j, to)
      PROVE  SettlementsInv'
  BY <1>1, StartKeeps
<1>2. ASSUME NEW j \in Settler,
             \/ LockBank(j) \/ LockWalletForPayout(j) \/ LockWalletForPosting(j)
             \/ LockPayout(j) \/ LockWalletForRefund(j)
      PROVE  SettlementsInv'
  BY <1>2, LockBankKeeps, LockWalletForPayoutKeeps, LockWalletForPostingKeeps, LockPayoutKeeps,
     LockWalletForRefundKeeps
<1>3. ASSUME NEW j \in Settler,
             CommitPayout(j) \/ CommitPosting(j) \/ CommitProgress(j) \/ CommitPayoutRefund(j) \/ CommitEdit(j)
      PROVE  SettlementsInv'
  BY <1>3, CommitPayoutKeeps, CommitPostingKeeps, CommitProgressKeeps, CommitPayoutRefundKeeps, CommitEditKeeps
<1>4. ASSUME NEW j \in Settler, Abort(j) PROVE SettlementsInv'
  BY <1>4, EndsKeep DEF Abort
<1>5. CASE VerifyBank
  <2>1. bank \in [to : Destination, verified : BOOLEAN]
    BY DEF SettlementsInv, SettlementsTypeOK
  <2>2. bank' \in [to : Destination, verified : BOOLEAN] /\ bank'.to = bank.to
    BY <1>5, <2>1 DEF VerifyBank
  <2> QED
    BY <1>5, <2>2, OthersQuiet DEF VerifyBank
<1>6. CASE RefuseBank
  <2>1. bank \in [to : Destination, verified : BOOLEAN]
    BY DEF SettlementsInv, SettlementsTypeOK
  <2>2. bank' \in [to : Destination, verified : BOOLEAN] /\ bank'.to = bank.to
    BY <1>6, <2>1 DEF RefuseBank
  <2> QED
    BY <1>6, <2>2, OthersQuiet DEF RefuseBank
<1>7. CASE UNCHANGED settlementsVars
  <2>1. bank \in [to : Destination, verified : BOOLEAN]
    BY DEF SettlementsInv, SettlementsTypeOK
  <2> QED
    BY <1>7, <2>1, OthersQuiet DEF settlementsVars
<1> QED
  BY <1>1, <1>2, <1>3, <1>4, <1>5, <1>6, <1>7 DEF SettlementsNext

\* The rows of a provider's wallet, its payouts and its bank account are of their types,
\* whatever transactions are in progress.
THEOREM SettlementsTypeCorrect == SettlementsSpec => []SettlementsTypeOK
<1>1. SettlementsInv => SettlementsTypeOK
  BY DEF SettlementsInv
<1> QED
  BY <1>1, InitSettlements, SettlementsStep, PTL DEF SettlementsSpec

\* A provider's wallet is what was posted less what was paid out, each payout once, and an open
\* payout goes to the account it was asked for; with any number of keys, amounts and requests.
THEOREM PayoutsAlwaysBacked == SettlementsSpec => [](WalletBacksPayouts /\ DestinationIsFrozen)
<1>1. SettlementsInv => WalletBacksPayouts /\ DestinationIsFrozen
  BY DEF SettlementsInv
<1> QED
  BY <1>1, InitSettlements, SettlementsStep, PTL DEF SettlementsSpec

-----------------------------------------------------------------------------
(* Fares.  Division rounds down and keeps the order, so every rounding of  *)
(* the tariff keeps it.                                                    *)

LEMMA QuotientFits ==
  ASSUME NEW a \in Int, NEW d \in Nat \ {0}
  PROVE  a \div d \in Int /\ d * (a \div d) <= a /\ a < d * (a \div d) + d
<1>1. a \div d \in Int
  OBVIOUS
<1>2. a % d \in 0..(d - 1) /\ a = d * (a \div d) + (a % d)
  OBVIOUS
<1> QED
  BY <1>1, <1>2

LEMMA ProductGrows ==
  ASSUME NEW x \in Int, NEW y \in Int, x <= y, NEW n \in Nat
  PROVE  n * x <= n * y /\ x * n <= y * n
OBVIOUS

LEMMA QuotientIsLargest ==
  ASSUME NEW a \in Int, NEW d \in Nat \ {0}, NEW q \in Int, d * q <= a
  PROVE  q <= a \div d
<1>1. SUFFICES ASSUME (a \div d) + 1 <= q PROVE FALSE
  BY QuotientFits
<1>2. d * ((a \div d) + 1) <= d * q
  BY <1>1, ProductGrows, QuotientFits
<1>3. d * ((a \div d) + 1) = d * (a \div d) + d
  BY QuotientFits
<1> QED
  BY <1>2, <1>3, QuotientFits

LEMMA QuotientGrows ==
  ASSUME NEW a \in Int, NEW b \in Int, a <= b, NEW d \in Nat \ {0}
  PROVE  a \div d <= b \div d
<1>1. d * (a \div d) <= b /\ a \div d \in Int
  BY QuotientFits
<1> QED
  BY <1>1, QuotientIsLargest

LEMMA QuotientIsBelow ==
  ASSUME NEW a \in Int, NEW d \in Nat \ {0}, NEW q \in Int, a < d * q + d
  PROVE  a \div d <= q
<1>1. SUFFICES ASSUME q + 1 <= a \div d PROVE FALSE
  BY QuotientFits
<1>2. d * (q + 1) <= d * (a \div d)
  BY <1>1, ProductGrows, QuotientFits
<1>3. d * (q + 1) = d * q + d
  OBVIOUS
<1> QED
  BY <1>2, <1>3, QuotientFits

LEMMA HalfUpGrows ==
  ASSUME NEW n \in Nat, NEW m \in Nat, n <= m, NEW d \in Nat \ {0}
  PROVE  HalfUp(n, d) \in Nat /\ HalfUp(n, d) <= HalfUp(m, d)
<1>1. 2 * n + d \in Int /\ 2 * m + d \in Int /\ 2 * n + d <= 2 * m + d /\ 2 * d \in Nat \ {0}
  OBVIOUS
<1>2. (2 * n + d) \div (2 * d) <= (2 * m + d) \div (2 * d)
  BY <1>1, QuotientGrows
<1>3. (2 * d) * 0 <= 2 * n + d
  OBVIOUS
<1>4. 0 <= (2 * n + d) \div (2 * d) /\ (2 * n + d) \div (2 * d) \in Int
  BY <1>1, <1>3, QuotientIsLargest, QuotientFits
<1> QED
  BY <1>2, <1>4 DEF HalfUp

\* A rounded amount of money is a number of rupees, which rounding leaves alone.
LEMMA RupeesGrow ==
  ASSUME NEW p \in Nat, NEW q \in Nat, p <= q
  PROVE  WholeRupees(p) \in Nat /\ WholeRupees(p) <= WholeRupees(q)
<1>1. HalfUp(p, 100) \in Nat /\ HalfUp(q, 100) \in Nat /\ HalfUp(p, 100) <= HalfUp(q, 100)
  BY HalfUpGrows
<1> QED
  BY <1>1 DEF WholeRupees

LEMMA RupeesStay ==
  ASSUME NEW p \in Nat
  PROVE  WholeRupees(WholeRupees(p)) = WholeRupees(p)
<1>1. PICK h \in Nat : WholeRupees(p) = h * 100
  BY HalfUpGrows DEF WholeRupees
<1>2. HalfUp(h * 100, 100) = h
  BY DEF HalfUp
<1> QED
  BY <1>1, <1>2 DEF WholeRupees

\* The commission is taken of the base fare and never exceeds the fare.
LEMMA CommissionFits ==
  ASSUME NEW base \in Nat, NEW distance \in Nat
  PROVE  /\ Share(base, 1, 10) \in 0..WholeRupees(base + distance)
         /\ Earnings(base, distance) \in Nat
         /\ Share(base, 1, 10) + Earnings(base, distance) = WholeRupees(base + distance)
<1>1. Share(base, 1, 10) = ((2 * base + 1000) \div 2000) * 100
  BY DEF Share, HalfUp
<1>2. WholeRupees(base) = ((2 * base + 100) \div 200) * 100
  BY DEF WholeRupees, HalfUp
<1>3. 0 <= (2 * base + 1000) \div 2000 /\ (2 * base + 1000) \div 2000 <= (2 * base + 100) \div 200
  OBVIOUS
<1>4. WholeRupees(base) <= WholeRupees(base + distance) /\ WholeRupees(base + distance) \in Nat
  BY RupeesGrow, base + distance \in Nat, base <= base + distance
<1> QED
  BY <1>1, <1>2, <1>3, <1>4 DEF Earnings

\* The trigger splits the fare in the stages the estimate announced.
LEMMA PlanIsSplit ==
  ASSUME NEW p \in Nat
  PROVE  Plan(p) = Split(p)
<1> DEFINE total == WholeRupees(p)
<1>1. total \in Nat
  BY RupeesGrow
<1>2. HalfUp(total * 4, 1000) = HalfUp(total * 2, 500)
  <2> HIDE DEF total
  <2> QED
    BY <1>1 DEF HalfUp
<1>3. Share(total, 2, 5) = HalfUp(total * 4, 1000) * 100
  BY <1>2 DEF Share
<1> QED
  BY <1>3 DEF Plan, Split, WholeRupees

-----------------------------------------------------------------------------
(* The score of a count is within its bounds and follows the count, and a  *)
(* range of the tariff follows the score.                                  *)
LEMMA WindowIsOpen == LowCount \in Nat /\ HighCount \in Nat /\ LowCount < HighCount
BY FaresAssumption

LEMMA ScoreFits ==
  ASSUME NEW count, count = Null \/ count \in Nat
  PROVE  Score(count) \in Nat /\ Score(count) <= 10000
<1>1. CASE count = Null \/ count <= LowCount \/ count >= HighCount
  BY <1>1, WindowIsOpen DEF Score, Null
<1>2. CASE count # Null /\ LowCount < count /\ count < HighCount
  <2> DEFINE d == HighCount - LowCount
             n == (count - LowCount) * 10000
  <2>0. count \in Nat /\ LowCount \in Nat /\ HighCount \in Nat
    BY <1>2, WindowIsOpen
  <2>1. d \in Nat \ {0} /\ n \in Nat /\ n <= d * 10000 - 10000
    BY <1>2, <2>0
  <2>2. Score(count) = HalfUp(n, d)
    BY <1>2, WindowIsOpen DEF Score, Null
  <2> HIDE DEF d, n
  <2>3. HalfUp(n, d) \in Nat
    BY <2>1, HalfUpGrows
  <2>4. 2 * n + d \in Int /\ 2 * d \in Nat \ {0} /\ (2 * d) * 10000 = 20000 * d
    BY <2>1
  <2>6. 2 * n + d < (2 * d) * 10000 + 2 * d
    BY <2>1, <2>4
  <2>7. HalfUp(n, d) <= 10000
    BY <2>4, <2>6, QuotientIsBelow DEF HalfUp
  <2> QED
    BY <2>2, <2>3, <2>7
<1>3. count = Null \/ count \in Nat
  OBVIOUS
<1>4. count = Null \/ count <= LowCount \/ count >= HighCount
      \/ (count # Null /\ LowCount < count /\ count < HighCount)
  BY <1>3, WindowIsOpen
<1> QED
  BY <1>1, <1>2, <1>4

LEMMA ScoreGrows ==
  ASSUME NEW c \in Nat, NEW e \in Nat, c <= e
  PROVE  Score(c) <= Score(e)
<1> DEFINE low == Score(c)
           high == Score(e)
<1>1. low \in Nat /\ low <= 10000 /\ high \in Nat /\ high <= 10000
  BY ScoreFits
<1> SUFFICES low <= high
  OBVIOUS
<1>2. CASE c <= LowCount \/ e >= HighCount
  <2>1. CASE c <= LowCount
    <3>1. low = 0
      BY <2>1 DEF Score
    <3> HIDE DEF low, high
    <3> QED
      BY <1>1, <3>1
  <2>2. CASE e >= HighCount
    <3>1. high = 10000
      BY <2>2, WindowIsOpen DEF Score, Null
    <3> HIDE DEF low, high
    <3> QED
      BY <1>1, <3>1
  <2> QED
    BY <1>2, <2>1, <2>2
<1>3. CASE LowCount < c /\ e < HighCount
  <2> DEFINE d == HighCount - LowCount
             n == (c - LowCount) * 10000
             m == (e - LowCount) * 10000
  <2>0. LowCount \in Nat /\ HighCount \in Nat
    BY WindowIsOpen
  <2>1. d \in Nat \ {0} /\ n \in Nat /\ m \in Nat /\ n <= m
    BY <1>3, <2>0
  <2>2. Score(c) = HalfUp(n, d) /\ Score(e) = HalfUp(m, d)
    BY <1>3, WindowIsOpen DEF Score, Null
  <2> HIDE DEF d, n, m
  <2> QED
    BY <2>1, <2>2, HalfUpGrows
<1>4. (c <= LowCount \/ e >= HighCount) \/ (LowCount < c /\ e < HighCount)
  BY WindowIsOpen
<1> QED
  BY <1>2, <1>3, <1>4

LEMMA RangeGrows ==
  ASSUME NEW min \in Nat, NEW max \in Nat, min <= max,
         NEW s \in Nat, NEW u \in Nat, s <= u
  PROVE  Interpolate(min, max, s) \in Nat /\ Interpolate(min, max, s) <= Interpolate(min, max, u)
<1> DEFINE span == max - min
           x == span * s
           y == span * u
<1>1. span \in Nat
  OBVIOUS
<1>2. Interpolate(min, max, s) = min + (x + 5000) \div 10000
      /\ Interpolate(min, max, u) = min + (y + 5000) \div 10000
  BY DEF Interpolate, Null
<1> HIDE DEF span
<1>3. span * 0 <= x /\ x <= y
  BY <1>1, ProductGrows
<1>4. 0 <= x /\ x \in Int /\ y \in Int
  BY <1>1, <1>3
<1> HIDE DEF x, y
<1>5. 0 <= (x + 5000) \div 10000 /\ (x + 5000) \div 10000 <= (y + 5000) \div 10000
      /\ (x + 5000) \div 10000 \in Int /\ (y + 5000) \div 10000 \in Int
  BY <1>3, <1>4
<1> QED
  BY <1>2, <1>5

-----------------------------------------------------------------------------
(* What a row that can be saved asks for a trip.                           *)
Reference == [baseMin : Nat \cup {Null}, baseMax : Nat \cup {Null}, rateMin : Nat, rateMax : Nat,
              routed : BOOLEAN, demand : BOOLEAN]

LEMMA RowFits ==
  ASSUME NEW t \in StorableTariffs
  PROVE  /\ t \in Tariffs /\ Storable(t)
         /\ t.base = Null \/ t.base \in Nat
         /\ t.rate = Null \/ t.rate \in Nat
         /\ t.fixed = Null \/ t.fixed \in Nat
         /\ t.reference # NoReference =>
              /\ t.reference \in Reference
              /\ ReferenceValid(t.reference)
<1>1. t \in Tariffs /\ Storable(t)
  BY DEF StorableTariffs
<1>2. t.base \in Amounts \cup {Null} /\ t.rate \in Rates \cup {Null} /\ t.fixed \in Amounts \cup {Null}
      /\ t.reference \in References \cup {NoReference}
  BY <1>1 DEF Tariffs
<1>3. Amounts \subseteq Nat /\ Rates \subseteq Nat /\ References \subseteq Reference
  BY FaresAssumption DEF Reference
<1> QED
  BY <1>1, <1>2, <1>3 DEF Storable

LEMMA RangeOfDemand ==
  ASSUME NEW f \in Reference, ReferenceValid(f), f.baseMin # Null,
         NEW s \in Nat, NEW u \in Nat, s <= u
  PROVE  /\ Interpolate(f.baseMin, f.baseMax, s) \in Nat
         /\ Interpolate(f.baseMin, f.baseMax, s) <= Interpolate(f.baseMin, f.baseMax, u)
         /\ Interpolate(f.rateMin, f.rateMax, s) \in Nat
         /\ Interpolate(f.rateMin, f.rateMax, s) <= Interpolate(f.rateMin, f.rateMax, u)
<1>1. PICK low \in Nat, high \in Nat : low = f.rateMin /\ high = f.rateMax /\ low <= high
  BY DEF Reference, ReferenceValid
<1>2. Interpolate(low, high, s) \in Nat /\ Interpolate(low, high, s) <= Interpolate(low, high, u)
  BY <1>1, RangeGrows
<1>3. PICK min \in Nat : min = f.baseMin
  BY DEF Reference
<1>4. CASE f.baseMax = Null
  BY <1>1, <1>2, <1>3, <1>4 DEF Interpolate
<1>5. CASE f.baseMax # Null
  <2>1. PICK max \in Nat : max = f.baseMax /\ min <= max
    BY <1>3, <1>5 DEF Reference, ReferenceValid
  <2>2. Interpolate(min, max, s) \in Nat /\ Interpolate(min, max, s) <= Interpolate(min, max, u)
    BY <2>1, RangeGrows
  <2> QED
    BY <1>1, <1>2, <1>3, <2>1, <2>2
<1> QED
  BY <1>4, <1>5

\* The base fare of the hours that a trip is booked for.
LEMMA BucketFits ==
  ASSUME NEW t, NEW r \in Trips
  PROVE  HourlyBase(t, r) = Null \/ HourlyBase(t, r) \in Nat
<1>1. CASE r.hours = Null \/ t.hourly # "full"
  BY <1>1 DEF HourlyBase
<1>2. CASE r.hours # Null /\ t.hourly = "full"
  <2>1. r.hours \in Nat /\ r.hours # 0
    BY <1>2, FaresAssumption DEF Trips
  <2>2. Bucket(r) \in 1..13
    BY <2>1 DEF Bucket
  <2>3. HourlyFare \in [1..13 -> Nat]
    BY FaresAssumption
  <2> QED
    BY <1>2, <2>2, <2>3 DEF HourlyBase
<1> QED
  BY <1>1, <1>2

\* The five kinds of row that can be saved.
FixedRow(t) ==
  /\ t.sector = "service" /\ ~t.slabs /\ (t.active => ~t.ftl) /\ (t.active => t.fixed # Null)
  /\ t.hourly = "none"
LongRow(t) == t.sector = "logistics" /\ ~t.slabs
SlabRow(t) == t.sector = "logistics" /\ t.slabs /\ t.hourly = "none"
RangeRow(t) ==
  /\ t.sector \in {"passenger", "premium"} /\ ~t.slabs /\ t.hourly = "none"
  /\ t.base = Null /\ t.rate = Null
  /\ t.active => t.reference # NoReference
  /\ (t.active /\ t.ftl) => t.reference.routed
RateRow(t) ==
  /\ t.sector \in {"passenger", "premium"} /\ ~t.slabs /\ ~t.ftl
  /\ t.base # Null /\ t.rate # Null /\ t.reference = NoReference
  /\ (t.hourly # "none" /\ t.active) => t.hourly = "full"

LEMMA FiveKinds ==
  ASSUME NEW t \in StorableTariffs
  PROVE  FixedRow(t) \/ LongRow(t) \/ SlabRow(t) \/ RangeRow(t) \/ RateRow(t)
<1>1. t \in Tariffs /\ Storable(t)
  BY DEF StorableTariffs
<1>2. t.sector \in {"passenger", "premium", "logistics", "service"} /\ t.ftl \in BOOLEAN
      /\ t.slabs \in BOOLEAN /\ t.active \in BOOLEAN
  BY <1>1 DEF Tariffs
<1>3. CASE t.sector = "service"
  BY <1>1, <1>2, <1>3 DEF Storable, ServiceOnly, FtlIsRouted, FixedRow
<1>4. CASE t.sector = "logistics"
  BY <1>1, <1>2, <1>4 DEF Storable, HourlyValid, LongRow, SlabRow
<1>5. CASE t.sector \in {"passenger", "premium"}
  <2>1. t.fixed = Null /\ ~t.slabs
    BY <1>1, <1>2, <1>5 DEF Storable, ServiceOnly, OneModel
  <2>2. CASE t.base # Null /\ t.rate # Null /\ ~t.ftl /\ t.reference = NoReference
    BY <1>1, <1>5, <2>1, <2>2 DEF Storable, HourlyValid, RateRow
  <2>3. CASE t.base = Null /\ t.rate = Null /\ (t.reference = NoReference => ~t.active)
    BY <1>1, <1>2, <1>5, <2>1, <2>3 DEF Storable, HourlyValid, FtlIsRouted, RangeRow
  <2> QED
    BY <1>1, <2>1, <2>2, <2>3 DEF Storable, OneModel
<1> QED
  BY <1>2, <1>3, <1>4, <1>5

LEMMA SlabFits ==
  ASSUME NEW r
  PROVE  SlabOf(r).base \in Nat /\ SlabOf(r).rate \in Nat
<1>1. Slabs \in [below : [base : Nat, rate : Nat], from : [base : Nat, rate : Nat]]
  BY FaresAssumption
<1>2. Slabs.below \in [base : Nat, rate : Nat] /\ Slabs.from \in [base : Nat, rate : Nat]
  BY <1>1
<1> QED
  BY <1>2 DEF SlabOf

\* What each kind of row asks for a trip.
LEMMA RatesOfKinds ==
  ASSUME NEW t \in StorableTariffs, NEW r, NEW s
  PROVE  LET rates == EstimateRates(t, r, s) IN
         /\ FixedRow(t) => rates = [base |-> t.fixed, rate |-> 0]
         /\ LongRow(t) => rates.base = Null
         /\ SlabRow(t) => rates = SlabOf(r)
         /\ RangeRow(t) =>
              IF t.reference # NoReference /\ t.reference.demand /\ ~t.reference.routed
                 /\ t.reference.baseMin # Null
              THEN rates = [base |-> Interpolate(t.reference.baseMin, t.reference.baseMax, s),
                            rate |-> Interpolate(t.reference.rateMin, t.reference.rateMax, s)]
              ELSE rates.base = Null
         /\ RateRow(t) =>
              rates = [base |-> IF t.hourly = "none" THEN t.base ELSE HourlyBase(t, r),
                       rate |-> t.rate]
<1>1. FixedRow(t) => EstimateRates(t, r, s) = [base |-> t.fixed, rate |-> 0]
  BY DEF FixedRow, EstimateRates
<1>2. LongRow(t) => EstimateRates(t, r, s).base = Null
  BY DEF LongRow, EstimateRates
<1>3. SlabRow(t) => EstimateRates(t, r, s) = SlabOf(r)
  BY DEF SlabRow, EstimateRates
<1>4. ASSUME RangeRow(t)
      PROVE  IF t.reference # NoReference /\ t.reference.demand /\ ~t.reference.routed
                 /\ t.reference.baseMin # Null
             THEN EstimateRates(t, r, s) =
                    [base |-> Interpolate(t.reference.baseMin, t.reference.baseMax, s),
                     rate |-> Interpolate(t.reference.rateMin, t.reference.rateMax, s)]
             ELSE EstimateRates(t, r, s).base = Null
  BY <1>4 DEF RangeRow, EstimateRates
<1>5. RateRow(t) =>
        EstimateRates(t, r, s) = [base |-> IF t.hourly = "none" THEN t.base ELSE HourlyBase(t, r),
                                  rate |-> t.rate]
  BY DEF RateRow, EstimateRates
<1> QED
  BY <1>1, <1>2, <1>3, <1>4, <1>5

\* A row that prices a trip prices it for any score, with amounts that follow the score.
LEMMA RatesGrow ==
  ASSUME NEW t \in StorableTariffs, NEW r \in Trips, NEW s \in Nat, NEW u \in Nat, s <= u,
         NEW v, EstimateRates(t, r, v).base # Null
  PROVE  /\ EstimateRates(t, r, s).base \in Nat /\ EstimateRates(t, r, s).rate \in Nat
         /\ EstimateRates(t, r, u).base \in Nat /\ EstimateRates(t, r, u).rate \in Nat
         /\ EstimateRates(t, r, s).base <= EstimateRates(t, r, u).base
         /\ EstimateRates(t, r, s).rate <= EstimateRates(t, r, u).rate
<1>1. CASE FixedRow(t)
  <2>1. t.fixed \in Nat
    BY <1>1, RatesOfKinds, RowFits
  <2> QED
    BY <1>1, <2>1, RatesOfKinds
<1>2. CASE LongRow(t)
  BY <1>2, RatesOfKinds
<1>3. CASE SlabRow(t)
  BY <1>3, RatesOfKinds, SlabFits
<1>4. CASE RangeRow(t)
  <2> DEFINE f == t.reference
             rates(x) == [base |-> Interpolate(f.baseMin, f.baseMax, x),
                          rate |-> Interpolate(f.rateMin, f.rateMax, x)]
  <2>1. f # NoReference /\ f.demand /\ ~f.routed /\ f.baseMin # Null
    BY <1>4, RatesOfKinds
  <2>2. EstimateRates(t, r, s) = rates(s) /\ EstimateRates(t, r, u) = rates(u)
    BY <1>4, <2>1, RatesOfKinds
  <2>3. f \in Reference /\ ReferenceValid(f)
    BY <2>1, RowFits
  <2>4. /\ Interpolate(f.baseMin, f.baseMax, s) \in Nat
        /\ Interpolate(f.baseMin, f.baseMax, u) \in Nat
        /\ Interpolate(f.baseMin, f.baseMax, s) <= Interpolate(f.baseMin, f.baseMax, u)
        /\ Interpolate(f.rateMin, f.rateMax, s) \in Nat
        /\ Interpolate(f.rateMin, f.rateMax, u) \in Nat
        /\ Interpolate(f.rateMin, f.rateMax, s) <= Interpolate(f.rateMin, f.rateMax, u)
    BY <2>1, <2>3, RangeOfDemand, u <= u
  <2> QED
    BY <2>2, <2>4
<1>5. CASE RateRow(t)
  <2> DEFINE base == IF t.hourly = "none" THEN t.base ELSE HourlyBase(t, r)
  <2>1. /\ EstimateRates(t, r, s) = [base |-> base, rate |-> t.rate]
        /\ EstimateRates(t, r, u) = [base |-> base, rate |-> t.rate]
        /\ EstimateRates(t, r, v) = [base |-> base, rate |-> t.rate]
    BY <1>5, RatesOfKinds
  <2>2. base # Null /\ t.rate # Null
    BY <1>5, <2>1 DEF RateRow
  <2>3. base \in Nat /\ t.rate \in Nat
    BY <1>5, <2>2, RowFits, BucketFits DEF RateRow
  <2> QED
    BY <2>1, <2>3
<1> QED
  BY <1>1, <1>2, <1>3, <1>4, <1>5, FiveKinds

\* What the catalog calls available has a price, and what is priced is available and stands
\* when the row is read again.
LEMMA CatalogAgrees ==
  ASSUME NEW t \in StorableTariffs, NEW r \in Trips, HoursValid(r), Inventory(r.sector) = t.sector,
         NEW s \in Nat
  PROVE  /\ Priced(t, r, s) => Status(t) = "available" /\ RowAccepts(t, r, s)
         /\ Status(t) = "available" =>
              (Priced(t, r, s) \/ (t.hourly # "none" /\ r.hours = Null)
               \/ (r.sector = "rental" /\ t.hourly = "none"))
<1>1. CASE FixedRow(t)
  <2>1. EstimateRates(t, r, s) = [base |-> t.fixed, rate |-> 0]
    BY <1>1, RatesOfKinds
  <2>2. RowRates(t, r, s) = [base |-> t.fixed, rate |-> 0]
    BY <1>1 DEF FixedRow, RowRates
  <2>3. r.sector # "rental"
    BY <1>1 DEF FixedRow, Inventory
  <2> QED
    BY <1>1, <2>1, <2>2, <2>3 DEF FixedRow, Priced, Status, RowAccepts
<1>2. CASE LongRow(t)
  BY <1>2, RatesOfKinds DEF LongRow, Priced, Status
<1>3. CASE SlabRow(t)
  <2>1. EstimateRates(t, r, s) = SlabOf(r) /\ RowRates(t, r, s) = SlabOf(r)
    BY <1>3, RatesOfKinds DEF SlabRow, RowRates
  <2>2. SlabOf(r).base # Null
    BY SlabFits DEF Null
  <2>3. r.sector # "rental"
    BY <1>3 DEF SlabRow, Inventory
  <2> QED
    BY <1>3, <2>1, <2>2, <2>3 DEF SlabRow, Priced, Status, RowAccepts
<1>4. CASE RangeRow(t)
  <2> DEFINE f == t.reference
             open == f # NoReference /\ f.demand /\ ~f.routed /\ f.baseMin # Null
             rates == [base |-> Interpolate(f.baseMin, f.baseMax, s),
                       rate |-> Interpolate(f.rateMin, f.rateMax, s)]
  <2>1. CASE ~open
    <3>1. EstimateRates(t, r, s).base = Null
      BY <1>4, <2>1, RatesOfKinds
    <3>2. Status(t) # "available"
      BY <1>4, <2>1 DEF RangeRow, Status
    <3> QED
      BY <3>1, <3>2 DEF Priced
  <2>2. CASE open
    <3>1. EstimateRates(t, r, s) = rates /\ RowRates(t, r, s) = rates
      BY <1>4, <2>2, RatesOfKinds DEF RangeRow, RowRates
    <3>2. rates.base # Null
      BY <2>2, RowFits, RangeOfDemand, s <= s DEF Null
    <3>3. Status(t) = IF t.active THEN "available" ELSE "inactive"
      BY <1>4, <2>2 DEF RangeRow, Status
    <3> HIDE DEF rates
    <3> QED
      BY <1>4, <2>2, <3>1, <3>2, <3>3 DEF RangeRow, Priced, RowAccepts
  <2> QED
    BY <2>1, <2>2
<1>5. CASE RateRow(t)
  <2> DEFINE rates == [base |-> IF t.hourly = "none" THEN t.base ELSE HourlyBase(t, r),
                       rate |-> t.rate]
  <2>1. EstimateRates(t, r, s) = rates /\ RowRates(t, r, s) = rates
    BY <1>5, RatesOfKinds DEF RateRow, RowRates
  <2>2. Status(t) = IF t.hourly = "partial" THEN "needs_pricing"
                    ELSE IF t.active THEN "available" ELSE "inactive"
    BY <1>5 DEF RateRow, Status
  <2>3. r.hours # Null /\ t.hourly = "full" => HourlyBase(t, r) # Null
    <3> SUFFICES ASSUME r.hours # Null, t.hourly = "full" PROVE HourlyBase(t, r) # Null
      OBVIOUS
    <3>1. r.hours \in Nat /\ r.hours # 0
      BY FaresAssumption DEF Trips
    <3>2. Bucket(r) \in 1..13
      BY <3>1 DEF Bucket
    <3>3. HourlyFare \in [1..13 -> Nat]
      BY FaresAssumption
    <3> QED
      BY <3>2, <3>3 DEF HourlyBase, Null
  <2>4. t.hourly = "none" => rates.base # Null
    BY <1>5 DEF RateRow
  <2>5. rates.base # Null /\ t.active => t.hourly # "partial"
    BY <1>5 DEF RateRow
  <2>6. t.hourly # "none" /\ t.active => t.hourly = "full"
    BY <1>5 DEF RateRow
  <2>7. t.hourly = "full" => rates.base = HourlyBase(t, r)
    OBVIOUS
  <2> HIDE DEF rates
  <2>8. Priced(t, r, s) => Status(t) = "available" /\ RowAccepts(t, r, s)
    BY <1>5, <2>1, <2>2, <2>5 DEF RateRow, Priced, RowAccepts
  <2>9. ASSUME Status(t) = "available", ~(t.hourly # "none" /\ r.hours = Null),
               ~(r.sector = "rental" /\ t.hourly = "none")
        PROVE  Priced(t, r, s)
    BY <1>5, <2>1, <2>2, <2>3, <2>4, <2>6, <2>7, <2>9 DEF Priced
  <2> QED
    BY <2>8, <2>9
<1> QED
  BY <1>1, <1>2, <1>3, <1>4, <1>5, FiveKinds

LEMMA DistanceFits ==
  ASSUME NEW t, NEW r \in Trips
  PROVE  (IF t.sector = "service" THEN 0 ELSE r.metres * Ways(t, r)) \in Nat
<1>1. r.metres \in Nat /\ Ways(t, r) \in {1, 2}
  BY FaresAssumption DEF Trips, Ways
<1> QED
  BY <1>1

\* A fare follows the score too, since each rounding of it keeps the order.
LEMMA FareGrows ==
  ASSUME NEW t \in StorableTariffs, NEW r \in Trips, NEW s \in Nat, NEW u \in Nat, s <= u,
         NEW v, EstimateRates(t, r, v).base # Null
  PROVE  Fare(t, r, s).gross \in Nat /\ Fare(t, r, s).gross <= Fare(t, r, u).gross
<1> DEFINE way == IF t.sector = "service" THEN 0 ELSE r.metres * Ways(t, r)
           low == EstimateRates(t, r, s)
           high == EstimateRates(t, r, u)
<1>1. PICK n \in Nat : n = way
  BY DistanceFits
<1>2. PICK b1 \in Nat, r1 \in Nat, b2 \in Nat, r2 \in Nat :
        /\ b1 = low.base /\ r1 = low.rate /\ b2 = high.base /\ r2 = high.rate
        /\ b1 <= b2 /\ r1 <= r2
  BY RatesGrow
<1>3. Fare(t, r, s).gross = WholeRupees(b1 + HalfUp(n * r1, 1000))
      /\ Fare(t, r, u).gross = WholeRupees(b2 + HalfUp(n * r2, 1000))
  BY <1>1, <1>2 DEF Fare
<1>4. n * r1 \in Nat /\ n * r2 \in Nat /\ n * r1 <= n * r2
  <2>1. n * 0 <= n * r1 /\ n * r1 <= n * r2
    BY <1>2, ProductGrows
  <2> QED
    BY <2>1
<1> DEFINE m1 == n * r1
           m2 == n * r2
<1> HIDE DEF m1, m2
<1>5. PICK d1 \in Nat, d2 \in Nat : d1 = HalfUp(m1, 1000) /\ d2 = HalfUp(m2, 1000) /\ d1 <= d2
  <2>1. m1 \in Nat /\ m2 \in Nat /\ m1 <= m2
    BY <1>4 DEF m1, m2
  <2>2. HalfUp(m1, 1000) \in Nat /\ HalfUp(m2, 1000) \in Nat /\ HalfUp(m1, 1000) <= HalfUp(m2, 1000)
    BY <2>1, HalfUpGrows
  <2> QED
    BY <2>2
<1>6. b1 + d1 \in Nat /\ b2 + d2 \in Nat /\ b1 + d1 <= b2 + d2
  BY <1>2, <1>5
<1>7. WholeRupees(b1 + d1) \in Nat /\ WholeRupees(b1 + d1) <= WholeRupees(b2 + d2)
  BY <1>6, RupeesGrow
<1> QED
  BY <1>3, <1>5, <1>7 DEF m1, m2

LEMMA FareAddsUp ==
  ASSUME NEW t \in StorableTariffs, NEW r \in Trips, NEW s \in Nat,
         EstimateRates(t, r, s).base # Null, NEW fare, fare = Fare(t, r, s)
  PROVE  /\ fare.gross \in Nat /\ WholeRupees(fare.gross) = fare.gross
         /\ fare.commission \in 0..fare.gross /\ fare.earnings \in Nat
         /\ fare.commission + fare.earnings = fare.gross
<1> DEFINE way == IF t.sector = "service" THEN 0 ELSE r.metres * Ways(t, r)
           rates == EstimateRates(t, r, s)
<1>1. PICK n \in Nat : n = way
  BY DistanceFits
<1>2. PICK base \in Nat, rate \in Nat : base = rates.base /\ rate = rates.rate
  BY RatesGrow, s <= s
<1>3. n * rate \in Nat
  <2>1. n * 0 <= n * rate
    BY <1>2, ProductGrows
  <2> QED
    BY <2>1
<1>4. PICK distance \in Nat : distance = HalfUp(n * rate, 1000)
  <2> DEFINE m == n * rate
  <2>1. m \in Nat
    BY <1>3
  <2> HIDE DEF m
  <2>2. HalfUp(m, 1000) \in Nat
    BY <2>1, HalfUpGrows, m <= m
  <2> QED
    BY <2>2 DEF m
<1>5. /\ fare.gross = WholeRupees(base + distance)
      /\ fare.commission = Share(base, 1, 10)
      /\ fare.earnings = Earnings(base, distance)
  BY <1>1, <1>2, <1>4 DEF Fare
<1>6. WholeRupees(base + distance) \in Nat
      /\ WholeRupees(WholeRupees(base + distance)) = WholeRupees(base + distance)
  BY RupeesGrow, RupeesStay, base + distance \in Nat, base + distance <= base + distance
<1> QED
  BY <1>5, <1>6, CommissionFits

-----------------------------------------------------------------------------
(* The invariant of Fares: a quote keeps the stages of its amount, and a   *)
(* fare is in whole rupees, which the rounding at completion leaves alone. *)
QuoteFits ==
  quote # NoQuote => quote.amount \in Nat /\ quote.version \in 0..edits
                     /\ quote.split = Split(quote.amount)
BookedFits == booked # NoRide => booked.fare \in Nat /\ WholeRupees(booked.fare) = booked.fare

FaresInv ==
  /\ trip \in Trips /\ HoursValid(trip)
  /\ tariff \in StorableTariffs /\ tariff.sector = Inventory(trip.sector)
  /\ edits \in 0..MaxSaves /\ sample \in Counts \cup {Null}
  /\ QuoteFits /\ BookedFits /\ MoneyAddsUp

LEMMA FaresTyped == FaresInv => FaresTypeOK
BY DEF FaresInv, FaresTypeOK, QuoteFits, StorableTariffs

LEMMA InitFares == FaresInit => FaresInv
BY FaresAssumption DEF FaresInit, FaresInv, QuoteFits, BookedFits, MoneyAddsUp

LEMMA SampleScores ==
  ASSUME FaresInv
  PROVE  Score(sample) \in Nat
<1>1. sample = Null \/ sample \in Nat
  BY FaresAssumption DEF FaresInv
<1> QED
  BY <1>1, ScoreFits

LEMMA StepOfSave ==
  ASSUME FaresInv, Save
  PROVE  FaresInv'
<1>1. edits \in Nat /\ edits + 1 \in 0..MaxSaves /\ edits' = edits + 1
  BY FaresAssumption DEF FaresInv, Save
<1>2. tariff' \in StorableTariffs /\ tariff'.sector = tariff.sector
  BY DEF Save
<1>3. QuoteFits'
  <2>1. ASSUME NEW v \in 0..edits PROVE v \in 0..(edits + 1)
    BY <1>1, <2>1
  <2> QED
    BY <1>1, <2>1 DEF FaresInv, QuoteFits, Save
<1> QED
  BY <1>1, <1>2, <1>3 DEF FaresInv, BookedFits, MoneyAddsUp, Save

LEMMA StepOfMeasure ==
  ASSUME FaresInv, Measure
  PROVE  FaresInv'
BY DEF FaresInv, Measure, QuoteFits, BookedFits, MoneyAddsUp

LEMMA StepOfEstimate ==
  ASSUME FaresInv, Estimate
  PROVE  FaresInv'
<1> DEFINE f == Fare(tariff, trip, Score(sample))
<1>1. EstimateRates(tariff, trip, Score(sample)).base # Null
  BY DEF Estimate, Priced
<1>2. f.gross \in Nat
  BY <1>1, SampleScores, FareAddsUp DEF FaresInv
<1>3. quote' = [amount |-> f.gross, version |-> edits, split |-> Split(f.gross)]
  BY DEF Estimate
<1>4. edits \in 0..edits
  BY FaresAssumption DEF FaresInv
<1> HIDE DEF f
<1>5. QuoteFits'
  BY <1>2, <1>3, <1>4 DEF QuoteFits, Estimate
<1> QED
  BY <1>5 DEF FaresInv, BookedFits, MoneyAddsUp, Estimate

LEMMA StepOfBook ==
  ASSUME FaresInv, Book
  PROVE  FaresInv'
<1> DEFINE f == Fare(tariff, trip, Score(sample))
<1>1. EstimateRates(tariff, trip, Score(sample)).base # Null
  BY DEF Book, Priced
<1>2. /\ f.gross \in Nat /\ WholeRupees(f.gross) = f.gross
      /\ f.commission \in 0..f.gross /\ f.earnings \in Nat
      /\ f.commission + f.earnings = f.gross
  BY <1>1, SampleScores, FareAddsUp DEF FaresInv
<1>3. /\ quote # NoQuote /\ quote.amount = f.gross
      /\ booked' = [fare |-> WholeRupees(f.gross), final |-> Null, promised |-> quote,
                    commission |-> f.commission, earnings |-> f.earnings,
                    plan |-> IF trip.sector = "logistics" /\ f.gross > 0
                             THEN Plan(f.gross) ELSE Split(0)]
      /\ UNCHANGED <<trip, tariff, edits, sample, quote>>
  BY DEF Book, QuoteStands
<1>4. quote.split = Split(f.gross)
  BY <1>3 DEF FaresInv, QuoteFits
<1> HIDE DEF f
<1>5. PICK g \in Nat : g = f.gross
  BY <1>2
<1>6. trip.sector = "logistics" => booked'.plan = quote.split
  <2>1. CASE g > 0
    BY <1>3, <1>4, <1>5, <2>1, PlanIsSplit
  <2>2. CASE g = 0
    BY <1>3, <1>4, <1>5, <2>2
  <2> QED
    BY <2>1, <2>2
<1>7. BookedFits' /\ MoneyAddsUp'
  BY <1>2, <1>3, <1>6 DEF BookedFits, MoneyAddsUp
<1> QED
  BY <1>3, <1>7 DEF FaresInv, QuoteFits

LEMMA StepOfComplete ==
  ASSUME FaresInv, Complete
  PROVE  FaresInv'
<1>1. booked' = [booked EXCEPT !.final = booked.fare]
  BY DEF FaresInv, BookedFits, Complete
<1> QED
  BY <1>1 DEF FaresInv, QuoteFits, BookedFits, MoneyAddsUp, Complete

LEMMA FaresStep == FaresInv /\ [FaresNext]_fareVars => FaresInv'
<1> SUFFICES ASSUME FaresInv, [FaresNext]_fareVars PROVE FaresInv'
  OBVIOUS
<1>1. CASE FaresNext
  BY <1>1, StepOfSave, StepOfMeasure, StepOfEstimate, StepOfBook, StepOfComplete DEF FaresNext
<1>2. CASE UNCHANGED fareVars
  BY <1>2 DEF fareVars, FaresInv, QuoteFits, BookedFits, MoneyAddsUp
<1> QED
  BY <1>1, <1>2

LEMMA FaresHold == FaresInv => FaresAddUp
<1> SUFFICES ASSUME FaresInv PROVE AvailableIsPriced /\ DemandIsBounded
  BY DEF FaresInv, FaresAddUp
<1>1. AvailableIsPriced
  BY SampleScores, CatalogAgrees DEF FaresInv, AvailableIsPriced
<1>2. DemandIsBounded
  <2> SUFFICES ASSUME NEW r \in Trips, Priced(tariff, r, 0), NEW c \in Counts, NEW d \in Counts
               PROVE  LET gross(x) == Fare(tariff, r, Score(x)).gross
                      IN /\ c <= d => gross(c) <= gross(d)
                         /\ gross(Null) <= gross(c)
                         /\ gross(c) <= Fare(tariff, r, 10000).gross
    BY DEF DemandIsBounded
  <2>1. tariff \in StorableTariffs /\ EstimateRates(tariff, r, 0).base # Null
    BY DEF FaresInv, Priced
  <2>2. \A s \in Nat, u \in Nat : s <= u => Fare(tariff, r, s).gross <= Fare(tariff, r, u).gross
    BY <2>1, FareGrows
  <2>3. c \in Nat /\ d \in Nat
    BY FaresAssumption
  <2>4. Score(c) \in Nat /\ Score(c) <= 10000 /\ Score(d) \in Nat /\ Score(Null) = 0
    BY <2>3, ScoreFits DEF Score
  <2>5. c <= d => Score(c) <= Score(d)
    BY <2>3, ScoreGrows
  <2>6. 0 <= Score(c)
    BY <2>4
  <2> QED
    BY <2>2, <2>4, <2>5, <2>6
<1> QED
  BY <1>1, <1>2

\* What a booking costs is the same in the catalog, the calculator, the statement that inserts
\* the ride and the triggers: FaresAddUp, for any amounts, ranges, slabs and counts.
THEOREM FaresAlwaysAddUp == FaresSpec => []FaresAddUp
<1>1. FaresSpec => []FaresInv
  BY InitFares, FaresStep, PTL DEF FaresSpec
<1> QED
  BY <1>1, FaresHold, PTL

THEOREM FaresTypeCorrect == FaresSpec => []FaresTypeOK
<1>1. FaresSpec => []FaresInv
  BY InitFares, FaresStep, PTL DEF FaresSpec
<1> QED
  BY <1>1, FaresTyped, PTL

=============================================================================
