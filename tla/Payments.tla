------------------------------- MODULE Payments -------------------------------
(***************************************************************************)
(* Booking payments: rows of `payments` and `payment_refunds`, the         *)
(* requests, webhooks and refunds that race for them, the orders and       *)
(* refunds held by the gateway, and the ride whose pickup and final        *)
(* balance the stages of a logistics payment gate.                         *)
(*                                                                         *)
(* A request reads its payment, may call the gateway, and writes later:    *)
(* the steps in between are actions of their own, so other requests,       *)
(* redelivered webhooks, the gateway and the ride move in between, and a   *)
(* request may be cut off after any of them.  One SQL statement with its   *)
(* triggers and CHECK constraints is one step.                             *)
(*                                                                         *)
(* Abstractions.  Every payment is of the same Amount, all in one          *)
(* currency; messages carry the right amounts.  A provider is "cashfree"   *)
(* or "cash": the other names the schema accepts are recorded like cash,   *)
(* and wallet payments are the subject of Wallet.                          *)
(***************************************************************************)
EXTENDS Naturals, FiniteSets, FiniteSetsExt

CONSTANTS
  Ride,      \* rides that are paid for
  Payment,   \* identities a new payment row may take
  Asker,   \* HTTP requests in progress
  Amount,    \* rupees of a payment
  Nil        \* no row, no lock holder

VARIABLES
  ride,      \* phase of the ride
  planned,   \* rides with a row in logistics_ride_payment_plans
  pay,       \* rows of payments
  refunds,   \* rows of payment_refunds
  req,       \* requests in progress
  lock,      \* payment rows locked by an open refund transaction
  order,     \* status of the gateway's order of a payment
  accepted,  \* refunds the gateway has accepted, by their refund_id
  events     \* webhooks the gateway delivers, any number of times

rows == <<pay, refunds>>
gateway == <<order, accepted, events>>
paymentVars == <<ride, planned, rows, req, lock, gateway>>

RidePhase == {"booked", "accepted", "in_progress", "completed", "cancelled"}
Stage == {"none", "upfront", "final"}
Provider == {"cash", "cashfree"}
PaymentStatus == {"INITIATED", "CAPTURED", "REFUNDED", "FAILED"}
PaymentRow == [ride : Ride, stage : Stage, provider : Provider, status : PaymentStatus,
               linked : BOOLEAN, claimed : BOOLEAN]
RefundId == [payment : Payment, already : 0..Amount, amount : 1..Amount]
Refund == [id : RefundId, by : Asker, status : {"SUCCESS", "PENDING"}]
Step == {"insert", "order", "link", "verify", "capture", "fail", "refund", "submit", "record"}
Idle == [step |-> "idle"]
InsertJob == [step : {"insert"}, ride : Ride, provider : Provider]
RowJob == [step : {"order", "link", "verify", "capture", "fail"}, payment : Payment]
RefundJob == [step : {"refund", "submit"}, id : RefundId]
RecordJob == [step : {"record"}, id : RefundId, outcome : {"SUCCESS", "PENDING"}]

ASSUME PaymentsAssumption == Amount \in Nat \ {0} /\ Nil \notin Asker /\ Nil \notin PaymentRow

PaymentsTypeOK ==
  /\ ride \in [Ride -> RidePhase]
  /\ planned \subseteq Ride
  /\ pay \in [Payment -> PaymentRow \cup {Nil}]
  /\ refunds \subseteq Refund
  /\ req \in [Asker -> {Idle} \cup InsertJob \cup RowJob \cup RefundJob \cup RecordJob]
  /\ lock \in [Payment -> Asker \cup {Nil}]
  /\ order \in [Payment -> {"none", "ACTIVE", "PAID", "EXPIRED"}]
  /\ accepted \subseteq RefundId
  /\ events \subseteq Payment \X {"SUCCESS", "FAILED"}

\* Any booked ride, with or without a logistics plan; no payment yet.
PaymentsInit ==
  /\ ride = [r \in Ride |-> "booked"]
  /\ planned \in SUBSET Ride
  /\ pay = [p \in Payment |-> Nil]
  /\ refunds = {}
  /\ req = [q \in Asker |-> Idle]
  /\ lock = [p \in Payment |-> Nil]
  /\ order = [p \in Payment |-> "none"]
  /\ accepted = {}
  /\ events = {}

-----------------------------------------------------------------------------
(* The row and its constraints.                                            *)

Exists(p) == pay[p] # Nil
Has(p, statuses) == Exists(p) /\ pay[p].status \in statuses
Staged(p) == Exists(p) /\ pay[p].stage # "none"
LiveStatus == {"INITIATED", "CAPTURED"}

\* The partial unique indexes: the live row of a ride, or of a stage of it.
Taken(r, s) == \E p \in Payment : Has(p, LiveStatus) /\ pay[p].ride = r /\ pay[p].stage = s
Upfront(r, p) == Has(p, {"CAPTURED"}) /\ pay[p].ride = r /\ pay[p].stage = "upfront"
UpfrontPaid(r) == \E p \in Payment : Upfront(r, p)

\* enforce_logistics_payment_stage, for an insertion and for a capture.
StageOpen(r, s) ==
  CASE s = "none" -> r \notin planned
    [] s = "upfront" -> r \in planned /\ ride[r] = "accepted"
    [] s = "final" -> r \in planned /\ ride[r] = "completed" /\ UpfrontPaid(r)

\* Rows the gateway or the ledger gave back: PENDING counts as committed.
Worth(R) == MapThenSumSet(LAMBDA x : x.id.amount, R)
Given(p) == {x \in refunds : x.id.payment = p}
GivenBack(p) == Worth(Given(p))
Confirmed(p) == Worth({x \in Given(p) : x.status = "SUCCESS"})

Unlocked(p) == lock[p] = Nil
Does(q, job) == req' = [req EXCEPT ![q] = job]
Ends(q) == Does(q, Idle)
At(q, step) == req[q].step = step
RowStep(step, p) == [step |-> step, payment |-> p]
SetStatus(p, s) == pay' = [pay EXCEPT ![p].status = s]

-----------------------------------------------------------------------------
(* Opening a payment.                                                      *)

\* The controller sees a ride that can be charged and no live payment of it.
BeginInitiate(q, r, prov) ==
  /\ At(q, "idle")
  /\ r \notin planned
  /\ ride[r] # "cancelled"
  /\ ~Taken(r, "none")
  /\ Does(q, [step |-> "insert", ride |-> r, provider |-> prov])
  /\ UNCHANGED <<ride, planned, rows, lock, gateway>>

NewRow(r, s, prov) ==
  [ride |-> r, stage |-> s, provider |-> prov, status |-> "INITIATED",
   linked |-> FALSE, claimed |-> FALSE]

\* What follows the row: only a gateway payment needs an order.
AfterRow(q, p, prov) == IF prov = "cashfree" THEN Does(q, RowStep("order", p)) ELSE Ends(q)

\* Mutant: without the partial unique index the check above is all there is.
InsertPaymentUnchecked(q, p) ==
  LET job == req[q] IN
  /\ At(q, "insert")
  /\ pay[p] = Nil
  /\ pay' = [pay EXCEPT ![p] = NewRow(job.ride, "none", job.provider)]
  /\ AfterRow(q, p, job.provider)
  /\ UNCHANGED <<ride, planned, refunds, lock, gateway>>

\* The row is inserted, or the unique index answers 23505 and the request 409.
InsertPayment(q, p) ==
  LET job == req[q] IN
  /\ At(q, "insert")
  /\ pay[p] = Nil
  /\ \/ /\ ~Taken(job.ride, "none")
        /\ pay' = [pay EXCEPT ![p] = NewRow(job.ride, "none", job.provider)]
        /\ AfterRow(q, p, job.provider)
     \/ /\ Taken(job.ride, "none")
        /\ Ends(q)
        /\ UNCHANGED pay
  /\ UNCHANGED <<ride, planned, refunds, lock, gateway>>

\* The same request again, or a cashfree checkout without a key, resumes a live order.
ResumeCheckout(q, p) ==
  /\ At(q, "idle")
  /\ Has(p, {"INITIATED"})
  /\ ~Staged(p)
  /\ pay[p].provider = "cashfree"
  /\ ride[pay[p].ride] # "cancelled"
  /\ Does(q, RowStep("order", p))
  /\ UNCHANGED <<ride, planned, rows, lock, gateway>>

\* Logistics: one transaction under the ride's row lock finds or inserts the stage.
InitiateStage(q, p, r, s, prov) ==
  /\ At(q, "idle")
  /\ r \in planned
  /\ ride[r] # "cancelled"
  /\ \/ /\ pay[p] = Nil
        /\ ~Taken(r, s)
        /\ StageOpen(r, s)
        /\ pay' = [pay EXCEPT ![p] = NewRow(r, s, prov)]
        /\ AfterRow(q, p, prov)
     \/ /\ Has(p, {"INITIATED"})
        /\ <<pay[p].ride, pay[p].stage, pay[p].provider>> = <<r, s, prov>>
        /\ prov = "cashfree"
        /\ Does(q, RowStep("order", p))
        /\ UNCHANGED pay
  /\ UNCHANGED <<ride, planned, refunds, lock, gateway>>

\* createOrder is idempotent in its order id: asked again, the order stands.
CreateOrder(q) ==
  LET p == req[q].payment IN
  /\ At(q, "order")
  /\ order' = [order EXCEPT ![p] = IF @ = "none" THEN "ACTIVE" ELSE @]
  /\ Does(q, RowStep("link", p))
  /\ UNCHANGED <<ride, planned, rows, lock, accepted, events>>

\* updateProviderOrder: the row learns the gateway's order.
LinkOrder(q) ==
  LET p == req[q].payment IN
  /\ At(q, "link")
  /\ Unlocked(p)
  /\ pay' = [pay EXCEPT ![p].linked = TRUE]
  /\ Ends(q)
  /\ UNCHANGED <<ride, planned, refunds, lock, gateway>>

-----------------------------------------------------------------------------
(* Capturing and failing.                                                  *)

\* The customer's return from checkout, or the driver's word for cash.
BeginCapture(q, p) ==
  /\ At(q, "idle")
  /\ Has(p, {"INITIATED"})
  /\ \/ pay[p].provider = "cash" /\ ~Staged(p) /\ Does(q, RowStep("capture", p))
     \/ pay[p].provider = "cashfree" /\ pay[p].linked /\ Does(q, RowStep("verify", p))
  /\ UNCHANGED <<ride, planned, rows, lock, gateway>>

\* Mutant: an order that is not expired is taken for a paid one.
VerifyAnyOrder(q) ==
  LET p == req[q].payment IN
  /\ At(q, "verify")
  /\ IF order[p] = "EXPIRED" THEN Does(q, RowStep("fail", p)) ELSE Does(q, RowStep("capture", p))
  /\ UNCHANGED <<ride, planned, rows, lock, gateway>>

\* The gateway's word on the order decides what will be written.
Verify(q) ==
  LET p == req[q].payment IN
  /\ At(q, "verify")
  /\ CASE order[p] = "PAID" -> Does(q, RowStep("capture", p))
       [] order[p] = "EXPIRED" -> Does(q, RowStep("fail", p))
       [] OTHER -> Ends(q)
  /\ UNCHANGED <<ride, planned, rows, lock, gateway>>

\* A webhook reads the row; a payment already captured, or refunded, needs nothing.
ReceiveWebhook(q, p) ==
  /\ At(q, "idle")
  /\ Exists(p)
  /\ Staged(p) => pay[p].provider = "cashfree" /\ pay[p].linked
  /\ \/ /\ <<p, "SUCCESS">> \in events
        /\ ~Has(p, {"CAPTURED", "REFUNDED"})
        /\ Does(q, RowStep("capture", p))
     \/ /\ <<p, "FAILED">> \in events
        /\ ~Has(p, {"CAPTURED"})
        /\ Does(q, RowStep("fail", p))
  /\ UNCHANGED <<ride, planned, rows, lock, gateway>>

\* Mutant: without the CHECK constraints a late success reopens any row.
CapturableWithoutChecks(p) ==
  /\ Staged(p) => StageOpen(pay[p].ride, pay[p].stage)
  /\ Staged(p) /\ pay[p].provider = "cash" => pay[p].claimed

\* A staged capture must be due, and cash also claimed; the CHECKs of the table let only an
\* open row become CAPTURED, since failed_at and refunded_at would stay behind.
Capturable(p) ==
  \/ Has(p, {"CAPTURED"})
  \/ /\ Has(p, {"INITIATED"})
     /\ StageOpen(pay[p].ride, pay[p].stage)
     /\ Staged(p) /\ pay[p].provider = "cash" => pay[p].claimed

\* PostgresPaymentRepository.capture: one UPDATE; what it may not write it refuses.
Capture(q) ==
  LET p == req[q].payment IN
  /\ At(q, "capture")
  /\ Unlocked(p)
  /\ IF Capturable(p) THEN SetStatus(p, "CAPTURED") ELSE UNCHANGED pay
  /\ Ends(q)
  /\ UNCHANGED <<ride, planned, refunds, lock, gateway>>

\* Mutant: a failure is written over a capture.
MarkFailedAlways(q) ==
  LET p == req[q].payment IN
  /\ At(q, "fail")
  /\ Unlocked(p)
  /\ SetStatus(p, "FAILED")
  /\ Ends(q)
  /\ UNCHANGED <<ride, planned, refunds, lock, gateway>>

\* markFailed excludes CAPTURED; REFUNDED is excluded by the table's CHECKs.
MarkFailed(q) ==
  LET p == req[q].payment IN
  /\ At(q, "fail")
  /\ Unlocked(p)
  /\ IF Has(p, {"INITIATED", "FAILED"}) THEN SetStatus(p, "FAILED") ELSE UNCHANGED pay
  /\ Ends(q)
  /\ UNCHANGED <<ride, planned, refunds, lock, gateway>>

\* The customer says that the cash was handed over: the claim route, the capture route and
\* reading the payment all come here.
ClaimCash(p) ==
  /\ Has(p, {"INITIATED", "CAPTURED"})
  /\ Staged(p)
  /\ pay[p].provider = "cash"
  /\ ride[pay[p].ride] # "cancelled"
  /\ Unlocked(p)
  /\ pay' = [pay EXCEPT ![p].claimed = TRUE]
  /\ UNCHANGED <<ride, planned, refunds, req, lock, gateway>>

\* The assigned driver confirms a claimed receipt; the capture is a later statement.
ConfirmCash(q, p) ==
  /\ At(q, "idle")
  /\ Staged(p)
  /\ pay[p].provider = "cash"
  /\ pay[p].claimed
  /\ ride[pay[p].ride] \in {"accepted", "in_progress", "completed", "cancelled"}
  /\ Does(q, RowStep("capture", p))
  /\ UNCHANGED <<ride, planned, rows, lock, gateway>>

-----------------------------------------------------------------------------
(* Refunds, for payments without stages.                                   *)

\* Mutant: what is left of the payment is not compared with the request.
BeginRefundUnbounded(q, p, a) ==
  /\ At(q, "idle")
  /\ Has(p, {"CAPTURED"})
  /\ ~Staged(p)
  /\ Does(q, [step |-> "refund", id |-> [payment |-> p, already |-> GivenBack(p), amount |-> a]])
  /\ UNCHANGED <<ride, planned, rows, lock, gateway>>

\* The administrator's request is checked against the ledger as it was read.
BeginRefund(q, p, a) ==
  /\ At(q, "idle")
  /\ Has(p, {"CAPTURED"})
  /\ ~Staged(p)
  /\ pay[p].provider = "cashfree" => pay[p].linked
  /\ GivenBack(p) + a <= Amount
  /\ Does(q, [step |-> "refund", id |-> [payment |-> p, already |-> GivenBack(p), amount |-> a]])
  /\ UNCHANGED <<ride, planned, rows, lock, gateway>>

\* Mutant: the ledger is not read again under the lock.
StillAsReadBefore(id) == Has(id.payment, {"CAPTURED"})

\* Under the row lock: still captured, and the ledger is still what the request was based on.
StillAsRead(id) ==
  /\ Has(id.payment, {"CAPTURED"})
  /\ GivenBack(id.payment) = id.already

\* The transaction begins: it takes the row and goes on, or rolls back and answers 409.
LockForRefund(q) ==
  LET id == req[q].id IN
  /\ At(q, "refund")
  /\ Unlocked(id.payment)
  /\ \/ /\ StillAsRead(id)
        /\ lock' = [lock EXCEPT ![id.payment] = q]
        /\ IF pay[id.payment].provider = "cashfree"
             THEN Does(q, [step |-> "submit", id |-> id])
             ELSE Does(q, [step |-> "record", id |-> id, outcome |-> "SUCCESS"])
     \/ ~StillAsRead(id) /\ Ends(q) /\ UNCHANGED lock
  /\ UNCHANGED <<ride, planned, rows, gateway>>

\* The gateway is asked while the row is locked; refund_id is a digest of the whole id, so
\* the same refund asked twice is one refund.  A rejection rolls back, like a cut-off.
SubmitRefund(q) ==
  LET id == req[q].id IN
  /\ At(q, "submit")
  /\ accepted' = accepted \cup {id}
  /\ \E o \in {"SUCCESS", "PENDING"} :
       Does(q, [step |-> "record", id |-> id, outcome |-> o])
  /\ UNCHANGED <<ride, planned, rows, lock, order, events>>

\* The ledger row and the status are committed together; only confirmed money closes it.
RecordRefund(q) ==
  LET p == req[q].id.payment
      row == [id |-> req[q].id, by |-> q, status |-> req[q].outcome]
      returned == Confirmed(p) + (IF req[q].outcome = "SUCCESS" THEN req[q].id.amount ELSE 0)
  IN /\ At(q, "record")
     /\ refunds' = refunds \cup {row}
     /\ IF returned = Amount THEN SetStatus(p, "REFUNDED") ELSE UNCHANGED pay
     /\ lock' = [lock EXCEPT ![p] = Nil]
     /\ Ends(q)
     /\ UNCHANGED <<ride, planned, gateway>>

\* A gateway error, a lost connection or a restart: the open transaction is rolled back.
CutOff(q) ==
  /\ ~At(q, "idle")
  /\ Ends(q)
  /\ lock' = [p \in Payment |-> IF lock[p] = q THEN Nil ELSE lock[p]]
  /\ UNCHANGED <<ride, planned, rows, gateway>>

-----------------------------------------------------------------------------
(* The ride, as far as payments see it, and the gateway.                   *)

RideMoves(r, from, to) ==
  /\ ride[r] \in from
  /\ ride' = [ride EXCEPT ![r] = to]
  /\ UNCHANGED <<planned, rows, req, lock, gateway>>

AcceptRide(r) == RideMoves(r, {"booked"}, "accepted")
CancelRide(r) == RideMoves(r, {"booked", "accepted"}, "cancelled")
CompleteRide(r) == RideMoves(r, {"in_progress"}, "completed")

\* Mutant: the trigger is satisfied by an upfront payment that was only opened.
StartTripOnRequest(r) ==
  /\ r \in planned => Taken(r, "upfront")
  /\ RideMoves(r, {"accepted"}, "in_progress")

\* logistics_upfront_gate: no pickup before the upfront part is captured.
StartTrip(r) ==
  /\ r \in planned => UpfrontPaid(r)
  /\ RideMoves(r, {"accepted"}, "in_progress")

\* At the gateway an order is paid, an attempt on it fails, or it expires.
PayOrder(p) ==
  /\ order[p] = "ACTIVE"
  /\ order' = [order EXCEPT ![p] = "PAID"]
  /\ events' = events \cup {<<p, "SUCCESS">>}
  /\ UNCHANGED <<ride, planned, rows, req, lock, accepted>>

FailAttempt(p) ==
  /\ order[p] = "ACTIVE"
  /\ events' = events \cup {<<p, "FAILED">>}
  /\ UNCHANGED <<ride, planned, rows, req, lock, order, accepted>>

ExpireOrder(p) ==
  /\ order[p] = "ACTIVE"
  /\ order' = [order EXCEPT ![p] = "EXPIRED"]
  /\ UNCHANGED <<ride, planned, rows, req, lock, accepted, events>>

Opening(q) ==
  \/ \E r \in Ride, prov \in Provider : BeginInitiate(q, r, prov)
  \/ \E p \in Payment : InsertPayment(q, p) \/ ResumeCheckout(q, p)
  \/ \E p \in Payment, r \in Ride, s \in {"upfront", "final"}, prov \in Provider :
       InitiateStage(q, p, r, s, prov)
  \/ CreateOrder(q) \/ LinkOrder(q)

Deciding(q) ==
  \/ \E p \in Payment : BeginCapture(q, p) \/ ReceiveWebhook(q, p) \/ ConfirmCash(q, p)
  \/ Verify(q) \/ Capture(q) \/ MarkFailed(q)

Refunding(q) ==
  \/ \E p \in Payment, a \in 1..Amount : BeginRefund(q, p, a)
  \/ LockForRefund(q) \/ SubmitRefund(q) \/ RecordRefund(q)

Outside ==
  \/ \E r \in Ride : AcceptRide(r) \/ CancelRide(r) \/ StartTrip(r) \/ CompleteRide(r)
  \/ \E p \in Payment : PayOrder(p) \/ FailAttempt(p) \/ ExpireOrder(p) \/ ClaimCash(p)

PaymentsNext == Outside \/ \E q \in Asker : Opening(q) \/ Deciding(q) \/ Refunding(q) \/ CutOff(q)

PaymentsSpec == PaymentsInit /\ [][PaymentsNext]_paymentVars

-----------------------------------------------------------------------------
(* Properties.                                                             *)

\* One ride, or one stage of a logistics ride, never has two live payments, however many
\* requests passed the controller's check at once.
OneLivePayment ==
  \A p, o \in Payment :
    Has(p, LiveStatus) /\ Has(o, LiveStatus) /\ pay[p].ride = pay[o].ride /\ pay[p].stage = pay[o].stage
      => p = o

\* A logistics trip is under way or delivered only with its upfront part captured, and the
\* final part is captured only for a delivered one.
StagesGateRide ==
  /\ \A r \in planned : ride[r] \in {"in_progress", "completed"} => UpfrontPaid(r)
  /\ \A p \in Payment :
       Has(p, {"CAPTURED"}) /\ pay[p].stage = "final"
         => ride[pay[p].ride] = "completed" /\ UpfrontPaid(pay[p].ride)

\* Money the rows call captured was paid at the gateway, or was claimed by its payer.
CaptureIsBacked ==
  \A p \in Payment :
    Has(p, {"CAPTURED", "REFUNDED"}) =>
      /\ pay[p].provider = "cashfree" => order[p] = "PAID"
      /\ pay[p].provider = "cash" /\ Staged(p) => pay[p].claimed

\* Every gateway refund in the ledger was accepted by the gateway and is booked once, the
\* ledger never gives back more than was taken, and a payment is REFUNDED exactly when all
\* of it is confirmed.
LedgerFollowsGateway ==
  /\ \A x \in refunds : pay[x.id.payment].provider = "cashfree" => x.id \in accepted
  /\ \A x, y \in refunds : x.id = y.id => x = y
  /\ \A p \in Payment : GivenBack(p) <= Amount
  /\ \A p \in Payment : Has(p, {"REFUNDED"}) <=> Confirmed(p) = Amount

(* A ride's payments, its stages, the refunds booked and what the gateway   *)
(* holds agree.                                                            *)
PaymentsAgree == OneLivePayment /\ StagesGateRide /\ CaptureIsBacked /\ LedgerFollowsGateway

PhaseOf(p) ==
  IF pay[p] = Nil THEN "none"
  ELSE CASE pay[p].status = "INITIATED" -> "open"
         [] pay[p].status = "CAPTURED" -> "taken"
         [] pay[p].status = "REFUNDED" -> "returned"
         [] pay[p].status = "FAILED" -> "failed"

Promise == INSTANCE PaymentContract WITH
  phase <- [p \in Payment |-> PhaseOf(p)],
  returned <- [p \in Payment |-> GivenBack(p)]

\* Racing captures, failures, webhooks and refunds make only steps of the contract.
KeepsPromise == Promise!ContractSpec

\* Requests go on unless cut off, and the gateway delivers a webhook until it is handled.
\* Requests that are cut off again and again are excused, as are those the row lock starves.
PaymentsFair ==
  \A q \in Asker :
    /\ WF_paymentVars(Verify(q) \/ CreateOrder(q) \/ LinkOrder(q) \/ SubmitRefund(q) \/ RecordRefund(q))
    /\ SF_paymentVars(Capture(q) \/ MarkFailed(q) \/ LockForRefund(q))

PaymentsFairSpec == PaymentsSpec /\ PaymentsFair
  /\ \A p \in Payment : SF_paymentVars(\E q \in Asker : ReceiveWebhook(q, p))

\* What a customer paid at the gateway for a ride without stages ends up captured, or given
\* back, whatever attempts failed before and in whatever order the webhooks come.
PaidIsCaptured ==
  \A p \in Payment :
    order[p] = "PAID" /\ Exists(p) /\ ~Staged(p) ~> Has(p, {"CAPTURED", "REFUNDED"})

=============================================================================
