-------------------------------- MODULE Wallet --------------------------------
(***************************************************************************)
(* User wallets: the rows of `user_wallets` and `user_wallet_entries`,     *)
(* top-ups verified at the gateway, transfers between users, and payments  *)
(* and refunds made from a wallet.                                         *)
(*                                                                         *)
(* Each operation is a transaction that locks rows one by one, reads a     *)
(* balance under the lock, computes the next balance in the process and    *)
(* writes it back: every lock and the final commit is a step, and other    *)
(* transactions run in between.  A transaction may be cut off before it    *)
(* commits; then nothing of it is kept.                                    *)
(*                                                                         *)
(* Abstractions.  A top-up, a transfer and a refund move Unit, and a       *)
(* payment costs Cost of them.  Wallets are active and already exist, and *)
(* idempotency keys of different operations never meet.                    *)
(***************************************************************************)
EXTENDS Integers, Sequences, FiniteSets, FiniteSetsExt

CONSTANTS
  Holder,          \* wallet owners, numbered: their order is the order of their ids
  TopUp,           \* wallet_topup_orders
  WalletPayment,   \* payments to be made from a wallet
  TransferKey,     \* idempotency keys of transfers
  Session,         \* transactions in progress
  Cost,           \* units a payment costs
  NoSession        \* no lock holder

VARIABLES
  balance,   \* user_wallets.balance_paise
  entries,   \* user_wallet_entries
  owner,     \* whose top-up or payment it is
  paid,      \* top-up orders the gateway reports as PAID
  state,     \* payments.status
  returned,  \* units of a payment in payment_refunds
  held,      \* the session holding a row lock on a wallet or a payment row
  txn        \* sessions: what they do, which rows they still want, what they read

walletVars == <<balance, entries, owner, paid, state, returned, held, txn>>

LockRow == ({"wallet"} \X Holder) \cup ({"payment"} \X WalletPayment)
WalletLock(u) == <<"wallet", u>>
PaymentLock(p) == <<"payment", p>>

WalletJob == [do : {"topup"}, order : TopUp]
             \cup [do : {"transfer"}, from : Holder, to : Holder, key : TransferKey]
             \cup [do : {"pay"}, payment : WalletPayment]
             \cup [do : {"refund"}, payment : WalletPayment, already : 0..Cost]
OpenTxn == [job : WalletJob, wants : Seq(LockRow), read : [Holder -> Nat]]
ClosedTxn == [job |-> NoSession]

EntryKey == ({"topup"} \X TopUp) \cup ({"transfer"} \X TransferKey)
            \cup ({"credit"} \X Holder \X TransferKey)
            \cup ({"pay"} \X WalletPayment) \cup ({"refund"} \X WalletPayment \X (0..Cost))
WalletEntry == [user : Holder, amount : Int, key : EntryKey]

ASSUME WalletAssumption ==
  /\ Holder \subseteq Nat /\ Cost \in Nat \ {0}
  /\ NoSession \notin Session /\ NoSession \notin WalletJob

WalletTypeOK ==
  /\ balance \in [Holder -> Nat]
  /\ entries \subseteq WalletEntry
  /\ owner \in [TopUp \cup WalletPayment -> Holder]
  /\ paid \subseteq TopUp
  /\ state \in [WalletPayment -> {"INITIATED", "CAPTURED", "FAILED", "REFUNDED"}]
  /\ returned \in [WalletPayment -> 0..Cost]
  /\ held \in [LockRow -> Session \cup {NoSession}]
  /\ txn \in [Session -> {ClosedTxn} \cup OpenTxn]

WalletInit ==
  /\ balance = [u \in Holder |-> 0]
  /\ entries = {}
  /\ owner \in [TopUp \cup WalletPayment -> Holder]
  /\ paid = {}
  /\ state = [p \in WalletPayment |-> "INITIATED"]
  /\ returned = [p \in WalletPayment |-> 0]
  /\ held = [row \in LockRow |-> NoSession]
  /\ txn = [s \in Session |-> ClosedTxn]

-----------------------------------------------------------------------------
(* Transactions and their locks.                                           *)

Running(s) == txn[s] # ClosedTxn
Doing(s, do) == Running(s) /\ txn[s].job.do = do
Ready(s) == txn[s].wants = <<>>
NothingRead == [u \in Holder |-> 0]

Begin(s, job, rowsInOrder) ==
  /\ ~Running(s)
  /\ txn' = [txn EXCEPT ![s] = [job |-> job, wants |-> rowsInOrder, read |-> NothingRead]]
  /\ UNCHANGED <<balance, entries, owner, paid, state, returned, held>>

\* Mutant: the balance is read without FOR UPDATE.
LockWithoutUpdate(s) ==
  /\ Running(s) /\ ~Ready(s)
  /\ LET row == Head(txn[s].wants) IN
       txn' = [txn EXCEPT ![s].wants = Tail(@),
                          ![s].read = IF row[1] = "wallet" THEN [@ EXCEPT ![row[2]] = balance[row[2]]] ELSE @]
  /\ UNCHANGED <<balance, entries, owner, paid, state, returned, held>>

\* SELECT ... FOR UPDATE: waits for the row, then reads the balance in it.
Lock(s) ==
  /\ Running(s) /\ ~Ready(s)
  /\ LET row == Head(txn[s].wants) IN
       /\ held[row] = NoSession
       /\ held' = [held EXCEPT ![row] = s]
       /\ txn' = [txn EXCEPT ![s].wants = Tail(@),
                             ![s].read = IF row[1] = "wallet" THEN [@ EXCEPT ![row[2]] = balance[row[2]]] ELSE @]
  /\ UNCHANGED <<balance, entries, owner, paid, state, returned>>

Release(s) ==
  /\ held' = [row \in LockRow |-> IF held[row] = s THEN NoSession ELSE held[row]]
  /\ txn' = [txn EXCEPT ![s] = ClosedTxn]

\* ROLLBACK: an error, a lost connection or a restart, at any point before COMMIT.
RollBack(s) ==
  /\ Running(s)
  /\ Release(s)
  /\ UNCHANGED <<balance, entries, owner, paid, state, returned>>

Booked(u, key) == \E x \in entries : x.user = u /\ x.key = key
Writes(s, u, amount) == balance' = [balance EXCEPT ![u] = txn[s].read[u] + amount]
Enters(u, amount, key) == entries' = entries \cup {[user |-> u, amount |-> amount, key |-> key]}

-----------------------------------------------------------------------------
(* Top-ups.                                                                *)

\* At the gateway the customer pays the order of a top-up.
PayTopUp(o) ==
  /\ paid' = paid \cup {o}
  /\ UNCHANGED <<balance, entries, owner, state, returned, held, txn>>

\* verifyTopUp: the gateway reports the order of this user paid; the credit comes after.
BeginTopUp(s, o) ==
  /\ o \in paid
  /\ Begin(s, [do |-> "topup", order |-> o], <<WalletLock(owner[o])>>)

\* Mutant: the entry of an earlier confirmation is not looked for.
CommitTopUpAgain(s) ==
  LET o == txn[s].job.order IN
  /\ Doing(s, "topup") /\ Ready(s)
  /\ Writes(s, owner[o], 1)
  /\ Enters(owner[o], 1, <<"topup", o>>)
  /\ Release(s)
  /\ UNCHANGED <<owner, paid, state, returned>>

\* The order id is the idempotency key: a second confirmation changes nothing.
CommitTopUp(s) ==
  LET o == txn[s].job.order IN
  /\ Doing(s, "topup") /\ Ready(s)
  /\ \/ /\ ~Booked(owner[o], <<"topup", o>>)
        /\ Writes(s, owner[o], 1)
        /\ Enters(owner[o], 1, <<"topup", o>>)
     \/ Booked(owner[o], <<"topup", o>>) /\ UNCHANGED <<balance, entries>>
  /\ Release(s)
  /\ UNCHANGED <<owner, paid, state, returned>>

-----------------------------------------------------------------------------
(* Transfers.                                                              *)

\* Mutant: the sender's wallet is locked first, whatever the ids.
SenderFirst(from, to) == <<WalletLock(from), WalletLock(to)>>

\* Both wallets, in the order of their ids.
InIdOrder(from, to) ==
  IF from < to THEN <<WalletLock(from), WalletLock(to)>> ELSE <<WalletLock(to), WalletLock(from)>>

BeginTransfer(s, from, to, k) ==
  /\ from # to
  /\ Begin(s, [do |-> "transfer", from |-> from, to |-> to, key |-> k], InIdOrder(from, to))

\* Mutant: the sender's balance is not looked at.
CommitTransferOverdrawn(s) ==
  LET j == txn[s].job  read == txn[s].read IN
  /\ Doing(s, "transfer") /\ Ready(s)
  /\ balance' = [balance EXCEPT ![j.from] = read[j.from] - 1, ![j.to] = read[j.to] + 1]
  /\ Release(s)
  /\ UNCHANGED <<entries, owner, paid, state, returned>>

\* The sender's key decides whether the transfer was made before; then the balance decides.
CommitTransfer(s) ==
  LET j == txn[s].job  read == txn[s].read IN
  /\ Doing(s, "transfer") /\ Ready(s)
  /\ \/ /\ ~Booked(j.from, <<"transfer", j.key>>)
        /\ read[j.from] >= 1
        /\ balance' = [balance EXCEPT ![j.from] = read[j.from] - 1, ![j.to] = read[j.to] + 1]
        /\ entries' = entries \cup
             {[user |-> j.from, amount |-> -1, key |-> <<"transfer", j.key>>],
              [user |-> j.to, amount |-> 1, key |-> <<"credit", j.from, j.key>>]}
     \/ /\ Booked(j.from, <<"transfer", j.key>>) \/ read[j.from] < 1
        /\ UNCHANGED <<balance, entries>>
  /\ Release(s)
  /\ UNCHANGED <<owner, paid, state, returned>>

-----------------------------------------------------------------------------
(* Payments and refunds.                                                   *)

\* The capture request finds a payment that is still open.
BeginPay(s, p) ==
  /\ state[p] = "INITIATED"
  /\ Begin(s, [do |-> "pay", payment |-> p], <<PaymentLock(p), WalletLock(owner[p])>>)

\* Mutant: the payment's status is not looked at again under the lock.
StillOpenWhenAsked(p) == TRUE
StillOpen(p) == state[p] = "INITIATED"

\* captureWallet: nothing for a captured payment, an error for a closed one; without the
\* funds the payment fails, otherwise debit, entry and status are committed together.
CommitPay(s) ==
  LET p == txn[s].job.payment
      u == owner[p]
  IN /\ Doing(s, "pay") /\ Ready(s)
     /\ \/ ~StillOpen(p) /\ UNCHANGED <<balance, entries, state>>
        \/ /\ StillOpen(p)
           /\ txn[s].read[u] < Cost
           /\ state' = [state EXCEPT ![p] = "FAILED"]
           /\ UNCHANGED <<balance, entries>>
        \/ /\ StillOpen(p)
           /\ txn[s].read[u] >= Cost
           /\ Writes(s, u, -Cost)
           /\ Enters(u, -Cost, <<"pay", p>>)
           /\ state' = [state EXCEPT ![p] = "CAPTURED"]
     /\ Release(s)
     /\ UNCHANGED <<owner, paid, returned>>

\* The refund of one unit, checked against the ledger as the request read it.
BeginWalletRefund(s, p) ==
  /\ state[p] = "CAPTURED"
  /\ returned[p] < Cost
  /\ Begin(s, [do |-> "refund", payment |-> p, already |-> returned[p]],
           <<PaymentLock(p), WalletLock(owner[p])>>)

\* Under the lock the payment must be captured still and the ledger as it was read; the
\* debit it gives back must exist.  The last unit closes the payment.
CommitWalletRefund(s) ==
  LET j == txn[s].job
      p == j.payment
      u == owner[p]
      asRead == state[p] = "CAPTURED" /\ returned[p] = j.already /\ Booked(u, <<"pay", p>>)
  IN /\ Doing(s, "refund") /\ Ready(s)
     /\ \/ ~asRead /\ UNCHANGED <<balance, entries, state, returned>>
        \/ /\ asRead
           /\ Writes(s, u, 1)
           /\ Enters(u, 1, <<"refund", p, j.already>>)
           /\ returned' = [returned EXCEPT ![p] = @ + 1]
           /\ state' = [state EXCEPT ![p] = IF returned'[p] = Cost THEN "REFUNDED" ELSE @]
     /\ Release(s)
     /\ UNCHANGED <<owner, paid>>

SessionNext(s) ==
  \/ \E o \in TopUp : BeginTopUp(s, o)
  \/ \E from, to \in Holder, k \in TransferKey : BeginTransfer(s, from, to, k)
  \/ \E p \in WalletPayment : BeginPay(s, p) \/ BeginWalletRefund(s, p)
  \/ Lock(s) \/ RollBack(s)
  \/ CommitTopUp(s) \/ CommitTransfer(s) \/ CommitPay(s) \/ CommitWalletRefund(s)

WalletNext == (\E o \in TopUp : PayTopUp(o)) \/ \E s \in Session : SessionNext(s)

WalletSpec == WalletInit /\ [][WalletNext]_walletVars

-----------------------------------------------------------------------------
(* Properties.                                                             *)

Ledger == INSTANCE LedgerContract WITH User <- Holder

\* The stored balance is the sum of the entries: no update is lost between the reading of a
\* balance and its writing.
BalanceIsLedger == \A u \in Holder : balance[u] = Ledger!SumOf(entries, u)

\* The ledger grows by whole bookings, each made once, and never below zero.
KeepsLedger == Ledger!LedgerSpec

\* A payment is captured exactly when its debit is booked, once, and its refunds are exactly
\* the units given back.
PaymentsMatchLedger ==
  \A p \in WalletPayment :
    /\ state[p] \in {"CAPTURED", "REFUNDED"} <=> Booked(owner[p], <<"pay", p>>)
    /\ state[p] = "REFUNDED" <=> returned[p] = Cost
    /\ returned[p] = Cardinality({a \in 0..Cost : Booked(owner[p], <<"refund", p, a>>)})

\* A session waits for the holder of the row it wants next.
WaitsFor(s, t) == Running(s) /\ ~Ready(s) /\ held[Head(txn[s].wants)] = t /\ t # s

\* No two transactions ever wait for each other: every one locks a payment before a wallet,
\* and wallets in the order of their ids.
NoLockCycle == \A s, t \in Session : ~(WaitsFor(s, t) /\ WaitsFor(t, s))

\* A balance is the sum of its entries, payments and refunds match their entries, and no two
\* wallet transactions wait for each other.
WalletsAgree == BalanceIsLedger /\ PaymentsMatchLedger /\ NoLockCycle

=============================================================================
