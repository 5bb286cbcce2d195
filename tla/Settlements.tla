---------------------------- MODULE Settlements ----------------------------
(***************************************************************************)
(* A provider's wallet, payouts and bank account:                          *)
(* `PostgresProviderFinanceRepository` and the bank upsert with the trigger *)
(* that freezes the destination of an open payout (migration 049).         *)
(*                                                                         *)
(* Every transaction takes its row locks one statement at a time and is    *)
(* cut off between them by a crash; a caller that hears nothing calls      *)
(* again under the same key.                                               *)
(*                                                                         *)
(* Abstractions.  One provider.  An amount is a number of half rupees:     *)
(* payouts are whole rupees, adjustments are not rounded.  A bank account  *)
(* is its `Destination`; encryption of the account number makes every edit *)
(* a change.  Nothing in src/ sets is_verified: VerifyBank is external.    *)
(* Nothing but tests calls postAdjustment and transitionPayout: they are   *)
(* the settlement and payment integration's.                               *)
(***************************************************************************)
EXTENDS Integers, FiniteSets, FiniteSetsExt

CONSTANTS
  Settler,        \* transactions in progress
  PayoutKey,      \* idempotency keys of payout requests
  PostKey,        \* idempotency keys of adjustments
  PayoutAmount,   \* amounts of payout requests, in half rupees
  Posting,        \* amounts of adjustments, positive and negative
  Destination,
  MaxEdits,       \* bound: edits of the bank account
  NoPayout

VARIABLES
  providerBalance,   \* provider_wallets.balance_paise
  posted,            \* provider_wallet_entries of adjustments, by key
  payout,            \* provider_payouts, by key
  reserve,           \* PAYOUT_RESERVE entries, by key of their payout
  refund,            \* PAYOUT_REFUND entries, by key of their payout
  bank,              \* provider_bank_accounts
  bankEdits,         \* how often it was edited
  job                \* transactions in progress

settlementsVars == <<providerBalance, posted, payout, reserve, refund, bank, bankEdits, job>>

OpenStatus == {"PENDING", "PROCESSING"}
PayoutStatus == OpenStatus \cup {"SUCCESS", "FAILED"}
Payout == [amount : Nat \ {0}, status : PayoutStatus, to : Destination]

NoJob == [does |-> "nothing"]
SettlerJob ==
  {NoJob}
  \cup [does : {"request"}, at : {"begun", "bank"}, key : PayoutKey, asked : PayoutAmount]
  \cup [does : {"request"}, at : {"wallet"}, key : PayoutKey, asked : PayoutAmount, read : Nat]
  \cup [does : {"post"}, at : {"begun"}, key : PostKey, asked : Posting]
  \cup [does : {"post"}, at : {"wallet"}, key : PostKey, asked : Posting, read : Nat]
  \cup [does : {"edit"}, at : {"begun"}, to : Destination, clear : BOOLEAN]
  \cup [does : {"settle"}, at : {"begun", "payout"}, key : PayoutKey, to : PayoutStatus \ {"PENDING"}]
  \cup [does : {"settle"}, at : {"wallet"}, key : PayoutKey, to : {"FAILED"}, read : Nat]

ASSUME SettlementsAssumption ==
  /\ PayoutAmount \subseteq Nat \ {0}
  /\ Posting \subseteq Int \ {0}
  /\ MaxEdits \in Nat
  /\ NoPayout \notin Posting /\ NoPayout \notin Payout

SettlementsTypeOK ==
  /\ providerBalance \in Nat
  /\ posted \in [PostKey -> Posting \cup {NoPayout}]
  /\ payout \in [PayoutKey -> Payout \cup {NoPayout}]
  /\ reserve \in [PayoutKey -> Nat] /\ refund \in [PayoutKey -> Nat]
  /\ bank \in [to : Destination, verified : BOOLEAN]
  /\ bankEdits \in 0..MaxEdits
  /\ job \in [Settler -> SettlerJob]

SettlementsInit ==
  /\ providerBalance = 0
  /\ posted = [k \in PostKey |-> NoPayout]
  /\ payout = [k \in PayoutKey |-> NoPayout]
  /\ reserve = [k \in PayoutKey |-> 0]
  /\ refund = [k \in PayoutKey |-> 0]
  /\ bank \in [to : Destination, verified : {FALSE}]
  /\ bankEdits = 0
  /\ job = [j \in Settler |-> NoJob]

-----------------------------------------------------------------------------
(* Locks follow from where the transactions are. *)
JobAt(j, does, at) == job[j].does = does /\ job[j].at = at
BankFree == \A j \in Settler : ~JobAt(j, "request", "bank") /\ ~JobAt(j, "request", "wallet")
WalletHeldBy(j) ==
  JobAt(j, "request", "wallet") \/ JobAt(j, "post", "wallet") \/ JobAt(j, "settle", "wallet")
WalletFreeAlways == TRUE   \* mutant: the balance is read without FOR UPDATE
WalletFree == \A j \in Settler : ~WalletHeldBy(j)
PayoutFree(k) ==
  \A j \in Settler : ~((JobAt(j, "settle", "payout") \/ JobAt(j, "settle", "wallet")) /\ job[j].key = k)

Starts(j, what) == job[j] = NoJob /\ job' = [job EXCEPT ![j] = what]
Steps(j, what) == job' = [job EXCEPT ![j] = what]
Done(j) == job' = [job EXCEPT ![j] = NoJob]

(* wholeRupeePaise: positive half ties round up. *)
WholeRupee(a) == ((a + 1) \div 2) * 2

(* entry: the balance read under the lock, moved by the amount; it is never *)
(* overdrawn.                                                               *)
Affords(j, amount) == job[j].read + amount >= 0
Enter(j, amount) == providerBalance' = job[j].read + amount

-----------------------------------------------------------------------------
(* requestPayout: the verified bank row, then the wallet, then the key.    *)
RequestPayout(j, k, a) ==
  /\ Starts(j, [does |-> "request", at |-> "begun", key |-> k, asked |-> a])
  /\ UNCHANGED <<providerBalance, posted, payout, reserve, refund, bank, bankEdits>>

LockBank(j) ==
  /\ JobAt(j, "request", "begun")
  /\ BankFree
  /\ IF bank.verified THEN Steps(j, [job[j] EXCEPT !.at = "bank"]) ELSE Done(j)
  /\ UNCHANGED <<providerBalance, posted, payout, reserve, refund, bank, bankEdits>>

LockWalletForPayout(j) ==
  /\ JobAt(j, "request", "bank")
  /\ WalletFree
  /\ Steps(j, [does |-> "request", at |-> "wallet", key |-> job[j].key, asked |-> job[j].asked,
               read |-> providerBalance])
  /\ UNCHANGED <<providerBalance, posted, payout, reserve, refund, bank, bankEdits>>

(* UNIQUE (user_id, idempotency_key), and the lookup that comes before it. *)
Unused(k) == payout[k] = NoPayout

(* The answer of an earlier request, or the new payout with its reserve.   *)
CommitPayout(j) ==
  LET k == job[j].key
      due == WholeRupee(job[j].asked)
  IN
  /\ JobAt(j, "request", "wallet")
  /\ IF Unused(k) /\ Affords(j, -due)
     THEN /\ payout' = [payout EXCEPT ![k] = [amount |-> due, status |-> "PENDING", to |-> bank.to]]
          /\ reserve' = [reserve EXCEPT ![k] = @ + due]
          /\ Enter(j, -due)
     ELSE UNCHANGED <<payout, reserve, providerBalance>>
  /\ Done(j)
  /\ UNCHANGED <<posted, refund, bank, bankEdits>>

-----------------------------------------------------------------------------
(* postAdjustment: an earning, a commission or a correction. *)
Post(j, k, a) ==
  /\ Starts(j, [does |-> "post", at |-> "begun", key |-> k, asked |-> a])
  /\ UNCHANGED <<providerBalance, posted, payout, reserve, refund, bank, bankEdits>>

LockWalletForPosting(j) ==
  /\ JobAt(j, "post", "begun")
  /\ WalletFree
  /\ Steps(j, [does |-> "post", at |-> "wallet", key |-> job[j].key, asked |-> job[j].asked,
               read |-> providerBalance])
  /\ UNCHANGED <<providerBalance, posted, payout, reserve, refund, bank, bankEdits>>

CommitPosting(j) ==
  LET k == job[j].key IN
  /\ JobAt(j, "post", "wallet")
  /\ IF posted[k] = NoPayout /\ Affords(j, job[j].asked)
     THEN posted' = [posted EXCEPT ![k] = job[j].asked] /\ Enter(j, job[j].asked)
     ELSE UNCHANGED <<posted, providerBalance>>
  /\ Done(j)
  /\ UNCHANGED <<payout, reserve, refund, bank, bankEdits>>

-----------------------------------------------------------------------------
(* transitionPayout: the payout row, then for a failure the wallet. *)
Settle(j, k, to) ==
  /\ payout[k] # NoPayout
  /\ Starts(j, [does |-> "settle", at |-> "begun", key |-> k, to |-> to])
  /\ UNCHANGED <<providerBalance, posted, payout, reserve, refund, bank, bankEdits>>

SteppableFromEnd(from, to) ==   \* mutant: a settled payout may be settled again
  /\ from # to
  /\ to = "SUCCESS" => from = "PROCESSING"
Steppable(from, to) ==
  /\ from \in OpenStatus /\ from # to
  /\ to = "SUCCESS" => from = "PROCESSING"

LockPayout(j) ==
  LET k == job[j].key IN
  /\ JobAt(j, "settle", "begun")
  /\ PayoutFree(k)
  /\ IF Steppable(payout[k].status, job[j].to)
     THEN Steps(j, [job[j] EXCEPT !.at = "payout"])
     ELSE Done(j)
  /\ UNCHANGED <<providerBalance, posted, payout, reserve, refund, bank, bankEdits>>

CommitProgress(j) ==
  /\ JobAt(j, "settle", "payout")
  /\ job[j].to # "FAILED"
  /\ payout' = [payout EXCEPT ![job[j].key].status = job[j].to]
  /\ Done(j)
  /\ UNCHANGED <<providerBalance, posted, reserve, refund, bank, bankEdits>>

LockWalletForRefund(j) ==
  /\ JobAt(j, "settle", "payout")
  /\ job[j].to = "FAILED"
  /\ WalletFree
  /\ Steps(j, [does |-> "settle", at |-> "wallet", key |-> job[j].key, to |-> "FAILED",
               read |-> providerBalance])
  /\ UNCHANGED <<providerBalance, posted, payout, reserve, refund, bank, bankEdits>>

CommitPayoutRefund(j) ==
  LET k == job[j].key IN
  /\ JobAt(j, "settle", "wallet")
  /\ Enter(j, payout[k].amount)
  /\ refund' = [refund EXCEPT ![k] = @ + payout[k].amount]
  /\ payout' = [payout EXCEPT ![k].status = "FAILED"]
  /\ Done(j)
  /\ UNCHANGED <<posted, reserve, bank, bankEdits>>

-----------------------------------------------------------------------------
(* upsert: one statement, which waits for the row and then runs the trigger *)
(* on what has committed by then; an edit takes the verification away.      *)
EditBank(j, to) ==
  /\ Starts(j, [does |-> "edit", at |-> "begun", to |-> to,
                clear |-> \A k \in PayoutKey : payout[k] = NoPayout \/ payout[k].status \notin OpenStatus])
  /\ UNCHANGED <<providerBalance, posted, payout, reserve, refund, bank, bankEdits>>

NothingOpenThen(j) == job[j].clear   \* mutant: judged by the statement's own snapshot
NothingOpen(j) == \A k \in PayoutKey : payout[k] = NoPayout \/ payout[k].status \notin OpenStatus

CommitEdit(j) ==
  /\ JobAt(j, "edit", "begun")
  /\ BankFree
  /\ bankEdits < MaxEdits
  /\ IF NothingOpen(j)
     THEN bank' = [to |-> job[j].to, verified |-> FALSE] /\ bankEdits' = bankEdits + 1
     ELSE UNCHANGED <<bank, bankEdits>>
  /\ Done(j)
  /\ UNCHANGED <<providerBalance, posted, payout, reserve, refund>>

(* Ownership of the account is verified outside this program.  A review    *)
(* that refuses it, and the loss of its supporting document, take the      *)
(* verification away even while a payout is open.                          *)
VerifyBank ==
  /\ BankFree /\ ~bank.verified
  /\ bank' = [bank EXCEPT !.verified = TRUE]
  /\ UNCHANGED <<providerBalance, posted, payout, reserve, refund, bankEdits, job>>

RefuseBank ==
  /\ BankFree /\ bank.verified
  /\ bank' = [bank EXCEPT !.verified = FALSE]
  /\ UNCHANGED <<providerBalance, posted, payout, reserve, refund, bankEdits, job>>

(* The connection is lost before the commit: everything is rolled back.    *)
Abort(j) ==
  /\ job[j] # NoJob
  /\ Done(j)
  /\ UNCHANGED <<providerBalance, posted, payout, reserve, refund, bank, bankEdits>>

SettlementsNext ==
  \/ \E j \in Settler :
       \/ \E k \in PayoutKey, a \in PayoutAmount : RequestPayout(j, k, a)
       \/ \E k \in PostKey, a \in Posting : Post(j, k, a)
       \/ \E k \in PayoutKey, to \in PayoutStatus \ {"PENDING"} : Settle(j, k, to)
       \/ \E to \in Destination : EditBank(j, to)
       \/ LockBank(j) \/ LockWalletForPayout(j) \/ CommitPayout(j)
       \/ LockWalletForPosting(j) \/ CommitPosting(j)
       \/ LockPayout(j) \/ CommitProgress(j) \/ LockWalletForRefund(j) \/ CommitPayoutRefund(j)
       \/ CommitEdit(j) \/ Abort(j)
  \/ VerifyBank \/ RefuseBank

SettlementsSpec == SettlementsInit /\ [][SettlementsNext]_settlementsVars

-----------------------------------------------------------------------------
Made == {k \in PayoutKey : payout[k] # NoPayout}
PostedKeys == {k \in PostKey : posted[k] # NoPayout}
Standing == {k \in Made : payout[k].status # "FAILED"}
Adjusted == MapThenSumSet(LAMBDA k : posted[k], PostedKeys)
PaidOut == MapThenSumSet(LAMBDA k : payout[k].amount, Standing)

(* Whatever is retried, interleaved or cut off, the wallet holds what was   *)
(* posted less the payouts that have not failed; each payout took its       *)
(* amount once and gave it back once if it failed.                          *)
WalletBacksPayouts ==
  /\ providerBalance = Adjusted - PaidOut
  /\ \A k \in PayoutKey \ Made : reserve[k] = 0 /\ refund[k] = 0
  /\ \A k \in Made :
       /\ reserve[k] = payout[k].amount
       /\ refund[k] = IF payout[k].status = "FAILED" THEN payout[k].amount ELSE 0

(* An open payout goes where the bank account pointed when it was asked     *)
(* for: an edit that was waiting while the payout was made is refused.      *)
DestinationIsFrozen ==
  \A k \in Made : payout[k].status \in OpenStatus => payout[k].to = bank.to
=============================================================================
