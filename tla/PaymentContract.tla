---------------------------- MODULE PaymentContract ----------------------------
(***************************************************************************)
(* What a payment promises its payer, whatever requests, webhooks and      *)
(* refunds race for its row: it is decided once, money is given back only  *)
(* after it was taken, never more of it than was taken, and an account     *)
(* that was closed by failure or by a full refund is never opened again.   *)
(***************************************************************************)
EXTENDS Naturals

CONSTANTS Payment, Amount

VARIABLES
  phase,     \* "none", "open", "taken", "failed" or "returned"
  returned   \* how much of a payment the ledger has given back

contractVars == <<phase, returned>>

ContractInit ==
  /\ phase = [p \in Payment |-> "none"]
  /\ returned = [p \in Payment |-> 0]

Moves(p, from, to) ==
  /\ phase[p] = from
  /\ phase' = [phase EXCEPT ![p] = to]
  /\ UNCHANGED returned

Open(p) == Moves(p, "none", "open")
Take(p) == Moves(p, "open", "taken")
Fail(p) == Moves(p, "open", "failed")

\* A return never exceeds what is left, and only a complete one closes the payment.
Return(p) ==
  /\ phase[p] = "taken"
  /\ \E sum \in (returned[p] + 1)..Amount :
       returned' = [returned EXCEPT ![p] = sum]
  /\ \/ UNCHANGED phase
     \/ /\ returned'[p] = Amount
        /\ phase' = [phase EXCEPT ![p] = "returned"]

ContractNext == \E p \in Payment : Open(p) \/ Take(p) \/ Fail(p) \/ Return(p)

ContractSpec == ContractInit /\ [][ContractNext]_contractVars

=============================================================================
