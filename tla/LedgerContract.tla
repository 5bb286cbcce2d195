---------------------------- MODULE LedgerContract ----------------------------
(***************************************************************************)
(* What the wallets promise: the ledger only grows, one booking at a time; *)
(* a booking is made once; and no user ever spends what is not there.  A   *)
(* balance is nothing but the sum of the user's entries.                   *)
(***************************************************************************)
EXTENDS Integers, FiniteSets, FiniteSetsExt

CONSTANTS User

VARIABLE entries   \* records with a user, an amount (negative for a debit) and a key

\* What a set of entries comes to, and the balance it gives a user.
Money(E) == MapThenSumSet(LAMBDA x : x.amount, E)
SumOf(E, u) == Money({x \in E : x.user = u})

LedgerInit == entries = {}

\* A booking: one entry, or a debit and a credit of the same sum.
Balanced(new) ==
  \/ Cardinality(new) = 1
  \/ Cardinality(new) = 2 /\ Money(new) = 0

LedgerNext ==
  /\ entries \subseteq entries'
  /\ Balanced(entries' \ entries)
  /\ \A x \in entries' \ entries, y \in entries : <<x.user, x.key>> # <<y.user, y.key>>
  /\ \A u \in User : SumOf(entries', u) >= 0

LedgerSpec == LedgerInit /\ [][LedgerNext]_entries

=============================================================================
