------------------------ MODULE MCDispatchTransactions ------------------------
(***************************************************************************)
(* TLC instances of DispatchTransactions: which transactions may meet is   *)
(* the Request of each configuration.                                      *)
(***************************************************************************)
EXTENDS DispatchTransactions, TLC

\* Bounds of the instance: going online does not meet an acceptance (it has an instance of its
\* own), and both drivers are asked about rides that go no further than their
\* acceptance, or one of them runs transactions of every kind.
Dispatching ==
  /\ \A r \in Ride : status[r] \in {"searching", "driver_assigned", "cancelled"}
  /\ \A d \in Driver : avail[d] \in {"available", "busy"} /\ online[d]
  /\ \A s \in Session : txn[s].kind \notin OnDriver \cup {"progress", "pin", "complete"}

OneDriver ==
  \E d \in Driver : \A e \in Driver \ {d} :
    /\ avail[e] = "available" /\ online[e]
    /\ \A r \in Ride : offer[r][e] = "none"
    /\ \A s \in Session : txn[s].driver # e

SmallWorld == OnlineApart /\ (Dispatching \/ OneDriver)

Symmetry == Permutations(Ride) \cup Permutations(Driver) \cup Permutations(Session)

=============================================================================
