------------------------- MODULE MCDispatchCoordinator -------------------------
(***************************************************************************)
(* TLC instances of DispatchCoordinator.                                   *)
(***************************************************************************)
EXTENDS DispatchCoordinator, TLC

\* One delayed job is queued at a time.  A fault and a step of a driver outside the rides do
\* not meet, and after either a decided ride goes no further: with one ride, that cannot
\* matter to the end of its search.  A driver who goes offline or is removed is left out, for
\* one whose vehicle or licence is changed is as little eligible.
SmallWorld ==
  /\ \A j, k \in jobs : j = k
  /\ churn + faults <= 1
  /\ churn + faults = 0 \/ \A r \in Ride : status[r] \in {"none", "searching"}
  /\ \A d \in Driver : online[d] /\ standing[d] # "removed"

\* An accepted ride goes no further, so its driver is freed only by a cancellation.
NoProgress ==
  \A r \in Ride : status[r] \in {"none", "searching", "driver_assigned", "cancelled"}

Symmetry == Permutations(Ride) \cup Permutations(Driver) \cup Permutations(Node)

=============================================================================
