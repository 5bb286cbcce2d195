------------------------------ MODULE MCRideStore ------------------------------
(***************************************************************************)
(* TLC instance of RideStore: two rides competing for two drivers.         *)
(***************************************************************************)
EXTENDS RideStore, TLC

\* At most one of the drivers lacks approval at a time (the contract run only).
OneDriverOut ==
  \A d, e \in Driver : standing[d] # "approved" /\ standing[e] # "approved" => d = e

Symmetry == Permutations(Ride) \cup Permutations(Driver)

=============================================================================
