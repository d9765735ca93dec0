------------------------------ MODULE MCLease ------------------------------
(* Lease with interchangeable owners, for TLC. *)
EXTENDS Lease, TLC

Symmetry == Permutations(Owners)
=============================================================================
