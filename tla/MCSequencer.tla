---------------------------- MODULE MCSequencer ----------------------------
(* Sequencer with a forward operation and its compensation, for TLC. *)
EXTENDS Sequencer, TLC

CONSTANTS pay, refund

Undoes   == pay :> NoOp @@ refund :> pay
Requires == pay :> {} @@ refund :> {pay}
Symmetry == Permutations(Fleets)
=============================================================================
