------------------------------ MODULE MCOutbox ------------------------------
(* Instances of OutboxRelay for TLC. *)
EXTENDS OutboxRelay

-----------------------------------------------------------------------------
(* What the instances add: there is always a fresh token. *)
ASSUME EnoughTokens ==
  Cardinality(Tokens) > Cardinality(Messages) + Cardinality(Relays) + MaxLate
=============================================================================
