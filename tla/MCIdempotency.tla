--------------------------- MODULE MCIdempotency ---------------------------
(* Idempotency with two callers of one request and one of another, for TLC. *)
EXTENDS Idempotency, TLC

CONSTANTS c1, c2, c3, p1, p2

Request  == c1 :> p1 @@ c2 :> p1 @@ c3 :> p2
Symmetry == Permutations(Tokens) \cup Permutations({c1, c2})
=============================================================================
