----------------------------- MODULE OncePerKey -----------------------------
(***************************************************************************)
(* What pkg/idempotency promises for one key, with no leases, owners, calls *)
(* or transactions.  While a record is retained its key has at most one     *)
(* outcome, fixed once by an attempt that has fixed nothing before; every   *)
(* answer handed out is that outcome; a business effect committed with the  *)
(* completion belongs to that outcome too.  Deleting the record after its   *)
(* retention period starts the next generation of the key.                 *)
(***************************************************************************)
EXTENDS Naturals

CONSTANTS Outcomes,      \* who settled the key, how, and for which request
          NoOutcome

VARIABLES gen,           \* how often the key's record has been deleted
          outcome,       \* the outcome of this generation
          spent,         \* every outcome of any generation
          answers,       \* the answers given, each with its generation
          effects        \* the effects committed, each with its generation

vars == <<gen, outcome, spent, answers, effects>>

Init == /\ gen = 0 /\ outcome = NoOutcome
        /\ spent = {} /\ answers = {} /\ effects = {}

(* An attempt fixes the outcome; it may be told, and its effect may be part *)
(* of the same transaction.                                                *)
Settle(x) == /\ outcome = NoOutcome /\ x \notin spent
             /\ outcome' = x /\ spent' = spent \cup {x}
             /\ answers' \in {answers, answers \cup {<<gen, x>>}}
             /\ effects' \in {effects, effects \cup {<<gen, x>>}}
             /\ UNCHANGED gen

Answer == /\ outcome # NoOutcome
          /\ answers' = answers \cup {<<gen, outcome>>}
          /\ UNCHANGED <<gen, outcome, spent, effects>>

Forget == /\ gen' = gen + 1 /\ outcome' = NoOutcome
          /\ UNCHANGED <<spent, answers, effects>>

Next == (\E x \in Outcomes : Settle(x)) \/ Answer \/ Forget

Spec == Init /\ [][Next]_vars
=============================================================================
