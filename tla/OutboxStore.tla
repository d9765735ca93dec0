---------------------------- MODULE OutboxStore ----------------------------
(***************************************************************************)
(* The outbox table of pkg/outbox (postgres/store.go, writer.go): records,  *)
(* their leases, and the statements that change them.  Each statement is    *)
(* atomic; what is not atomic is Claim, which reads a snapshot and locks    *)
(* rows of it later.  OutboxRelay adds the relays that call these.          *)
(***************************************************************************)
EXTENDS Integers, FiniteSets

CONSTANTS Messages,      \* numbers, in the order (created_at, id)
          Unordered,     \* messages without an ordering key
          Tokens,        \* lease tokens
          NoToken,
          AttemptCap,    \* where attempts saturates (10000 in the code)
          Features       \* what applications and operators do

ASSUME StoreAssumption ==
  /\ Messages \subseteq Nat /\ Unordered \subseteq Messages
  /\ NoToken \notin Tokens
  /\ AttemptCap \in Nat \ {0}
  /\ Features \subseteq {"late_commit", "replay", "prune"}

VARIABLE record          \* record[m]: the row

States   == {"absent", "pending", "leased", "delivered", "dead", "pruned"}
Terminal == {"delivered", "dead"}

Rows == [state : States, token : Tokens \cup {NoToken},
         expired : BOOLEAN,    \* leased_until has passed
         due : BOOLEAN,        \* available_at has passed
         attempts : 0..AttemptCap]

StoreTypeOK == record \in [Messages -> Rows]

NoRow == [state |-> "absent", token |-> NoToken, expired |-> FALSE, due |-> FALSE,
          attempts |-> 0]

StoreInit == record = [m \in Messages |-> NoRow]

-----------------------------------------------------------------------------
(* The row with a new state and no lease. *)
Unleased(row, s, due) == [state |-> s, token |-> NoToken, expired |-> FALSE, due |-> due,
                          attempts |-> row.attempts]

(* Writer.InsertBatch and the commit of the caller's transaction.  created_at  *)
(* is the application's, so commits may come in another order.                 *)
Insert(S) ==
  /\ S # {} /\ \A m \in S : record[m].state = "absent"
  /\ \/ "late_commit" \in Features
     \/ \A m \in S, n \in Messages \ S : n < m => record[n].state # "absent"
  /\ \E due \in BOOLEAN :
       record' = [m \in Messages |->
         IF m \in S THEN Unleased(record[m], "pending", due) ELSE record[m]]

(* clock_timestamp() reaches available_at. *)
Due(m) == /\ record[m].state = "pending" /\ ~record[m].due
          /\ record' = [record EXCEPT ![m].due = TRUE]

(* clock_timestamp() reaches leased_until. *)
Expire(m) == /\ record[m].state = "leased" /\ ~record[m].expired
             /\ record' = [record EXCEPT ![m].expired = TRUE]

-----------------------------------------------------------------------------
(* Claim *)

(* Variant: leases are not looked at. *)
ClaimablePending(m) == record[m].state = "pending" /\ record[m].due

(* Variant: a lease can be taken over before it expires. *)
ClaimableLeased(m) == \/ record[m].state = "pending" /\ record[m].due
                      \/ record[m].state = "leased"

Claimable(m) == \/ record[m].state = "pending" /\ record[m].due
                \/ record[m].state = "leased" /\ record[m].expired

(* Variant: only a leased record blocks later ones. *)
BlockedByLeased(m) == /\ m \notin Unordered
                      /\ \E n \in Messages \ Unordered :
                           n < m /\ record[n].state = "leased"

(* serializationPredicate: an earlier record of the scope is not terminal. *)
Blocked(m) == /\ m \notin Unordered
              /\ \E n \in Messages \ Unordered :
                   n < m /\ record[n].state \in {"pending", "leased"}

(* What the statement's snapshot offers. *)
Candidates == {m \in Messages : Claimable(m) /\ ~Blocked(m)}

(* The rows it locks: they are still claimable when locked, but the rows that  *)
(* could block them are looked at in the snapshot only.                       *)
Lease(S, t) ==
  record' = [m \in Messages |->
    IF m \notin S THEN record[m]
    ELSE LET n == record[m].attempts
         IN [state |-> "leased", token |-> t, expired |-> FALSE, due |-> record[m].due,
             attempts |-> IF n < AttemptCap THEN n + 1 ELSE n]]

-----------------------------------------------------------------------------
(* Transitions under a lease. *)

Ops == {"deliver", "retry", "dead", "release", "extend"}

(* Variant: any lease of the record will do. *)
CurrentAny(m, t) == record[m].state = "leased"

(* WHERE id = $1 AND state = 'leased' AND lease_token = $2 *)
Current(m, t) == record[m].state = "leased" /\ record[m].token = t

Changed(row, op) == CASE op = "deliver" -> Unleased(row, "delivered", row.due)
                      [] op = "retry"   -> Unleased(row, "pending", FALSE)
                      [] op = "dead"    -> Unleased(row, "dead", row.due)
                      [] op = "release" -> Unleased(row, "pending", TRUE)
                      [] op = "extend"  -> [row EXCEPT !.expired = FALSE]

(* execLeaseUpdate: no matching row means ErrLeaseLost and no change. *)
Transition(m, t, op) ==
  record' = IF Current(m, t) THEN [record EXCEPT ![m] = Changed(@, op)] ELSE record

-----------------------------------------------------------------------------
(* Operators' calls. *)

(* Replay of a selection: all of it is terminal, or nothing changes. *)
Replay(S) ==
  /\ "replay" \in Features
  /\ S # {} /\ \A m \in S : record[m].state \in Terminal
  /\ \E due \in BOOLEAN :
       record' = [m \in Messages |->
         IF m \in S THEN [Unleased(record[m], "pending", due) EXCEPT !.attempts = 0]
         ELSE record[m]]

(* PruneDelivered, PruneDead and the archiving versions: one batch of records  *)
(* of one terminal state is deleted.                                           *)
Prune(S) ==
  /\ "prune" \in Features
  /\ S # {} /\ \E s \in Terminal : \A m \in S : record[m].state = s
  /\ record' = [m \in Messages |->
       IF m \in S THEN Unleased(record[m], "pruned", FALSE) ELSE record[m]]
=============================================================================
