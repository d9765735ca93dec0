---------------------------- MODULE FencedLease ----------------------------
(***************************************************************************)
(* What pkg/lease promises for one key, with no backend, clock or network: *)
(* at any moment at most one handle admits work, and a handle that starts  *)
(* to admit work carries a fencing token above every token any handle of   *)
(* the key has ever carried.  Lease.tla is shown to implement this.        *)
(***************************************************************************)
EXTENDS Naturals

CONSTANTS Owners,        \* the identities NewOwner draws, one per acquisition
          Tokens         \* the fencing tokens

VARIABLES holders,       \* the handles that currently admit work
          seen           \* every fencing token a handle has carried

vars == <<holders, seen>>

Init == /\ holders = {}
        /\ seen = {}

(* An acquisition is admitted: nobody else is, and its token is the newest. *)
Grant(o, t) == /\ holders = {}
               /\ \A u \in seen : u < t
               /\ holders' = {o}
               /\ seen' = seen \cup {t}

(* A response that arrives too late makes a handle that never admits work. *)
Miss(t) == /\ seen' = seen \cup {t}
           /\ UNCHANGED holders

(* Release, expiry, a proven loss and an uncertain outcome all end admission. *)
Lapse == /\ holders # {}
         /\ holders' = {}
         /\ UNCHANGED seen

Next == \/ \E o \in Owners, t \in Tokens : Grant(o, t)
        \/ \E t \in Tokens : Miss(t)
        \/ Lapse

Spec == Init /\ [][Next]_vars
=============================================================================
