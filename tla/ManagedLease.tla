---------------------------- MODULE ManagedLease ----------------------------
(***************************************************************************)
(* Handles with managed renewal (pkg/lease handle.go and managed.go) inside *)
(* one process: the renewal goroutine of each handle, the handle's mutex-   *)
(* protected state, the operation reservation (busy), and the client's      *)
(* bounded set of renewal slots.  What the backend does is in Lease.tla;    *)
(* here a remote call has any outcome its context allows.                   *)
(* LeaseGuard and LeaseManager add the callers.                             *)
(***************************************************************************)
EXTENDS Naturals, FiniteSets

CONSTANTS Handles,       \* the handles of one client
          MaxManaged,    \* ClientOptions.MaxManaged
          Faults         \* what may go wrong outside this process's control

ASSUME ManagedAssumption == /\ IsFiniteSet(Handles) /\ MaxManaged \in Nat
                            /\ Faults \subseteq {"deadline", "stale", "unavailable", "cancel"}

VARIABLES state,         \* state[h]: Handle.state, "none" before acquisition
          late,          \* late[h]: the local deadline has passed
          busy,          \* busy[h]: the operation that reserved the handle
          renewer,       \* renewer[h]: where the renewal goroutine stands
          loss,          \* loss[h]: the Loss channel, one buffered element
          cancelled,     \* cancelled[h]: the renewal context is done
          slots          \* Client.managed: occupied renewal slots

managedVars == <<state, late, busy, renewer, loss, cancelled, slots>>

States   == {"none", "active", "expired", "lost", "uncertain", "released"}
Renewers == {"none", "sleep", "renew", "calling", "doomed", "failed", "exit", "exited"}

(* The goroutine is alive: started, and its deferred function has not run. *)
Running(h) == renewer[h] \notin {"none", "exited"}

ManagedTypeOK == /\ state \in [Handles -> States]
                 /\ late \in [Handles -> BOOLEAN]
                 /\ busy \in [Handles -> {"no", "renew", "validate", "release"}]
                 /\ renewer \in [Handles -> Renewers]
                 /\ loss \in [Handles -> {"open", "sent", "taken", "closed"}]
                 /\ cancelled \in [Handles -> BOOLEAN]
                 /\ slots \in 0..MaxManaged

ManagedInit == /\ state = [h \in Handles |-> "none"]
               /\ late = [h \in Handles |-> FALSE]
               /\ busy = [h \in Handles |-> "no"]
               /\ renewer = [h \in Handles |-> "none"]
               /\ loss = [h \in Handles |-> "open"]
               /\ cancelled = [h \in Handles |-> FALSE]
               /\ slots = 0

-----------------------------------------------------------------------------
(* The deadline passes, on the injected or on the process clock. *)
Deadline(h) == /\ "deadline" \in Faults
               /\ state[h] = "active" /\ ~late[h]
               /\ late' = [late EXCEPT ![h] = TRUE]
               /\ UNCHANGED <<state, busy, renewer, loss, cancelled, slots>>

(* A successful acquisition; its reply may already be late. *)
NewHandle(h) == /\ state' = [state EXCEPT ![h] = "active"]
                /\ \E l \in {FALSE, "deadline" \in Faults} : late' = [late EXCEPT ![h] = l]

(* expireLocked *)
Expired(h) == IF state[h] = "active" /\ late[h] THEN "expired" ELSE state[h]

(* failLocked *)
Failed(s, err) == IF s # "active" THEN s
                  ELSE IF err = "stale" THEN "lost" ELSE "uncertain"

(* StartManaged, with the error it returns. *)
StartManaged(h, err) ==
  /\ state' = [state EXCEPT ![h] = Expired(h)]
  /\ \/ /\ Expired(h) # "active"
        /\ err = "lost"
        /\ UNCHANGED <<renewer, slots>>
     \/ /\ Expired(h) = "active"
        /\ Running(h) \/ busy[h] # "no" \/ slots = MaxManaged
        /\ err = "refused"
        /\ UNCHANGED <<renewer, slots>>
     \/ /\ Expired(h) = "active"
        /\ ~Running(h) /\ busy[h] = "no" /\ slots < MaxManaged
        /\ err = "nil"
        /\ renewer' = [renewer EXCEPT ![h] = "sleep"]
        /\ slots' = slots + 1
  /\ UNCHANGED <<late, busy, loss>>

-----------------------------------------------------------------------------
(* Managed.run *)

(* The timer wins, or the cancelled context does: select takes either. *)
Sleep(h) == /\ renewer[h] = "sleep"
            /\ \/ renewer' = [renewer EXCEPT ![h] = "renew"]
               \/ /\ cancelled[h]
                  /\ renewer' = [renewer EXCEPT ![h] = "exit"]
            /\ UNCHANGED <<state, late, busy, loss, cancelled, slots>>

(* Renew up to the dispatch: beginActiveOperation refuses, or reserves; a call *)
(* made with a context that is already done can only fail.                     *)
RenewBegin(h) ==
  LET refused == Expired(h) # "active" \/ busy[h] # "no"
  IN /\ renewer[h] = "renew"
     /\ state' = [state EXCEPT ![h] = Expired(h)]
     /\ renewer' = [renewer EXCEPT ![h] = IF refused THEN "failed"
                                          ELSE IF cancelled[h] THEN "doomed"
                                          ELSE "calling"]
     /\ busy' = IF refused THEN busy ELSE [busy EXCEPT ![h] = "renew"]
     /\ UNCHANGED <<late, loss, cancelled, slots>>

(* The errors a remote call of h can end with. *)
Errors(h) == (Faults \cap {"stale", "unavailable"})
               \cup (IF cancelled[h] THEN {"cancelled"} ELSE {})

(* finishActiveOperation.  A success sets a new deadline unless the old one   *)
(* has passed; a call whose context is done meanwhile fails, or just made it. *)
RenewEnd(h) ==
  /\ renewer[h] \in {"calling", "doomed"}
  /\ busy' = [busy EXCEPT ![h] = "no"]
  /\ \/ \E err \in Errors(h) :
          /\ state' = [state EXCEPT ![h] = Failed(Expired(h), err)]
          /\ renewer' = [renewer EXCEPT ![h] = "failed"]
     \/ /\ renewer[h] = "calling"
        /\ state' = [state EXCEPT ![h] = Expired(h)]
        /\ renewer' = [renewer EXCEPT ![h] = IF Expired(h) = "active" THEN "sleep"
                                              ELSE "failed"]
  /\ UNCHANGED <<late, loss, cancelled, slots>>

(* managed.loss <- Loss{State: handle.State()} *)
SendLoss(h) == /\ renewer[h] = "failed"
               /\ state' = [state EXCEPT ![h] = Expired(h)]
               /\ loss' = [loss EXCEPT ![h] = "sent"]
               /\ renewer' = [renewer EXCEPT ![h] = "exit"]
               /\ UNCHANGED <<late, busy, cancelled, slots>>

(* Variant: the goroutine ends without returning its slot. *)
RenewerExitLeak(h) == /\ renewer[h] = "exit"
                      /\ renewer' = [renewer EXCEPT ![h] = "exited"]
                      /\ loss' = [loss EXCEPT ![h] = IF @ = "open" THEN "closed" ELSE @]
                      /\ UNCHANGED <<state, late, busy, cancelled, slots>>

(* The deferred function: the slot is returned, then loss and done closed. *)
RenewerExit(h) == /\ renewer[h] = "exit"
                  /\ renewer' = [renewer EXCEPT ![h] = "exited"]
                  /\ slots' = slots - 1
                  /\ loss' = [loss EXCEPT ![h] = IF @ = "open" THEN "closed" ELSE @]
                  /\ UNCHANGED <<state, late, busy, cancelled>>

Renewal(h) == \/ Sleep(h) \/ RenewBegin(h) \/ RenewEnd(h)
              \/ SendLoss(h) \/ RenewerExit(h)
=============================================================================
