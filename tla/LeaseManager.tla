---------------------------- MODULE LeaseManager ----------------------------
(***************************************************************************)
(* leaseservice.Manager: Acquire calls that race Shutdown calls for the     *)
(* handles of ManagedLease, and callers that use the handles they were      *)
(* given while Shutdown stops and releases them.                            *)
(***************************************************************************)
EXTENDS ManagedLease, Sequences, Functions

CONSTANTS Closers,       \* concurrent Shutdown calls
          MaxHandles     \* the hard handle bound

ASSUME ManagerAssumption == MaxHandles \in Nat \ {0}

VARIABLES active,        \* Manager.active
          closed,        \* Manager.closed
          entries,       \* Manager.entries, handles in registration order
          caller,        \* caller[h]: where the Acquire call for h stands
          user,          \* user[h]: the operation h's owner has in flight
          closer,        \* closer[c]: where a Shutdown call stands
          batch,         \* batch[c]: the entries it took over
          todo,          \* todo[c]: those it has not finished
          failed,        \* failed[c]: it met an error
          expired        \* expired[c]: its context is done

registryVars == <<active, closed, entries, caller, user>>
closerVars  == <<closer, batch, todo, failed, expired>>
managerVars == <<state, late, busy, renewer, loss, cancelled, slots, active,
                 closed, entries, caller, user, closer, batch, todo, failed, expired>>

Callers == {"idle", "acquiring", "starting", "registering", "stopping",
            "releasing", "released", "returned", "failed"}
ClosersPC == {"idle", "stop", "waiting", "release", "releasing", "done"}

(* The Acquire call for h holds a reservation but no entry yet. *)
Reserved(h) == caller[h] \in {"acquiring", "starting", "registering", "stopping"}

(* s is what remains of t. *)
EndOf(s, t) == \E n \in 0..Len(t) : s = SubSeq(t, n + 1, Len(t))

ManagerTypeOK == /\ ManagedTypeOK
                 /\ active \in 0..MaxHandles
                 /\ closed \in BOOLEAN
                 /\ entries \in Seq(Handles) /\ IsInjective(entries)
                 /\ caller \in [Handles -> Callers]
                 /\ user \in [Handles -> {"no", "validate", "release"}]
                 /\ closer \in [Closers -> ClosersPC]
                 /\ \A c \in Closers : EndOf(todo[c], batch[c])
                 /\ failed \in [Closers -> BOOLEAN]
                 /\ expired \in [Closers -> BOOLEAN]

ManagerInit == /\ ManagedInit
               /\ active = 0 /\ closed = FALSE /\ entries = <<>>
               /\ caller = [h \in Handles |-> "idle"]
               /\ user = [h \in Handles |-> "no"]
               /\ closer = [c \in Closers |-> "idle"]
               /\ batch = [c \in Closers |-> <<>>]
               /\ todo = [c \in Closers |-> <<>>]
               /\ failed = [c \in Closers |-> FALSE]
               /\ expired = [c \in Closers |-> FALSE]

Proceed(h, pc) == caller' = [caller EXCEPT ![h] = pc]

-----------------------------------------------------------------------------
(* Handle.Release, for whoever calls it. *)

(* It is refused, it has nothing to do, or it reserves the handle. *)
Refused(h) == \/ state[h] \in {"lost", "uncertain"}
              \/ state[h] # "released" /\ busy[h] # "no"

Reserve(h) == /\ ~Refused(h) /\ state[h] # "released"
              /\ busy' = [busy EXCEPT ![h] = "release"]

(* The reply, under a context that is done or not. *)
ReleaseReply(h, done, err) ==
  /\ busy' = [busy EXCEPT ![h] = "no"]
  /\ \/ /\ err \in (Faults \cap {"stale", "unavailable"})
                     \cup (IF done THEN {"cancelled"} ELSE {})
        /\ state' = [state EXCEPT ![h] = Failed(@, err)]
     \/ /\ err = "nil"
        /\ state' = [state EXCEPT ![h] = "released"]

ReplyErrors == {"nil", "stale", "unavailable", "cancelled"}

-----------------------------------------------------------------------------
(* Manager.Acquire *)

(* The first critical section: closed, full, or reserved. *)
AcquireReserve(h) ==
  /\ caller[h] = "idle"
  /\ IF closed \/ active >= MaxHandles
     THEN Proceed(h, "failed") /\ UNCHANGED active
     ELSE Proceed(h, "acquiring") /\ active' = active + 1
  /\ UNCHANGED <<managedVars, closed, entries, user, closerVars>>

(* client.Acquire; a failure returns the reservation. *)
AcquireLease(h) ==
  /\ caller[h] = "acquiring"
  /\ \/ NewHandle(h) /\ Proceed(h, "starting") /\ UNCHANGED active
     \/ Proceed(h, "failed") /\ active' = active - 1 /\ UNCHANGED <<state, late>>
  /\ UNCHANGED <<busy, renewer, loss, cancelled, slots, closed, entries, user, closerVars>>

(* Variant: a failed start keeps its reservation. *)
AcquireStartLeak(h) ==
  /\ caller[h] = "starting"
  /\ \/ Proceed(h, "registering") /\ UNCHANGED managedVars
     \/ \E err \in {"nil", "lost", "refused"} :
          /\ StartManaged(h, err)
          /\ Proceed(h, IF err = "nil" THEN "registering" ELSE "releasing")
          /\ UNCHANGED cancelled
  /\ UNCHANGED <<active, closed, entries, user, closerVars>>

(* StartManaged when the policy renews; a failure returns the reservation and *)
(* releases the lease.                                                        *)
AcquireStart(h) ==
  /\ caller[h] = "starting"
  /\ \/ Proceed(h, "registering") /\ UNCHANGED <<managedVars, active>>
     \/ \E err \in {"nil", "lost", "refused"} :
          /\ StartManaged(h, err)
          /\ IF err = "nil" THEN Proceed(h, "registering") /\ UNCHANGED active
             ELSE Proceed(h, "releasing") /\ active' = active - 1
          /\ UNCHANGED cancelled
  /\ UNCHANGED <<closed, entries, user, closerVars>>

(* Variant: the handle is registered without looking at closed again. *)
AcquireRegisterBlind(h) ==
  /\ caller[h] = "registering"
  /\ Proceed(h, "returned")
  /\ entries' = Append(entries, h)
  /\ UNCHANGED <<managedVars, active, closed, user, closerVars>>

(* The second critical section: an entry, or an undo when Shutdown came first. *)
AcquireRegister(h) ==
  /\ caller[h] = "registering"
  /\ IF closed
     THEN /\ Proceed(h, "stopping")
          /\ cancelled' = [cancelled EXCEPT ![h] = TRUE]
          /\ UNCHANGED entries
     ELSE /\ Proceed(h, "returned")
          /\ entries' = Append(entries, h)
          /\ UNCHANGED cancelled
  /\ UNCHANGED <<state, late, busy, renewer, loss, slots, active, closed, user, closerVars>>

(* managed.Stop returned; releaseReservation. *)
AcquireUndo(h) ==
  /\ caller[h] = "stopping" /\ ~Running(h)
  /\ Proceed(h, "releasing") /\ active' = active - 1
  /\ UNCHANGED <<managedVars, closed, entries, user, closerVars>>

(* handle.Release with a context that is never done. *)
AcquireRelease(h) ==
  /\ caller[h] = "releasing"
  /\ \/ Refused(h) /\ Proceed(h, "failed") /\ UNCHANGED busy
     \/ Reserve(h) /\ Proceed(h, "released")
  /\ UNCHANGED <<state, late, renewer, loss, cancelled, slots, active, closed,
                 entries, user, closerVars>>

AcquireReleased(h) ==
  /\ caller[h] = "released"
  /\ \E err \in ReplyErrors : ReleaseReply(h, FALSE, err)
  /\ Proceed(h, "failed")
  /\ UNCHANGED <<late, renewer, loss, cancelled, slots, active, closed, entries,
                 user, closerVars>>

Acquire(h) == \/ AcquireReserve(h) \/ AcquireLease(h) \/ AcquireStart(h)
              \/ AcquireRegister(h) \/ AcquireUndo(h) \/ AcquireRelease(h)
              \/ AcquireReleased(h)

-----------------------------------------------------------------------------
(* The owner of a returned handle validates or releases it. *)

UserBegin(h, op) ==
  /\ caller[h] = "returned" /\ user[h] = "no" /\ busy[h] = "no"
  /\ \/ state[h] = "active" /\ (op = "validate" => ~late[h])
     \/ state[h] = "expired" /\ op = "release"
  /\ user' = [user EXCEPT ![h] = op]
  /\ busy' = [busy EXCEPT ![h] = op]
  /\ UNCHANGED <<state, late, renewer, loss, cancelled, slots, active, closed,
                 entries, caller, closerVars>>

UserEnd(h) ==
  /\ user[h] # "no"
  /\ IF user[h] = "release"
     THEN \E err \in ReplyErrors : ReleaseReply(h, "cancel" \in Faults, err)
     ELSE /\ busy' = [busy EXCEPT ![h] = "no"]
          /\ \E err \in (Faults \ {"deadline"}) \cup {"nil"} :
               state' = [state EXCEPT ![h] = IF err = "nil" THEN Expired(h)
                                              ELSE Failed(Expired(h), err)]
  /\ user' = [user EXCEPT ![h] = "no"]
  /\ UNCHANGED <<late, renewer, loss, cancelled, slots, active, closed, entries,
                 caller, closerVars>>

-----------------------------------------------------------------------------
(* Manager.Shutdown *)

Advance(c, pc) == closer' = [closer EXCEPT ![c] = pc]

(* On to the next entry of the loop, or out of it. *)
NextEntry(c) == /\ todo' = [todo EXCEPT ![c] = Tail(@)]
                /\ Advance(c, IF Len(todo[c]) = 1 THEN "done" ELSE "stop")

(* The critical section: closed, and the entries change hands. *)
ShutdownBegin(c) ==
  /\ closer[c] = "idle"
  /\ closed' = TRUE
  /\ batch' = [batch EXCEPT ![c] = entries]
  /\ todo' = [todo EXCEPT ![c] = entries]
  /\ entries' = <<>>
  /\ active' = active - Len(entries)
  /\ Advance(c, IF entries = <<>> THEN "done" ELSE "stop")
  /\ UNCHANGED <<managedVars, caller, user, failed, expired>>

(* managed.Stop: cancel, then wait for done or for the shutdown context. *)
ShutdownStop(c) ==
  /\ closer[c] = "stop"
  /\ IF renewer[Head(todo[c])] = "none"
     THEN Advance(c, "release") /\ UNCHANGED cancelled
     ELSE Advance(c, "waiting") /\ cancelled' = [cancelled EXCEPT ![Head(todo[c])] = TRUE]
  /\ UNCHANGED <<state, late, busy, renewer, loss, slots, registryVars, batch, todo,
                 failed, expired>>

ShutdownWait(c) ==
  /\ closer[c] = "waiting"
  /\ \/ ~Running(Head(todo[c])) /\ UNCHANGED failed
     \/ expired[c] /\ failed' = [failed EXCEPT ![c] = TRUE]
  /\ Advance(c, "release")
  /\ UNCHANGED <<managedVars, registryVars, batch, todo, expired>>

(* Variant: a refused release is skipped. *)
ShutdownReleaseSkips(c) ==
  LET h == Head(todo[c])
  IN /\ closer[c] = "release"
     /\ \/ /\ Refused(h) \/ state[h] = "released"
           /\ NextEntry(c) /\ UNCHANGED busy
        \/ /\ Reserve(h)
           /\ Advance(c, "releasing") /\ UNCHANGED todo
     /\ UNCHANGED <<state, late, renewer, loss, cancelled, slots, registryVars, batch,
                    failed, expired>>

ShutdownRelease(c) ==
  LET h == Head(todo[c])
  IN /\ closer[c] = "release"
     /\ \/ /\ Refused(h)
           /\ failed' = [failed EXCEPT ![c] = TRUE]
           /\ NextEntry(c) /\ UNCHANGED busy
        \/ /\ state[h] = "released"
           /\ NextEntry(c) /\ UNCHANGED <<busy, failed>>
        \/ /\ Reserve(h)
           /\ Advance(c, "releasing") /\ UNCHANGED <<todo, failed>>
     /\ UNCHANGED <<state, late, renewer, loss, cancelled, slots, registryVars, batch,
                    expired>>

ShutdownReleased(c) ==
  /\ closer[c] = "releasing"
  /\ \E err \in ReplyErrors :
       /\ ReleaseReply(Head(todo[c]), expired[c], err)
       /\ failed' = [failed EXCEPT ![c] = @ \/ err # "nil"]
  /\ NextEntry(c)
  /\ UNCHANGED <<late, renewer, loss, cancelled, slots, registryVars, batch, expired>>

Shutdown(c) == \/ ShutdownBegin(c) \/ ShutdownStop(c) \/ ShutdownWait(c)
               \/ ShutdownRelease(c) \/ ShutdownReleased(c)

(* The shutdown context is cancelled or times out. *)
ShutdownExpires(c) ==
  /\ "cancel" \in Faults /\ ~expired[c] /\ closer[c] # "done"
  /\ expired' = [expired EXCEPT ![c] = TRUE]
  /\ UNCHANGED <<managedVars, registryVars, closer, batch, todo, failed>>

Environment(h) == Renewal(h) \/ Deadline(h)

ManagerNext ==
  \/ \E h \in Handles : \/ Acquire(h)
                        \/ \E op \in {"validate", "release"} : UserBegin(h, op)
                        \/ UserEnd(h)
                        \/ Environment(h) /\ UNCHANGED <<registryVars, closerVars>>
  \/ \E c \in Closers : Shutdown(c) \/ ShutdownExpires(c)

ManagerSpec == ManagerInit /\ [][ManagerNext]_managerVars

(* Acquire and Shutdown calls that started run on, remote calls end and       *)
(* goroutines run; nobody has to call Shutdown.                               *)
ManagerFairness ==
  /\ \A h \in Handles : /\ WF_managerVars(caller[h] # "idle" /\ Acquire(h))
                         /\ WF_managerVars(UserEnd(h))
                         /\ WF_managerVars(Renewal(h) /\ UNCHANGED <<registryVars, closerVars>>)
  /\ \A c \in Closers : WF_managerVars(closer[c] # "idle" /\ Shutdown(c))

ManagerFairSpec == ManagerSpec /\ ManagerFairness

-----------------------------------------------------------------------------
(* Properties.                                                              *)

(* The counter is exactly the registered handles and the Acquire calls that   *)
(* hold a reservation, within the bound (ManagerTypeOK), so Shutdown's         *)
(* unsigned subtraction never wraps and no failed Acquire leaks capacity.     *)
ActiveExact ==
  /\ ManagerTypeOK
  /\ active = Len(entries) + Cardinality({h \in Handles : Reserved(h)})

(* No handle slips past Shutdown: once closed, an Acquire that was under way   *)
(* registers nothing and returns no handle.                                   *)
ClosedTakesNone ==
  [][closed => /\ entries' = <<>>
               /\ \A h \in Handles : caller'[h] = "returned"
                                         => caller[h] = "returned"]_managerVars

(* Shutdown claims success only for handles that are released; a refused,     *)
(* failed or cancelled release is an error.                                   *)
ShutdownHonest ==
  \A c \in Closers : closer[c] = "done" /\ ~failed[c]
     => \A h \in Range(batch[c]) : state[h] = "released"

(* After Shutdown every renewal goroutine ends, also when the shutdown        *)
(* context expires on the way or an Acquire was half done.                    *)
ShutdownStopsRenewal == closed ~> [](\A h \in Handles : ~Running(h))

=============================================================================
