----------------------------- MODULE LeaseGuard -----------------------------
(***************************************************************************)
(* guard.Run (pkg/lease/internal/guard), the callback runner behind         *)
(* leasequeue.Worker.Run and leasescheduler.Coordinator.OnOneServer: per    *)
(* handle the calling goroutine, the goroutine that watches for a loss, and *)
(* the renewal goroutine of ManagedLease.                                   *)
(***************************************************************************)
EXTENDS ManagedLease

VARIABLES runner,        \* runner[h]: where guard.Run stands
          watcher,       \* watcher[h]: where the loss watcher stands
          losses,        \* losses[h]: the watcher's channel, one buffered element
          result         \* result[h]: the errors joined so far

runVars == <<runner, watcher, losses, result>>
guardVars == <<state, late, busy, renewer, loss, cancelled, slots,
               runner, watcher, losses, result>>

Runners  == {"acquire", "start", "callback", "stop", "drain", "release",
             "releasing", "done"}
Watchers == {"none", "wait", "report", "cancel", "close", "done"}

Problems == {"acquire", "start", "callback", "lost", "release"}

GuardTypeOK == /\ ManagedTypeOK
               /\ runner \in [Handles -> Runners]
               /\ watcher \in [Handles -> Watchers]
               /\ losses \in [Handles -> {"open", "sent", "closed"}]
               /\ result \in [Handles -> SUBSET Problems]

GuardInit == /\ ManagedInit
             /\ runner = [h \in Handles |-> "acquire"]
             /\ watcher = [h \in Handles |-> "none"]
             /\ losses = [h \in Handles |-> "open"]
             /\ result = [h \in Handles |-> {}]

Goto(h, pc) == runner' = [runner EXCEPT ![h] = pc]
Join(h, err) == result' = [result EXCEPT ![h] = @ \cup err]

-----------------------------------------------------------------------------
(* guard.Run *)

RunAcquire(h) ==
  /\ runner[h] = "acquire"
  /\ \/ NewHandle(h) /\ Goto(h, "start") /\ Join(h, {})
     \/ Goto(h, "done") /\ Join(h, {"acquire"}) /\ UNCHANGED <<state, late>>
  /\ UNCHANGED <<busy, renewer, loss, cancelled, slots, watcher, losses>>

(* Without RenewEvery there is no renewal; a failed start goes to release. *)
Start(h) ==
  /\ runner[h] = "start"
  /\ \/ /\ Goto(h, "callback") /\ Join(h, {})
        /\ UNCHANGED <<managedVars, watcher>>
     \/ \E err \in {"nil", "lost", "refused"} :
          /\ StartManaged(h, err)
          /\ IF err = "nil"
             THEN /\ Goto(h, "callback") /\ Join(h, {})
                  /\ watcher' = [watcher EXCEPT ![h] = "wait"]
             ELSE /\ Goto(h, "release") /\ Join(h, {"start"})
                  /\ UNCHANGED watcher
          /\ UNCHANGED cancelled
  /\ UNCHANGED losses

(* The callback returns and cancel() follows. *)
Callback(h) ==
  /\ runner[h] = "callback"
  /\ \E err \in {{}, {"callback"}} : Join(h, err)
  /\ cancelled' = [cancelled EXCEPT ![h] = TRUE]
  /\ Goto(h, IF renewer[h] = "none" THEN "release" ELSE "stop")
  /\ UNCHANGED <<state, late, busy, renewer, loss, slots, watcher, losses>>

(* managed.Stop waits for done. *)
Stop(h) == /\ runner[h] = "stop" /\ renewer[h] = "exited"
           /\ Goto(h, "drain")
           /\ UNCHANGED <<managedVars, watcher, losses, result>>

(* Variant: the losses channel is polled, not awaited. *)
DrainPolls(h) == /\ runner[h] = "drain"
                 /\ Join(h, IF losses[h] = "sent" THEN {"lost"} ELSE {})
                 /\ Goto(h, "release")
                 /\ UNCHANGED <<managedVars, watcher, losses>>

(* lossErr, ok := <-losses *)
Drain(h) == /\ runner[h] = "drain" /\ losses[h] \in {"sent", "closed"}
            /\ Join(h, IF losses[h] = "sent" THEN {"lost"} ELSE {})
            /\ losses' = [losses EXCEPT ![h] = IF @ = "sent" THEN "open" ELSE @]
            /\ Goto(h, "release")
            /\ UNCHANGED <<managedVars, watcher>>

(* Handle.Release up to the dispatch. *)
Release(h) ==
  /\ runner[h] = "release"
  /\ IF state[h] \in {"lost", "uncertain"} \/ busy[h] # "no"
     THEN Goto(h, "done") /\ Join(h, {"release"}) /\ UNCHANGED busy
     ELSE Goto(h, "releasing") /\ Join(h, {}) /\ busy' = [busy EXCEPT ![h] = "release"]
  /\ UNCHANGED <<state, late, renewer, loss, cancelled, slots, watcher, losses>>

(* Variant: the release is sent and its outcome dropped. *)
ReleasedSilent(h) ==
  /\ runner[h] = "releasing"
  /\ busy' = [busy EXCEPT ![h] = "no"]
  /\ \/ \E err \in Faults \cap {"stale", "unavailable"} :
          state' = [state EXCEPT ![h] = Failed(@, err)]
     \/ state' = [state EXCEPT ![h] = "released"]
  /\ Goto(h, "done")
  /\ UNCHANGED <<late, renewer, loss, cancelled, slots, watcher, losses, result>>

(* Its context is not the cancelled one, so only the backend can fail it. *)
Released(h) ==
  /\ runner[h] = "releasing"
  /\ busy' = [busy EXCEPT ![h] = "no"]
  /\ \/ \E err \in Faults \cap {"stale", "unavailable"} :
          /\ state' = [state EXCEPT ![h] = Failed(@, err)]
          /\ Join(h, {"release"})
     \/ /\ state' = [state EXCEPT ![h] = "released"]
        /\ Join(h, {})
  /\ Goto(h, "done")
  /\ UNCHANGED <<late, renewer, loss, cancelled, slots, watcher, losses>>

(* The caller's context ends: the callback's and the renewal's end with it. *)
Cancel(h) == /\ "cancel" \in Faults /\ ~cancelled[h] /\ runner[h] # "done"
             /\ cancelled' = [cancelled EXCEPT ![h] = TRUE]
             /\ UNCHANGED <<state, late, busy, renewer, loss, slots, runVars>>

-----------------------------------------------------------------------------
(* The goroutine that turns a loss into an error and a cancellation. *)

Watch(h) == /\ watcher[h] = "wait" /\ loss[h] \in {"sent", "closed"}
            /\ watcher' = [watcher EXCEPT ![h] = IF loss[h] = "sent" THEN "report" ELSE "close"]
            /\ loss' = [loss EXCEPT ![h] = IF @ = "sent" THEN "taken" ELSE @]
            /\ UNCHANGED <<state, late, busy, renewer, cancelled, slots, runner, losses, result>>

Report(h) == /\ watcher[h] = "report"
             /\ losses' = [losses EXCEPT ![h] = "sent"]
             /\ watcher' = [watcher EXCEPT ![h] = "cancel"]
             /\ UNCHANGED <<managedVars, runner, result>>

(* Variant: the watcher reports the loss and lets the callback run. *)
CancelCallbackNot(h) == /\ watcher[h] = "cancel"
                        /\ watcher' = [watcher EXCEPT ![h] = "close"]
                        /\ UNCHANGED <<managedVars, runner, losses, result>>

CancelCallback(h) == /\ watcher[h] = "cancel"
                     /\ cancelled' = [cancelled EXCEPT ![h] = TRUE]
                     /\ watcher' = [watcher EXCEPT ![h] = "close"]
                     /\ UNCHANGED <<state, late, busy, renewer, loss, slots,
                                    runner, losses, result>>

(* Variant: the watcher ends without closing its channel. *)
CloseLossesNot(h) == /\ watcher[h] = "close"
                     /\ watcher' = [watcher EXCEPT ![h] = "done"]
                     /\ UNCHANGED <<managedVars, runner, losses, result>>

(* A closed channel still yields what is buffered. *)
CloseLosses(h) == /\ watcher[h] = "close"
                  /\ losses' = [losses EXCEPT ![h] = IF @ = "sent" THEN @ ELSE "closed"]
                  /\ watcher' = [watcher EXCEPT ![h] = "done"]
                  /\ UNCHANGED <<managedVars, runner, result>>

Watcher(h) == Watch(h) \/ Report(h) \/ CancelCallback(h) \/ CloseLosses(h)

Runner(h) == \/ RunAcquire(h) \/ Start(h) \/ Stop(h) \/ Drain(h)
             \/ Release(h) \/ Released(h)

GuardNext == \E h \in Handles : \/ Runner(h) \/ Callback(h) \/ Watcher(h)
                                \/ Renewal(h) /\ UNCHANGED runVars
                                \/ Deadline(h) /\ UNCHANGED runVars
                                \/ Cancel(h)

GuardSpec == GuardInit /\ [][GuardNext]_guardVars

(* Goroutines run and remote calls end (each has an operation timeout); the   *)
(* callback may take forever unless its context is done.                      *)
GuardFairness == \A h \in Handles : /\ WF_guardVars(Runner(h))
                                    /\ WF_guardVars(Watcher(h))
                                    /\ WF_guardVars(Renewal(h) /\ UNCHANGED runVars)
                                    /\ WF_guardVars(Callback(h) /\ cancelled[h])

GuardFairSpec == GuardSpec /\ GuardFairness

-----------------------------------------------------------------------------
(* Properties.                                                              *)

(* When guard.Run returns, whatever failed on the way, its renewal goroutine  *)
(* is gone and the handle is not reserved; the client's renewal slots are     *)
(* exactly the goroutines still alive, within their bound (GuardTypeOK).      *)
NothingLeftBehind ==
  /\ GuardTypeOK
  /\ slots = Cardinality({h \in Handles : Running(h)})
  /\ \A h \in Handles : runner[h] = "done" => ~Running(h) /\ busy[h] = "no"

(* A loss the renewal goroutine reported is never swallowed: Run's error says *)
(* so, even if the callback returned before the watcher saw the loss.         *)
LossReported ==
  \A h \in Handles : runner[h] = "done" /\ loss[h] \in {"sent", "taken"}
                       => "lost" \in result[h]

(* Run reports success only for a lease it released at the backend.           *)
SuccessMeansReleased ==
  \A h \in Handles : runner[h] = "done" /\ result[h] = {} => state[h] = "released"

(* A reported loss cancels the callback's context, even if the callback goes  *)
(* on for ever.                                                              *)
LossCancelsCallback ==
  \A h \in Handles : loss[h] = "sent" ~> cancelled[h]

(* Once its context is done, by the caller, by a loss or after the callback,  *)
(* Run returns: Stop, the watcher and Release never wait for each other.      *)
RunReturns == \A h \in Handles : cancelled[h] ~> runner[h] = "done"

(* guard.go:11: "Run acquires, optionally renews, cancels on loss, and        *)
(* explicitly releases."  With a backend that never fails, a caller that      *)
(* never cancels and no deadline missed, an acquired lease is released.       *)
ExplicitRelease ==
  \A h \in Handles : runner[h] = "done" /\ "acquire" \notin result[h]
                       => state[h] = "released"
=============================================================================
