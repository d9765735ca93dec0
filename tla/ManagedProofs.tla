---------------------------- MODULE ManagedProofs ----------------------------
(***************************************************************************)
(* Proofs about the callers of managed handles: guard.Run (LeaseGuard) and  *)
(* leaseservice.Manager (LeaseManager).  The first part is about the        *)
(* renewal goroutine and the client's slots, which both share.              *)
(***************************************************************************)
EXTENDS LeaseGuard, LeaseManager, FiniteSetTheorems, TLAPS

-----------------------------------------------------------------------------
(* Managed handles.                                                         *)

Alive == {h \in Handles : Running(h)}

(* What holds of the renewal goroutines whoever uses the handles: the types, *)
(* and one occupied slot for each goroutine alive.                           *)
SlotsExact == ManagedTypeOK /\ slots = Cardinality(Alive)

(* The goroutines alive are finitely many, and counted by a natural number. *)
LEMMA AliveFinite == IsFiniteSet(Alive) /\ Cardinality(Alive) \in Nat
<1>1. IsFiniteSet(Alive)
  BY ManagedAssumption, FS_Subset DEF Alive
<1>2. QED
  BY <1>1, FS_CardinalityType

(* A handle whose goroutine runs accounts for at least one of them. *)
LEMMA AliveOne == ASSUME NEW h \in Handles, Running(h) PROVE Cardinality(Alive) # 0
<1>1. h \in Alive
  BY DEF Alive
<1>2. QED
  BY <1>1, AliveFinite, FS_EmptySet

(* A step that neither starts nor ends a goroutine leaves the slots exact. *)
LEMMA SlotsSame ==
  ASSUME SlotsExact, ManagedTypeOK', slots' = slots,
         \A h \in Handles : Running(h)' <=> Running(h)
  PROVE  SlotsExact'
<1>1. Alive' = Alive
  BY DEF Alive
<1>2. QED
  BY <1>1 DEF SlotsExact

(* A new handle is active, and late or not. *)
LEMMA NewHandleTypes ==
  ASSUME NEW h \in Handles, ManagedTypeOK, NewHandle(h)
  PROVE  state' \in [Handles -> States] /\ late' \in [Handles -> BOOLEAN]
<1>1. PICK l \in {FALSE, "deadline" \in Faults} : late' = [late EXCEPT ![h] = l]
  BY Zenon DEF NewHandle
<1>2. l = TRUE \/ l = FALSE
  <2>1. CASE "deadline" \in Faults
    BY <1>1, <2>1
  <2>2. CASE "deadline" \notin Faults
    BY <1>1, <2>2
  <2>3. QED
    BY <2>1, <2>2
<1>3. QED
  BY <1>1, <1>2, Zenon DEF NewHandle, ManagedTypeOK, States

(* StartManaged (managed.go) takes a slot exactly when it starts a goroutine. *)
LEMMA StartSlots ==
  ASSUME NEW h \in Handles, NEW err, SlotsExact, StartManaged(h, err), UNCHANGED cancelled
  PROVE  SlotsExact'
<1>1. ManagedTypeOK'
  <2>1. Expired(h) \in States
    BY DEF Expired, SlotsExact, ManagedTypeOK, States
  <2>2. /\ state' \in [Handles -> States] /\ late' \in [Handles -> BOOLEAN]
        /\ busy' \in [Handles -> {"no", "renew", "validate", "release"}]
        /\ loss' \in [Handles -> {"open", "sent", "taken", "closed"}]
        /\ cancelled' \in [Handles -> BOOLEAN]
    BY <2>1 DEF StartManaged, SlotsExact, ManagedTypeOK
  <2>3. renewer' \in [Handles -> Renewers] /\ slots' \in 0..MaxManaged
    BY ManagedAssumption DEF StartManaged, SlotsExact, ManagedTypeOK, Renewers
  <2>4. QED
    BY <2>2, <2>3 DEF ManagedTypeOK
<1>2. CASE UNCHANGED <<renewer, slots>>
  BY <1>1, <1>2, SlotsSame DEF Running
<1>3. CASE /\ ~Running(h) /\ slots' = slots + 1
           /\ renewer' = [renewer EXCEPT ![h] = "sleep"]
  <2>1. Alive' = Alive \cup {h}
    BY <1>3 DEF Alive, Running, SlotsExact, ManagedTypeOK
  <2>2. h \notin Alive
    BY <1>3 DEF Alive
  <2>3. Cardinality(Alive') = Cardinality(Alive) + 1
    BY <2>1, <2>2, AliveFinite, FS_AddElement
  <2>4. QED
    BY <1>1, <1>3, <2>3 DEF SlotsExact
<1>4. QED
  BY <1>2, <1>3 DEF StartManaged

(* Every step of Managed.run keeps the slots exact: the deferred function     *)
(* returns the goroutine's own slot, once.                                    *)
LEMMA RenewalSlots ==
  ASSUME NEW h \in Handles, SlotsExact, Renewal(h)
  PROVE  SlotsExact'
<1> USE DEF SlotsExact
<1>1. Expired(h) \in States /\ \A err : Failed(Expired(h), err) \in States
  BY DEF Expired, Failed, ManagedTypeOK, States
<1>2. ASSUME Sleep(h) \/ RenewBegin(h) \/ RenewEnd(h) \/ SendLoss(h)
      PROVE  SlotsExact'
  <2>1. state' \in [Handles -> States]
    BY <1>1, <1>2 DEF Sleep, RenewBegin, RenewEnd, SendLoss, ManagedTypeOK
  <2>2. renewer' \in [Handles -> Renewers] /\ \A g \in Handles : Running(g)' <=> Running(g)
    BY <1>2 DEF Sleep, RenewBegin, RenewEnd, SendLoss, ManagedTypeOK, Renewers, Running
  <2>3. /\ busy' \in [Handles -> {"no", "renew", "validate", "release"}]
        /\ loss' \in [Handles -> {"open", "sent", "taken", "closed"}]
        /\ UNCHANGED <<late, cancelled, slots>>
    BY <1>2 DEF Sleep, RenewBegin, RenewEnd, SendLoss, ManagedTypeOK
  <2>4. ManagedTypeOK'
    BY <2>1, <2>2, <2>3 DEF ManagedTypeOK
  <2>5. QED
    BY <2>2, <2>3, <2>4, SlotsSame
<1>3. CASE RenewerExit(h)
  <2>1. Alive' = Alive \ {h} /\ h \in Alive
    BY <1>3 DEF RenewerExit, Alive, Running, ManagedTypeOK
  <2>2. Cardinality(Alive') = Cardinality(Alive) - 1 /\ slots \in 1..MaxManaged
    <3>1. Cardinality(Alive') = Cardinality(Alive) - 1
      BY <2>1, AliveFinite, FS_RemoveElement
    <3>2. Cardinality(Alive) # 0
      BY <2>1, AliveOne DEF Alive
    <3>3. QED
      BY <3>1, <3>2, ManagedAssumption DEF ManagedTypeOK
  <2>3. renewer' \in [Handles -> Renewers] /\ slots' = slots - 1
    BY <1>3 DEF RenewerExit, ManagedTypeOK, Renewers
  <2>4. /\ loss' \in [Handles -> {"open", "sent", "taken", "closed"}]
        /\ UNCHANGED <<state, late, busy, cancelled>>
    BY <1>3 DEF RenewerExit, ManagedTypeOK
  <2>5. slots' \in 0..MaxManaged
    BY <2>2, <2>3, ManagedAssumption
  <2>6. QED
    BY <2>2, <2>3, <2>4, <2>5 DEF ManagedTypeOK
<1>4. QED
  BY <1>2, <1>3 DEF Renewal

-----------------------------------------------------------------------------
(* guard.Run.                                                               *)

(* Where the three goroutines of one Run stand relative to each other.  The  *)
(* runner is past Stop only when the renewal goroutine is gone; a loss is on *)
(* its way from the renewal goroutine to the watcher, from the watcher to    *)
(* the losses channel, or in the result.                                     *)
RunInv(h) ==
  /\ busy[h] # "validate"
  /\ busy[h] = "renew" <=> renewer[h] \in {"calling", "doomed"}
  /\ busy[h] = "release" <=> runner[h] = "releasing"
  /\ watcher[h] = "none" <=> renewer[h] = "none"
  /\ runner[h] \in {"acquire", "start"} => renewer[h] = "none"
  /\ runner[h] \in {"drain", "release", "releasing", "done"} => ~Running(h)
  /\ loss[h] \in {"sent", "taken"} => renewer[h] \in {"exit", "exited"}
  /\ loss[h] = "closed" => renewer[h] = "exited"
  /\ loss[h] \in {"open", "sent"} => watcher[h] \in {"none", "wait"}
  /\ watcher[h] \in {"none", "wait", "report"} => losses[h] = "open"
  /\ losses[h] = "closed" => watcher[h] = "done"
  /\ loss[h] = "taken" => \/ watcher[h] = "report"
                          \/ losses[h] = "sent"
                          \/ "lost" \in result[h]
  /\ runner[h] \in {"release", "releasing", "done"} /\ loss[h] \in {"sent", "taken"}
       => "lost" \in result[h]
  /\ runner[h] = "done" /\ result[h] = {} => state[h] = "released"

RunTypes == /\ runner \in [Handles -> Runners]
            /\ watcher \in [Handles -> Watchers]
            /\ losses \in [Handles -> {"open", "sent", "closed"}]
            /\ result \in [Handles -> SUBSET Problems]

GuardInv == SlotsExact /\ RunTypes /\ \A h \in Handles : RunInv(h)

(* Every action of LeaseGuard is about one handle: what it leaves alone of    *)
(* another keeps its RunInv.                                                  *)
LEMMA RunFrame ==
  ASSUME NEW g \in Handles, RunInv(g),
         state'[g] = state[g], busy'[g] = busy[g], renewer'[g] = renewer[g],
         loss'[g] = loss[g], runner'[g] = runner[g], watcher'[g] = watcher[g],
         losses'[g] = losses[g], result'[g] = result[g]
  PROVE  RunInv(g)'
  BY DEF RunInv, Running

(* The runner's own steps: Run from the acquisition to the release. *)
LEMMA RunnerPreserves ==
  ASSUME NEW h \in Handles, GuardInv, Runner(h)
  PROVE  GuardInv'
<1> USE DEF GuardInv
<1>1. CASE RunAcquire(h)
  <2> USE <1>1 DEF RunAcquire
  <2>1. ManagedTypeOK'
    BY NewHandleTypes DEF SlotsExact, ManagedTypeOK
  <2>2. SlotsExact'
    BY <2>1, SlotsSame DEF Running
  <2>3. RunTypes'
    BY DEF RunTypes, Goto, Join, Runners, Problems
  <2>4. RunInv(h)'
    <3>1. CASE Goto(h, "start")
      BY <3>1 DEF RunTypes, Goto, RunInv, Running
    <3>2. CASE Goto(h, "done") /\ Join(h, {"acquire"})
      <4>1. runner'[h] = "done" /\ "acquire" \in result'[h]
        BY <3>2 DEF RunTypes, Goto, Join
      <4>2. renewer[h] = "none" /\ loss[h] \notin {"sent", "taken"} /\ runner[h] = "acquire"
        BY DEF RunInv
      <4>3. QED
        BY <4>1, <4>2 DEF RunInv, Running
    <3>3. QED
      BY <3>1, <3>2
  <2>5. ASSUME NEW g \in Handles \ {h} PROVE RunInv(g)'
    BY RunFrame DEF NewHandle, Goto, Join, RunTypes, SlotsExact, ManagedTypeOK
  <2>6. QED
    BY <2>2, <2>3, <2>4, <2>5
<1>2. CASE Start(h)
  <2>1. CASE UNCHANGED <<managedVars, watcher>> /\ Goto(h, "callback") /\ Join(h, {})
    <3> USE <1>2, <2>1 DEF managedVars
    <3>1. SlotsExact'
      BY SlotsSame DEF Running, SlotsExact, ManagedTypeOK
    <3>2. RunTypes'
      BY DEF Start, RunTypes, Goto, Join, Runners, Problems
    <3>3. RunInv(h)'
      BY DEF Start, RunTypes, Goto, Join, RunInv, Running
    <3>4. ASSUME NEW g \in Handles \ {h} PROVE RunInv(g)'
      BY RunFrame DEF Start, Goto, Join, RunTypes
    <3>5. QED
      BY <3>1, <3>2, <3>3, <3>4
  <2>2. ASSUME NEW err \in {"nil", "lost", "refused"},
               StartManaged(h, err), UNCHANGED <<cancelled, losses>>,
               IF err = "nil"
               THEN /\ Goto(h, "callback") /\ Join(h, {})
                    /\ watcher' = [watcher EXCEPT ![h] = "wait"]
               ELSE /\ Goto(h, "release") /\ Join(h, {"start"})
                    /\ UNCHANGED watcher
        PROVE  GuardInv'
    <3> USE <2>2
    <3>0. runner[h] = "start"
      BY <1>2 DEF Start
    <3>1. SlotsExact'
      BY StartSlots
    <3>2. RunTypes'
      BY DEF RunTypes, Goto, Join, Runners, Watchers, Problems
    <3>3. RunInv(h)'
      BY <3>0 DEF StartManaged, Goto, Join, RunTypes, RunInv, Running, SlotsExact, ManagedTypeOK
    <3>4. ASSUME NEW g \in Handles \ {h} PROVE RunInv(g)'
      BY RunFrame DEF StartManaged, Goto, Join, RunTypes, SlotsExact, ManagedTypeOK
    <3>5. QED
      BY <3>1, <3>2, <3>3, <3>4
  <2>3. QED
    BY <1>2, <2>1, <2>2 DEF Start
<1>3. CASE Stop(h) \/ Drain(h)
  <2> USE <1>3 DEF managedVars
  <2>1. SlotsExact'
    BY SlotsSame DEF Stop, Drain, Running, SlotsExact, ManagedTypeOK
  <2>2. RunTypes'
    BY DEF Stop, Drain, RunTypes, Goto, Join, Runners, Problems
  <2>3. RunInv(h)'
    BY DEF Stop, Drain, RunTypes, Goto, Join, RunInv, Running
  <2>4. ASSUME NEW g \in Handles \ {h} PROVE RunInv(g)'
    BY RunFrame DEF Stop, Drain, Goto, Join, RunTypes
  <2>5. QED
    BY <2>1, <2>2, <2>3, <2>4
<1>4. CASE Release(h) \/ Released(h)
  <2> USE <1>4
  <2>0. \A err : Failed(state[h], err) \in States
    BY DEF Failed, SlotsExact, ManagedTypeOK, States
  <2>1. ManagedTypeOK'
    BY <2>0 DEF Release, Released, SlotsExact, ManagedTypeOK, States
  <2>2. SlotsExact'
    BY <2>1, SlotsSame DEF Release, Released, Running
  <2>3. RunTypes'
    BY DEF Release, Released, RunTypes, Goto, Join, Runners, Problems
  <2>4. RunInv(h)'
    <3>1. "lost" \in result[h] => "lost" \in result'[h]
      BY DEF Release, Released, RunTypes, Join
    <3>2. CASE Release(h)
      <4>1. CASE busy' = busy /\ Goto(h, "done") /\ Join(h, {"release"})
        <5>1. runner'[h] = "done" /\ "release" \in result'[h]
          BY <4>1 DEF RunTypes, Goto, Join
        <5>2. QED
          BY <3>1, <3>2, <4>1, <5>1 DEF Release, RunInv, Running
      <4>2. CASE busy' = [busy EXCEPT ![h] = "release"] /\ Goto(h, "releasing")
        <5>1. runner'[h] = "releasing" /\ busy'[h] = "release"
          BY <4>2 DEF RunTypes, Goto, SlotsExact, ManagedTypeOK
        <5>2. QED
          BY <3>1, <3>2, <5>1 DEF Release, RunInv, Running
      <4>3. QED
        BY <3>2, <4>1, <4>2 DEF Release
    <3>3. CASE Released(h)
      <4>1. runner'[h] = "done" /\ busy'[h] = "no"
        BY <3>3 DEF Released, RunTypes, Goto, SlotsExact, ManagedTypeOK
      <4>2. "release" \in result'[h] \/ state'[h] = "released"
        BY <3>3 DEF Released, RunTypes, Join, SlotsExact, ManagedTypeOK
      <4>3. QED
        BY <3>1, <3>3, <4>1, <4>2 DEF Released, RunInv, Running
    <3>4. QED
      BY <3>2, <3>3
  <2>5. ASSUME NEW g \in Handles \ {h} PROVE RunInv(g)'
    BY RunFrame DEF Release, Released, Goto, Join, RunTypes, SlotsExact, ManagedTypeOK
  <2>6. QED
    BY <2>2, <2>3, <2>4, <2>5
<1>5. QED
  BY <1>1, <1>2, <1>3, <1>4 DEF Runner

(* The callback's return, and the end of the caller's context. *)
LEMMA CallbackPreserves ==
  ASSUME NEW h \in Handles, GuardInv, Callback(h) \/ Cancel(h)
  PROVE  GuardInv'
<1> USE DEF GuardInv
<1>1. ManagedTypeOK'
  BY Zenon DEF Callback, Cancel, SlotsExact, ManagedTypeOK
<1>2. SlotsExact'
  BY <1>1, SlotsSame DEF Callback, Cancel, Running
<1>3. RunTypes'
  BY DEF Callback, Cancel, runVars, RunTypes, Goto, Join, Runners, Problems
<1>4. RunInv(h)'
  <2>1. CASE Callback(h)
    <3>1. /\ runner[h] = "callback" /\ runner'[h] \in {"release", "stop"}
          /\ runner'[h] = "release" => renewer[h] = "none"
      BY <2>1 DEF Callback, Goto, RunTypes
    <3>2. "lost" \in result[h] => "lost" \in result'[h]
      BY <2>1 DEF Callback, Join, RunTypes
    <3>3. QED
      BY <2>1, <3>1, <3>2 DEF Callback, RunInv, Running
  <2>2. CASE Cancel(h)
    BY <2>2, RunFrame DEF Cancel, runVars
  <2>3. QED
    BY <2>1, <2>2
<1>5. ASSUME NEW g \in Handles \ {h} PROVE RunInv(g)'
  BY RunFrame DEF Callback, Cancel, runVars, Goto, Join, RunTypes
<1>6. QED
  BY <1>2, <1>3, <1>4, <1>5

(* The watcher hands a loss on: it is never in neither place. *)
LEMMA WatcherPreserves ==
  ASSUME NEW h \in Handles, GuardInv, Watcher(h)
  PROVE  GuardInv'
<1> USE DEF GuardInv, Watcher
<1>1. ManagedTypeOK'
  BY Zenon DEF Watch, Report, CancelCallback, CloseLosses, managedVars, SlotsExact, ManagedTypeOK
<1>2. SlotsExact'
  BY <1>1, SlotsSame DEF Watch, Report, CancelCallback, CloseLosses, managedVars, Running
<1>3. RunTypes'
  BY DEF Watch, Report, CancelCallback, CloseLosses, RunTypes, Watchers
<1>4. RunInv(h)'
  <2>1. CASE Watch(h)
    BY <2>1 DEF Watch, RunInv, RunTypes, Running, SlotsExact, ManagedTypeOK
  <2>2. CASE Report(h)
    BY <2>2 DEF Report, managedVars, RunInv, RunTypes, Running
  <2>3. CASE CancelCallback(h)
    BY <2>3 DEF CancelCallback, RunInv, RunTypes, Running
  <2>4. CASE CloseLosses(h)
    BY <2>4 DEF CloseLosses, managedVars, RunInv, RunTypes, Running
  <2>5. QED
    BY <2>1, <2>2, <2>3, <2>4
<1>5. ASSUME NEW g \in Handles \ {h} PROVE RunInv(g)'
  BY RunFrame DEF Watch, Report, CancelCallback, CloseLosses, managedVars, RunTypes,
                  SlotsExact, ManagedTypeOK
<1>6. QED
  BY <1>2, <1>3, <1>4, <1>5

(* The renewal goroutine runs only while the runner is at or before Stop. *)
LEMMA RenewalPreserves ==
  ASSUME NEW h \in Handles, GuardInv,
         Renewal(h) \/ Deadline(h), UNCHANGED runVars
  PROVE  GuardInv'
<1> USE DEF GuardInv, runVars
<1>1. CASE Deadline(h)
  <2>1. ManagedTypeOK'
    BY <1>1 DEF Deadline, SlotsExact, ManagedTypeOK
  <2>2. SlotsExact'
    BY <1>1, <2>1, SlotsSame DEF Deadline, Running
  <2>3. ASSUME NEW g \in Handles PROVE RunInv(g)'
    BY <1>1, RunFrame DEF Deadline
  <2>4. QED
    BY <2>2, <2>3 DEF RunTypes
<1>2. CASE Renewal(h)
  <2>1. SlotsExact'
    BY <1>2, RenewalSlots
  <2>2. Running(h) /\ runner[h] \in {"callback", "stop"} /\ runner'[h] = runner[h]
    BY <1>2 DEF Renewal, Sleep, RenewBegin, RenewEnd, SendLoss, RenewerExit, Running,
                RunInv, RunTypes, Runners
  <2>3. RunInv(h)'
    <3>1. CASE Sleep(h)
      BY <2>2, <3>1 DEF Sleep, RunInv, Running, SlotsExact, ManagedTypeOK
    <3>2. CASE RenewBegin(h)
      <4>1. \/ renewer'[h] = "failed" /\ busy'[h] = busy[h]
            \/ renewer'[h] \in {"calling", "doomed"} /\ busy'[h] = "renew"
        BY <3>2 DEF RenewBegin, SlotsExact, ManagedTypeOK
      <4>2. renewer[h] = "renew" /\ UNCHANGED <<loss, runner, watcher, losses, result>>
        BY <3>2 DEF RenewBegin
      <4>3. QED
        BY <2>2, <4>1, <4>2 DEF RunInv, Running
    <3>3. CASE RenewEnd(h)
      <4>1. renewer'[h] \in {"sleep", "failed"} /\ busy'[h] = "no"
        BY <3>3 DEF RenewEnd, SlotsExact, ManagedTypeOK
      <4>2. /\ renewer[h] \in {"calling", "doomed"}
            /\ UNCHANGED <<loss, runner, watcher, losses, result>>
        BY <3>3 DEF RenewEnd
      <4>3. QED
        BY <2>2, <4>1, <4>2 DEF RunInv, Running
    <3>4. CASE SendLoss(h)
      <4>1. renewer[h] = "failed" /\ renewer'[h] = "exit" /\ loss'[h] = "sent"
        BY <3>4 DEF SendLoss, SlotsExact, ManagedTypeOK
      <4>2. UNCHANGED <<busy, runner, watcher, losses, result>>
        BY <3>4 DEF SendLoss
      <4>3. loss[h] = "open"
        BY <4>1 DEF RunInv, SlotsExact, ManagedTypeOK
      <4>4. QED
        BY <2>2, <4>1, <4>2, <4>3 DEF RunInv, Running
    <3>5. CASE RenewerExit(h)
      <4>1. /\ renewer[h] = "exit" /\ renewer'[h] = "exited"
            /\ loss'[h] = IF loss[h] = "open" THEN "closed" ELSE loss[h]
        BY <3>5 DEF RenewerExit, SlotsExact, ManagedTypeOK
      <4>2. UNCHANGED <<busy, runner, watcher, losses, result>>
        BY <3>5 DEF RenewerExit
      <4>3. QED
        BY <2>2, <4>1, <4>2 DEF RunInv, Running
    <3>6. QED
      BY <1>2, <3>1, <3>2, <3>3, <3>4, <3>5 DEF Renewal
  <2>4. ASSUME NEW g \in Handles \ {h} PROVE RunInv(g)'
    BY <1>2, RunFrame, Zenon DEF Renewal, Sleep, RenewBegin, RenewEnd, SendLoss, RenewerExit,
                          SlotsExact, ManagedTypeOK
  <2>5. QED
    BY <2>1, <2>3, <2>4 DEF RunTypes
<1>3. QED
  BY <1>1, <1>2

(* The inductive invariant of guard.Run: what its three goroutines know of    *)
(* each other, for any number of concurrent runs over one client.             *)
THEOREM GuardInvariant == GuardSpec => []GuardInv
<1>1. GuardInit => GuardInv
  <2> HAVE GuardInit
  <2>1. Alive = {}
    BY DEF GuardInit, ManagedInit, Alive, Running
  <2>2. SlotsExact
    BY <2>1, FS_EmptySet, ManagedAssumption
       DEF GuardInit, ManagedInit, SlotsExact, ManagedTypeOK, States, Renewers
  <2>3. RunTypes
    BY DEF GuardInit, RunTypes, Runners, Watchers, Problems
  <2>4. \A h \in Handles : RunInv(h)
    BY DEF GuardInit, ManagedInit, RunInv, Running
  <2>5. QED
    BY <2>2, <2>3, <2>4 DEF GuardInv
<1>2. GuardInv /\ [GuardNext]_guardVars => GuardInv'
  <2>1. ASSUME GuardInv, GuardNext PROVE GuardInv'
    BY <2>1, RunnerPreserves, CallbackPreserves, WatcherPreserves, RenewalPreserves
       DEF GuardNext
  <2>2. ASSUME GuardInv, UNCHANGED guardVars PROVE GuardInv'
    BY <2>2 DEF guardVars, GuardInv, SlotsExact, ManagedTypeOK, Alive, Running, RunTypes,
                RunInv
  <2>3. QED
    BY <2>1, <2>2
<1>3. QED
  BY <1>1, <1>2, PTL DEF GuardSpec

(* guard.Run leaves nothing behind: when it returns, by whatever path, its    *)
(* renewal goroutine is gone, the handle is not reserved and the client's     *)
(* slots count exactly the goroutines of the runs still under way.            *)
THEOREM GuardNothingLeftBehind == GuardSpec => []NothingLeftBehind
<1>1. GuardInv => NothingLeftBehind
  BY DEF GuardInv, SlotsExact, RunTypes, NothingLeftBehind, GuardTypeOK, Alive, RunInv,
         Running, ManagedTypeOK
<1>2. QED
  BY <1>1, GuardInvariant, PTL

(* A loss the renewal goroutine sent is in the error Run returns, wherever    *)
(* the callback, the watcher and Stop stood when it was sent.                 *)
THEOREM GuardLossReported == GuardSpec => []LossReported
<1>1. GuardInv => LossReported
  BY DEF GuardInv, RunInv, LossReported
<1>2. QED
  BY <1>1, GuardInvariant, PTL

(* Run returns nil only for a lease the backend confirmed released.           *)
THEOREM GuardSuccessMeansReleased == GuardSpec => []SuccessMeansReleased
<1>1. GuardInv => SuccessMeansReleased
  BY DEF GuardInv, RunInv, SuccessMeansReleased
<1>2. QED
  BY <1>1, GuardInvariant, PTL

-----------------------------------------------------------------------------
(* leaseservice.Manager.                                                    *)

Reservations == {h \in Handles : Reserved(h)}

(* The registry: the counter is exact, a closed manager has no entries, and   *)
(* an entry belongs to an Acquire call that returned, so no handle is entered *)
(* twice.                                                                     *)
RegistryInv == /\ active \in 0..MaxHandles
               /\ closed \in BOOLEAN
               /\ entries \in Seq(Handles) /\ IsInjective(entries)
               /\ caller \in [Handles -> Callers]
               /\ active = Len(entries) + Cardinality(Reservations)
               /\ closed => entries = <<>>
               /\ \A i \in 1..Len(entries) : caller[entries[i]] = "returned"

CloserTypes == /\ closer \in [Closers -> ClosersPC]
               /\ batch \in [Closers -> Seq(Handles)]
               /\ todo \in [Closers -> Seq(Handles)]
               /\ failed \in [Closers -> BOOLEAN]
               /\ expired \in [Closers -> BOOLEAN]

(* A Shutdown call: what is left to do is the end of what it took over, it is *)
(* in its loop while something is left, and unless it met an error all that   *)
(* it finished is released.                                                   *)
CloserInv(c) ==
  /\ EndOf(todo[c], batch[c])
  /\ closer[c] \in {"stop", "waiting", "release", "releasing"} <=> todo[c] # <<>>
  /\ \A h \in Range(batch[c]) :
       /\ caller[h] = "returned"
       /\ failed[c] \/ state[h] = "released" \/ h \in Range(todo[c])

ManagerInv == /\ SlotsExact
              /\ RegistryInv
              /\ user \in [Handles -> {"no", "validate", "release"}]
              /\ CloserTypes
              /\ \A c \in Closers : CloserInv(c)

(* Reservations are finitely many, and counted by a natural number. *)
LEMMA ReservationsFinite ==
  IsFiniteSet(Reservations) /\ Cardinality(Reservations) \in Nat
<1>1. IsFiniteSet(Reservations)
  BY ManagedAssumption, FS_Subset DEF Reservations
<1>2. QED
  BY <1>1, FS_CardinalityType

(* An Acquire call that takes a reservation adds one, and one that gives its  *)
(* reservation up removes one.                                                *)
LEMMA ReservationTaken ==
  ASSUME NEW h \in Handles, ~Reserved(h), Reserved(h)',
         \A g \in Handles \ {h} : Reserved(g)' <=> Reserved(g)
  PROVE  Cardinality(Reservations') = Cardinality(Reservations) + 1
<1>1. Reservations' = Reservations \cup {h} /\ h \notin Reservations
  BY DEF Reservations
<1>2. QED
  BY <1>1, ReservationsFinite, FS_AddElement

LEMMA ReservationGiven ==
  ASSUME NEW h \in Handles, Reserved(h), ~Reserved(h)',
         \A g \in Handles \ {h} : Reserved(g)' <=> Reserved(g)
  PROVE  /\ Cardinality(Reservations') = Cardinality(Reservations) - 1
         /\ Cardinality(Reservations) # 0
<1>1. Reservations' = Reservations \ {h} /\ h \in Reservations
  BY DEF Reservations
<1>2. Cardinality(Reservations) # 0
  BY <1>1, ReservationsFinite, FS_EmptySet
<1>3. QED
  BY <1>1, <1>2, ReservationsFinite, FS_RemoveElement

LEMMA ReservationsSame ==
  ASSUME \A g \in Handles : Reserved(g)' <=> Reserved(g)
  PROVE  Cardinality(Reservations') = Cardinality(Reservations)
<1>1. Reservations' = Reservations
  BY DEF Reservations
<1>2. QED
  BY <1>1

(* A sequence is an end of itself, and the tail of an end is an end. *)
LEMMA EndSelf == ASSUME NEW S, NEW s \in Seq(S) PROVE EndOf(s, s)
<1>1. 0 \in 0..Len(s) /\ s = SubSeq(s, 1, Len(s))
  OBVIOUS
<1>2. QED
  BY <1>1 DEF EndOf

LEMMA EndTail ==
  ASSUME NEW S, NEW s \in Seq(S), NEW t \in Seq(S), s # <<>>, EndOf(s, t)
  PROVE  EndOf(Tail(s), t)
<1>1. PICK n \in 0..Len(t) : s = SubSeq(t, n + 1, Len(t))
  BY DEF EndOf
<1>2. Len(t) \in Nat /\ n \in Nat /\ n < Len(t)
  BY <1>1
<1>3. /\ Len(s) = Len(t) - n
      /\ \A i \in 1..Len(t) - n : s[i] = t[n + i]
  BY <1>1, <1>2
<1>4. Tail(s) = SubSeq(t, n + 1 + 1, Len(t))
  <2> DEFINE r == SubSeq(t, n + 1 + 1, Len(t))
  <2>1. Tail(s) \in Seq(S) /\ Len(Tail(s)) = Len(t) - (n + 1)
    BY <1>2, <1>3
  <2>2. r \in Seq(S) /\ Len(r) = Len(t) - (n + 1)
    BY <1>2
  <2>3. ASSUME NEW i \in 1..Len(t) - (n + 1) PROVE Tail(s)[i] = r[i]
    <3>1. i \in Nat /\ i + 1 \in 1..Len(t) - n /\ n + (i + 1) = n + 1 + i
      BY <1>2
    <3>2. Tail(s)[i] = s[i + 1]
      BY <1>2, <1>3, <3>1
    <3>3. s[i + 1] = t[n + 1 + i]
      BY <1>3, <3>1
    <3>4. r[i] = t[n + 1 + i]
      BY <1>2, <3>1
    <3>5. QED
      BY <3>2, <3>3, <3>4, Zenon
  <2> HIDE DEF r
  <2>4. Tail(s) = r
    BY <2>1, <2>2, <2>3
  <2>5. QED
    BY <2>4 DEF r
<1>5. n + 1 \in 0..Len(t)
  BY <1>2
<1>6. QED
  BY <1>4, <1>5 DEF EndOf

(* The elements of a sequence are its head and those of its tail. *)
LEMMA HeadAndTail ==
  ASSUME NEW S, NEW s \in Seq(S), s # <<>>
  PROVE  /\ Head(s) \in S
         /\ Range(s) = {Head(s)} \cup Range(Tail(s))
<1>1. /\ Len(s) \in Nat \ {0} /\ Head(s) = s[1] /\ DOMAIN s = 1..Len(s)
      /\ DOMAIN Tail(s) = 1..Len(s) - 1
      /\ \A i \in 1..Len(s) - 1 : Tail(s)[i] = s[i + 1]
  OBVIOUS
<1>2. \A i \in 2..Len(s) : i - 1 \in 1..Len(s) - 1 /\ Tail(s)[i - 1] = s[i]
  BY <1>1
<1>3. Range(s) \subseteq {Head(s)} \cup Range(Tail(s))
  <2>1. ASSUME NEW i \in 1..Len(s) PROVE s[i] \in {Head(s)} \cup Range(Tail(s))
    <3>1. CASE i = 1
      BY <1>1, <3>1
    <3>2. CASE i # 1
      <4>1. i - 1 \in DOMAIN Tail(s) /\ Tail(s)[i - 1] = s[i]
        BY <1>1, <1>2, <3>2
      <4>2. QED
        BY <4>1, Zenon DEF Range
    <3>3. QED
      BY <3>1, <3>2
  <2>2. QED
    BY <1>1, <2>1 DEF Range
<1>4. {Head(s)} \cup Range(Tail(s)) \subseteq Range(s)
  <2>1. Head(s) \in Range(s)
    BY <1>1 DEF Range
  <2>2. ASSUME NEW i \in 1..Len(s) - 1 PROVE Tail(s)[i] \in Range(s)
    <3>1. i + 1 \in DOMAIN s /\ Tail(s)[i] = s[i + 1]
      BY <1>1
    <3>2. QED
      BY <3>1 DEF Range
  <2>3. QED
    BY <1>1, <2>1, <2>2 DEF Range
<1>5. QED
  BY <1>1, <1>3, <1>4

(* A Shutdown call is not disturbed by steps that leave returned handles      *)
(* returned and released ones released.                                       *)
LEMMA ClosersFrame ==
  ASSUME CloserTypes, \A c \in Closers : CloserInv(c), UNCHANGED closerVars,
         \A h \in Handles : caller[h] = "returned"
                              => /\ caller'[h] = "returned"
                                 /\ state[h] = "released" => state'[h] = "released"
  PROVE  CloserTypes' /\ \A c \in Closers : CloserInv(c)'
<1>1. CloserTypes'
  BY DEF CloserTypes, closerVars
<1>2. ASSUME NEW c \in Closers PROVE CloserInv(c)'
  <2>1. Range(batch[c]) \subseteq Handles
    BY DEF CloserTypes, Range
  <2>2. CloserInv(c)
    OBVIOUS
  <2>3. QED
    BY <2>1, <2>2 DEF CloserInv, closerVars
<1>3. QED
  BY <1>1, <1>2

(* An Acquire call that has not returned moves on, and the counter with it.   *)
LEMMA CallerMoves ==
  ASSUME NEW h \in Handles, NEW pc \in Callers \ {"returned"}, RegistryInv,
         Proceed(h, pc), caller[h] # "returned", UNCHANGED <<closed, entries>>,
         \/ active' = active /\ (Reserved(h)' <=> Reserved(h))
         \/ active' = active + 1 /\ active < MaxHandles /\ ~Reserved(h) /\ Reserved(h)'
         \/ active' = active - 1 /\ Reserved(h) /\ ~Reserved(h)'
  PROVE  /\ RegistryInv'
         /\ \A g \in Handles : caller[g] = "returned" => caller'[g] = "returned"
<1>1. /\ caller' \in [Handles -> Callers]
      /\ \A g \in Handles \ {h} : caller'[g] = caller[g]
  BY DEF Proceed, RegistryInv
<1>2. \A g \in Handles \ {h} : Reserved(g)' <=> Reserved(g)
  BY <1>1 DEF Reserved
<1>3. \A g \in Handles : caller[g] = "returned" => caller'[g] = "returned"
  BY <1>1
<1>4. \A i \in 1..Len(entries') : caller'[entries'[i]] = "returned"
  <2>1. \A i \in 1..Len(entries) : entries[i] \in Handles
    BY DEF RegistryInv
  <2>2. QED
    BY <1>3, <2>1 DEF RegistryInv
<1>5. active' = Len(entries) + Cardinality(Reservations') /\ active' \in 0..MaxHandles
  <2>0. active \in Nat /\ Len(entries) \in Nat /\ Cardinality(Reservations) \in Nat
    BY ReservationsFinite, ManagerAssumption DEF RegistryInv
  <2>1. CASE active' = active /\ (Reserved(h)' <=> Reserved(h))
    <3>1. Cardinality(Reservations') = Cardinality(Reservations)
      BY <1>2, <2>1, ReservationsSame
    <3>2. QED
      BY <2>1, <3>1 DEF RegistryInv
  <2>2. CASE active' = active + 1 /\ active < MaxHandles /\ ~Reserved(h) /\ Reserved(h)'
    <3>1. Cardinality(Reservations') = Cardinality(Reservations) + 1
      BY <1>2, <2>2, ReservationTaken
    <3>2. QED
      BY <2>0, <2>2, <3>1, ManagerAssumption DEF RegistryInv
  <2>3. CASE active' = active - 1 /\ Reserved(h) /\ ~Reserved(h)'
    <3>1. /\ Cardinality(Reservations') = Cardinality(Reservations) - 1
          /\ Cardinality(Reservations) # 0
      BY <1>2, <2>3, ReservationGiven
    <3>2. QED
      BY <2>0, <2>3, <3>1, ManagerAssumption DEF RegistryInv
  <2>4. QED
    BY <2>1, <2>2, <2>3
<1>6. QED
  BY <1>1, <1>3, <1>4, <1>5 DEF RegistryInv

(* A release that is refused or reserved touches the reservation only. *)
LEMMA BusySlots ==
  ASSUME NEW h \in Handles, NEW op \in {"no", "renew", "validate", "release"}, SlotsExact,
         busy' = busy \/ busy' = [busy EXCEPT ![h] = op],
         UNCHANGED <<state, late, renewer, loss, cancelled, slots>>
  PROVE  SlotsExact'
<1>1. ManagedTypeOK'
  BY DEF SlotsExact, ManagedTypeOK
<1>2. QED
  BY <1>1, SlotsSame DEF Running

(* The reply to a release: a released handle stays released, and this one is  *)
(* when there is no error.                                                    *)
LEMMA ReplySlots ==
  ASSUME NEW h \in Handles, NEW done, NEW err, SlotsExact, ReleaseReply(h, done, err),
         UNCHANGED <<late, renewer, loss, cancelled, slots>>
  PROVE  /\ SlotsExact'
         /\ \A g \in Handles : state[g] = "released" => state'[g] = "released"
         /\ err = "nil" => state'[h] = "released"
<1>1. Failed(state[h], err) \in States
  BY DEF Failed, SlotsExact, ManagedTypeOK, States
<1>2. ManagedTypeOK'
  BY <1>1 DEF ReleaseReply, SlotsExact, ManagedTypeOK, States
<1>3. SlotsExact'
  BY <1>2, SlotsSame DEF Running
<1>4. \A g \in Handles : state[g] = "released" => state'[g] = "released"
  BY DEF ReleaseReply, Failed, SlotsExact, ManagedTypeOK
<1>5. err = "nil" => state'[h] = "released"
  <2>1. "nil" \notin (Faults \cap {"stale", "unavailable"}) \cup (IF done THEN {"cancelled"} ELSE {})
    OBVIOUS
  <2>2. QED
    BY <2>1 DEF ReleaseReply, SlotsExact, ManagedTypeOK
<1>6. QED
  BY <1>3, <1>4, <1>5

(* No state a handle reaches by itself takes a released one back. *)
LEMMA ReleasedStays ==
  ASSUME NEW h \in Handles
  PROVE  /\ state[h] = "released" => Expired(h) = "released"
         /\ \A err : state[h] = "released" => Failed(Expired(h), err) = "released"
  BY DEF Expired, Failed

(* Manager.Acquire, from the reservation to the entry or the undo. *)
LEMMA AcquirePreserves ==
  ASSUME NEW h \in Handles, ManagerInv, Acquire(h)
  PROVE  ManagerInv'
<1> USE DEF ManagerInv
<1>0. UNCHANGED <<user, closerVars>>
  BY Zenon DEF Acquire, AcquireReserve, AcquireLease, AcquireStart, AcquireRegister, AcquireUndo,
         AcquireRelease, AcquireReleased
<1>1. SUFFICES ASSUME /\ SlotsExact' /\ RegistryInv'
                      /\ \A g \in Handles : caller[g] = "returned"
                           => /\ caller'[g] = "returned"
                              /\ state[g] = "released" => state'[g] = "released"
                      => ManagerInv'
               PROVE  ManagerInv'
  BY <1>0, ClosersFrame, Zenon
<1>2. CASE AcquireReserve(h)
  <2>1. SlotsExact' /\ UNCHANGED state
    BY <1>2, SlotsSame DEF AcquireReserve, managedVars, SlotsExact, ManagedTypeOK, Running
  <2>2. PICK pc \in {"failed", "acquiring"} :
          /\ Proceed(h, pc)
          /\ IF pc = "failed" THEN active' = active ELSE active' = active + 1 /\ active < MaxHandles
    BY <1>2, ManagerAssumption DEF AcquireReserve, RegistryInv
  <2>3. caller[h] = "idle" /\ caller'[h] = pc /\ UNCHANGED <<closed, entries>>
    BY <1>2, <2>2 DEF AcquireReserve, Proceed, RegistryInv
  <2>4. ~Reserved(h) /\ (Reserved(h)' <=> pc = "acquiring")
    BY <2>2, <2>3 DEF Reserved
  <2>5. RegistryInv' /\ \A g \in Handles : caller[g] = "returned" => caller'[g] = "returned"
    BY <2>2, <2>3, <2>4, CallerMoves, Zenon DEF Callers
  <2>6. QED
    BY <1>1, <2>1, <2>5, Zenon
<1>3. CASE AcquireLease(h)
  <2>1. SlotsExact'
    <3>1. ManagedTypeOK'
      BY <1>3, NewHandleTypes DEF AcquireLease, SlotsExact, ManagedTypeOK
    <3>2. QED
      BY <1>3, <3>1, SlotsSame, Zenon DEF AcquireLease, Running
  <2>2. \A g \in Handles : caller[g] = "returned" => state'[g] = state[g]
    BY <1>3 DEF AcquireLease, NewHandle, SlotsExact, ManagedTypeOK
  <2>3. PICK pc \in {"failed", "starting"} :
          /\ Proceed(h, pc)
          /\ active' = IF pc = "failed" THEN active - 1 ELSE active
    BY <1>3 DEF AcquireLease
  <2>4. caller[h] = "acquiring" /\ caller'[h] = pc /\ UNCHANGED <<closed, entries>>
    BY <1>3, <2>3 DEF AcquireLease, Proceed, RegistryInv
  <2>5. Reserved(h) /\ (Reserved(h)' <=> pc = "starting")
    BY <2>3, <2>4, Zenon DEF Reserved
  <2>6. RegistryInv' /\ \A g \in Handles : caller[g] = "returned" => caller'[g] = "returned"
    BY <2>3, <2>4, <2>5, CallerMoves, Zenon DEF Callers
  <2>7. QED
    BY <1>1, <2>1, <2>2, <2>6, Zenon
<1>4. CASE AcquireStart(h)
  <2>1. SlotsExact'
    BY <1>4, StartSlots, SlotsSame
       DEF AcquireStart, managedVars, SlotsExact, ManagedTypeOK, Running
  <2>2. \A g \in Handles : state[g] = "released" => state'[g] = "released"
    BY <1>4, ReleasedStays DEF AcquireStart, managedVars, StartManaged, SlotsExact, ManagedTypeOK
  <2>3. PICK pc \in {"registering", "releasing"} :
          /\ Proceed(h, pc)
          /\ active' = IF pc = "releasing" THEN active - 1 ELSE active
    BY <1>4 DEF AcquireStart
  <2>4. caller[h] = "starting" /\ caller'[h] = pc /\ UNCHANGED <<closed, entries>>
    BY <1>4, <2>3 DEF AcquireStart, Proceed, RegistryInv
  <2>5. Reserved(h) /\ (Reserved(h)' <=> pc = "registering")
    BY <2>3, <2>4 DEF Reserved
  <2>6. RegistryInv' /\ \A g \in Handles : caller[g] = "returned" => caller'[g] = "returned"
    BY <2>3, <2>4, <2>5, CallerMoves, Zenon DEF Callers
  <2>7. QED
    BY <1>1, <2>1, <2>2, <2>6
<1>5. CASE AcquireRegister(h)
  <2>1. SlotsExact' /\ UNCHANGED state
    <3>1. ManagedTypeOK'
      BY <1>5, Zenon DEF AcquireRegister, SlotsExact, ManagedTypeOK
    <3>2. QED
      BY <1>5, <3>1, SlotsSame DEF AcquireRegister, Running
  <2>2. caller[h] = "registering" /\ UNCHANGED <<active, closed>>
    BY <1>5 DEF AcquireRegister
  <2>3. CASE closed
    <3>1. Proceed(h, "stopping") /\ UNCHANGED entries
      BY <1>5, <2>3 DEF AcquireRegister
    <3>2. Reserved(h) /\ Reserved(h)'
      BY <2>2, <3>1 DEF Reserved, Proceed, RegistryInv
    <3>3. RegistryInv' /\ \A g \in Handles : caller[g] = "returned" => caller'[g] = "returned"
      BY <2>2, <3>1, <3>2, CallerMoves DEF Callers
    <3>4. QED
      BY <1>1, <2>1, <3>3
  <2>4. CASE ~closed
    <3>1. Proceed(h, "returned") /\ entries' = Append(entries, h)
      BY <1>5, <2>4 DEF AcquireRegister
    <3>2. /\ caller' \in [Handles -> Callers] /\ caller'[h] = "returned"
          /\ \A g \in Handles \ {h} : caller'[g] = caller[g]
      BY <3>1 DEF Proceed, RegistryInv, Callers
    <3>3. /\ entries' \in Seq(Handles) /\ Len(entries') = Len(entries) + 1
          /\ Len(entries) \in Nat /\ entries'[Len(entries) + 1] = h
          /\ \A i \in 1..Len(entries) : entries'[i] = entries[i] /\ entries[i] \in Handles
      BY <3>1 DEF RegistryInv
    <3>4. \A i \in 1..Len(entries) : entries[i] # h
      BY <2>2 DEF RegistryInv
    <3>5. IsInjective(entries')
      <4>1. DOMAIN entries' = 1..Len(entries) + 1 /\ DOMAIN entries = 1..Len(entries)
        BY <3>3 DEF RegistryInv
      <4>2. ASSUME NEW a \in 1..Len(entries) + 1, NEW b \in 1..Len(entries) + 1,
                   entries'[a] = entries'[b]
            PROVE  a = b
        <5>1. CASE a \in 1..Len(entries) /\ b \in 1..Len(entries)
          BY <3>3, <4>1, <4>2, <5>1 DEF RegistryInv, IsInjective
        <5>2. CASE a = Len(entries) + 1 \/ b = Len(entries) + 1
          BY <3>3, <3>4, <4>2, <5>2
        <5>3. QED
          BY <3>3, <5>1, <5>2
      <4>3. QED
        BY <4>1, <4>2 DEF IsInjective
    <3>6. \A i \in 1..Len(entries') : caller'[entries'[i]] = "returned"
      <4>1. ASSUME NEW i \in 1..Len(entries) + 1 PROVE caller'[entries'[i]] = "returned"
        <5>1. CASE i = Len(entries) + 1
          BY <3>2, <3>3, <5>1
        <5>2. CASE i \in 1..Len(entries)
          BY <3>2, <3>3, <3>4, <5>2 DEF RegistryInv
        <5>3. QED
          BY <3>3, <5>1, <5>2
      <4>2. QED
        BY <3>3, <4>1
    <3>7. /\ Cardinality(Reservations') = Cardinality(Reservations) - 1
          /\ Cardinality(Reservations) # 0
      BY <2>2, <3>2, ReservationGiven DEF Reserved
    <3>8. active' = Len(entries') + Cardinality(Reservations')
      BY <2>2, <3>3, <3>7, ReservationsFinite DEF RegistryInv
    <3>9. RegistryInv'
      BY <2>2, <2>4, <3>2, <3>3, <3>5, <3>6, <3>8 DEF RegistryInv
    <3>10. QED
      BY <1>1, <2>1, <2>2, <3>2, <3>9
  <2>5. QED
    BY <2>3, <2>4 DEF RegistryInv
<1>6. CASE AcquireUndo(h)
  <2>1. SlotsExact' /\ UNCHANGED state
    BY <1>6, SlotsSame DEF AcquireUndo, managedVars, SlotsExact, ManagedTypeOK, Running
  <2>2. /\ caller[h] = "stopping" /\ Proceed(h, "releasing")
        /\ active' = active - 1 /\ UNCHANGED <<closed, entries>>
    BY <1>6 DEF AcquireUndo
  <2>3. Reserved(h) /\ ~Reserved(h)'
    BY <2>2 DEF Reserved, Proceed, RegistryInv
  <2>4. RegistryInv' /\ \A g \in Handles : caller[g] = "returned" => caller'[g] = "returned"
    BY <2>2, <2>3, CallerMoves DEF Callers
  <2>5. QED
    BY <1>1, <2>1, <2>4
<1>7. CASE AcquireRelease(h)
  <2>1. SlotsExact' /\ UNCHANGED state
    BY <1>7, BusySlots DEF AcquireRelease, Reserve
  <2>2. PICK pc \in {"failed", "released"} : Proceed(h, pc)
    BY <1>7 DEF AcquireRelease
  <2>3. caller[h] = "releasing" /\ caller'[h] = pc /\ UNCHANGED <<active, closed, entries>>
    BY <1>7, <2>2 DEF AcquireRelease, Proceed, RegistryInv
  <2>4. ~Reserved(h) /\ ~Reserved(h)'
    BY <2>2, <2>3 DEF Reserved
  <2>5. RegistryInv' /\ \A g \in Handles : caller[g] = "returned" => caller'[g] = "returned"
    BY <2>2, <2>3, <2>4, CallerMoves DEF Callers
  <2>6. QED
    BY <1>1, <2>1, <2>5
<1>8. CASE AcquireReleased(h)
  <2>1. SlotsExact' /\ \A g \in Handles : state[g] = "released" => state'[g] = "released"
    BY <1>8, ReplySlots, Zenon DEF AcquireReleased
  <2>2. caller[h] = "released" /\ Proceed(h, "failed") /\ UNCHANGED <<active, closed, entries>>
    BY <1>8 DEF AcquireReleased
  <2>3. ~Reserved(h) /\ ~Reserved(h)'
    BY <2>2 DEF Reserved, Proceed, RegistryInv
  <2>4. RegistryInv' /\ \A g \in Handles : caller[g] = "returned" => caller'[g] = "returned"
    BY <2>2, <2>3, CallerMoves DEF Callers
  <2>5. QED
    BY <1>1, <2>1, <2>4
<1>9. QED
  BY <1>2, <1>3, <1>4, <1>5, <1>6, <1>7, <1>8 DEF Acquire

(* The owners of returned handles, the renewal goroutines and the clock. *)
LEMMA OwnerPreserves ==
  ASSUME NEW h \in Handles, ManagerInv,
         \/ \E op \in {"validate", "release"} : UserBegin(h, op)
         \/ UserEnd(h)
         \/ Environment(h) /\ UNCHANGED <<registryVars, closerVars>>
  PROVE  ManagerInv'
<1> USE DEF ManagerInv
<1>1. /\ UNCHANGED <<active, closed, entries, caller, closerVars>>
      /\ user' \in [Handles -> {"no", "validate", "release"}]
  BY DEF UserBegin, UserEnd, registryVars
<1>2. RegistryInv'
  <2>1. Cardinality(Reservations') = Cardinality(Reservations)
    BY <1>1, ReservationsSame DEF Reserved
  <2>2. QED
    BY <1>1, <2>1 DEF RegistryInv
<1>3. SlotsExact' /\ \A g \in Handles : state[g] = "released" => state'[g] = "released"
  <2>1. ASSUME NEW op \in {"validate", "release"}, UserBegin(h, op)
        PROVE  SlotsExact' /\ UNCHANGED state
    BY <2>1, BusySlots, Zenon DEF UserBegin
  <2>2. CASE UserEnd(h)
    <3>1. CASE user[h] = "release"
      BY <2>2, <3>1, ReplySlots DEF UserEnd
    <3>2. CASE user[h] # "release"
      <4>1. /\ busy' = [busy EXCEPT ![h] = "no"]
            /\ UNCHANGED <<late, renewer, loss, cancelled, slots>>
        BY <2>2, <3>2 DEF UserEnd
      <4>2. PICK s \in States : /\ state' = [state EXCEPT ![h] = s]
                                /\ state[h] = "released" => s = "released"
        BY <2>2, <3>2, ReleasedStays
           DEF UserEnd, Expired, Failed, SlotsExact, ManagedTypeOK, States
      <4>3. ManagedTypeOK'
        BY <4>1, <4>2 DEF SlotsExact, ManagedTypeOK
      <4>4. SlotsExact'
        BY <4>1, <4>3, SlotsSame DEF Running
      <4>5. QED
        BY <4>2, <4>4 DEF SlotsExact, ManagedTypeOK
    <3>3. QED
      BY <3>1, <3>2
  <2>3. CASE Deadline(h)
    <3>1. ManagedTypeOK' /\ UNCHANGED state
      BY <2>3 DEF Deadline, SlotsExact, ManagedTypeOK
    <3>2. QED
      BY <2>3, <3>1, SlotsSame DEF Deadline, Running
  <2>4. CASE Renewal(h)
    <3>1. SlotsExact'
      BY <2>4, RenewalSlots
    <3>2. \A g \in Handles : state[g] = "released" => state'[g] = "released"
      BY <2>4, ReleasedStays
         DEF Renewal, Sleep, RenewBegin, RenewEnd, SendLoss, RenewerExit, SlotsExact,
             ManagedTypeOK
    <3>3. QED
      BY <3>1, <3>2
  <2>5. QED
    BY <2>1, <2>2, <2>3, <2>4 DEF Environment
<1>4. CloserTypes' /\ \A c \in Closers : CloserInv(c)'
  BY <1>1, <1>3, ClosersFrame, Zenon
<1>5. QED
  BY <1>1, <1>2, <1>3, <1>4

(* Of a Shutdown step only the call's own part of the state matters: another  *)
(* call's claim survives, because released handles stay released.             *)
LEMMA CloserFrame ==
  ASSUME NEW c \in Closers, NEW d \in Closers, c # d, CloserTypes, CloserInv(d),
         closer'[d] = closer[d], batch'[d] = batch[d], todo'[d] = todo[d],
         failed'[d] = failed[d], caller' = caller,
         \A h \in Handles : state[h] = "released" => state'[h] = "released"
  PROVE  CloserInv(d)'
<1>1. Range(batch[d]) \subseteq Handles
  BY DEF CloserTypes, Range
<1>2. QED
  BY <1>1, Zenon DEF CloserInv

(* The step that finishes an entry: the claim about the rest, given that the  *)
(* entry is released or the call has recorded an error.                       *)
LEMMA NextEntryKeeps ==
  ASSUME NEW c \in Closers, CloserTypes, CloserInv(c), todo[c] # <<>>,
         NextEntry(c), UNCHANGED <<caller, batch, expired>>,
         failed' \in [Closers -> BOOLEAN], failed[c] => failed'[c],
         failed'[c] \/ state'[Head(todo[c])] = "released",
         \A h \in Handles : state[h] = "released" => state'[h] = "released"
  PROVE  CloserTypes' /\ CloserInv(c)'
<1>1. /\ todo[c] \in Seq(Handles) /\ batch[c] \in Seq(Handles)
      /\ Tail(todo[c]) \in Seq(Handles) /\ Len(todo[c]) \in Nat \ {0}
      /\ Len(todo[c]) = 1 <=> Tail(todo[c]) = <<>>
  <2>1. todo[c] \in Seq(Handles) /\ batch[c] \in Seq(Handles)
    BY Zenon DEF CloserTypes
  <2>2. /\ Tail(todo[c]) \in Seq(Handles) /\ Len(todo[c]) \in Nat \ {0}
        /\ Len(Tail(todo[c])) = Len(todo[c]) - 1
    BY ONLY <2>1, todo[c] # <<>>
  <2>3. Len(Tail(todo[c])) = 0 <=> Tail(todo[c]) = <<>>
    <3>1. \A s \in Seq(Handles) : Len(s) = 0 <=> s = <<>>
      OBVIOUS
    <3>2. QED
      BY <2>2, <3>1, Zenon
  <2>4. QED
    BY ONLY <2>1, <2>2, <2>3
<1>2. /\ todo' = [todo EXCEPT ![c] = Tail(todo[c])] /\ todo'[c] = Tail(todo[c])
      /\ closer'[c] = IF Len(todo[c]) = 1 THEN "done" ELSE "stop"
      /\ closer' = [closer EXCEPT ![c] = closer'[c]]
  BY DEF NextEntry, Advance, CloserTypes
<1>3. CloserTypes'
  BY <1>1, <1>2 DEF CloserTypes, ClosersPC
<1>4. EndOf(todo'[c], batch'[c])
  BY <1>1, <1>2, EndTail DEF CloserInv
<1>5. closer'[c] \in {"stop", "waiting", "release", "releasing"} <=> todo'[c] # <<>>
  BY <1>1, <1>2, Zenon
<1>6. ASSUME NEW h \in Range(batch[c])
      PROVE  /\ caller'[h] = "returned"
             /\ failed'[c] \/ state'[h] = "released" \/ h \in Range(todo'[c])
  <2>1. h \in Handles
    BY <1>1 DEF Range
  <2>2. h \in Range(todo[c]) => h = Head(todo[c]) \/ h \in Range(todo'[c])
    BY <1>1, <1>2, HeadAndTail
  <2>3. QED
    BY <2>1, <2>2, Zenon DEF CloserInv
<1>7. QED
  <2>1. Range(batch[c])' = Range(batch[c]) /\ Range(todo[c])' = Range(todo'[c])
    BY Zenon DEF Range
  <2>2. QED
    BY <1>3, <1>4, <1>5, <1>6, <2>1, Zenon DEF CloserInv

(* Manager.Shutdown, beside other Shutdown calls. *)
LEMMA ShutdownPreserves ==
  ASSUME NEW c \in Closers, ManagerInv, Shutdown(c) \/ ShutdownExpires(c)
  PROVE  ManagerInv'
<1> USE DEF ManagerInv
<1>1. CASE ShutdownBegin(c)
  <2>1. SlotsExact' /\ UNCHANGED <<state, caller, user, failed, expired>>
    BY <1>1, SlotsSame DEF ShutdownBegin, managedVars, SlotsExact, ManagedTypeOK, Running
  <2>2. RegistryInv'
    <3>1. closed' = TRUE /\ entries' = <<>> /\ active' = active - Len(entries)
      BY <1>1 DEF ShutdownBegin
    <3>2. Cardinality(Reservations') = Cardinality(Reservations)
      BY <2>1, ReservationsSame DEF Reserved
    <3>3. /\ active' = Cardinality(Reservations') /\ active' \in 0..MaxHandles
      <4>1. Len(entries) \in Nat /\ Cardinality(Reservations) \in Nat /\ active \in 0..MaxHandles
        BY ReservationsFinite DEF RegistryInv
      <4>2. active = Len(entries) + Cardinality(Reservations)
        BY DEF RegistryInv
      <4>3. QED
        BY <3>1, <3>2, <4>1, <4>2, ManagerAssumption
    <3>4. entries' \in Seq(Handles) /\ IsInjective(entries') /\ Len(entries') = 0
      BY <3>1 DEF IsInjective
    <3>5. QED
      BY <2>1, <3>1, <3>3, <3>4 DEF RegistryInv
  <2>3. /\ batch' = [batch EXCEPT ![c] = entries] /\ todo' = [todo EXCEPT ![c] = entries]
        /\ closer' = [closer EXCEPT ![c] = IF entries = <<>> THEN "done" ELSE "stop"]
    BY <1>1 DEF ShutdownBegin, Advance
  <2>4. CloserTypes'
    BY <2>1, <2>3 DEF CloserTypes, ClosersPC, RegistryInv
  <2>5. CloserInv(c)'
    <3>1. /\ batch'[c] = entries /\ todo'[c] = entries
          /\ closer'[c] = IF entries = <<>> THEN "done" ELSE "stop"
      BY <2>3 DEF CloserTypes
    <3>2. EndOf(entries, entries)
      BY EndSelf DEF RegistryInv
    <3>3. \A h \in Range(entries) : caller'[h] = "returned"
      BY <2>1 DEF Range, RegistryInv
    <3>4. QED
      BY <3>1, <3>2, <3>3 DEF CloserInv
  <2>6. ASSUME NEW d \in Closers \ {c} PROVE CloserInv(d)'
    BY <2>1, <2>3, CloserFrame, Zenon DEF CloserTypes
  <2>7. QED
    BY <2>1, <2>2, <2>4, <2>5, <2>6
<1>2. ASSUME ~ShutdownBegin(c) PROVE RegistryInv' /\ UNCHANGED <<caller, user, batch>>
  <2>1. UNCHANGED <<active, closed, entries, caller, user, batch>>
    BY <1>2 DEF Shutdown, ShutdownStop, ShutdownWait, ShutdownRelease, ShutdownReleased,
                ShutdownExpires, registryVars
  <2>2. Cardinality(Reservations') = Cardinality(Reservations)
    BY <2>1, ReservationsSame DEF Reserved
  <2>3. QED
    BY <2>1, <2>2 DEF RegistryInv
<1>3. CASE /\ ~ShutdownBegin(c)
           /\ ShutdownStop(c) \/ ShutdownWait(c) \/ ShutdownExpires(c)
  <2>1. CloserInv(c) /\ (closer[c] \in {"stop", "waiting"} => Head(todo[c]) \in Handles)
    BY HeadAndTail, Zenon DEF CloserInv, CloserTypes
  <2>2. SlotsExact' /\ UNCHANGED state
    <3>1. /\ UNCHANGED <<state, late, busy, renewer, loss, slots>>
          /\ cancelled' \in [Handles -> BOOLEAN]
      BY <1>3, <2>1, Zenon
         DEF ShutdownStop, ShutdownWait, ShutdownExpires, managedVars, SlotsExact,
                  ManagedTypeOK
    <3>2. ManagedTypeOK'
      BY <3>1 DEF SlotsExact, ManagedTypeOK
    <3>3. QED
      BY <3>1, <3>2, SlotsSame DEF Running
  <2>3. /\ CloserTypes' /\ todo' = todo
        /\ \A d \in Closers \ {c} : closer'[d] = closer[d] /\ failed'[d] = failed[d]
        /\ failed[c] => failed'[c]
        /\ closer'[c] \in {"stop", "waiting", "release", "releasing"}
             <=> closer[c] \in {"stop", "waiting", "release", "releasing"}
    BY <1>3, <1>2, Zenon
       DEF ShutdownStop, ShutdownWait, ShutdownExpires, Advance, CloserTypes, ClosersPC
  <2>4. CloserInv(c)'
    <3>1. todo'[c] = todo[c] /\ batch'[c] = batch[c] /\ caller' = caller /\ state' = state
      BY <1>2, <1>3, <2>2, <2>3
    <3>2. QED
      BY <2>1, <2>3, <3>1, Zenon DEF CloserInv
  <2>5. ASSUME NEW d \in Closers \ {c} PROVE CloserInv(d)'
    BY <1>2, <1>3, <2>2, <2>3, CloserFrame
  <2>6. QED
    BY <1>2, <1>3, <2>2, <2>3, <2>4, <2>5, Zenon
<1>4. CASE ~ShutdownBegin(c) /\ (ShutdownRelease(c) \/ ShutdownReleased(c))
  <2>1. CloserInv(c) /\ todo[c] # <<>> /\ Head(todo[c]) \in Handles
    BY <1>4, HeadAndTail, Zenon DEF ShutdownRelease, ShutdownReleased, CloserInv, CloserTypes
  <2>2. SlotsExact' /\ \A h \in Handles : state[h] = "released" => state'[h] = "released"
    BY <1>4, <2>1, BusySlots, ReplySlots, Zenon DEF ShutdownRelease, ShutdownReleased, Reserve
  <2>3. /\ failed' \in [Closers -> BOOLEAN] /\ (failed[c] => failed'[c])
        /\ \A d \in Closers \ {c} : /\ closer'[d] = closer[d] /\ failed'[d] = failed[d]
                                    /\ todo'[d] = todo[d]
    BY <1>4, Zenon DEF ShutdownRelease, ShutdownReleased, NextEntry, Advance, CloserTypes
  <2>4. CloserTypes' /\ CloserInv(c)'
    <3>1. CASE Advance(c, "releasing") /\ UNCHANGED <<todo, failed, state, expired>>
      <4>1. closer'[c] = "releasing" /\ CloserTypes'
        BY <1>2, <1>4, <3>1 DEF Advance, CloserTypes, ClosersPC
      <4>2. QED
        BY <1>2, <1>4, <2>1, <3>1, <4>1, Zenon DEF CloserInv
    <3>2. ASSUME NextEntry(c), UNCHANGED expired,
                 failed'[c] \/ state'[Head(todo[c])] = "released"
          PROVE  CloserTypes' /\ CloserInv(c)'
      BY <1>2, <1>4, <2>1, <2>2, <2>3, <3>2, NextEntryKeeps
    <3>3. CASE ShutdownRelease(c)
      BY <3>1, <3>2, <3>3 DEF ShutdownRelease, CloserTypes
    <3>4. CASE ShutdownReleased(c)
      <4>1. PICK err \in ReplyErrors :
              /\ ReleaseReply(Head(todo[c]), expired[c], err)
              /\ failed' = [failed EXCEPT ![c] = failed[c] \/ err # "nil"]
        BY <3>4, Zenon DEF ShutdownReleased
      <4>2. err = "nil" => state'[Head(todo[c])] = "released"
        BY <2>1, <3>4, <4>1, ReplySlots, Zenon DEF ShutdownReleased
      <4>3. err # "nil" => failed'[c]
        BY <4>1, Zenon DEF CloserTypes
      <4>4. QED
        BY <3>2, <3>4, <4>2, <4>3, Zenon DEF ShutdownReleased
    <3>5. QED
      BY <1>4, <3>3, <3>4
  <2>5. ASSUME NEW d \in Closers \ {c} PROVE CloserInv(d)'
    BY <1>2, <1>4, <2>2, <2>3, CloserFrame, Zenon
  <2>6. QED
    BY <1>2, <1>4, <2>2, <2>4, <2>5
<1>5. QED
  BY <1>1, <1>3, <1>4 DEF Shutdown

(* The inductive invariant of Manager: the counter, the entries and what each *)
(* Shutdown call may still claim, for any number of handles and calls.        *)
THEOREM ManagerInvariant == ManagerSpec => []ManagerInv
<1>1. ManagerInit => ManagerInv
  <2> HAVE ManagerInit
  <2>1. Alive = {} /\ Reservations = {}
    BY DEF ManagerInit, ManagedInit, Alive, Running, Reservations, Reserved
  <2>2. SlotsExact
    BY <2>1, FS_EmptySet, ManagedAssumption
       DEF ManagerInit, ManagedInit, SlotsExact, ManagedTypeOK, States, Renewers
  <2>3. RegistryInv
    <3>1. active = 0 /\ closed = FALSE /\ entries = <<>> /\ caller \in [Handles -> Callers]
      BY DEF ManagerInit, Callers
    <3>2. entries \in Seq(Handles) /\ IsInjective(entries) /\ Len(entries) = 0
      BY <3>1 DEF IsInjective
    <3>3. active = Len(entries) + Cardinality(Reservations) /\ active \in 0..MaxHandles
      <4>1. Cardinality(Reservations) = 0
        BY <2>1, FS_EmptySet
      <4>2. QED
        BY <3>1, <3>2, <4>1, ManagerAssumption
    <3>4. \A i \in 1..Len(entries) : caller[entries[i]] = "returned"
      BY <3>2
    <3>5. QED
      BY <3>1, <3>2, <3>3, <3>4, Zenon DEF RegistryInv
  <2>4. CloserTypes /\ user \in [Handles -> {"no", "validate", "release"}]
    BY DEF ManagerInit, CloserTypes, ClosersPC
  <2>5. ASSUME NEW c \in Closers PROVE CloserInv(c)
    <3>1. batch[c] = <<>> /\ todo[c] = <<>> /\ closer[c] = "idle" /\ <<>> \in Seq(Handles)
      BY DEF ManagerInit
    <3>2. EndOf(todo[c], batch[c])
      BY <3>1, EndSelf, Zenon
    <3>3. Range(batch[c]) = {}
      BY <3>1 DEF Range
    <3>4. QED
      BY <3>1, <3>2, <3>3 DEF CloserInv
  <2>6. QED
    BY <2>2, <2>3, <2>4, <2>5 DEF ManagerInv
<1>2. ManagerInv /\ [ManagerNext]_managerVars => ManagerInv'
  <2>1. ASSUME ManagerInv, ManagerNext PROVE ManagerInv'
    BY <2>1, AcquirePreserves, OwnerPreserves, ShutdownPreserves DEF ManagerNext
  <2>2. ASSUME ManagerInv, UNCHANGED managerVars PROVE ManagerInv'
    <3> USE <2>2 DEF managerVars, ManagerInv
    <3>1. SlotsExact'
      BY SlotsSame DEF SlotsExact, ManagedTypeOK, Running
    <3>2. RegistryInv'
      BY DEF RegistryInv, Reservations, Reserved
    <3>3. CloserTypes' /\ \A c \in Closers : CloserInv(c)'
      BY ClosersFrame, Zenon DEF closerVars
    <3>4. QED
      BY <3>1, <3>2, <3>3
  <2>3. QED
    BY <2>1, <2>2
<1>3. QED
  BY <1>1, <1>2, PTL DEF ManagerSpec

(* Manager.active is exactly the entries and the reservations, within the     *)
(* bound: Shutdown's unsigned subtraction never wraps, and no failed or       *)
(* undone Acquire leaks capacity.                                             *)
THEOREM ManagerActiveExact == ManagerSpec => []ActiveExact
<1>1. ManagerInv => ActiveExact
  BY DEF ManagerInv, SlotsExact, RegistryInv, CloserTypes, CloserInv, Reservations,
         ActiveExact, ManagerTypeOK
<1>2. QED
  BY <1>1, ManagerInvariant, PTL

(* A Shutdown call that returns nil has seen every handle it took over        *)
(* released, whoever released it, and none was reopened since.                *)
THEOREM ManagerShutdownHonest == ManagerSpec => []ShutdownHonest
<1>1. ManagerInv => ShutdownHonest
  <2> SUFFICES ASSUME ManagerInv, NEW c \in Closers, closer[c] = "done", ~failed[c],
                      NEW h \in Range(batch[c])
               PROVE  state[h] = "released"
    BY DEF ShutdownHonest
  <2>1. CloserInv(c)
    BY DEF ManagerInv
  <2>2. todo[c] = <<>>
    BY <2>1 DEF CloserInv
  <2>3. h \notin Range(todo[c])
    BY <2>2 DEF Range
  <2>4. QED
    BY <2>1, <2>3, Zenon DEF CloserInv
<1>2. QED
  BY <1>1, ManagerInvariant, PTL

(* Once Shutdown has closed the manager no step registers a handle, and no    *)
(* Acquire call under way returns one.                                        *)
THEOREM ManagerClosedTakesNone == ManagerSpec => ClosedTakesNone
<1> DEFINE TakesNone == closed => /\ entries' = <<>>
                                  /\ \A h \in Handles : caller'[h] = "returned"
                                                          => caller[h] = "returned"
<1>1. ManagerInv /\ [ManagerNext]_managerVars => [TakesNone]_managerVars
  <2> SUFFICES ASSUME ManagerInv, ManagerNext, closed
               PROVE  TakesNone
    OBVIOUS
  <2>1. entries = <<>> /\ caller \in [Handles -> Callers]
    BY DEF ManagerInv, RegistryInv
  <2>2. ASSUME NEW h \in Handles, Acquire(h) PROVE TakesNone
    <3>1. /\ entries' = entries
          /\ \E pc \in Callers \ {"returned"} : Proceed(h, pc)
      BY <2>2, Zenon DEF Acquire, AcquireReserve, AcquireLease, AcquireStart, AcquireRegister,
                  AcquireUndo, AcquireRelease, AcquireReleased, Callers
    <3>2. QED
      BY <2>1, <3>1 DEF Proceed
  <2>3. ASSUME NEW h \in Handles,
               \/ \E op \in {"validate", "release"} : UserBegin(h, op)
               \/ UserEnd(h)
               \/ Environment(h) /\ UNCHANGED <<registryVars, closerVars>>
        PROVE  TakesNone
    BY <2>1, <2>3, Zenon DEF UserBegin, UserEnd, registryVars
  <2>4. ASSUME NEW c \in Closers, Shutdown(c) \/ ShutdownExpires(c) PROVE TakesNone
    BY <2>1, <2>4, Zenon DEF Shutdown, ShutdownBegin, ShutdownStop, ShutdownWait, ShutdownRelease,
                      ShutdownReleased, ShutdownExpires, registryVars
  <2>5. QED
    BY <2>2, <2>3, <2>4 DEF ManagerNext
<1>2. QED
  BY <1>1, ManagerInvariant, PTL DEF ManagerSpec, ClosedTakesNone

=============================================================================
