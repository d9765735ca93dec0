----------------------------- MODULE Sequencer -----------------------------
(***************************************************************************)
(* pkg/sequencer: the PostgreSQL ledger of one-time operations (operation   *)
(* rows, attempt rows, the triggers of migrations 00003 and 00005) and the  *)
(* fleets of leaderless runners that claim, execute and complete them.      *)
(* Transactions are atomic, except that ClaimNext decides dependencies and  *)
(* budgets on its statement snapshot and then locks and updates the latest  *)
(* version of the row.  Fleets fail, crash, restart and lose replies;       *)
(* handlers outlive their lease; operators reset and reconcile.            *)
(*                                                                         *)
(* attempt_number and fencing_token always advance together: fence stands   *)
(* for both.  blocked, canceled and dead_lettered are told apart from       *)
(* failed by nothing below; no fleet produces deferred.                    *)
(***************************************************************************)
EXTENDS Integers, Sequences, FiniteSets

CONSTANTS Ops, NoOp,
          Forward,       \* Forward[o]: the operation o compensates, or NoOp
          DependsOn,     \* DependsOn[o]: the operations o depends on
          Replayable,    \* operations with the replay-idempotent policy
          Results,       \* what handlers may return
          Fleets, NoFleet,
          MaxConcurrency, MaxAttempts, MaxExceptions,
          MaxFence       \* bound: attempts of all operations together

(* NewOperation: the forward operation is a dependency of its compensation, *)
(* a budget is positive.  classifyState gives the results.                 *)
ASSUME OpsAssumption ==
    /\ IsFiniteSet(Ops)
    /\ NoOp \notin Ops /\ NoFleet \notin Fleets /\ Replayable \subseteq Ops
    /\ Forward \in [Ops -> Ops \cup {NoOp}] /\ DependsOn \in [Ops -> SUBSET Ops]
    /\ \A o \in Ops : Forward[o] # NoOp => Forward[o] \in DependsOn[o] \ {o}
    /\ Results \subseteq {"succeeded", "skipped", "failed", "retryable", "indeterminate"}
    /\ MaxAttempts \in Nat \ {0}

VARIABLES row,           \* sequencer_operations
          attempts,      \* sequencer_attempts: the states by attempt number
          epoch,         \* the attempt at the last reset in the audit trail
          fleet,         \* fleet[f]: a runner and where its loop is
          claims,        \* claims being executed, and calls left by the dead
          resolved,      \* resolved[o]: attempts an operator has reconciled
          starts         \* starts[o]: handlers started since the last reset

vars == <<row, attempts, epoch, fleet, claims, resolved, starts>>

Open       == {"claimed", "running"}
Done       == {"succeeded", "skipped"}
Resettable == {"succeeded", "failed"}
Claimable  == {"eligible", "retryable", "deferred"}
States     == Open \cup Done \cup Claimable \cup {"failed", "indeterminate"}
Phases     == {"accepted", "executing", "completing", "reported", "orphan"}

Rows    == [state : States, fence : Nat, owner : Fleets \cup {NoFleet},
            lapsed : BOOLEAN, active : Nat, bound : Nat]
Budgets == [attempt : Int, exceptions : Nat]
Claims  == [fleet : Fleets, op : Ops, fence : Nat, budget : Budgets,
            phase : Phases, to : States]
NoClaim == [phase |-> "none"]
Seen    == [ready : BOOLEAN, epoch : Nat, exceptions : Nat]
NotSeen == [ready |-> FALSE, epoch |-> 0, exceptions |-> 0]
NoSnap  == [o \in Ops |-> NotSeen]
Loops   == [state : {"accepting", "closed"},
            loop : {"poll", "snapped", "admit", "ended"},
            snap : [Ops -> Seen], claim : Claims \cup {NoClaim}]

LedgerTyped == /\ row \in [Ops -> Rows]
               /\ attempts \in [Ops -> Seq(States)]
               /\ epoch \in [Ops -> Nat] /\ starts \in [Ops -> Nat]
               /\ resolved \in [Ops -> SUBSET Nat]
FleetsTyped == /\ fleet \in [Fleets -> Loops]
               /\ \A f \in Fleets : fleet[f].loop = "admit" => fleet[f].claim \in Claims
               /\ claims \subseteq Claims
TypeOK      == LedgerTyped /\ FleetsTyped

(* Run: a process that has registered its plan and accepts. *)
Running == [state |-> "accepting", loop |-> "poll", snap |-> NoSnap,
            claim |-> NoClaim]

Init == /\ row = [o \in Ops |-> [state |-> "eligible", fence |-> 0,
                                 owner |-> NoFleet, lapsed |-> FALSE,
                                 active |-> 0, bound |-> 0]]
        /\ attempts = [o \in Ops |-> <<>>]
        /\ epoch = [o \in Ops |-> 0]
        /\ fleet = [f \in Fleets |-> Running]
        /\ claims = {}
        /\ resolved = [o \in Ops |-> {}]
        /\ starts = [o \in Ops |-> 0]

----------------------------------------------------------------------------
(* The triggers on updates of an operation row.                            *)

(* A compensation that has begun and has no final outcome. *)
IsActive(o, r) == /\ Forward[o] # NoOp
                  /\ \/ r.state \in Open \cup {"retryable", "deferred", "indeterminate"}
                     \/ r.state = "eligible" /\ r.fence > 0

Enters(o, r) == ~IsActive(o, row[o]) /\ IsActive(o, r)
Leaves(o, r) == IsActive(o, row[o]) /\ ~IsActive(o, r)

(* Variant: a compensation binds to whatever state its forward operation is in. *)
BindsAny(o) == row[o].bound \in {0, row[Forward[o]].fence}

(* The forward operation is done, in the generation o was bound to before. *)
Binds(o) == /\ row[Forward[o]].state \in Done
            /\ row[o].bound \in {0, row[Forward[o]].fence}
            /\ row[o].fence > 0 => row[o].bound # 0

(* sequencer_reject_legacy_blocked_unknown_recovery *)
RejectsLegacy(o, r) == row[o].state \in Open /\ r.state = "eligible" /\ o \notin Replayable

(* Both triggers let the update through. *)
Accepts(o, r) ==
    /\ row[o].state \in Resettable /\ r.state = "eligible" => row[o].active = 0
    /\ Enters(o, r) => Binds(o)
    /\ Leaves(o, r) => row[Forward[o]].active > 0
    /\ ~RejectsLegacy(o, r)

(* The rows after the update: the forward operation counts its active      *)
(* compensations, a compensation remembers the generation it undoes.       *)
Updated(o, r) ==
    [p \in Ops |->
       IF p = o THEN [r EXCEPT !.bound = IF Enters(o, r)
                                         THEN row[Forward[o]].fence ELSE @]
       ELSE IF p = Forward[o] /\ Enters(o, r) THEN [row[p] EXCEPT !.active = @ + 1]
       ELSE IF p = Forward[o] /\ Leaves(o, r) THEN [row[p] EXCEPT !.active = @ - 1]
       ELSE row[p]]

----------------------------------------------------------------------------
(* A fleet's loop: recover, claim, admit.                                  *)

Moves(f, state, loop, snap, claim) ==
    fleet' = [fleet EXCEPT ![f] = [state |-> state, loop |-> loop,
                                   snap |-> snap, claim |-> claim]]
Closes(f) == Moves(f, "closed", fleet[f].loop, fleet[f].snap, fleet[f].claim)
Ends(f)   == Moves(f, "closed", "ended", NoSnap, NoClaim)
Polls(f)  == Moves(f, "accepting", "poll", NoSnap, NoClaim)

operators == <<epoch, resolved>>

(* active: a claim counts until the loop has read its result.  Success is      *)
(* read when the place is needed; an error stays until the loop reads it.  *)
Busy(f) == {c \in claims : c.fleet = f /\ c.phase # "orphan"}

(* RecoverExpired: an elapsed claim's attempt is indeterminate; only the   *)
(* replay policy makes its operation eligible again.  An active compensation *)
(* stays active, so the triggers change no counter.                        *)
Expired == {o \in Ops : row[o].state \in Open /\ row[o].lapsed}

RecoverExpired(f) ==
    /\ fleet[f].loop = "poll"
    /\ Cardinality(Busy(f)) < MaxConcurrency
    /\ Expired # {}
    /\ row' = [o \in Ops |-> IF o \in Expired
                  THEN [row[o] EXCEPT !.state = IF o \in Replayable THEN "eligible"
                                                ELSE "indeterminate",
                                      !.owner = NoFleet, !.lapsed = FALSE]
                  ELSE row[o]]
    /\ attempts' = [o \in Ops |-> IF o \in Expired
                  THEN [attempts[o] EXCEPT ![row[o].fence] = "indeterminate"]
                  ELSE attempts[o]]
    /\ UNCHANGED <<fleet, claims, starts>> /\ UNCHANGED operators

(* ClaimNext, the statement snapshot: which dependencies are met, and the  *)
(* budget spent since the last reset.                                      *)
Retries(o) == {n \in epoch[o] + 1 .. row[o].fence : attempts[o][n] = "retryable"}

Snapshot(f) ==
    /\ fleet[f].state = "accepting" /\ fleet[f].loop = "poll"
    /\ Cardinality(Busy(f)) < MaxConcurrency
    /\ Moves(f, "accepting", "snapped",
             [o \in Ops |->
                IF \A d \in DependsOn[o] : row[d].state \in Done
                THEN [ready |-> TRUE, epoch |-> epoch[o],
                      exceptions |-> Cardinality(Retries(o))]
                ELSE NotSeen],
             NoClaim)
    /\ UNCHANGED <<row, attempts, claims, starts>>
    /\ UNCHANGED operators

(* The state is that of the latest row version, which is locked and updated. *)
Candidates(f) == {o \in Ops : fleet[f].snap[o].ready /\ row[o].state \in Claimable}

Spare == Cardinality(UNION {{o} \X DOMAIN attempts[o] : o \in Ops}) < MaxFence

ClaimNext(f, o, reply) ==
    LET s == fleet[f].snap[o]
        r == [row[o] EXCEPT !.state = "claimed", !.owner = f,
                            !.fence = @ + 1, !.lapsed = FALSE]
        c == [fleet |-> f, op |-> o, fence |-> r.fence, phase |-> "accepted",
              budget |-> [attempt |-> r.fence - s.epoch, exceptions |-> s.exceptions],
              to |-> "claimed"]
    IN /\ fleet[f].loop = "snapped" /\ o \in Candidates(f)
       /\ Spare
       /\ IF Accepts(o, r)
          THEN /\ row' = Updated(o, r)
               /\ attempts' = [attempts EXCEPT ![o] = Append(@, "claimed")]
               /\ IF reply THEN Moves(f, fleet[f].state, "admit", NoSnap, c)
                           ELSE Ends(f)
          ELSE Ends(f) /\ UNCHANGED <<row, attempts>>
       /\ UNCHANGED <<claims, starts>> /\ UNCHANGED operators

(* ErrNoEligibleOperation: poll again. *)
NoneEligible(f) ==
    /\ fleet[f].loop = "snapped"
    /\ Candidates(f) = {} \/ ~Spare
    /\ Moves(f, fleet[f].state, "poll", NoSnap, NoClaim)
    /\ UNCHANGED <<row, attempts, claims, starts>>
    /\ UNCHANGED operators

----------------------------------------------------------------------------
(* A claim: mark running, execute, complete.                               *)

(* Variant: the owner and the state prove ownership, whatever the fence. *)
OwnsAnyFence(c, from) == /\ row[c.op].owner = c.fleet /\ row[c.op].state = from
                         /\ ~row[c.op].lapsed

Becomes(c, d) == claims' = (claims \ {c}) \cup {d}

(* executeClaim returns nil, or an error that waits in results: the fleet     *)
(* goes on, and claims, until it reads one there (waitForDrain does).      *)
Returns(c, ok) ==
    IF ok \/ fleet[c.fleet].loop = "ended" THEN claims' = claims \ {c}
    ELSE Becomes(c, [c EXCEPT !.phase = "reported", !.to = "failed"])

(* The WHERE clause of MarkRunning and Complete. *)
Owns(c, from) == /\ row[c.op].owner = c.fleet /\ row[c.op].fence = c.fence
                 /\ row[c.op].state = from /\ ~row[c.op].lapsed

Final(c, to) == [row[c.op] EXCEPT !.state = to, !.owner = NoFleet, !.lapsed = FALSE]

Proves(c, from, to) == Owns(c, from) /\ Accepts(c.op, Final(c, to))

(* Store.Complete: the outcome on the operation and on its attempt. *)
Complete(c, from, to) ==
    IF Proves(c, from, to)
    THEN /\ row' = Updated(c.op, Final(c, to))
         /\ attempts' = [attempts EXCEPT ![c.op][c.fence] = to]
    ELSE UNCHANGED <<row, attempts>>

(* admitClaim, or settleUnadmittedClaim once the fleet has failed. *)
Admit(f) ==
    LET c == fleet[f].claim
    IN /\ fleet[f].loop = "admit"
       /\ IF fleet[f].state = "accepting"
          THEN /\ claims' = claims \cup {c}
               /\ Polls(f)
               /\ UNCHANGED <<row, attempts>>
          ELSE /\ Complete(c, "claimed", "failed")
               /\ Ends(f)
               /\ UNCHANGED claims
       /\ UNCHANGED starts /\ UNCHANGED operators

(* Variant: the budget check of a claim is off by one. *)
WithinBudgetLoose(c) == c.budget.attempt <= MaxAttempts + 1

(* attemptBudgetError *)
WithinBudget(c) == c.budget.attempt <= MaxAttempts

(* A claim beyond the budget fails without its handler. *)
Exhausted(c) ==
    /\ c.phase = "accepted" /\ ~WithinBudget(c)
    /\ Returns(c, Proves(c, "claimed", "failed"))
    /\ Complete(c, "claimed", "failed")
    /\ UNCHANGED <<fleet, starts>> /\ UNCHANGED operators

(* MarkRunning, then the handler starts; without a reply it does not. *)
MarkRunning(c, reply) ==
    LET ok == Owns(c, "claimed")
    IN /\ c.phase = "accepted" /\ WithinBudget(c)
       /\ IF ok THEN /\ row' = [row EXCEPT ![c.op].state = "running"]
                     /\ attempts' = [attempts EXCEPT ![c.op][c.fence] = "running"]
                ELSE UNCHANGED <<row, attempts>>
       /\ IF ok /\ reply
          THEN /\ Becomes(c, [c EXCEPT !.phase = "executing"])
               /\ starts' = [starts EXCEPT ![c.op] = @ + 1]
          ELSE Returns(c, FALSE) /\ UNCHANGED starts
       /\ UNCHANGED fleet /\ UNCHANGED operators

(* classifyState *)
Classified(c, result) ==
    IF result # "retryable" THEN result
    ELSE IF c.budget.attempt >= MaxAttempts
            \/ c.budget.exceptions + 1 >= MaxExceptions THEN "failed"
    ELSE "retryable"

(* The handler returns and the fleet sends the completion. *)
Return(c, result) ==
    /\ c.phase = "executing"
    /\ Becomes(c, [c EXCEPT !.phase = "completing", !.to = Classified(c, result)])
    /\ UNCHANGED <<row, attempts, fleet, starts>> /\ UNCHANGED operators

(* The ledger executes the completion; a stale or unanswered one is an       *)
(* error, unless the fleet that sent it is gone.                           *)
Finish(c, reply) ==
    /\ c.phase \in {"completing", "orphan"}
    /\ Returns(c, c.phase = "orphan" \/ (reply /\ Proves(c, "running", c.to)))
    /\ Complete(c, "running", c.to)
    /\ UNCHANGED <<fleet, starts>> /\ UNCHANGED operators

(* A failed renewal ends the attempt without a completion and closes the     *)
(* fleet at once; what its handler still does, nobody records.             *)
RenewalFails(c) ==
    /\ c.phase = "executing"
    /\ Returns(c, FALSE)
    /\ Closes(c.fleet)
    /\ UNCHANGED <<row, attempts, starts>> /\ UNCHANGED operators

(* A call of a dead process is never executed. *)
Vanish(c) == /\ c.phase = "orphan"
             /\ claims' = claims \ {c}
             /\ UNCHANGED <<row, attempts, fleet, starts>>
             /\ UNCHANGED operators

----------------------------------------------------------------------------
(* The end of a process, time, and operators.                              *)

(* SIGTERM, a lost RecoverExpired reply, admission found closed, or an error  *)
(* read from results (waitForCapacity, waitForPoll): no more claims.       *)
Drain(f) == /\ fleet[f].loop = "poll"
            /\ Ends(f)
            /\ claims' = {c \in claims : c.fleet = f => c.phase # "reported"}
            /\ UNCHANGED <<row, attempts, starts>>
            /\ UNCHANGED operators

(* waitForDrain ends with everything accepted settled, or at ShutdownWait, *)
(* or the process dies; completions it has sent may still be executed.  The *)
(* next process has the same owner.                                        *)
Restart(f) == /\ fleet[f].loop = "ended"
              /\ Polls(f)
              /\ claims' = (claims \ Busy(f)) \cup
                    {[c EXCEPT !.phase = "orphan"] :
                        c \in {d \in Busy(f) : d.phase = "completing"}}
              /\ UNCHANGED <<row, attempts, starts>> /\ UNCHANGED operators

Lapse(o) == /\ row[o].state \in Open /\ ~row[o].lapsed
            /\ row' = [row EXCEPT ![o].lapsed = TRUE]
            /\ UNCHANGED <<attempts, fleet, claims, starts>>
            /\ UNCHANGED operators

(* Reset: an operator authorises a new replay epoch. *)
Reset(o) ==
    LET r == [row[o] EXCEPT !.state = "eligible", !.owner = NoFleet]
    IN /\ row[o].state \in Resettable /\ row[o].active = 0
       /\ Forward[o] # NoOp /\ row[o].fence > 0
             => row[Forward[o]].fence = row[o].bound
       /\ Accepts(o, r)
       /\ row' = Updated(o, r)
       /\ epoch' = [epoch EXCEPT ![o] = row[o].fence]
       /\ starts' = [starts EXCEPT ![o] = 0]
       /\ UNCHANGED <<attempts, fleet, claims, resolved>>

(* Variant: the operator's decision is not tied to the attempt it is about. *)
DecidesAny(o, n) == row[o].state = "indeterminate"

(* The WHERE clause of ResolveUnknown. *)
Decides(o, n) == row[o].state = "indeterminate" /\ row[o].fence = n

(* ResolveUnknown: an operator who inspected attempt n decides on it. *)
ResolveUnknown(o, n, to) ==
    LET r == [row[o] EXCEPT !.state = to]
    IN /\ n \in DOMAIN attempts[o] /\ attempts[o][n] = "indeterminate"
       /\ Decides(o, n) /\ Accepts(o, r)
       /\ row' = Updated(o, r)
       /\ resolved' = [resolved EXCEPT ![o] = @ \cup {n}]
       /\ UNCHANGED <<attempts, epoch, fleet, claims, starts>>

Next == \/ \E f \in Fleets :
              \/ Snapshot(f) \/ NoneEligible(f) \/ Admit(f)
              \/ RecoverExpired(f) \/ Drain(f) \/ Restart(f)
              \/ \E o \in Ops, reply \in BOOLEAN : ClaimNext(f, o, reply)
        \/ \E c \in claims :
              \/ Exhausted(c) \/ RenewalFails(c) \/ Vanish(c)
              \/ \E reply \in BOOLEAN : MarkRunning(c, reply) \/ Finish(c, reply)
              \/ \E result \in Results : Return(c, result)
        \/ \E o \in Ops :
              \/ Lapse(o) \/ Reset(o)
              \/ \E n \in 1..MaxFence, to \in {"succeeded", "eligible", "failed"} :
                    ResolveUnknown(o, n, to)

Spec == Init /\ [][Next]_vars

----------------------------------------------------------------------------
(* Properties *)

(* While a compensation is in progress its forward operation stays in the   *)
(* very generation the compensation was bound to when it was first claimed: *)
(* done, not reset, not claimed again (the trigger of migration 00005,      *)
(* Store.Reset).  The forward row counts exactly its compensations in       *)
(* progress.                                                               *)
CompensationFenced ==
    \A o \in Ops :
       /\ IsActive(o, row[o]) => /\ row[Forward[o]].state \in Done
                                 /\ row[Forward[o]].fence = row[o].bound
       /\ row[o].active = Cardinality({p \in Ops : Forward[p] = o
                                                   /\ IsActive(p, row[p])})

(* An attempt whose outcome is unknown is followed by another one only under *)
(* the replay policy or after an operator has decided on that very attempt, *)
(* whatever crashes, lost replies and late completions happen              *)
(* (RecoverExpired, ResolveUnknown).                                       *)
NoBlindReplay ==
    \A o \in Ops \ Replayable : \A n \in DOMAIN attempts[o] :
       attempts[o][n] = "indeterminate" /\ (n < row[o].fence \/ row[o].state # "indeterminate")
          => n \in resolved[o]

(* The attempt rows and the operation row agree: only the last attempt can *)
(* be open, exactly while the operation is, and in the same state; a late  *)
(* completion never lands on an attempt that was given up (Complete,       *)
(* MarkRunning and RecoverExpired report drift otherwise).                 *)
Agrees(o) ==
    LET last == row[o].fence
    IN /\ Len(attempts[o]) = last
       /\ \A n \in 1..(last - 1) : attempts[o][n] \notin Open
       /\ row[o].state \in Open <=> last > 0 /\ attempts[o][last] \in Open
       /\ row[o].state \in Open => attempts[o][last] = row[o].state
       /\ row[o].owner # NoFleet <=> row[o].state \in Open
LedgerAgrees == TypeOK /\ \A o \in Ops : Agrees(o)

(* Within one replay epoch at most MaxAttempts handlers are started, even   *)
(* when the budget of a claim was read before a reset or another claim     *)
(* (ClaimNext, attemptBudgetError).                                        *)
AttemptBudget == \A o \in Ops : starts[o] <= MaxAttempts

----------------------------------------------------------------------------
(* What makes them inductive *)

(* Handlers started in this epoch, against the attempts of it. *)
StartsCounted == \A o \in Ops :
    /\ epoch[o] <= row[o].fence
    /\ starts[o] <= row[o].fence - epoch[o]
    /\ row[o].state = "claimed" => starts[o] < row[o].fence - epoch[o]

(* A snapshot knows no later reset than there was; the budget of a claim    *)
(* counts every attempt of the epoch; completions carry outcomes.          *)
Budgeted(c) == c.budget.attempt >= c.fence - epoch[c.op]
ClaimsSound ==
    /\ \A f \in Fleets : /\ \A o \in Ops : fleet[f].snap[o].epoch <= epoch[o]
                         /\ fleet[f].loop = "admit" => /\ fleet[f].claim.phase = "accepted"
                                                       /\ Budgeted(fleet[f].claim)
    /\ \A c \in claims : /\ Budgeted(c)
                         /\ c.phase \in {"completing", "orphan"} => c.to \notin Open

Inductive == /\ LedgerAgrees /\ CompensationFenced /\ NoBlindReplay
             /\ AttemptBudget /\ StartsCounted /\ ClaimsSound
=============================================================================
