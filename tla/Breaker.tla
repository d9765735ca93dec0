------------------------------ MODULE Breaker ------------------------------
(***************************************************************************)
(* pkg/circuit-breaker: one breaker, its permits, and callers waiting for a *)
(* half-open probe.  Every action is one section under Breaker.mu.          *)
(*                                                                          *)
(* Clocks are read before the mutex is taken and may be stale or jump, so a *)
(* comparison with nextProbeAt, a permit's or a wait's deadline may come out *)
(* either way.  Generations are only compared with the current one: a       *)
(* permit remembers whether its generation still is, and every increment    *)
(* makes all permits stale.                                                 *)
(***************************************************************************)
EXTENDS Integers, FiniteSets, Sequences

CONSTANTS Callers, Permits,
          WindowSize, MinimumThroughput,       \* CountWindow, Config
          ConsecutiveFailures, FailureCount,   \* OpeningRules; 0 disables
          OpenWhenAll, ResetOnIgnored,
          MaxProbes, RequiredSuccesses,        \* HalfOpenPolicy
          SuccessPercent, ReopenImmediately,
          WaitForProbe,                        \* HalfOpenAdmission
          Outcomes,                            \* what completions report
          Uses                                 \* what else callers and operators do

ASSUME BreakerAssumption ==
  /\ IsFiniteSet(Permits)
  /\ WindowSize \in Nat /\ MinimumThroughput \in 1..WindowSize
  /\ ConsecutiveFailures \in Nat /\ FailureCount \in 0..WindowSize
  /\ ConsecutiveFailures + FailureCount > 0
  /\ {OpenWhenAll, ResetOnIgnored, ReopenImmediately, WaitForProbe} \subseteq BOOLEAN
  /\ MaxProbes \in Nat \ {0} /\ RequiredSuccesses \in 0..MaxProbes
  /\ SuccessPercent \in 0..100 /\ (RequiredSuccesses > 0 <=> SuccessPercent = 0)
  /\ Outcomes \subseteq {"success", "failure", "ignored"}
  /\ Uses \subseteq {"cancel", "late", "admin", "reset"}

VARIABLES state, mode,
          window,        \* classified outcomes, oldest first
          consecutive,   \* consecutiveFailures, up to ConsecutiveFailures
          active, completed, successes,    \* halfOpenActive, ...
          probes,        \* halfOpenPermits
          permit,        \* permit[p]
          caller         \* caller[c]: idle, blocked on the changed channel, or woken

health == <<state, mode, window, consecutive, active, completed, successes, probes>>
vars == <<state, mode, window, consecutive, active, completed, successes, probes, permit, caller>>

States == {"closed", "open", "half-open"}
Modes  == {"normal", "force-open", "disabled", "isolated"}
Statuses == {"none", "active", "completed", "canceled", "expired"}

PermitRecords == [status : Statuses, state : States, current : BOOLEAN,
                  recording : BOOLEAN, execution : BOOLEAN,
                  total : 0..2]     \* lifetime totals this permit added to

NoPermit == [status |-> "none", state |-> "closed", current |-> FALSE,
             recording |-> FALSE, execution |-> FALSE, total |-> 0]

TypeOK == /\ state \in States /\ mode \in Modes
          /\ window \in Seq({"success", "failure"}) /\ Len(window) <= WindowSize
          /\ consecutive \in 0..ConsecutiveFailures
          /\ active \in Nat /\ completed \in Nat /\ successes \in 0..completed
          /\ probes \subseteq Permits
          /\ permit \in [Permits -> PermitRecords]
          /\ caller \in [Callers -> {"idle", "waiting", "woken"}]

Init == /\ state = "closed" /\ mode = "normal"
        /\ window = <<>> /\ consecutive = 0
        /\ active = 0 /\ completed = 0 /\ successes = 0 /\ probes = {}
        /\ permit = [p \in Permits |-> NoPermit]
        /\ caller = [c \in Callers |-> "idle"]

-----------------------------------------------------------------------------
(* Rules *)

Count(w, o) == Cardinality({i \in DOMAIN w : w[i] = o})

(* openingDecision; the ratio and slow-call rules have the same shape. *)
Opening(w, n) ==
  LET rules == (IF ConsecutiveFailures > 0 THEN {n >= ConsecutiveFailures} ELSE {})
                 \cup (IF FailureCount > 0 THEN {Count(w, "failure") >= FailureCount} ELSE {})
  IN /\ Len(w) >= MinimumThroughput
     /\ IF OpenWhenAll THEN FALSE \notin rules ELSE TRUE \in rules

(* Count.Add for a classified outcome. *)
Add(w, o) == Append(IF Len(w) = WindowSize THEN Tail(w) ELSE w, o)

Streak(o) == CASE o = "success" -> 0
               [] o = "failure" -> IF consecutive < ConsecutiveFailures THEN consecutive + 1
                                   ELSE consecutive
               [] o = "ignored" -> IF ResetOnIgnored THEN 0 ELSE consecutive

(* Variant: the sample has to exceed its bounds. *)
SampleEndsLate(n, s) ==
  IF RequiredSuccesses > 0 /\ s > RequiredSuccesses THEN "closed"
  ELSE IF SuccessPercent > 0 /\ n > MaxProbes
       THEN IF 100 * s >= SuccessPercent * n THEN "closed" ELSE "open"
  ELSE IF ~ReopenImmediately /\ n > MaxProbes THEN "open"
  ELSE "half-open"

(* completeHalfOpenLocked: what n completed probes with s successes decide. *)
SampleEnds(n, s) ==
  IF RequiredSuccesses > 0 /\ s >= RequiredSuccesses THEN "closed"
  ELSE IF SuccessPercent > 0 /\ n >= MaxProbes
       THEN IF 100 * s >= SuccessPercent * n THEN "closed" ELSE "open"
  ELSE IF ~ReopenImmediately /\ n >= MaxProbes THEN "open"
  ELSE "half-open"

-----------------------------------------------------------------------------
(* Pieces of the locked sections *)

(* signalLocked, for all callers. *)
Signal == caller' = [c \in Callers |-> IF caller[c] = "waiting" THEN "woken" ELSE caller[c]]

(* generation++ *)
Stale(ps) == [p \in Permits |-> [ps[p] EXCEPT !.current = FALSE]]

(* The sample takes no more probes. *)
Full(n) == n >= MaxProbes

(* A new half-open sample. *)
NewSample == active' = 0 /\ completed' = 0 /\ successes' = 0 /\ probes' = {}

(* belongsToCurrentHalfOpenLocked *)
IsProbe(p) == permit[p].state = "half-open" /\ permit[p].current /\ state = "half-open"

(* transitionLocked, closeLocked and openLocked, when the permits are ps. *)
Transition(s, ps) ==
  /\ state' = s
  /\ permit' = Stale(ps)
  /\ NewSample
  /\ Signal
  /\ IF s = "closed" THEN window' = <<>> /\ consecutive' = 0
     ELSE UNCHANGED <<window, consecutive>>

(* releaseHalfOpenLocked for the permits of D, which are registered. *)
ReleaseProbes(D) ==
  /\ probes' = probes \ D
  /\ active' = active - Cardinality(D)
  /\ IF D = {} THEN UNCHANGED caller ELSE Signal

-----------------------------------------------------------------------------
(* Acquire *)

New(s, recording, execution) ==
  [status |-> "active", state |-> s, current |-> TRUE,
   recording |-> recording, execution |-> execution, total |-> 0]

Calls(c) == caller[c] \in {"idle", "woken"}
Returns(c) == caller' = [caller EXCEPT ![c] = "idle"]

(* The mode rejects, or a woken caller is past its deadline or cancelled. *)
Refuse(c) ==
  /\ Calls(c)
  /\ mode \in {"force-open", "isolated"} \/ caller[c] = "woken"
  /\ Returns(c)
  /\ UNCHANGED <<health, permit>>

(* A caller that waits is cancelled, or its timer fires. *)
GiveUp(c) == caller[c] = "waiting" /\ Returns(c) /\ UNCHANGED <<health, permit>>

AcquireDisabled(c, p, execution) ==
  /\ Calls(c) /\ mode = "disabled" /\ permit[p].status = "none"
  /\ permit' = [permit EXCEPT ![p] = New(state, FALSE, execution)]
  /\ Returns(c)
  /\ UNCHANGED health

AcquireClosed(c, p, execution) ==
  /\ Calls(c) /\ mode = "normal" /\ state = "closed" /\ permit[p].status = "none"
  /\ permit' = [permit EXCEPT ![p] = New("closed", TRUE, execution)]
  /\ Returns(c)
  /\ UNCHANGED health

(* Open: rejected before nextProbeAt; after it, the breaker turns half-open    *)
(* and the caller is the first probe.                                          *)
AcquireOpen(c, p, execution) ==
  /\ Calls(c) /\ mode = "normal" /\ state = "open"
  /\ \/ Returns(c) /\ UNCHANGED <<health, permit>>
     \/ /\ permit[p].status = "none"
        /\ state' = "half-open"
        /\ active' = 1 /\ completed' = 0 /\ successes' = 0 /\ probes' = {p}
        /\ permit' = [Stale(permit) EXCEPT ![p] = New("half-open", TRUE, execution)]
        /\ caller' = [d \in Callers |-> IF d = c THEN "idle"
                                         ELSE IF caller[d] = "waiting" THEN "woken" ELSE caller[d]]
        /\ UNCHANGED <<mode, window, consecutive>>

(* Half-open: expired probes D are released first; then the caller is admitted, *)
(* rejected or made to wait.                                                    *)
AcquireHalfOpen(c, p, execution) ==
  /\ Calls(c) /\ mode = "normal" /\ state = "half-open"
  /\ \E D \in IF "late" \in Uses THEN SUBSET probes ELSE {{}} :
       LET left    == active - Cardinality(D)
           expired == [q \in Permits |-> IF q \in D THEN [permit[q] EXCEPT !.status = "expired"]
                                         ELSE permit[q]]
           full    == Full(completed + left)
       IN /\ full \/ permit[p].status = "none"
          /\ IF full THEN active' = left /\ probes' = probes \ D /\ permit' = expired
             ELSE /\ active' = left + 1
                  /\ probes' = (probes \ D) \cup {p}
                  /\ permit' = [expired EXCEPT ![p] = New("half-open", TRUE, execution)]
          /\ caller' = [d \in Callers |->
               IF d = c THEN IF full /\ WaitForProbe THEN "waiting" ELSE "idle"
               ELSE IF D # {} /\ caller[d] = "waiting" THEN "woken" ELSE caller[d]]
  /\ UNCHANGED <<state, mode, window, consecutive, completed, successes>>

-----------------------------------------------------------------------------
(* Permits: any call, at any time, by whoever holds the permit. *)

Has(p) == permit[p].status # "none"

(* The call runs after the permit's deadline. *)
Expires(p) ==
  /\ permit[p].status = "active" /\ "late" \in Uses
  /\ permit' = [permit EXCEPT ![p].status = "expired"]
  /\ ReleaseProbes(IF IsProbe(p) THEN {p} \cap probes ELSE {})
  /\ UNCHANGED <<state, mode, window, consecutive, completed, successes>>

(* Complete, or the end of Execute, past the deadline of a two-step permit. *)
CompleteLate(p) == ~permit[p].execution /\ Expires(p)

Completed(p) ==
  LET x == permit[p]
  IN [permit EXCEPT ![p] =
        [status |-> "completed", state |-> x.state, current |-> x.current,
         recording |-> x.recording, execution |-> x.execution, total |-> x.total + 1]]

(* An execution whose probe was reclaimed still counts once. *)
CompleteExpired(p) ==
  /\ permit[p].status = "expired" /\ permit[p].execution
  /\ permit' = Completed(p)
  /\ UNCHANGED <<health, caller>>

(* Disabled permits and permits of another state or generation. *)
CompleteStale(p) ==
  /\ permit[p].status = "active"
  /\ ~permit[p].recording \/ ~permit[p].current \/ permit[p].state # state
  /\ permit' = Completed(p)
  /\ probes' = IF IsProbe(p) THEN probes \ {p} ELSE probes
  /\ UNCHANGED <<state, mode, window, consecutive, active, completed, successes, caller>>

(* Variant: the generation is not compared. *)
RecordedAnyGeneration(p) == permit[p].status = "active" /\ permit[p].recording
                            /\ permit[p].state = state

Recorded(p) == permit[p].status = "active" /\ permit[p].recording
               /\ permit[p].current /\ permit[p].state = state

(* Variant: the rule is evaluated before the outcome is added. *)
CompleteClosedBefore(p, o) ==
  LET w == IF o = "ignored" THEN window ELSE Add(window, o)
  IN /\ Recorded(p) /\ state = "closed"
     /\ window' = w /\ consecutive' = Streak(o)
     /\ IF Opening(window, consecutive)
        THEN state' = "open" /\ permit' = Stale(Completed(p)) /\ NewSample /\ Signal
        ELSE permit' = Completed(p) /\ UNCHANGED <<state, active, completed, successes, probes, caller>>
     /\ UNCHANGED mode

(* Closed: the outcome enters the window and may open the breaker. *)
CompleteClosed(p, o) ==
  LET w == IF o = "ignored" THEN window ELSE Add(window, o)
  IN /\ Recorded(p) /\ state = "closed"
     /\ window' = w /\ consecutive' = Streak(o)
     /\ IF Opening(w, Streak(o))
        THEN state' = "open" /\ permit' = Stale(Completed(p)) /\ NewSample /\ Signal
        ELSE permit' = Completed(p) /\ UNCHANGED <<state, active, completed, successes, probes, caller>>
     /\ UNCHANGED mode

(* Variant: capacity comes back without a signal. *)
CompleteProbeSilent(p, o) ==
  /\ Recorded(p) /\ state = "half-open" /\ o = "ignored"
  /\ probes' = probes \ {p} /\ active' = active - 1
  /\ permit' = Completed(p)
  /\ UNCHANGED <<state, mode, window, consecutive, completed, successes, caller>>

(* Half-open: the probe joins the sample, which may close or open the breaker. *)
CompleteProbe(p, o) ==
  LET n    == IF o = "ignored" THEN completed ELSE completed + 1
      s    == IF o = "success" THEN successes + 1 ELSE successes
      next == IF o = "ignored" THEN "half-open"
              ELSE IF o = "failure" /\ ReopenImmediately THEN "open"
              ELSE SampleEnds(n, s)
  IN /\ Recorded(p) /\ state = "half-open"
     /\ IF next # "half-open" THEN Transition(next, Completed(p)) /\ UNCHANGED mode
        ELSE /\ probes' = probes \ {p} /\ active' = active - 1
             /\ completed' = n /\ successes' = s
             /\ permit' = Completed(p)
             /\ Signal
             /\ UNCHANGED <<state, mode, window, consecutive>>

(* Variant: cancelling forgets that the permit is a probe. *)
CancelKeepsProbe(p) ==
  /\ permit[p].status = "active" /\ "cancel" \in Uses
  /\ permit' = [permit EXCEPT ![p].status = "canceled"]
  /\ UNCHANGED <<health, caller>>

Cancel(p) ==
  /\ permit[p].status = "active" /\ "cancel" \in Uses
  /\ permit' = [permit EXCEPT ![p].status = "canceled"]
  /\ ReleaseProbes(IF IsProbe(p) THEN {p} \cap probes ELSE {})
  /\ UNCHANGED <<state, mode, window, consecutive, completed, successes>>

CancelLate(p) == Expires(p)

(* Snapshot reclaims expired probes. *)
Snapshot ==
  /\ state = "half-open" /\ "late" \in Uses
  /\ \E D \in SUBSET probes \ {{}} :
       /\ ReleaseProbes(D)
       /\ permit' = [q \in Permits |-> IF q \in D THEN [permit[q] EXCEPT !.status = "expired"]
                                       ELSE permit[q]]
  /\ UNCHANGED <<state, mode, window, consecutive, completed, successes>>

(* Nobody refers to the permit any more: its holder dropped it, and it is not  *)
(* a registered probe.                                                         *)
Forget(p) ==
  /\ Has(p) /\ p \notin probes
  /\ permit' = [permit EXCEPT ![p] = NoPermit]
  /\ UNCHANGED <<health, caller>>

-----------------------------------------------------------------------------
(* Administration *)

SetMode(m) ==
  /\ "admin" \in Uses /\ mode # m
  /\ mode' = m
  /\ permit' = Stale(permit)
  /\ NewSample
  /\ Signal
  /\ UNCHANGED <<state, window, consecutive>>

Reset ==
  /\ "reset" \in Uses
  /\ mode' = "normal"
  /\ Transition("closed", permit)

Acquire(c) == \E p \in Permits, x \in BOOLEAN :
                 \/ AcquireDisabled(c, p, x) \/ AcquireClosed(c, p, x)
                 \/ AcquireOpen(c, p, x) \/ AcquireHalfOpen(c, p, x)

Complete(p) == \/ CompleteStale(p) \/ CompleteExpired(p)
               \/ \E o \in Outcomes : CompleteClosed(p, o) \/ CompleteProbe(p, o)

Next == \/ \E c \in Callers : Acquire(c) \/ Refuse(c) \/ GiveUp(c)
        \/ \E p \in Permits : \/ Complete(p) \/ CompleteLate(p)
                              \/ Cancel(p) \/ CancelLate(p) \/ Forget(p)
        \/ \E m \in Modes : SetMode(m)
        \/ Snapshot \/ Reset

Spec == Init /\ [][Next]_vars

(* Callers keep calling, what was admitted completes, dropped permits go away. *)
FairSpec == /\ Spec
            /\ \A c \in Callers : WF_vars(Acquire(c))
            /\ \A p \in Permits : WF_vars(Complete(p)) /\ WF_vars(Forget(p))

-----------------------------------------------------------------------------
(* Properties *)

(* halfOpenPermits is exactly the set of active recording permits of the       *)
(* current half-open generation, and halfOpenActive counts it: no completion,  *)
(* cancellation, expiry or operator action loses or keeps a probe slot.  Every *)
(* permit adds to the lifetime totals once when it ends as completed, never    *)
(* otherwise.                                                                  *)
ProbesExact ==
  /\ TypeOK
  /\ probes = {p \in Permits : permit[p].status = "active" /\ permit[p].recording /\ IsProbe(p)}
  /\ active = Cardinality(probes)
  /\ \A p \in Permits : permit[p].total = IF permit[p].status = "completed" THEN 1 ELSE 0

(* The recovery sample never exceeds MaxProbes (tryAcquireLocked), and one of  *)
(* MaxProbes has been decided (completeHalfOpenLocked).  So a half-open breaker *)
(* has room for another probe or one is under way, and it rejects for ever     *)
(* never, however probes are ignored, cancelled or reclaimed.                  *)
SampleSound == /\ completed + active <= MaxProbes
               /\ state = "half-open" => completed < MaxProbes

(* A closed breaker does not satisfy its opening rule: completeAt evaluates it *)
(* with the outcome just recorded, and nothing else touches the window.        *)
ClosedIsHealthy == state = "closed" => ~Opening(window, consecutive)

(* A caller blocked on the current changed channel still has reason to: the    *)
(* breaker is half-open, in normal mode and the sample is full (signalLocked). *)
NoLostWakeup ==
  (\E c \in Callers : caller[c] = "waiting") =>
     mode = "normal" /\ state = "half-open" /\ completed + active >= MaxProbes

(* A step that ends a permit of another generation or state, or a disabled     *)
(* one, changes no health state (belongsToCurrentStateLocked).                 *)
StaleHarmless ==
  [][\A p \in Permits :
       /\ permit[p].status \in {"active", "expired"}
       /\ permit'[p].status \in {"completed", "canceled", "expired"}
       /\ permit'[p].status # permit[p].status
       /\ ~permit[p].current \/ ~permit[p].recording \/ permit[p].status = "expired"
       => UNCHANGED health]_vars

(* No probe is taken out of the sample without an outcome: cancelled, expired  *)
(* or ignored.                                                                 *)
Undisturbed ==
  state = "half-open" /\ state' = "half-open"
    => Cardinality(probes \ probes') <= completed' - completed

(* Callers that keep calling and operations that end decide every recovery:    *)
(* half-open does not last once the mode is normal and probes end, whatever    *)
(* stale permits, waiting callers and half-filled samples were left behind     *)
(* (tryAcquireLocked, completeHalfOpenLocked).                                 *)
RecoveryDecided ==
  <>[](mode = "normal") /\ <>[][Undisturbed]_vars
     => (state = "half-open" ~> state # "half-open")

-----------------------------------------------------------------------------
(* What makes them inductive *)

(* With ReopenImmediately a sample that goes on has seen successes only. *)
SampleKept == ReopenImmediately => successes = completed

Inductive == /\ ProbesExact /\ SampleSound /\ SampleKept
             /\ ClosedIsHealthy /\ NoLostWakeup
=============================================================================
