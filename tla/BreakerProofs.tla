--------------------------- MODULE BreakerProofs ---------------------------
(***************************************************************************)
(* Proofs about Breaker.tla, for every set of callers, finite set of        *)
(* permits, window, opening rules and half-open policy.  That recoveries    *)
(* are decided (RecoveryDecided) is liveness and stays with TLC.            *)
(***************************************************************************)
EXTENDS Breaker, FiniteSetTheorems, TLAPS

(* The parts of ProbesExact. *)
Live(x)  == x.status = "active" /\ x.recording /\ x.state = "half-open"
ProbeSet == {p \in Permits : Live(permit[p]) /\ permit[p].current /\ state = "half-open"}
Total(x) == x.total = IF x.status = "completed" THEN 1 ELSE 0
Slots    == /\ permit \in [Permits -> PermitRecords]
            /\ \A p \in Permits : Total(permit[p])
            /\ probes = ProbeSet /\ active = Cardinality(probes)

(* Everything TypeOK says besides the permits. *)
Rest == /\ state \in States /\ mode \in Modes
        /\ window \in Seq({"success", "failure"}) /\ Len(window) <= WindowSize
        /\ consecutive \in 0..ConsecutiveFailures
        /\ completed \in Nat /\ successes \in 0..completed
        /\ caller \in [Callers -> {"idle", "waiting", "woken"}]

Calm == SampleSound /\ SampleKept /\ ClosedIsHealthy /\ NoLostWakeup

(* The invariant, in the parts that actions disturb separately, before and   *)
(* after a step.                                                             *)
LEMMA Parts == /\ Inductive <=> Slots /\ Rest /\ Calm
               /\ Inductive' <=> Slots' /\ Rest' /\ Calm'
               /\ Slots => active \in Nat
               /\ Slots' => active' \in Nat
<1>1. ASSUME Slots PROVE active \in Nat /\ probes \in SUBSET Permits
  <2>1. probes \in SUBSET Permits
    BY <1>1 DEF Slots, ProbeSet
  <2>2. IsFiniteSet(probes)
    BY <2>1, BreakerAssumption, FS_Subset
  <2>3. QED
    BY <1>1, <2>1, <2>2, FS_CardinalityType DEF Slots
<1>2. ASSUME Slots' PROVE active' \in Nat /\ probes' \in SUBSET Permits
  <2>1. probes' \in SUBSET Permits
    BY <1>2 DEF Slots, ProbeSet
  <2>2. IsFiniteSet(probes')
    BY <2>1, BreakerAssumption, FS_Subset
  <2>3. QED
    BY <1>2, <2>1, <2>2, FS_CardinalityType DEF Slots
<1>3. {p \in Permits : permit[p].status = "active" /\ permit[p].recording /\ IsProbe(p)} = ProbeSet
  BY DEF ProbeSet, Live, IsProbe
<1>4. {p \in Permits : permit[p].status = "active" /\ permit[p].recording /\ IsProbe(p)}' = ProbeSet'
  BY DEF ProbeSet, Live, IsProbe
<1>5. Inductive <=> Slots /\ Rest /\ Calm
  BY <1>1, <1>3, Zenon DEF Inductive, ProbesExact, TypeOK, Slots, Total, Rest, Calm
<1>6. Inductive' <=> Slots' /\ Rest' /\ Calm'
  BY <1>2, <1>4, Zenon DEF Inductive, ProbesExact, TypeOK, Slots, Total, Rest, Calm
<1> QED
  BY <1>1, <1>2, <1>5, <1>6

(* Taking registered probes out of the sample. *)
LEMMA Fewer ==
  ASSUME Slots, NEW D \in SUBSET probes
  PROVE  /\ IsFiniteSet(probes) /\ IsFiniteSet(probes \ D)
         /\ active \in Nat /\ Cardinality(D) \in 0..active
         /\ Cardinality(probes \ D) = active - Cardinality(D)
         /\ D = {} <=> Cardinality(D) = 0
<1>1. probes \in SUBSET Permits /\ active = Cardinality(probes)
  BY DEF Slots, ProbeSet
<1>2. IsFiniteSet(probes)
  BY <1>1, BreakerAssumption, FS_Subset
<1>3. IsFiniteSet(D) /\ Cardinality(D) <= Cardinality(probes)
  BY <1>2, FS_Subset
<1>4. Cardinality(D) \in Nat /\ Cardinality(probes) \in Nat
  BY <1>2, <1>3, FS_CardinalityType
<1>5. IsFiniteSet(probes \ D) /\ Cardinality(probes \ D) = Cardinality(probes) - Cardinality(probes \cap D)
  BY <1>2, FS_Difference
<1>6. probes \cap D = D
  OBVIOUS
<1>7. D = {} <=> Cardinality(D) = 0
  BY <1>3, FS_EmptySet
<1> QED
  BY <1>1, <1>2, <1>3, <1>4, <1>5, <1>6, <1>7

(* The slots after a step that ends the probes of D, and otherwise changes   *)
(* permits that are no probes into others that are none.                    *)
LEMMA Released ==
  ASSUME Slots, NEW D \in SUBSET probes, probes' = probes \ D,
         active' = active - Cardinality(D), state' = state,
         permit' \in [Permits -> PermitRecords],
         \A p \in Permits : Total(permit'[p]),
         \A p \in D : permit'[p].status # "active",
         \A p \in Permits \ D : \/ permit'[p] = permit[p]
                                \/ p \notin probes /\ ~Live(permit'[p])
  PROVE  Slots'
<1>1. probes' = ProbeSet'
  <2>1. probes = ProbeSet
    BY DEF Slots
  <2>2. ASSUME NEW p \in Permits PROVE p \in probes' <=> p \in ProbeSet'
    <3>1. CASE p \in D
      BY <3>1 DEF ProbeSet, Live
    <3>2. CASE p \notin D /\ permit'[p] = permit[p]
      BY <2>1, <3>2 DEF ProbeSet, Live
    <3>3. CASE p \notin D /\ p \notin probes /\ ~Live(permit'[p])
      BY <3>3 DEF ProbeSet
    <3> QED
      BY <3>1, <3>2, <3>3
  <2>3. probes' \subseteq Permits /\ ProbeSet' \subseteq Permits
    BY <2>1 DEF ProbeSet
  <2> QED
    BY <2>2, <2>3
<1>2. active' = Cardinality(probes')
  BY Fewer, Zenon
<1> QED
  BY <1>1, <1>2 DEF Slots

(* The slots after a step that starts a generation without probes. *)
LEMMA Restarted ==
  ASSUME NEW ps \in [Permits -> PermitRecords], \A p \in Permits : Total(ps[p]),
         permit' = Stale(ps), NewSample
  PROVE  Slots' /\ completed' = 0 /\ successes' = 0 /\ active' = 0
<1>1. permit' \in [Permits -> PermitRecords]
  BY Zenon DEF Stale, PermitRecords
<1>2. \A p \in Permits : Total(permit'[p]) /\ ~permit'[p].current
  BY DEF Stale, PermitRecords, Total
<1>3. probes' = ProbeSet'
  BY <1>2 DEF ProbeSet, NewSample
<1>4. active' = Cardinality(probes')
  BY FS_EmptySet DEF NewSample
<1> QED
  BY <1>1, <1>2, <1>3, <1>4 DEF Slots, NewSample

(* Nobody is blocked after a signal. *)
LEMMA Signalled ==
  ASSUME Rest, Signal
  PROVE  /\ caller' \in [Callers -> {"idle", "waiting", "woken"}]
         /\ NoLostWakeup'
BY DEF Rest, Signal, NoLostWakeup

(* A sample of size zero, in a breaker whose window is healthy if it closes. *)
LEMMA Emptied ==
  ASSUME completed' = 0, successes' = 0, active' = 0
  PROVE  SampleSound' /\ SampleKept'
BY BreakerAssumption DEF SampleSound, SampleKept

(* An empty window opens nothing. *)
LEMMA EmptyWindow == ~Opening(<<>>, 0)
<1>1. ~(Len(<<>>) >= MinimumThroughput)
  BY BreakerAssumption
<1> QED
  BY <1>1, Zenon DEF Opening

(* transitionLocked keeps the invariant. *)
LEMMA TransitionPreserves ==
  ASSUME Slots, Rest, NEW s \in States, NEW ps \in [Permits -> PermitRecords],
         \A p \in Permits : Total(ps[p]), mode' \in Modes, Transition(s, ps)
  PROVE  Inductive'
<1>1. Slots' /\ completed' = 0 /\ successes' = 0 /\ active' = 0
  BY Restarted DEF Transition
<1>2. caller' \in [Callers -> {"idle", "waiting", "woken"}] /\ NoLostWakeup'
  BY Signalled DEF Transition
<1>3. /\ window' \in Seq({"success", "failure"}) /\ Len(window') <= WindowSize
      /\ consecutive' \in 0..ConsecutiveFailures
      /\ s = "closed" => window' = <<>> /\ consecutive' = 0
  <2>1. CASE s = "closed"
    BY <2>1, BreakerAssumption DEF Transition
  <2>2. CASE s # "closed"
    BY <2>2 DEF Transition, Rest
  <2> QED
    BY <2>1, <2>2
<1>4. ClosedIsHealthy'
  BY <1>3, EmptyWindow DEF ClosedIsHealthy, Transition
<1>5. Rest'
  BY <1>1, <1>2, <1>3 DEF Rest, Transition
<1> QED
  BY <1>1, <1>2, <1>4, <1>5, Emptied, Parts DEF Calm

(* A smaller summand, a smaller sum. *)
LEMMA Smaller == \A a, b, c, m \in Nat : c + a <= m /\ b <= a => c + b <= m
OBVIOUS

(* What stays when neither the state nor the window changes, the sample does *)
(* not grow and whoever is still blocked was blocked on the same sample.     *)
LEMMA Kept ==
  ASSUME Slots, Rest, Calm, Slots', UNCHANGED <<state, mode, window, consecutive>>,
         UNCHANGED <<completed, successes>>,
         caller' \in [Callers -> {"idle", "waiting", "woken"}],
         active' <= active,
         active' = active \/ \A c \in Callers : caller'[c] # "waiting",
         \A c \in Callers : caller'[c] = "waiting" => caller[c] = "waiting"
  PROVE  Inductive'
<1>1. active \in Nat /\ active' \in Nat
  BY Parts
<1>2. Rest'
  BY DEF Rest
<1>3. SampleSound'
  <2>1. completed \in Nat /\ completed' = completed /\ state' = state /\ MaxProbes \in Nat
    BY BreakerAssumption DEF Rest
  <2>2. completed + active <= MaxProbes /\ (state = "half-open" => completed < MaxProbes)
    BY DEF Calm, SampleSound
  <2>3. completed + active' <= MaxProbes
    BY <1>1, <2>1, <2>2, Smaller, Zenon
  <2> QED
    BY <2>1, <2>2, <2>3 DEF SampleSound
<1>s. SampleKept'
  BY DEF Calm, SampleKept
<1>4. ClosedIsHealthy'
  BY DEF Calm, ClosedIsHealthy
<1>5. NoLostWakeup'
  <2>1. CASE \A c \in Callers : caller'[c] # "waiting"
    BY <2>1 DEF NoLostWakeup
  <2>2. CASE active' = active
    BY <2>2 DEF Calm, NoLostWakeup
  <2> QED
    BY <2>1, <2>2
<1> QED
  BY <1>2, <1>3, <1>s, <1>4, <1>5, Parts DEF Calm

(* ReleaseProbes, with permits that end as Released asks. *)
LEMMA ReleasePreserves ==
  ASSUME Slots, Rest, Calm, NEW D \in SUBSET probes, ReleaseProbes(D),
         UNCHANGED <<state, mode, window, consecutive, completed, successes>>,
         permit' \in [Permits -> PermitRecords],
         \A p \in Permits : Total(permit'[p]),
         \A p \in D : permit'[p].status # "active",
         \A p \in Permits \ D : \/ permit'[p] = permit[p]
                                \/ p \notin probes /\ ~Live(permit'[p])
  PROVE  Inductive'
<1>1. Slots'
  BY Released DEF ReleaseProbes
<1>2. active' <= active /\ (D = {} => active' = active)
  BY Fewer DEF ReleaseProbes
<1>3. CASE D = {}
  BY <1>1, <1>2, <1>3, Kept DEF ReleaseProbes, Rest
<1>4. CASE D # {}
  <2>1. caller' \in [Callers -> {"idle", "waiting", "woken"}]
    BY <1>4, Signalled DEF ReleaseProbes
  <2>2. \A c \in Callers : caller'[c] # "waiting"
    BY <1>4 DEF ReleaseProbes, Signal, Rest
  <2> QED
    BY <1>1, <1>2, <2>1, <2>2, Kept
<1> QED
  BY <1>3, <1>4

(* A step that only ends or changes permits that are no probes. *)
LEMMA NoProbePreserves ==
  ASSUME Slots, Rest, Calm, UNCHANGED health,
         caller' \in [Callers -> {"idle", "waiting", "woken"}],
         \A c \in Callers : caller'[c] = "waiting" => caller[c] = "waiting",
         permit' \in [Permits -> PermitRecords],
         \A p \in Permits : Total(permit'[p]),
         \A p \in Permits : \/ permit'[p] = permit[p]
                            \/ p \notin probes /\ ~Live(permit'[p])
  PROVE  Inductive'
<1>1. active \in Nat
  BY Parts
<1>2. Cardinality({}) = 0 /\ {} \in SUBSET probes
  BY FS_EmptySet
<1>3. Slots'
  BY <1>1, <1>2, Released DEF health
<1> QED
  BY <1>1, <1>3, Kept DEF health

(* The permit a caller is given. *)
LEMMA NewFacts ==
  ASSUME NEW s \in States, NEW r \in BOOLEAN, NEW x \in BOOLEAN
  PROVE  /\ New(s, r, x) \in PermitRecords /\ Total(New(s, r, x))
         /\ New(s, r, x).current
         /\ Live(New(s, r, x)) <=> r /\ s = "half-open"
BY DEF New, PermitRecords, Statuses, Total, Live

(* tryAcquireLocked in disabled mode and in a closed breaker: the new permit *)
(* is no probe.                                                             *)
LEMMA AcquirePlainPreserves ==
  ASSUME Slots, Rest, Calm, NEW c \in Callers, NEW p \in Permits, NEW x \in BOOLEAN,
         AcquireDisabled(c, p, x) \/ AcquireClosed(c, p, x)
  PROVE  Inductive'
<1>1. \E r \in BOOLEAN, s \in States :
         /\ permit' = [permit EXCEPT ![p] = New(s, r, x)]
         /\ ~r \/ s = "closed"
  BY Zenon DEF AcquireDisabled, AcquireClosed, Rest, States
<1>2. PICK r \in BOOLEAN, s \in States : /\ permit' = [permit EXCEPT ![p] = New(s, r, x)]
                                         /\ ~r \/ s = "closed"
  BY <1>1, Zenon
<1>3. permit[p].status = "none" /\ UNCHANGED health /\ Returns(c)
  BY Zenon DEF AcquireDisabled, AcquireClosed
<1>4. New(s, r, x) \in PermitRecords /\ Total(New(s, r, x)) /\ ~Live(New(s, r, x))
  BY <1>2, NewFacts
<1>5. permit' \in [Permits -> PermitRecords] /\ \A q \in Permits : Total(permit'[q])
  BY <1>2, <1>4 DEF Slots
<1>6. p \notin probes
  BY <1>3 DEF Slots, ProbeSet, Live
<1>7. \A q \in Permits : permit'[q] = permit[q] \/ (q \notin probes /\ ~Live(permit'[q]))
  BY <1>2, <1>4, <1>6 DEF Slots
<1>8. /\ caller' \in [Callers -> {"idle", "waiting", "woken"}]
      /\ \A d \in Callers : caller'[d] = "waiting" => caller[d] = "waiting"
  BY <1>3 DEF Returns, Rest
<1> QED
  BY <1>3, <1>5, <1>7, <1>8, NoProbePreserves

(* tryAcquireLocked in an open breaker: rejected, or the first probe. *)
LEMMA AcquireOpenPreserves ==
  ASSUME Slots, Rest, Calm, NEW c \in Callers, NEW p \in Permits, NEW x \in BOOLEAN,
         AcquireOpen(c, p, x)
  PROVE  Inductive'
<1>1. CASE Returns(c) /\ UNCHANGED <<health, permit>>
  <2>1. /\ caller' \in [Callers -> {"idle", "waiting", "woken"}]
        /\ \A d \in Callers : caller'[d] = "waiting" => caller[d] = "waiting"
    BY <1>1 DEF Returns, Rest
  <2> QED
    BY <1>1, <2>1, NoProbePreserves DEF Slots
<1>2. CASE /\ state' = "half-open"
           /\ active' = 1 /\ completed' = 0 /\ successes' = 0 /\ probes' = {p}
           /\ permit' = [Stale(permit) EXCEPT ![p] = New("half-open", TRUE, x)]
           /\ caller' = [d \in Callers |-> IF d = c THEN "idle"
                             ELSE IF caller[d] = "waiting" THEN "woken" ELSE caller[d]]
           /\ UNCHANGED <<mode, window, consecutive>>
  <2>1. /\ New("half-open", TRUE, x) \in PermitRecords
        /\ Total(New("half-open", TRUE, x))
        /\ Live(New("half-open", TRUE, x)) /\ New("half-open", TRUE, x).current
    BY NewFacts, Zenon DEF States
  <2>2. /\ Stale(permit) \in [Permits -> PermitRecords]
        /\ \A q \in Permits : Total(Stale(permit)[q]) /\ ~Stale(permit)[q].current
    BY Zenon DEF Stale, PermitRecords, Total, Slots
  <2>3. permit' \in [Permits -> PermitRecords] /\ \A q \in Permits : Total(permit'[q])
    BY <1>2, <2>1, <2>2, Zenon
  <2>4. probes' = ProbeSet'
    BY <1>2, <2>1, <2>2, Zenon DEF ProbeSet
  <2>5. active' = Cardinality(probes')
    BY <1>2, FS_Singleton
  <2>6. Slots'
    BY <2>3, <2>4, <2>5 DEF Slots
  <2>7. Rest' /\ \A d \in Callers : caller'[d] # "waiting"
    BY <1>2 DEF Rest, States
  <2>8. Calm'
    BY <1>2, <2>7, BreakerAssumption
      DEF Calm, SampleSound, SampleKept, ClosedIsHealthy, NoLostWakeup
  <2> QED
    BY <2>6, <2>7, <2>8, Parts
<1> QED
  BY <1>1, <1>2, Zenon DEF AcquireOpen

(* Expiring the probes of D. *)
LEMMA ExpiredPermits ==
  ASSUME Slots, NEW D \in SUBSET probes, NEW ps,
         ps = [q \in Permits |-> IF q \in D THEN [permit[q] EXCEPT !.status = "expired"]
                                 ELSE permit[q]]
  PROVE  /\ ps \in [Permits -> PermitRecords]
         /\ \A q \in Permits : Total(ps[q])
         /\ \A q \in D : ps[q].status = "expired"
         /\ \A q \in Permits \ D : ps[q] = permit[q]
<1>1. D \subseteq Permits /\ \A q \in D : permit[q].status = "active"
  BY DEF Slots, ProbeSet, Live
<1>2. ASSUME NEW q \in D
      PROVE  /\ [permit[q] EXCEPT !.status = "expired"] \in PermitRecords
             /\ Total([permit[q] EXCEPT !.status = "expired"])
             /\ [permit[q] EXCEPT !.status = "expired"].status = "expired"
  BY <1>1 DEF Slots, PermitRecords, Statuses, Total
<1> QED
  BY <1>1, <1>2 DEF Slots

(* tryAcquireLocked in a half-open breaker. *)
LEMMA AcquireHalfOpenPreserves ==
  ASSUME Slots, Rest, Calm, NEW c \in Callers, NEW p \in Permits, NEW x \in BOOLEAN,
         AcquireHalfOpen(c, p, x)
  PROVE  Inductive'
<1> DEFINE Exp(D) == [q \in Permits |-> IF q \in D THEN [permit[q] EXCEPT !.status = "expired"]
                                        ELSE permit[q]]
           FullIf(D) == Full(completed + (active - Cardinality(D)))
<1>1. PICK D \in SUBSET probes :
        /\ FullIf(D) \/ permit[p].status = "none"
        /\ IF FullIf(D)
           THEN active' = active - Cardinality(D) /\ probes' = probes \ D /\ permit' = Exp(D)
           ELSE /\ active' = (active - Cardinality(D)) + 1
                /\ probes' = (probes \ D) \cup {p}
                /\ permit' = [Exp(D) EXCEPT ![p] = New("half-open", TRUE, x)]
        /\ caller' = [d \in Callers |->
             IF d = c THEN IF FullIf(D) /\ WaitForProbe THEN "waiting" ELSE "idle"
             ELSE IF D # {} /\ caller[d] = "waiting" THEN "woken" ELSE caller[d]]
  BY Zenon DEF AcquireHalfOpen
<1>2. /\ mode = "normal" /\ state = "half-open"
      /\ UNCHANGED <<state, mode, window, consecutive, completed, successes>>
  BY DEF AcquireHalfOpen
<1>3. /\ Exp(D) \in [Permits -> PermitRecords]
      /\ \A q \in Permits : Total(Exp(D)[q])
      /\ \A q \in D : Exp(D)[q].status = "expired"
      /\ \A q \in Permits \ D : Exp(D)[q] = permit[q]
  BY ExpiredPermits, Zenon
<1>4. /\ active \in Nat /\ Cardinality(D) \in 0..active
      /\ Cardinality(probes \ D) = active - Cardinality(D) /\ IsFiniteSet(probes \ D)
      /\ D = {} <=> Cardinality(D) = 0
  BY Fewer, Zenon
<1>5. /\ caller' \in [Callers -> {"idle", "waiting", "woken"}]
      /\ \A d \in Callers : caller'[d] = "waiting" => \/ FullIf(D)
                                                      \/ D = {} /\ caller[d] = "waiting"
  BY <1>1 DEF Rest
<1>6. Rest' /\ ClosedIsHealthy' /\ SampleKept'
  BY <1>2, <1>5 DEF Rest, Calm, ClosedIsHealthy, SampleKept
<1>7. completed \in Nat /\ MaxProbes \in Nat /\ completed < MaxProbes
  BY <1>2, BreakerAssumption DEF Rest, Calm, SampleSound
<1>8. CASE FullIf(D)
  <2>1. active' = active - Cardinality(D) /\ probes' = probes \ D /\ permit' = Exp(D)
    BY <1>1, <1>8
  <2>2. Slots'
    BY <1>2, <1>3, <2>1, Released
  <2>3. SampleSound'
    BY <1>2, <1>4, <1>7, <2>1, BreakerAssumption DEF Calm, SampleSound
  <2>4. NoLostWakeup'
    BY <1>2, <1>4, <1>7, <1>8, <2>1 DEF NoLostWakeup, Full
  <2> QED
    BY <1>6, <2>2, <2>3, <2>4, Parts DEF Calm
<1>9. CASE ~FullIf(D)
  <2> DEFINE n == New("half-open", TRUE, x)
  <2>1. /\ active' = (active - Cardinality(D)) + 1 /\ probes' = (probes \ D) \cup {p}
        /\ permit' = [Exp(D) EXCEPT ![p] = n] /\ permit[p].status = "none"
    BY <1>1, <1>9
  <2>2. /\ n \in PermitRecords /\ Total(n) /\ Live(n) /\ n.current
    BY NewFacts, Zenon DEF States
  <2>3. p \notin probes
    BY <2>1 DEF Slots, ProbeSet, Live
  <2>4. /\ permit' \in [Permits -> PermitRecords] /\ \A q \in Permits : Total(permit'[q])
        /\ permit'[p] = n /\ \A q \in Permits \ {p} : permit'[q] = Exp(D)[q]
    BY ONLY <1>3, <2>1, <2>2, p \in Permits, Zenon
  <2>5. probes' = ProbeSet'
    <3>1. probes = ProbeSet /\ probes \subseteq Permits
      BY DEF Slots, ProbeSet
    <3>2. ASSUME NEW q \in Permits PROVE q \in probes' <=> q \in ProbeSet'
      <4>1. CASE q = p
        BY <1>2, <2>1, <2>2, <2>4, <4>1, Zenon DEF ProbeSet
      <4>2. CASE q # p /\ q \in D
        <5>1. permit'[q].status = "expired"
          BY <1>3, <2>4, <4>2, Zenon
        <5> QED
          BY <2>1, <4>2, <5>1 DEF ProbeSet, Live
      <4>3. CASE q # p /\ q \notin D
        <5>1. permit'[q] = permit[q]
          BY <1>3, <2>4, <4>3
        <5> QED
          BY <1>2, <2>1, <3>1, <4>3, <5>1 DEF ProbeSet
      <4> QED
        BY <4>1, <4>2, <4>3
    <3>3. probes' \subseteq Permits /\ ProbeSet' \subseteq Permits
      BY <2>1, <3>1, Zenon DEF ProbeSet
    <3> QED
      BY <3>2, <3>3
  <2>6. active' = Cardinality(probes')
    BY <1>4, <2>1, <2>3, FS_AddElement, Zenon
  <2>7. Slots'
    BY <2>4, <2>5, <2>6 DEF Slots
  <2>8. SampleSound'
    BY <1>2, <1>4, <1>7, <1>9, <2>1 DEF SampleSound, Full
  <2>9. NoLostWakeup'
    <3>1. D = {} => ~(\E d \in Callers : caller[d] = "waiting")
      BY <1>4, <1>7, <1>9 DEF Calm, NoLostWakeup, Full
    <3> QED
      BY <1>5, <1>9, <3>1 DEF NoLostWakeup
  <2> QED
    BY <1>6, <2>7, <2>8, <2>9, Parts DEF Calm
<1> QED
  BY <1>8, <1>9

(* A permit that ends without an outcome. *)
LEMMA DroppedPermit ==
  ASSUME Slots, NEW p \in Permits, NEW t \in {"canceled", "expired"},
         permit[p].status = "active", permit' = [permit EXCEPT ![p].status = t]
  PROVE  /\ permit' \in [Permits -> PermitRecords]
         /\ \A q \in Permits : Total(permit'[q])
         /\ permit'[p].status = t /\ \A q \in Permits \ {p} : permit'[q] = permit[q]
<1>1. permit[p] \in PermitRecords /\ permit[p].total = 0
  BY DEF Slots, Total
<1>2. permit' = [permit EXCEPT ![p] = [permit[p] EXCEPT !.status = t]]
  BY <1>1 DEF Slots
<1>3. /\ [permit[p] EXCEPT !.status = t] \in PermitRecords
      /\ Total([permit[p] EXCEPT !.status = t])
      /\ [permit[p] EXCEPT !.status = t].status = t
  BY <1>1 DEF PermitRecords, Statuses, Total
<1> QED
  BY <1>2, <1>3 DEF Slots

(* A permit that adds its outcome to the totals. *)
LEMMA CompletedPermit ==
  ASSUME Slots, NEW p \in Permits, permit[p].status # "completed"
  PROVE  /\ Completed(p) \in [Permits -> PermitRecords]
         /\ \A q \in Permits : Total(Completed(p)[q])
         /\ Completed(p)[p].status = "completed"
         /\ \A q \in Permits \ {p} : Completed(p)[q] = permit[q]
<1> DEFINE x == permit[p]
           r == [status |-> "completed", state |-> x.state, current |-> x.current,
                 recording |-> x.recording, execution |-> x.execution, total |-> x.total + 1]
<1>1. x \in PermitRecords /\ x.total = 0
  BY DEF Slots, Total
<1>2. r \in PermitRecords /\ r.status = "completed" /\ r.total = 1
  BY <1>1 DEF PermitRecords, Statuses
<1>3. Total(r)
  BY <1>2 DEF Total
<1>4. Completed(p) = [permit EXCEPT ![p] = r]
  BY DEF Completed
<1> HIDE DEF r
<1> QED
  BY <1>2, <1>3, <1>4 DEF Slots

(* Cancel, and every call that comes after the permit's deadline. *)
LEMMA DropPreserves ==
  ASSUME Slots, Rest, Calm, NEW p \in Permits, Cancel(p) \/ Expires(p)
  PROVE  Inductive'
<1>1. PICK t \in {"canceled", "expired"} : permit' = [permit EXCEPT ![p].status = t]
  BY DEF Cancel, Expires
<1>2. /\ permit[p].status = "active"
      /\ ReleaseProbes(IF IsProbe(p) THEN {p} \cap probes ELSE {})
      /\ UNCHANGED <<state, mode, window, consecutive, completed, successes>>
  BY DEF Cancel, Expires
<1>3. /\ permit' \in [Permits -> PermitRecords] /\ \A q \in Permits : Total(permit'[q])
      /\ permit'[p].status = t /\ \A q \in Permits \ {p} : permit'[q] = permit[q]
  BY <1>1, <1>2, DroppedPermit, Zenon
<1>4. p \in probes => IsProbe(p)
  BY DEF Slots, ProbeSet, Live, IsProbe
<1>5. (IF IsProbe(p) THEN {p} \cap probes ELSE {}) = {p} \cap probes
  BY <1>4
<1>6. ReleaseProbes({p} \cap probes)
  BY <1>2, <1>5
<1>7. ~Live(permit'[p])
  BY <1>3 DEF Live
<1> QED
  BY <1>2, <1>3, <1>6, <1>7, ReleasePreserves

(* Complete for a permit that no longer counts: disabled, of another state   *)
(* or generation, or reclaimed.                                             *)
LEMMA CompletePlainPreserves ==
  ASSUME Slots, Rest, Calm, NEW p \in Permits, CompleteStale(p) \/ CompleteExpired(p)
  PROVE  Inductive'
<1>1. p \notin probes
  BY DEF CompleteStale, CompleteExpired, Slots, ProbeSet, Live
<1>2. permit[p].status # "completed" /\ UNCHANGED <<health, caller>>
  BY <1>1 DEF CompleteStale, CompleteExpired, health
<1>3. permit' = Completed(p)
  BY DEF CompleteStale, CompleteExpired
<1>4. /\ permit' \in [Permits -> PermitRecords] /\ \A q \in Permits : Total(permit'[q])
      /\ permit'[p].status = "completed" /\ \A q \in Permits \ {p} : permit'[q] = permit[q]
  BY <1>2, <1>3, CompletedPermit
<1>5. ~Live(permit'[p])
  BY <1>4 DEF Live
<1> QED
  BY <1>1, <1>2, <1>4, <1>5, NoProbePreserves DEF Rest

(* Complete in a closed breaker: the window and the streak stay in bounds,   *)
(* and the rule has been evaluated with them.                               *)
LEMMA CompleteClosedPreserves ==
  ASSUME Slots, Rest, Calm, NEW p \in Permits, NEW o \in Outcomes, CompleteClosed(p, o)
  PROVE  Inductive'
<1> DEFINE w == IF o = "ignored" THEN window ELSE Add(window, o)
<1>1. o \in {"success", "failure", "ignored"}
  BY BreakerAssumption
<1>2. /\ Recorded(p) /\ state = "closed" /\ window' = w /\ consecutive' = Streak(o)
      /\ mode' = mode
  BY DEF CompleteClosed
<1>3. w \in Seq({"success", "failure"}) /\ Len(w) <= WindowSize
  <2>1. CASE o = "ignored"
    BY <2>1 DEF Rest
  <2>2. CASE o # "ignored" /\ Len(window) = WindowSize
    <3>1. window # <<>> /\ window \in Seq({"success", "failure"})
      BY <2>2, BreakerAssumption DEF Rest
    <3>2. Tail(window) \in Seq({"success", "failure"}) /\ Len(Tail(window)) = Len(window) - 1
      BY <3>1
    <3> QED
      BY <1>1, <2>2, <3>1, <3>2, BreakerAssumption DEF Add
  <2>3. CASE o # "ignored" /\ Len(window) # WindowSize
    BY <1>1, <2>3, BreakerAssumption DEF Add, Rest
  <2> QED
    BY <2>1, <2>2, <2>3
<1>4. Streak(o) \in 0..ConsecutiveFailures
  BY <1>1, BreakerAssumption DEF Streak, Rest
<1>5. /\ Completed(p) \in [Permits -> PermitRecords]
      /\ \A q \in Permits : Total(Completed(p)[q])
      /\ Completed(p)[p].status = "completed"
      /\ \A q \in Permits \ {p} : Completed(p)[q] = permit[q]
  BY <1>2, CompletedPermit DEF Recorded
<1>6. CASE Opening(w, Streak(o))
  <2>1. state' = "open" /\ permit' = Stale(Completed(p)) /\ NewSample /\ Signal
    BY <1>6 DEF CompleteClosed
  <2>2. Slots' /\ completed' = 0 /\ successes' = 0 /\ active' = 0
    BY <1>5, <2>1, Restarted
  <2>3. caller' \in [Callers -> {"idle", "waiting", "woken"}] /\ NoLostWakeup'
    BY <2>1, Signalled
  <2>4. Rest'
    BY <1>2, <1>3, <1>4, <2>1, <2>2, <2>3 DEF Rest, States
  <2>5. ClosedIsHealthy'
    BY <2>1 DEF ClosedIsHealthy
  <2> QED
    BY <2>2, <2>3, <2>4, <2>5, Emptied, Parts DEF Calm
<1>7. CASE ~Opening(w, Streak(o))
  <2>1. /\ permit' = Completed(p)
        /\ UNCHANGED <<state, active, completed, successes, probes, caller>>
    BY <1>7 DEF CompleteClosed
  <2>2. p \notin probes /\ {} \in SUBSET probes /\ probes' = probes \ {}
    BY <1>2, <2>1 DEF Slots, ProbeSet
  <2>3. active' = active - Cardinality({})
    BY <2>1, FS_EmptySet, Parts
  <2>4. ~Live(permit'[p])
    BY <1>5, <2>1 DEF Live
  <2>5. Slots'
    BY <1>5, <2>1, <2>2, <2>3, <2>4, Released
  <2>6. Rest'
    BY <1>2, <1>3, <1>4, <2>1 DEF Rest
  <2>7. ClosedIsHealthy'
    BY <1>2, <1>7 DEF ClosedIsHealthy
  <2>8. SampleSound' /\ SampleKept' /\ NoLostWakeup'
    BY <1>2, <2>1 DEF Calm, SampleSound, SampleKept, NoLostWakeup
  <2> QED
    BY <2>5, <2>6, <2>7, <2>8, Parts DEF Calm
<1> QED
  BY <1>6, <1>7

(* What completeHalfOpenLocked leaves undecided. *)
LEMMA Undecided ==
  ASSUME NEW n, NEW s
  PROVE  /\ SampleEnds(n, s) \in States
         /\ SampleEnds(n, s) = "half-open" =>
              /\ RequiredSuccesses > 0 => ~(s >= RequiredSuccesses)
              /\ SuccessPercent > 0 => ~(n >= MaxProbes)
              /\ ~ReopenImmediately => ~(n >= MaxProbes)
<1> DEFINE enough == 100 * s >= SuccessPercent * n
<1>1. SampleEnds(n, s) =
        IF RequiredSuccesses > 0 /\ s >= RequiredSuccesses THEN "closed"
        ELSE IF SuccessPercent > 0 /\ n >= MaxProbes THEN IF enough THEN "closed" ELSE "open"
        ELSE IF ~ReopenImmediately /\ n >= MaxProbes THEN "open"
        ELSE "half-open"
  BY DEF SampleEnds
<1> HIDE DEF enough
<1> QED
  BY <1>1 DEF States

(* Complete for a probe: its outcome decides the sample or leaves it room. *)
LEMMA CompleteProbePreserves ==
  ASSUME Slots, Rest, Calm, NEW p \in Permits, NEW o \in Outcomes, CompleteProbe(p, o)
  PROVE  Inductive'
<1> DEFINE n    == IF o = "ignored" THEN completed ELSE completed + 1
           s    == IF o = "success" THEN successes + 1 ELSE successes
           next == IF o = "ignored" THEN "half-open"
                   ELSE IF o = "failure" /\ ReopenImmediately THEN "open"
                   ELSE SampleEnds(n, s)
<1>1. o \in {"success", "failure", "ignored"}
  BY BreakerAssumption
<1>2. /\ Recorded(p) /\ state = "half-open"
      /\ IF next # "half-open" THEN Transition(next, Completed(p)) /\ UNCHANGED mode
         ELSE /\ probes' = probes \ {p} /\ active' = active - 1
              /\ completed' = n /\ successes' = s
              /\ permit' = Completed(p)
              /\ Signal
              /\ UNCHANGED <<state, mode, window, consecutive>>
  BY DEF CompleteProbe
<1>3. /\ Completed(p) \in [Permits -> PermitRecords]
      /\ \A q \in Permits : Total(Completed(p)[q])
      /\ Completed(p)[p].status = "completed"
      /\ \A q \in Permits \ {p} : Completed(p)[q] = permit[q]
  BY <1>2, CompletedPermit DEF Recorded
<1>4. CASE next # "half-open"
  <2>1. Transition(next, Completed(p)) /\ mode' = mode
    BY <1>2, <1>4
  <2>2. next \in States
    BY Undecided DEF States
  <2>3. mode' \in Modes
    BY <2>1 DEF Rest
  <2> HIDE DEF next
  <2> QED
    BY <1>3, <2>1, <2>2, <2>3, TransitionPreserves
<1>5. CASE next = "half-open"
  <2>1. /\ probes' = probes \ {p} /\ active' = active - 1
        /\ completed' = n /\ successes' = s /\ permit' = Completed(p) /\ Signal
        /\ UNCHANGED <<state, mode, window, consecutive>>
    BY <1>2, <1>5
  <2>2. p \in probes
    BY <1>2 DEF Recorded, Slots, ProbeSet, Live
  <2>3. Cardinality({p}) = 1 /\ {p} \in SUBSET probes
    BY <2>2, FS_Singleton
  <2>4. active \in Nat /\ 1 <= active
    <3>1. active \in Nat /\ Cardinality({p}) \in 0..active
      BY ONLY Slots, <2>3, Fewer, Zenon
    <3> QED
      BY ONLY <2>3, <3>1
  <2>5. \A q \in {p} : permit'[q].status # "active"
    BY <1>3, <2>1
  <2>6. Slots'
    <3>1. active' = active - Cardinality({p})
      BY <2>1, <2>3
    <3>2. \A q \in Permits \ {p} : permit'[q] = permit[q]
      BY <1>3, <2>1
    <3> QED
      BY <1>3, <2>1, <2>3, <2>5, <3>1, <3>2, Released
  <2>7. caller' \in [Callers -> {"idle", "waiting", "woken"}] /\ NoLostWakeup'
    BY <2>1, Signalled
  <2>8. completed \in Nat /\ successes \in 0..completed /\ MaxProbes \in Nat
    BY BreakerAssumption DEF Rest
  <2>9. completed' \in Nat /\ successes' \in 0..completed'
    BY <1>1, <2>1, <2>8
  <2>10. Rest'
    BY <2>1, <2>7, <2>9 DEF Rest
  <2>11. ReopenImmediately => o # "failure"
    BY <1>5
  <2>12. SampleKept'
    BY <1>1, <2>1, <2>8, <2>11 DEF Calm, SampleKept
  <2>13. completed' + active' <= MaxProbes
    <3>1. completed + active <= MaxProbes
      BY DEF Calm, SampleSound
    <3>2. \A a, c, m \in Nat : 1 <= a /\ c + a <= m => c + (a - 1) <= m /\ (c + 1) + (a - 1) <= m
      OBVIOUS
    <3>3. completed + (active - 1) <= MaxProbes /\ (completed + 1) + (active - 1) <= MaxProbes
      BY <2>4, <2>8, <3>1, <3>2
    <3> QED
      BY <2>1, <3>3
  <2>14. completed' < MaxProbes
    <3>1. CASE o = "ignored"
      BY <1>2, <2>1, <3>1 DEF Calm, SampleSound
    <3>2. CASE o # "ignored"
      <4>1. SampleEnds(n, s) = "half-open"
        BY <1>5, <2>11, <3>2
      <4>2. /\ RequiredSuccesses > 0 => ~(successes' >= RequiredSuccesses)
            /\ SuccessPercent > 0 => ~(completed' >= MaxProbes)
            /\ ~ReopenImmediately => ~(completed' >= MaxProbes)
        BY <2>1, <4>1, Undecided
      <4>3. CASE SuccessPercent > 0 \/ ~ReopenImmediately
        BY <2>8, <2>9, <4>2, <4>3
      <4>4. CASE ~(SuccessPercent > 0) /\ ReopenImmediately
        <5>1. RequiredSuccesses > 0 /\ RequiredSuccesses \in 0..MaxProbes
          BY <4>4, BreakerAssumption
        <5>2. successes' = completed'
          BY <2>12, <4>4 DEF SampleKept
        <5> QED
          BY <2>8, <2>9, <4>2, <5>1, <5>2
      <4> QED
        BY <4>3, <4>4
    <3> QED
      BY <3>1, <3>2
  <2>15. SampleSound' /\ ClosedIsHealthy'
    BY <1>2, <2>1, <2>13, <2>14 DEF SampleSound, ClosedIsHealthy
  <2> QED
    BY <2>6, <2>7, <2>10, <2>12, <2>15, Parts DEF Calm
<1> QED
  BY <1>4, <1>5

(* Refuse, GiveUp and Forget. *)
LEMMA QuietPreserves ==
  ASSUME Slots, Rest, Calm,
         \/ \E c \in Callers : Refuse(c) \/ GiveUp(c)
         \/ \E p \in Permits : Forget(p)
  PROVE  Inductive'
<1>1. CASE \E c \in Callers : Refuse(c) \/ GiveUp(c)
  <2>1. PICK c \in Callers : Returns(c) /\ UNCHANGED <<health, permit>>
    BY <1>1 DEF Refuse, GiveUp
  <2>2. /\ caller' \in [Callers -> {"idle", "waiting", "woken"}]
        /\ \A d \in Callers : caller'[d] = "waiting" => caller[d] = "waiting"
    BY <2>1 DEF Returns, Rest
  <2> QED
    BY <2>1, <2>2, NoProbePreserves DEF Slots
<1>2. CASE \E p \in Permits : Forget(p)
  <2>1. PICK p \in Permits : /\ p \notin probes /\ UNCHANGED <<health, caller>>
                             /\ permit' = [permit EXCEPT ![p] = NoPermit]
    BY <1>2, Zenon DEF Forget
  <2>2. NoPermit \in PermitRecords /\ Total(NoPermit) /\ ~Live(NoPermit)
    BY DEF NoPermit, PermitRecords, Statuses, States, Total, Live
  <2>3. permit' \in [Permits -> PermitRecords] /\ \A q \in Permits : Total(permit'[q])
    BY <2>1, <2>2 DEF Slots
  <2>4. \A q \in Permits : permit'[q] = permit[q] \/ (q \notin probes /\ ~Live(permit'[q]))
    BY <2>1, <2>2 DEF Slots
  <2> QED
    BY <2>1, <2>3, <2>4, NoProbePreserves DEF Rest
<1> QED
  BY <1>1, <1>2

(* Snapshot, SetMode and Reset. *)
LEMMA AdminPreserves ==
  ASSUME Slots, Rest, Calm, Snapshot \/ Reset \/ \E m \in Modes : SetMode(m)
  PROVE  Inductive'
<1>1. CASE Snapshot
  <2> DEFINE Exp(D) == [q \in Permits |-> IF q \in D THEN [permit[q] EXCEPT !.status = "expired"]
                                          ELSE permit[q]]
  <2>1. PICK D \in SUBSET probes : ReleaseProbes(D) /\ permit' = Exp(D)
    BY <1>1 DEF Snapshot
  <2>2. /\ Exp(D) \in [Permits -> PermitRecords]
        /\ \A q \in Permits : Total(Exp(D)[q])
        /\ \A q \in D : Exp(D)[q].status = "expired"
        /\ \A q \in Permits \ D : Exp(D)[q] = permit[q]
    BY ExpiredPermits, Zenon
  <2>3. UNCHANGED <<state, mode, window, consecutive, completed, successes>>
    BY <1>1 DEF Snapshot
  <2> HIDE DEF Exp
  <2> QED
    BY <2>1, <2>2, <2>3, ReleasePreserves
<1>2. CASE Reset
  <2>1. /\ mode' \in Modes /\ "closed" \in States /\ Transition("closed", permit)
        /\ permit \in [Permits -> PermitRecords] /\ \A p \in Permits : Total(permit[p])
    BY <1>2 DEF Reset, Modes, States, Slots
  <2> QED
    BY <2>1, TransitionPreserves
<1>3. CASE \E m \in Modes : SetMode(m)
  <2>1. /\ mode' \in Modes /\ permit' = Stale(permit) /\ NewSample /\ Signal
        /\ UNCHANGED <<state, window, consecutive>>
    BY <1>3 DEF SetMode
  <2>2. Slots' /\ completed' = 0 /\ successes' = 0 /\ active' = 0
    BY <2>1, Restarted DEF Slots
  <2>3. caller' \in [Callers -> {"idle", "waiting", "woken"}] /\ NoLostWakeup'
    BY <2>1, Signalled
  <2>4. Rest' /\ ClosedIsHealthy'
    BY <2>1, <2>2, <2>3 DEF Rest, Calm, ClosedIsHealthy
  <2> QED
    BY <2>2, <2>3, <2>4, Emptied, Parts DEF Calm
<1> QED
  BY <1>1, <1>2, <1>3

LEMMA InitInductive == Init => Inductive
<1> SUFFICES ASSUME Init PROVE Inductive
  OBVIOUS
<1>1. NoPermit \in PermitRecords /\ Total(NoPermit) /\ ~Live(NoPermit)
  BY DEF NoPermit, PermitRecords, Statuses, States, Total, Live
<1>2. probes = ProbeSet
  BY <1>1 DEF Init, ProbeSet
<1>3. active = Cardinality(probes)
  BY FS_EmptySet DEF Init
<1>4. Slots
  BY <1>1, <1>2, <1>3 DEF Init, Slots
<1>5. Rest
  BY BreakerAssumption DEF Init, Rest, States, Modes
<1>6. Calm
  BY BreakerAssumption, EmptyWindow
    DEF Init, Calm, SampleSound, SampleKept, ClosedIsHealthy, NoLostWakeup
<1> QED
  BY <1>4, <1>5, <1>6, Parts

LEMMA NextInductive == Inductive /\ [Next]_vars => Inductive'
<1> SUFFICES ASSUME Inductive, [Next]_vars PROVE Inductive'
  OBVIOUS
<1>1. Slots /\ Rest /\ Calm
  BY Parts
<1>2. CASE \E c \in Callers : Acquire(c)
  BY <1>1, <1>2, AcquirePlainPreserves, AcquireOpenPreserves, AcquireHalfOpenPreserves DEF Acquire
<1>3. CASE \/ \E c \in Callers : Refuse(c) \/ GiveUp(c)
           \/ \E p \in Permits : Forget(p)
  BY <1>1, <1>3, QuietPreserves
<1>4. CASE \E p \in Permits : Complete(p)
  BY <1>1, <1>4, CompletePlainPreserves, CompleteClosedPreserves, CompleteProbePreserves DEF Complete
<1>5. CASE \E p \in Permits : CompleteLate(p) \/ Cancel(p) \/ CancelLate(p)
  BY <1>1, <1>5, DropPreserves DEF CompleteLate, CancelLate
<1>6. CASE Snapshot \/ Reset \/ \E m \in Modes : SetMode(m)
  BY <1>1, <1>6, AdminPreserves
<1>7. CASE UNCHANGED vars
  <2>1. UNCHANGED <<health, permit, caller>>
    BY <1>7 DEF vars, health
  <2> QED
    BY <1>1, <2>1, NoProbePreserves DEF Slots, Rest
<1> QED
  BY <1>2, <1>3, <1>4, <1>5, <1>6, <1>7 DEF Next

(* A permit that is not the one a step is about keeps its status, and so     *)
(* does one whose generation ends.                                          *)
LEMMA StatusKept ==
  ASSUME NEW ps \in [Permits -> PermitRecords], NEW q \in Permits
  PROVE  Stale(ps)[q].status = ps[q].status
<1>1. ps[q] \in PermitRecords
  OBVIOUS
<1>2. Stale(ps)[q] = [ps[q] EXCEPT !.current = FALSE]
  BY DEF Stale
<1> QED
  BY <1>1, <1>2 DEF PermitRecords

(* The step behind StaleHarmless: who no longer belongs to the breaker's     *)
(* state ends without touching its health.                                  *)
LEMMA StaleStep ==
  ASSUME Inductive, [Next]_vars, NEW p \in Permits,
         permit[p].status \in {"active", "expired"},
         permit'[p].status \in {"completed", "canceled", "expired"},
         permit'[p].status # permit[p].status,
         ~permit[p].current \/ ~permit[p].recording \/ permit[p].status = "expired"
  PROVE  UNCHANGED health
<1>1. Slots /\ Rest /\ Calm /\ permit \in [Permits -> PermitRecords]
  BY Parts DEF Slots
<1>2. p \notin probes /\ ~Recorded(p)
  BY <1>1 DEF Slots, ProbeSet, Live, Recorded
<1>3. CASE \E c \in Callers : Acquire(c)
  <2>1. PICK c \in Callers, q \in Permits, x \in BOOLEAN :
           \/ AcquireDisabled(c, q, x) \/ AcquireClosed(c, q, x)
           \/ AcquireOpen(c, q, x) \/ AcquireHalfOpen(c, q, x)
    BY <1>3 DEF Acquire
  <2>2. CASE AcquireDisabled(c, q, x) \/ AcquireClosed(c, q, x)
    BY <2>2, Zenon DEF AcquireDisabled, AcquireClosed
  <2>3. CASE AcquireOpen(c, q, x)
    <3>1. CASE UNCHANGED health
      BY <3>1
    <3>2. CASE /\ permit[q].status = "none"
               /\ permit' = [Stale(permit) EXCEPT ![q] = New("half-open", TRUE, x)]
      <4>1. permit'[p] = Stale(permit)[p]
        BY <3>2, Zenon DEF Stale
      <4> QED
        BY <1>1, <4>1, StatusKept
    <3> QED
      BY <2>3, <3>1, <3>2, Zenon DEF AcquireOpen
  <2>4. CASE AcquireHalfOpen(c, q, x)
    <3> DEFINE Exp(D) == [d \in Permits |-> IF d \in D THEN [permit[d] EXCEPT !.status = "expired"]
                                            ELSE permit[d]]
    <3>1. PICK D \in SUBSET probes :
             \/ permit' = Exp(D)
             \/ /\ permit[q].status = "none"
                /\ permit' = [Exp(D) EXCEPT ![q] = New("half-open", TRUE, x)]
      BY <2>4, Zenon DEF AcquireHalfOpen
    <3>2. permit'[p] = permit[p]
      BY <1>2, <3>1, Zenon
    <3> QED
      BY <3>2
  <2> QED
    BY <2>1, <2>2, <2>3, <2>4
<1>4. CASE \E c \in Callers : Refuse(c) \/ GiveUp(c)
  BY <1>4 DEF Refuse, GiveUp
<1>5. CASE \E q \in Permits : Complete(q)
  <2>1. PICK q \in Permits : Complete(q)
    BY <1>5
  <2>2. CASE CompleteExpired(q)
    BY <2>2 DEF CompleteExpired
  <2>3. CASE CompleteStale(q)
    <3>1. q \notin probes
      BY <1>1, <2>3 DEF CompleteStale, Slots, ProbeSet, Live
    <3> QED
      BY <2>3, <3>1 DEF CompleteStale, health
  <2>4. CASE \E o \in Outcomes : CompleteClosed(q, o) \/ CompleteProbe(q, o)
    <3>1. Recorded(q) /\ (permit' = Completed(q) \/ permit' = Stale(Completed(q)))
      BY <2>4 DEF CompleteClosed, CompleteProbe, Transition
    <3>2. q # p /\ permit[q].status # "completed"
      BY <1>2, <3>1 DEF Recorded
    <3>3. Completed(q) \in [Permits -> PermitRecords] /\ Completed(q)[p] = permit[p]
      BY <1>1, <3>2, CompletedPermit
    <3> QED
      BY <3>1, <3>3, StatusKept
  <2> QED
    BY <2>1, <2>2, <2>3, <2>4 DEF Complete
<1>6. CASE \E q \in Permits : Cancel(q) \/ CompleteLate(q) \/ CancelLate(q)
  <2>1. PICK q \in Permits : Cancel(q) \/ Expires(q)
    BY <1>6 DEF CompleteLate, CancelLate
  <2>2. q = p
    BY <1>1, <2>1 DEF Cancel, Expires
  <2>3. ReleaseProbes({}) /\ UNCHANGED <<state, mode, window, consecutive, completed, successes>>
    <3>1. (IF IsProbe(p) THEN {p} \cap probes ELSE {}) = {}
      BY <1>2
    <3> QED
      BY <2>1, <2>2, <3>1 DEF Cancel, Expires
  <2>4. Cardinality({}) = 0 /\ active \in Nat
    BY <1>1, FS_EmptySet, Parts
  <2> QED
    BY <2>3, <2>4 DEF ReleaseProbes, health
<1>7. CASE \E q \in Permits : Forget(q)
  BY <1>7 DEF Forget
<1>8. CASE Snapshot
  <2>1. PICK D \in SUBSET probes :
          permit' = [d \in Permits |-> IF d \in D THEN [permit[d] EXCEPT !.status = "expired"]
                                       ELSE permit[d]]
    BY <1>8, Zenon DEF Snapshot
  <2>2. permit'[p] = permit[p]
    BY <1>2, <2>1
  <2> QED
    BY <2>2
<1>9. CASE Reset \/ \E m \in Modes : SetMode(m)
  <2>1. permit' = Stale(permit)
    BY <1>9 DEF Reset, SetMode, Transition
  <2> QED
    BY <1>1, <2>1, StatusKept
<1>10. CASE UNCHANGED vars
  BY <1>10 DEF vars, health
<1> QED
  BY <1>3, <1>4, <1>5, <1>6, <1>7, <1>8, <1>9, <1>10 DEF Next

-----------------------------------------------------------------------------
(* The inductive invariant: the probe slots, the sample, the window and the  *)
(* blocked callers, and SampleKept, without which a sample that reopens at   *)
(* the first failure could fill up undecided.                               *)
THEOREM BreakerInvariant == Spec => []Inductive
<1> QED
  BY InitInductive, NextInductive, PTL DEF Spec

(* The breaker never loses or keeps a half-open slot, and every permit adds  *)
(* to the lifetime totals at most once (halfOpenPermits, halfOpenActive).    *)
THEOREM BreakerProbes == Spec => []ProbesExact
<1>1. Inductive => ProbesExact
  BY DEF Inductive
<1> QED
  BY <1>1, BreakerInvariant, PTL

(* The recovery sample stays within MaxProbes and, while half-open, has room *)
(* for an outcome (tryAcquireLocked, completeHalfOpenLocked).                *)
THEOREM BreakerSample == Spec => []SampleSound
<1>1. Inductive => SampleSound
  BY DEF Inductive
<1> QED
  BY <1>1, BreakerInvariant, PTL

(* A closed breaker does not satisfy its opening rule (completeAt).          *)
THEOREM BreakerHealthy == Spec => []ClosedIsHealthy
<1>1. Inductive => ClosedIsHealthy
  BY DEF Inductive
<1> QED
  BY <1>1, BreakerInvariant, PTL

(* Nobody stays blocked on a changed channel once there may be room          *)
(* (signalLocked).                                                          *)
THEOREM BreakerWakeup == Spec => []NoLostWakeup
<1>1. Inductive => NoLostWakeup
  BY DEF Inductive
<1> QED
  BY <1>1, BreakerInvariant, PTL

(* Ending a permit of another generation, a disabled or a reclaimed one      *)
(* leaves the breaker's health alone (belongsToCurrentStateLocked).          *)
THEOREM BreakerStale == Spec => StaleHarmless
<1>1. Inductive /\ [Next]_vars =>
        [\A p \in Permits :
           /\ permit[p].status \in {"active", "expired"}
           /\ permit'[p].status \in {"completed", "canceled", "expired"}
           /\ permit'[p].status # permit[p].status
           /\ ~permit[p].current \/ ~permit[p].recording \/ permit[p].status = "expired"
           => UNCHANGED health]_vars
  BY StaleStep
<1> QED
  BY <1>1, BreakerInvariant, PTL DEF Spec, StaleHarmless
=============================================================================
