---------------------------- MODULE OutboxRelay ----------------------------
(***************************************************************************)
(* Relays (pkg/outbox/relay) that claim batches from the outbox table,      *)
(* publish each record while a heartbeat extends its lease, and settle it:  *)
(* several processes that may be cancelled, lose replies, be paused beyond  *)
(* their lease, crash and come back.                                        *)
(***************************************************************************)
EXTENDS OutboxStore

CONSTANTS Relays,
          BatchSize,     \* Config.BatchSize
          Workers,       \* Config.Workers
          MaxAttempts,   \* Config.MaxAttempts
          MaxFaults,     \* bound on faults and replays
          MaxLate,       \* bound on requests abandoned and not executed yet
          MaxLoad,       \* bound on all of these and the records together
          Faults         \* which faults happen

ASSUME RelayAssumption ==
  /\ BatchSize \in Nat \ {0} /\ Workers \in Nat \ {0}
  /\ MaxAttempts \in 1..AttemptCap
  /\ MaxFaults \in Nat /\ MaxLate \in Nat /\ MaxLoad \in Nat
  /\ Faults \subseteq {"crash", "error", "pause", "cancel"}

VARIABLES relay,         \* relay[r]: where Run stands
          snap,          \* snap[r]: the snapshot of its Claim statement
          cancelled,     \* cancelled[r]: its context is done
          failed,        \* failed[r]: RunOnce collected an error
          job,           \* job[r][m]: process() for a claim
          late,          \* requests abandoned by their relay, not executed yet
          reports,       \* reports[m]: what publishers said since insert or replay
          faults         \* faults and replays so far

relayVars == <<relay, snap, cancelled, failed>>
vars == <<record, relay, snap, cancelled, failed, job, late, reports, faults>>

Outcomes == {"ok", "transient", "permanent", "cancelled"}

Job(pc, t, n, beat, out) ==
  [pc |-> pc, token |-> t, attempts |-> n, beat |-> beat, out |-> out]
NoJob == Job("none", NoToken, 0, "off", "none")

Jobs == [pc : {"none", "queued", "publishing", "published"} \cup Ops,
         token : Tokens \cup {NoToken}, attempts : 0..AttemptCap,
         beat : {"off", "on", "failed"}, out : Outcomes \cup {"none"}]

Requests == [message : Messages, token : Tokens, op : Ops]

TypeOK == /\ StoreTypeOK
          /\ relay \in [Relays -> {"idle", "claiming", "running", "stopped"}]
          /\ snap \in [Relays -> SUBSET Messages]
          /\ cancelled \in [Relays -> BOOLEAN]
          /\ failed \in [Relays -> BOOLEAN]
          /\ job \in [Relays -> [Messages -> Jobs]]
          /\ late \subseteq Requests
          /\ reports \in [Messages -> SUBSET {"ok", "permanent", "failed"}]
          /\ faults \in 0..MaxFaults

Init == /\ StoreInit
        /\ relay = [r \in Relays |-> "idle"]
        /\ snap = [r \in Relays |-> {}]
        /\ cancelled = [r \in Relays |-> FALSE]
        /\ failed = [r \in Relays |-> FALSE]
        /\ job = [r \in Relays |-> [m \in Messages |-> NoJob]]
        /\ late = {}
        /\ reports = [m \in Messages |-> {}]
        /\ faults = 0

(* What MaxLoad bounds: records, faults and abandoned requests. *)
Load == Cardinality({m \in Messages : record[m].state # "absent"})
          + faults + Cardinality(late)

CountFault == faults < MaxFaults /\ Load < MaxLoad /\ faults' = faults + 1

Fault(f) == f \in Faults /\ CountFault

(* Variant: tokens are unique among the rows only. *)
UsedByRows == {record[m].token : m \in Messages}

(* Tokens anybody still refers to. *)
Used == {record[m].token : m \in Messages}
          \cup {job[r][m].token : r \in Relays, m \in Messages}
          \cup {x.token : x \in late}

(* The token generator: 128 random bits never repeat a token in use.  Tokens   *)
(* are only compared for equality, so which unused one it is does not matter.  *)
NewToken == CHOOSE t \in Tokens \ Used : TRUE

(* A claim of some of these rows, at most BatchSize, under a new token. *)
Take(S, rows) == /\ S # {} /\ S \subseteq rows /\ Cardinality(S) <= BatchSize
                 /\ NewToken \in Tokens \ Used
                 /\ Lease(S, NewToken)

Goto(r, pc) == relay' = [relay EXCEPT ![r] = pc]
SetJob(r, m, j) == job' = [job EXCEPT ![r][m] = j]

(* Abandon a request: the server may still execute it, later or never. *)
Abandon(m, t, op) ==
  \/ UNCHANGED late
  \/ /\ Cardinality(late) < MaxLate
     /\ Load + (faults' - faults) < MaxLoad
     /\ late' = late \cup {[message |-> m, token |-> t, op |-> op]}

-----------------------------------------------------------------------------
(* Run and RunOnce *)

ClaimBegin(r) ==
  /\ relay[r] = "idle" /\ ~cancelled[r]
  /\ Goto(r, "claiming")
  /\ snap' = [snap EXCEPT ![r] = Candidates]
  /\ UNCHANGED <<record, cancelled, failed, job, late, reports, faults>>

(* SKIP LOCKED: claims that run at the same time lease disjoint rows. *)
ClaimEnd(r) ==
  /\ relay[r] = "claiming" /\ ~cancelled[r]
  /\ snap' = [snap EXCEPT ![r] = {}]
  /\ LET rows == {m \in snap[r] : Claimable(m)}
     IN \/ /\ rows = {}
           /\ Goto(r, "idle")
           /\ UNCHANGED <<record, job>>
        \/ \E S \in SUBSET rows :
             /\ Take(S, rows)
             /\ Goto(r, "running")
             /\ job' = [job EXCEPT ![r] = [m \in Messages |->
                  IF m \in S THEN Job("queued", NewToken, record'[m].attempts, "off", "none")
                  ELSE NoJob]]
  /\ UNCHANGED <<cancelled, failed, late, reports, faults>>

(* The statement fails, or commits without the relay learning of it. *)
ClaimFails(r) ==
  /\ relay[r] = "claiming"
  /\ snap' = [snap EXCEPT ![r] = {}]
  /\ \/ UNCHANGED record
     \/ \E S \in SUBSET snap[r] : Take(S, {m \in snap[r] : Claimable(m)})
  /\ \/ Fault("error")
     \/ cancelled[r] /\ UNCHANGED faults
  /\ Goto(r, "stopped")
  /\ UNCHANGED <<cancelled, failed, job, late, reports>>

(* RunOnce returns; Run stops on an error or a done context, or polls again. *)
RunOnceEnds(r) ==
  /\ relay[r] = "running" /\ \A m \in Messages : job[r][m].pc = "none"
  /\ Goto(r, IF failed[r] \/ cancelled[r] THEN "stopped" ELSE "idle")
  /\ UNCHANGED <<record, snap, cancelled, failed, job, late, reports, faults>>

(* Variant: Run goes on polling. *)
QuitNever(r) ==
  /\ relay[r] = "idle" /\ cancelled[r]
  /\ UNCHANGED vars

(* Run sees the done context between two batches. *)
Quit(r) ==
  /\ relay[r] = "idle" /\ cancelled[r]
  /\ Goto(r, "stopped")
  /\ UNCHANGED <<record, snap, cancelled, failed, job, late, reports, faults>>

Cancel(r) ==
  /\ ~cancelled[r] /\ relay[r] # "stopped" /\ Fault("cancel")
  /\ cancelled' = [cancelled EXCEPT ![r] = TRUE]
  /\ UNCHANGED <<record, relay, snap, failed, job, late, reports>>

(* The process starts Run again. *)
Restart(r) ==
  /\ relay[r] = "stopped"
  /\ Goto(r, "idle")
  /\ cancelled' = [cancelled EXCEPT ![r] = FALSE]
  /\ failed' = [failed EXCEPT ![r] = FALSE]
  /\ UNCHANGED <<record, snap, job, late, reports, faults>>

Crash(r) ==
  /\ relay[r] \in {"claiming", "running"} /\ Fault("crash")
  /\ Goto(r, "stopped")
  /\ snap' = [snap EXCEPT ![r] = {}]
  /\ job' = [job EXCEPT ![r] = [m \in Messages |-> NoJob]]
  /\ \/ UNCHANGED late
     \/ \E m \in Messages : job[r][m].pc \in Ops /\ Abandon(m, job[r][m].token, job[r][m].pc)
  /\ UNCHANGED <<record, cancelled, failed, reports>>

-----------------------------------------------------------------------------
(* process *)

(* A worker takes the claim: the publisher is called, the heartbeat runs. *)
Publish(r, m) ==
  LET j == job[r][m]
  IN /\ j.pc = "queued"
     /\ Cardinality({n \in Messages : job[r][n].pc \notin {"none", "queued"}}) < Workers
     /\ SetJob(r, m, Job("publishing", j.token, j.attempts, "on", "none"))
     /\ UNCHANGED <<record, relayVars, late, reports, faults>>

(* One round of maintainLease, in which a lost lease or an error ends the       *)
(* heartbeat as failed.  Once the publisher has returned or the relay's        *)
(* context is done, the round is cancelled and that is no failure.             *)
Heartbeat(r, m) ==
  LET j       == job[r][m]
      Beat(b) == SetJob(r, m, [j EXCEPT !.beat = b])
  IN /\ j.beat = "on" /\ j.pc \in {"publishing", "published"}
     /\ \/ /\ ~cancelled[r]
           /\ Transition(m, j.token, "extend")
           /\ IF Current(m, j.token) THEN UNCHANGED job ELSE Beat("failed")
           /\ UNCHANGED <<late, faults>>
        \/ /\ Fault("error")
           /\ Abandon(m, j.token, "extend")
           /\ Beat("failed")
           /\ UNCHANGED record
        \/ /\ cancelled[r] \/ j.pc = "published"
           /\ UNCHANGED <<record, faults>>
           /\ Abandon(m, j.token, "extend")
           /\ Beat("off")
     /\ UNCHANGED <<relayVars, reports>>

(* The publisher returns success, an error classified as transient or          *)
(* permanent, or an error that says its context was done.                      *)
PublishReturns(r, m) ==
  LET j == job[r][m]
  IN /\ j.pc = "publishing"
     /\ \E out \in Outcomes :
          /\ SetJob(r, m, Job("published", j.token, j.attempts, j.beat, out))
          /\ reports' = [reports EXCEPT ![m] =
                            @ \cup {IF out \in {"ok", "permanent"} THEN out ELSE "failed"}]
     /\ UNCHANGED <<record, relayVars, late, faults>>

(* Variant: the last attempt is given away. *)
VerdictEarly(r, m) ==
  LET j == job[r][m]
  IN IF j.out = "ok" THEN "deliver"
     ELSE IF j.out = "cancelled" /\ cancelled[r] THEN "release"
     ELSE IF j.attempts >= MaxAttempts - 1 \/ j.out = "permanent" THEN "dead"
     ELSE "retry"

(* What process() does with the outcome. *)
Verdict(r, m) ==
  LET j == job[r][m]
  IN IF j.out = "ok" THEN "deliver"
     ELSE IF j.out = "cancelled" /\ cancelled[r] THEN "release"
     ELSE IF j.attempts >= MaxAttempts \/ j.out = "permanent" THEN "dead"
     ELSE "retry"

(* The heartbeat is stopped and awaited; if it failed, nothing is settled. *)
Decide(r, m) ==
  /\ job[r][m].pc = "published"
  /\ IF job[r][m].beat = "failed"
     THEN /\ SetJob(r, m, NoJob)
          /\ failed' = [failed EXCEPT ![r] = TRUE]
     ELSE /\ SetJob(r, m, Job(Verdict(r, m), job[r][m].token, 0, "off", "none"))
          /\ UNCHANGED failed
  /\ UNCHANGED <<record, relay, snap, cancelled, late, reports, faults>>

(* The transition is executed and answered.  Only a release has a context of   *)
(* its own; the others cannot start once the relay's context is done.  After   *)
(* a retry a classifier or backoff that misbehaved is an error as well.        *)
Settle(r, m) ==
  LET j == job[r][m]
  IN /\ j.pc \in Ops
     /\ cancelled[r] => j.pc = "release"
     /\ Transition(m, j.token, j.pc)
     /\ \E policy \in IF j.pc = "retry" THEN BOOLEAN ELSE {FALSE} :
          failed' = [failed EXCEPT ![r] = @ \/ ~Current(m, j.token) \/ policy]
     /\ SetJob(r, m, NoJob)
     /\ UNCHANGED <<relay, snap, cancelled, late, reports, faults>>

SettleFails(r, m) ==
  LET j == job[r][m]
  IN /\ j.pc \in Ops
     /\ \/ Fault("error")
        \/ cancelled[r] /\ j.pc # "release" /\ UNCHANGED faults
     /\ Abandon(m, j.token, j.pc)
     /\ failed' = [failed EXCEPT ![r] = TRUE]
     /\ SetJob(r, m, NoJob)
     /\ UNCHANGED <<record, relay, snap, cancelled, reports>>

Process(r, m) ==
  /\ job[r][m].pc # "none"
  /\ \/ Publish(r, m) \/ PublishReturns(r, m) \/ Decide(r, m)
     \/ Settle(r, m) \/ SettleFails(r, m)

-----------------------------------------------------------------------------
(* The database and everybody else. *)

ExecuteLate(x) == /\ x \in late
                  /\ late' = late \ {x}
                  /\ Transition(x.message, x.token, x.op)
                  /\ UNCHANGED <<relayVars, job, reports, faults>>

(* Somebody works under the current lease of m. *)
Held(m) == \E r \in Relays : job[r][m].pc # "none" /\ Current(m, job[r][m].token)

(* A lease nobody works under runs out; one with a live job only when the      *)
(* relay is paused or its queue is slow.                                       *)
LeaseEnds(m) == ~Held(m) /\ Expire(m)
                /\ UNCHANGED <<relayVars, job, late, reports, faults>>
Pause(m) == Held(m) /\ Expire(m) /\ Fault("pause")
            /\ UNCHANGED <<relayVars, job, late, reports>>

Commit(S) == Load + Cardinality(S) <= MaxLoad /\ Insert(S)
             /\ UNCHANGED <<relayVars, job, late, reports, faults>>
Available(m) == Due(m) /\ UNCHANGED <<relayVars, job, late, reports, faults>>
Retention(S) == Prune(S) /\ UNCHANGED <<relayVars, job, late, reports, faults>>
Operator(S) == Replay(S) /\ CountFault
               /\ reports' = [m \in Messages |-> IF m \in S THEN {} ELSE reports[m]]
               /\ UNCHANGED <<relayVars, job, late>>

(* Time passes for m. *)
Clock(m) == Available(m) \/ LeaseEnds(m)

Loop(r) == \/ ClaimBegin(r) \/ ClaimEnd(r) \/ ClaimFails(r) \/ RunOnceEnds(r)
           \/ Quit(r) \/ Restart(r)

Next == \/ \E r \in Relays : \/ Loop(r) \/ Cancel(r) \/ Crash(r)
                             \/ \E m \in Messages : Process(r, m) \/ Heartbeat(r, m)
        \/ \E m \in Messages : Clock(m) \/ Pause(m)
        \/ \E S \in SUBSET Messages : Commit(S) \/ Operator(S) \/ Retention(S)
        \/ \E x \in late : ExecuteLate(x)

Spec == Init /\ [][Next]_vars

(* Relays run and are restarted, publishers return, time passes. *)
Fairness == /\ \A r \in Relays : WF_vars(Loop(r))
            /\ \A r \in Relays, m \in Messages : WF_vars(Process(r, m))
            /\ \A m \in Messages : WF_vars(Clock(m))

FairSpec == Spec /\ Fairness

-----------------------------------------------------------------------------
(* Properties *)

(* What a job or an abandoned request may still do to m under token t. *)
Acts(m, t, op) == \/ \E r \in Relays : job[r][m].pc = op /\ job[r][m].token = t
                  \/ [message |-> m, token |-> t, op |-> op] \in late

(* MarkDelivered is only ever effective for a publication that succeeded: a     *)
(* delivered record was reported accepted since it was inserted or replayed,   *)
(* whatever stale relays and late requests do.                                 *)
DeliveredWasAccepted ==
  \A m \in Messages : record[m].state = "delivered" => "ok" \in reports[m]

Exhausted(m) == \/ "permanent" \in reports[m]
                \/ record[m].attempts >= MaxAttempts /\ reports[m] # {}

(* DeadLetter is only ever effective for a permanent failure or after          *)
(* MaxAttempts claims, counted since insertion or the last replay.             *)
DeadWasExhausted == \A m \in Messages : record[m].state = "dead" => Exhausted(m)

(* Claims of relays that were paused, restarted or overtaken: at most one      *)
(* relay works under the current lease of a record, so at most one of the      *)
(* relays that publish it can settle it.                                       *)
OneHolder ==
  TypeOK /\ \A m \in Messages, r, q \in Relays :
    /\ job[r][m].pc # "none" /\ Current(m, job[r][m].token)
    /\ job[q][m].pc # "none" /\ Current(m, job[q][m].token)
    => r = q

(* serializationPredicate: a leased record of a scope has no earlier record    *)
(* of the scope that is still pending or leased.                               *)
Serialized ==
  \A m, n \in Messages \ Unordered :
    n < m /\ record[m].state = "leased" => record[n].state \notin {"pending", "leased"}

(* Claim has passed n by: it has leased the later record m, or is about to. *)
Ahead(m) == record[m].state = "leased" \/ \E r \in Relays : m \in snap[r]

Open(m) == record[m].state \in {"pending", "leased"}

Overtaken(n, m) == n < m /\ Open(n) /\ Ahead(m)

(* serializationPredicate under late commits and replays: a record is          *)
(* overtaken by a later one of its scope only when it was not open before,     *)
(* that is, when it is committed or replayed while the later one is leased     *)
(* already or in the snapshot of a Claim.  No Claim passes an open record by.  *)
OrderKept == [][\A m, n \in Messages \ Unordered :
                  Overtaken(n, m)' /\ ~Overtaken(n, m) => ~Open(n)]_vars

FencedByToken(m) ==
  /\ record[m].state = "leased" /\ record'[m] # record[m] =>
       \/ record'[m] = [record[m] EXCEPT !.expired = TRUE]
       \/ record[m].expired /\ record'[m].state = "leased" /\ record'[m].token \notin Used
       \/ \E op \in Ops : Acts(m, record[m].token, op)
       \/ \E r \in Relays : job[r][m].beat = "on" /\ job[r][m].token = record[m].token
  /\ record[m].state \in Terminal =>
       \/ record'[m].state \in {record[m].state, "pruned"}
       \/ "replay" \in Features /\ record'[m].state = "pending" /\ record'[m].attempts = 0
  /\ record[m].state = "pruned" => record'[m].state = "pruned"

(* A replaced token changes nothing (execLeaseUpdate): a lease is given up,    *)
(* extended or turned into a result only by a request that carries the row's   *)
(* token, or reclaimed after it expired; a settled record stays settled until  *)
(* an operator replays it or retention removes it.  An expired token that was  *)
(* not replaced is not excluded: see ExpiredCannotMutate.                      *)
ReplacedCannotMutate == [][\A m \in Messages : FencedByToken(m)]_vars

(* "An expired or replaced token cannot mutate the record" (LeaseRef): once    *)
(* a lease has expired, all that happens to its record is that a Claim takes   *)
(* it under a new token.                                                       *)
ExpiredCannotMutate ==
  [][\A m \in Messages :
       record[m].state = "leased" /\ record[m].expired /\ record'[m] # record[m]
         => record'[m].state = "leased" /\ record'[m].token \notin Used]_vars

(* Every committed record is delivered or dead-lettered in the end, by the     *)
(* relays polling, retrying, reclaiming and restarting, and again after a      *)
(* replay.                                                                     *)
EventuallySettled ==
  \A m \in Messages :
    []<>(record[m].state # "absent" => record[m].state \in Terminal \cup {"pruned"})

(* Run returns after its context is done: no relay stays cancelled and goes on. *)
RelayStops == \A r \in Relays : []<>(cancelled[r] => relay[r] = "stopped")

-----------------------------------------------------------------------------
(* What makes the safety properties inductive *)

(* A lease has a token, a result its justification. *)
Justified(m, op) == /\ op = "deliver" => "ok" \in reports[m]
                    /\ op = "dead" => Exhausted(m)

RowSound(m) == /\ record[m].state = "leased" => record[m].token \in Tokens
               /\ record[m].state = "delivered" => "ok" \in reports[m]
               /\ record[m].state = "dead" => Exhausted(m)

(* Under the current lease a job counts the row's attempts, and what it is     *)
(* about to ask for is justified by what publishers have said.                 *)
JobSound(r, m) ==
  LET j == job[r][m]
  IN /\ j.pc # "none" => j.token \in Tokens
     /\ Current(m, j.token) =>
          /\ Justified(m, j.pc)
          /\ j.pc \in {"queued", "publishing", "published"} => j.attempts = record[m].attempts
          /\ j.pc = "published" =>
               reports[m] # {} /\ (j.out \in {"ok", "permanent"} => j.out \in reports[m])

(* So is what the server may still execute. *)
LateSound == \A x \in late : Current(x.message, x.token) => Justified(x.message, x.op)

(* Jobs of different relays have different tokens, current or not. *)
HoldersDiffer == \A m \in Messages, r, q \in Relays :
  /\ job[r][m].pc # "none" /\ job[q][m].pc # "none"
  /\ job[r][m].token = job[q][m].token
  => r = q

Inductive == /\ TypeOK
             /\ \A m \in Messages : RowSound(m)
             /\ \A r \in Relays, m \in Messages : JobSound(r, m)
             /\ LateSound /\ HoldersDiffer

(* Where records are committed in their order and none is replayed, what was   *)
(* settled stays settled, and everything before a leased record, or before a   *)
(* record of the snapshot a Claim is about to lease from, has been.            *)
Settled == Terminal \cup {"pruned"}

InOrder ==
  /\ \A m, n \in Messages :
       n < m /\ record[m].state # "absent" => record[n].state # "absent"
  /\ \A m, n \in Messages \ Unordered :
       /\ n < m
       /\ record[m].state = "leased" \/ \E r \in Relays : m \in snap[r]
       => record[n].state \in Settled
=============================================================================
