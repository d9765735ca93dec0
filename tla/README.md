# Verification of golib

TLA+ specifications, TLC models and TLAPS proofs for the concurrent and
distributed packages of this repository. golib is a Go monorepo of 83 packages.
Most of them are sequential (parsers, formats, value types, adapters). The ones
whose correctness depends on interleavings, clocks, crashes or lost messages are
the subject of this project, one module per component. Seven packages are modelled
so far: `lease`, `semaphore`, `outbox`, `circuit-breaker`, `bulkhead`,
`idempotency` and `sequencer`.

Run a model with `tlc -config X.cfg M`, a proof with `tlapm M.tla`. `PROJECT.json`
lists the runs, the source lines of every definition, the mutants, the hazards
and the theorems.

## Inventory

| part | state | operations | what makes it hard |
|---|---|---|---|
| lease store (`lease/memory`, `valkey`, `postgres`) | record, fencing counter, clock | TryAcquire, Renew, Validate, Release, cleanup | truncated TTL, consumed fences, requests executed after their client gave up |
| lease handle (`lease/handle.go`, `client.go`) | local state, deadline, busy flag | same, through one remote call | reply after the deadline, unknown outcomes, drifting clocks |
| managed renewal (`lease/managed.go`) | goroutine, loss channel, slot | StartManaged, Stop | loss while Stop runs |
| guard (`lease/internal/guard`) | runner, watcher, callback | Run | four goroutines that wait for each other |
| manager (`lease/leaseservice`) | entries, counter, closed | Acquire, Shutdown | Acquire without the mutex during Shutdown |
| semaphore (`semaphore`) | weight, FIFO queue, drain channel | Acquire, TryAcquire, Release, Close, Wait | cancellation against a grant, lost wakeups |
| outbox table (`outbox/postgres`) | rows with lease token, attempts | Insert, Claim, five transitions, Replay, Prune | stale snapshots, expired tokens |
| relay (`outbox/relay`) | batches, workers, heartbeats | Run, RunOnce, process | crash, pause, lost reply, shutdown |
| circuit breaker (`circuit-breaker`) | state, generation, window, probes | Acquire, Complete, Cancel, Snapshot, SetMode, Reset | stale permits, probe accounting, waiters |
| bulkhead (`bulkhead`) | weight, FIFO list, drained channel, registry entry | Acquire, finishWait, Release, Close, Drain, Create, Remove | timeout against grant, decided waiters still in the list, retained partitions |
| idempotency (`idempotency`, three stores) | record, owner token, fence, lease | Begin, Heartbeat, Complete, Fail, Release, CompleteTx, Expire, Cleanup | late terminal calls, open transactions, fences that restart after retention |
| sequencer ledger (`sequencer/postgres`) | operation rows, attempt rows, audit, triggers | ClaimNext, MarkRunning, Complete, RecoverExpired, Reset, ResolveUnknown | stale snapshots, compensations bound to a generation, unknown outcomes |
| sequencer fleet (`sequencer/fleet.go`) | runner state, loop, accepted claims | Run, admitClaim, executeClaim, waitForDrain | claims that come back late, lost renewals, restart under the same name |
| lease acquire loop, hedge, queue pool | | | planned |

How they interact: guard and manager use the lease client and managed renewal;
the client uses one of three stores; the relay is the only caller of the outbox
table's lease transitions, while applications insert and operators replay and
prune. An idempotency record can be completed in the transaction that inserts an
outbox envelope (`idempotencyoutbox`); the model keeps the envelope as an effect of
the commit. Fleets of the sequencer meet in its ledger only. Semaphore, bulkhead and
breaker are used inside one process and share nothing with the others.

What has to be true: at most one handle of a key admits work, and tokens only
grow; renewal leaves nothing behind and swallows no loss; no weight and no probe
slot is lost or invented, nobody is overtaken or forgotten; a record ends as what
its publisher reported, by the hand of its current holder, and it does end; a
permit of an earlier generation is harmless, and a half-open breaker decides; all
answers to one idempotency key agree; an operation whose outcome is unknown is not
run again without a decision, and what a compensation undoes stays put meanwhile.

## Modules

| module | models | note |
|---|---|---|
| `FencedLease` | abstract specification: what `pkg/lease` promises for one key | |
| `Lease` | one key: backend record, handles, remote calls | `MCLease` adds symmetry |
| `LeaseProofs` | theorems about `Lease` | |
| `ManagedLease` | handle and renewal goroutine inside one process | part of the next two |
| `LeaseGuard` | `guard.Run` with its watcher | |
| `LeaseManager` | `leaseservice.Manager` | |
| `ManagedProofs` | theorems about `LeaseGuard` and `LeaseManager` | |
| `Semaphore` | `pkg/semaphore` | |
| `SemaphoreProofs` | theorems about `Semaphore` | |
| `OutboxStore` | the outbox table and its statements | part of the next |
| `OutboxRelay` | relays, workers and heartbeats | `MCOutbox` adds the bound on tokens |
| `OutboxProofs` | theorems about `OutboxRelay` | |
| `Breaker` | `pkg/circuit-breaker` | |
| `BreakerProofs` | theorems about `Breaker` | |
| `OncePerKey` | abstract specification: one outcome per idempotency key and retained record | |
| `Idempotency` | one key: record, attempts, callers, calls under way | `MCIdempotency` sets constants |
| `IdempotencyProofs` | theorems about `Idempotency` | |
| `Sequencer` | ledger with its triggers, fleets, operators | `MCSequencer` adds operations and symmetry |
| `SequencerProofs` | theorems about `Sequencer` | |
| `Bulkhead` | `pkg/bulkhead` with a registry entry | `MCBulkhead` sets weights |
| `BulkheadProofs` | theorems about `Bulkhead` | |

A definition called after another one with a suffix, with a comment that starts
"Variant", is a plausible mistake in that definition. It is used by no
specification; `PROJECT.json` names the property each one violates when it
replaces the original.

### Lease

State: the backend clock `now` and process clocks `clock`, the fencing counter
`fence`, the backend record `row`, the local handles `handle`, the remote call each
owner waits for (`call`), and requests whose client gave up (`orphans`). Every
acquisition draws a fresh random owner (`NewOwner`), so an owner stands for one
acquisition and one handle.

A remote operation is three actions: the client dispatches it (`TryAcquire`,
`BeginActive`, `BeginRelease`), the backend executes it (`Serve`, or `ServeOrphan`
long after the client gave up), the client sees the reply (`ReturnAcquire`,
`ReturnActive`, `ReturnRelease`) or gives up (`GiveUp`). `Execute` is the three
stores: they differ in when a fence is consumed and whether an expired record
stays. `Cleanup` is the PostgreSQL job that removes inactive rows.

`Admitted(o)` is `State() == StateActive`: active and before the local deadline.
A process clock may fall behind the backend's by `Drift`; the store sees the TTL in
whole units of `Grain`, so `Remainder` is what truncation takes off.

### ManagedLease, LeaseGuard, LeaseManager

Inside one process time and backend are abstracted: a remote call ends in success,
a proven loss or an unknown outcome, and a deadline may pass whenever `Faults` says
so. `ManagedLease` is the handle's state machine with its `busy` flag, the renewal
goroutine, its loss channel and the bounded slots. `LeaseGuard` adds `Run`: the
runner, the watcher goroutine and the callback. `LeaseManager` adds `Acquire` in
its sections with and without the mutex, `Shutdown` entry by entry, and owners who
use the handle themselves. The specifications are `GuardSpec` and `ManagerSpec`, so
that `ManagedProofs` can extend both modules.

### Semaphore

Each action is one section under the mutex. `Acquire` splits where the code blocks:
`Enqueue`, then `Return` when the channel is closed, or `Cancel`. `GrantWaiters`
is `grantWaitersLocked`, written as the longest prefix of the queue that fits.
Counters and observers are left out.

### OutboxStore, OutboxRelay

Messages are numbers in the order `(created_at, id)`. A row keeps its state, token,
attempts and whether `leased_until` and `available_at` have passed. Each SQL
statement is atomic except `Claim`, which evaluates its predicate on a snapshot
(`ClaimBegin`) and locks rows later (`ClaimEnd`): locked rows are checked again,
the rows that could block them are not.

`process` is split where another actor can intervene: `Publish`, `Heartbeat`
rounds, `PublishReturns`, `Decide` (heartbeat awaited), `Settle` or `SettleFails`.
A statement whose client gave up may be executed later (`late`). `reports` is
history: what publishers have said of a record since it was inserted or replayed.
`MaxFaults` bounds faults and replays, `MaxLate` late requests, and `MaxLoad` the
records, faults and late requests together.

### Breaker

Clocks are read before the mutex is taken, so a comparison with a deadline may
come out either way, and the model lets it. A permit's generation is only ever
compared with the current one; the model keeps whether it still is. `Acquire` with
waiting is split at the channel; `Signal` closes it. Completion, cancellation,
expiry and the lazy reclaiming of probes are separate actions, on the permits of
`Execute` and on two-step permits, which differ after their deadline.

### Idempotency, OncePerKey

Every store operation is atomic; what is split is the caller's view of it. `Acquire`
may lose its reply, `Finish` sends a terminal call that the store executes later
(`Land`) or never (`Drop`), and `GiveUp` leaves such a call behind. `CompleteTx`
checks ownership and holds the key's advisory lock (`txn`) until `CommitTx` or the
rollback in `GiveUp`; the lease may elapse in between. `Cleanup` is retention: it
deletes the record and starts a generation (`gen`) whose fences count from 1 again.
`elected`, `settled`, `answers` and `envelopes` are history. An owner token is drawn
once per acquisition, so it also names the result that attempt computes.

`OncePerKey` has one outcome per generation, set once, handed out any number of
times, with at most the effect of the attempt that set it. `Idempotency` implements
it with `outcome` read off the record.

### Sequencer

`row` and `attempts` are the two tables, `epoch` the last reset in the audit trail.
`Accepts` and `Updated` are the triggers of migrations 00003 and 00005, which every
update of an operation row goes through: a compensation that becomes active binds to
its forward operation's fence and is counted there. Transactions are atomic except
`ClaimNext`: `Snapshot` evaluates dependencies and budgets, and the claim then locks
and updates the latest version of the row, on which PostgreSQL checks the state
again, but neither the dependencies nor the budget.

A fleet is its loop (`poll`, `snapped`, `admit`, `ended`) and whether it accepts. A
claim goes from `accepted` through `executing` to `completing`. A stale claim or a lost
reply is an error that waits in the channel `results` (`reported`) and takes up a place
there; the fleet goes on and may claim until it reads it (`Drain`). A failed renewal
closes the fleet at once. `Restart` is the next process under
the same owner name, and completions the old one had sent may still be executed
(`orphan`). `attempt_number` and `fencing_token` advance together and are one number
`fence`. `starts` and `resolved` are history.

### Bulkhead

Each action is one section under a partition's mutex. Somebody else may decide on a
waiter (`verdict`: granted, timeout, closed), but only its own goroutine takes a
timed out or closed one out of the list (`Leave`); until then it counts as queued.
The clock is read before the mutex is taken, so a section may see any subset of the
deadlines that are over (`Overdue`). The loop of `grantWaitersLocked` is written by its
result: `Granted` are the live waiters that fit together with all live ones up to
them, `TimedOut` the overdue ones it comes by before it stops, and `Without` is
`removeWaiterLocked`. Partitions are created one after the other for
one registry entry; callers may use any of them, as they may have kept a pointer.

## Runs

| run | instance | distinct states | what it shows |
|---|---|---|---|
| `lease` | PostgreSQL, 2 owners, TTL 4 in grains of 3, margin 2, drift 1 | 950,569 | `MutualExclusion`, `NoRevival`, refinement of `FencedLease` |
| `guard` | 2 runs, 1 renewal slot, all faults | 115,996 | `LossReported`, `SuccessMeansReleased`, `NothingLeftBehind`, `RunReturns`, `LossCancelsCallback` |
| `manager` | 2 handles, 1 renewal slot, 1 Shutdown | 182,494 | `ActiveExact`, `ShutdownHonest`, `ClosedTakesNone`, `ShutdownStopsRenewal` |
| `semaphore` | 4 clients, weights 1 and 2, capacity 2, queue 2 | 35,578 | `WeightConserved`, `NoBypass`, `DrainedMeansIdle`, `NoStarvation` |
| `outbox` | 2 records of one key, 2 relays, batches of 2; records, faults, replays and late requests together at most 3 | 881,208 | `DeliveredWasAccepted`, `DeadWasExhausted`, `OneHolder`, `OrderKept`, `EventuallySettled`, `RelayStops` |
| `breaker` | 2 callers, 2 permits, waiting, success ratio, all uses | 157,100 | `ProbesExact`, `SampleSound`, `StaleHarmless`, `NoLostWakeup`, `ClosedIsHealthy`, `RecoveryDecided` |
| `idempotency` | 3 callers, two of one request, 3 attempts, 1 deletion | 59,512 | `AnswersAgree`, `NoCrossing`, refinement of `OncePerKey` |
| `sequencer` | operation, compensation, 2 fleets, 2 claims at a time, 2 attempts, 3 attempts overall | 2,231,533 | `CompensationFenced`, `NoBlindReplay`, `LedgerAgrees`, `AttemptBudget` |
| `bulkhead` | 4 callers, one heavy, capacity 2, queue 3, 2 partitions | 10,346 | `CapacityShared`, `NoLostGrant`, `StrictFifo`, `Progress` |

Three runs expect a violation; each states what a comment or document says:

- `lease_remainder` (Valkey): a TTL with a sub-millisecond remainder and no safety
  margin lets two handles admit work, because the backend's record is shorter than
  the budget the handle counts.
- `guard_healthy`: on a healthy backend, `cancel()` after the callback can end a
  renewal in flight; or the renewer sleeps at `cancel()`, its timer has fired as well
  and wins, and `Renew` starts under a context that is done. Either way the renewal
  fails, the handle becomes uncertain and the explicit release is refused.
- `outbox_expired`: `outbox/postgres/store.go:97` and `outbox/docs/guarantees.md:91-93`
  say that an expired token cannot mutate its record (`ExpiredCannotMutate`). The five
  statements compare `lease_token` and not `leased_until`, so a relay that was paused
  beyond its lease still extends or settles the record as long as nobody has
  reclaimed it. What does hold, that a replaced token changes nothing
  (`ReplacedCannotMutate`), is proved.

### Observations

Met while modelling, without a run of their own:

- `Replay` (`outbox/postgres/store.go:634`) makes an earlier record pending while a
  later one of its ordering key is leased, so `Serialized` is proved without replay
  (`outbox/docs/guarantees.md:79` has no such exception). The same holds for a
  transaction that commits late, since `created_at` is set by the application.
  `OrderKept` says what remains: a record is overtaken only when it was not open, by
  a record that was leased, or in the snapshot of a Claim, already.
- `MarkDelivered` (`outbox/relay/relay.go:351`) uses the context of `Run`, so a
  shutdown right after acceptance leaves the record leased and it is published
  again; delivery is at least once, so this costs a duplicate, which
  `outbox/docs/audit.md:63` says a test prevents.
- `ClaimNext` counts retry exceptions on its statement snapshot
  (`sequencer/postgres/store.go:279`). A claim that races a retryable completion of
  the same operation carries one exception too few, and one more handler runs than
  `MaxExceptions` allows; `sequencer/docs/retries.md:8-9` says the lower exhausted
  bound stops execution. TLC finds it with three attempts and two exceptions. The
  attempt budget does not have this gap (`AttemptBudget`), because the attempt number
  comes from the locked row.
- A claim of a compensation that races a reset of its forward operation is refused by
  the trigger with SQLSTATE 55000, which `ClaimNext` returns as an error, so the whole
  fleet fails. It is safe, and the next process goes on.
- A budget read before a reset counts the attempts of the old epoch too, so the first
  claim after a reset may fail as exhausted without running.

### Bounds

`MaxTime` and `MaxToken` end a lease behaviour after the second acquisition; two
owners are enough for every property since each speaks of at most two handles, and
the proofs remove the bound. TLC runs the PostgreSQL store, which has the most
cases, with truncation and drift at once; the proofs cover all three. One slot for two handles makes renewal capacity run
out; the manager's own handle bound equals the number of handles, so refusing an
Acquire is reached through `closed` only. Four clients with a queue of two fill the semaphore's queue behind a client
that does not fit. The outbox trades records for faults (`MaxLoad`): both records with
one fault of any kind or one replay, or one record with two of them, or with one and a
request that is executed late, which is enough for a record to be lost, reclaimed,
settled, replayed or to meet a request from before. `Tokens` is larger than the
number of tokens that can be referred to at once (`EnoughTokens`), so the
generator is never exhausted. Two permits fill the probe sample of two, and a permit
that is given up is reused, so a stale or expired one meets a newer generation; a run
with a third permit and no liveness found nothing more.

Two callers of one request race for a key, the third brings another fingerprint;
three attempts allow a takeover and an attempt in the generation after the deletion.
The sequencer's instance is one operation and its compensation, three attempts in all,
which is a retry or a replay of either, or a reset of the forward operation. Its
handlers return success or a retryable error; the unknown outcome is reached through
expiry, and a permanent failure through an exhausted budget. The proofs cover every
result, any number of operations and chains of compensations. In the bulkhead a heavy
caller blocks two light ones behind it, with a fourth to hold the weight, and two
partitions are enough for one to be retained while its successor is used.

Deadlock is not checked: all these systems may become idle, or reach the bound of
a counter. Progress is stated as liveness instead.

Symmetry is used for owners, tokens, callers and fleets, only in runs without
liveness. Lease tokens of the outbox are chosen with `CHOOSE` instead, since they
are compared for equality only.

### Fairness

- `LeaseGuard`, `LeaseManager`: goroutines that can run do run, remote calls end
  (each has an operation timeout), a callback returns once its context is done.
  Nobody has to call `Shutdown`.
- `Semaphore`: holders release, woken clients run. Nobody has to acquire, cancel or
  close.
- `OutboxRelay`: relays run and are restarted by their service, publishers return
  (the documentation demands it), time passes. Errors, crashes, pauses,
  cancellations and replays are bounded by `MaxFaults`: without end, replays of one
  record would hold up the later ones of its key.
- `Breaker`: callers keep calling, operations end. `RecoveryDecided` is claimed for
  behaviours that stay in normal mode and are not disturbed by cancelled, ignored or
  expired operations from some point on; those may postpone a decision for ever.
- `Bulkhead`: woken goroutines run and holders return their permits. Deadlines,
  cancellation and `Close` are not needed for anybody's progress.
- `Idempotency`, `Sequencer`: none; only safety is claimed. Retries belong to callers,
  and an unknown outcome waits for an operator.

All of it is weak fairness.

## Proofs

`LeaseProofs` proves for every set of owners, TTL, margin, grain, drift and bound,
on each backend, from the named assumptions of `Lease` and `MarginCovers`
(`Drift + Remainder <= SafetyMargin`): `MutualExclusion`, `AdmittedHoldsLease`,
`TokensUnique`, `NoRevival`, `SuccessorSafe`, `FenceMonotonic` and that `Lease`
implements `FencedLease`. `lease_remainder` shows that `MarginCovers` cannot be
dropped.

Mutual exclusion is not inductive. What carries it is `HoldInv`: behind every
admitted handle, every successful acquisition not yet seen by its client, and every
successful renewal on its way there is a record that outlives the deadline the
client has or will have. The deadline is counted from before the request and the
record's expiry from its execution, so execution time is on the safe side, drift
and truncation are paid by the margin. `OrphanInv` keeps late requests harmless
(their handle no longer admits work), `RowInv` and `UniqueInv` order the tokens.
One lemma per action shows that it preserves the invariant; `ExecuteFacts` states
what the three stores have in common, once.

`SemaphoreProofs` proves for every capacity, queue bound and set of clients that
the queue is exact, that its head never fits (no lost wakeup), that a blocked
`Wait` call has something to wait for and is woken only when nothing is held
(`DrainedMeansIdle`), strict FIFO, that nothing is issued after `Close`, and
`WeightConserved`. `GrantFacts` states what `grantWaitersLocked` returns and
`WithoutFacts` what removing a waiter leaves.

A sum over a set has no definition that a prover can unfold. The proofs count
instead: `Units(f, S, m)` is the set of pairs `<<x, k>>` with `k <= f[x]`, and
`TotalIsUnits` shows, by well-founded induction over the finite subsets, that the
sum is its cardinality. That sums over disjoint sets add up is then a fact about
cardinalities. `GrantWeighs` adds the waiters that one release grants.

`ManagedProofs` proves for every finite set of handles, slot bound and set of faults
`NothingLeftBehind`, `LossReported` and `SuccessMeansReleased` of `guard.Run`, and for
every handle bound and set of concurrent `Shutdown` calls `ActiveExact`,
`ShutdownHonest` and the action property `ClosedTakesNone` of the manager. Both rest
on `SlotsExact`: the client's slots count the renewal goroutines alive. What makes
guard's three invariants inductive is `RunInv`, which follows a loss on its way from
the renewal goroutine to the watcher, into the losses channel and into the result: the
runner is past `Stop` only when the renewal goroutine is gone, and past `Drain` only
when the watcher has sent what it took. For the manager, `RegistryInv` says that an
entry belongs to an `Acquire` call that has returned, so none is entered twice, and
`CloserInv` that what a `Shutdown` call has left to do is the end of what it took over
and, unless it failed, all before that is released. No action takes a handle out of
`released`, so owners that release their handles meanwhile do no harm.

`IdempotencyProofs` proves for every set of callers, fingerprints and tokens, from
the assumptions that a fingerprint belongs to each caller and that no token is the
null token: `AnswersAgree`, `NoCrossing`, `EffectOnce` and that `Idempotency`
implements `OncePerKey`. Agreement of answers is not inductive, because an answer is
taken from the record and the record may be replaced. `Inductive` says that the
record is the newest attempt of its generation and no two attempts share a token, or a
generation and a fence (`RecordIsNewest`, `AttemptsUnique`), that every proof carried
and every call under way belongs to an attempt (`ProofsGenuine`), that an open
transaction keeps its record (`TxnHolds`), and that a generation has one result, the
record's (`ResultsExact`). A late call is then either the newest attempt's or refused.
That no token is drawn twice is assumed of the token source the stores are given.

`SequencerProofs` proves `CompensationFenced`, `NoBlindReplay`, `LedgerAgrees` and
`AttemptBudget` for every finite set of operations, every compensation and dependency
relation in which the forward operation is a dependency of its compensation
(`NewOperation` demands it), every set of fleets, results and budgets. The four are
inductive together with `StartsCounted` (handlers started against the attempts of the
epoch) and `ClaimsSound` (a claim's budget counts at least the attempts of the current
epoch, however old its snapshot; completions carry outcomes). The argument has three
parts: what an update accepted by the triggers does to the rows and their counters
(`UpdateFenced`, with `Counted` for the cardinality), what it does to the ledger of
one operation (`Agrees`), and what a step does to loops and claims (`LoopKept`,
`ClaimsKept`). One lemma per action combines them.

`OutboxProofs` proves `DeliveredWasAccepted`, `DeadWasExhausted`, `OneHolder`,
`ReplacedCannotMutate` and `OrderKept` for every set of records, relays and tokens, every batch size,
worker count, attempt limit and number of faults. A delivered row says nothing of how
it came about, so the invariant speaks of everybody who may still settle it: under the
current lease a job counts the row's attempts, and what a job or an abandoned request
asks for is justified by what publishers have reported (`JobSound`, `LateSound`); jobs
of different relays have different tokens, current or not (`HoldersDiffer`). `RowStep`
lists what a statement may do to a row. Its consequence `StillCurrent` carries the
proof: whoever refers to the current lease after a step did so before it, on the same
attempt, and no report has been forgotten since, because a claim draws a token nobody
refers to and only a settled row is replayed. That the token is unused is the
modelling of 128 random bits (`NewToken`); `UsedByRows` shows what depends on it.

`OutboxSerialized` proves `Serialized` where records become visible in the order of
`(created_at, id)` and nothing is replayed (`"late_commit"` and `"replay"` are not in
`Features`; the observations above say why both are needed). `Claim` looks for
earlier records in a snapshot only, so the property has to reach back to when the
snapshot was taken: `InOrder` says that all records of the key before a leased record,
or before a record in the snapshot of a claim under way, are settled. It is inductive
because a settled record stays settled without replay and no record appears before
an existing one without late commits (`RowMoves` lists how a row's state may move).
`OutboxOrder` proves `OrderKept` whatever is committed late or replayed: a row becomes
leased only out of a snapshot, and no snapshot is taken of a row with an open one
before it (`OvertakeStep`).

`BreakerProofs` proves `ProbesExact`, `SampleSound`, `ClosedIsHealthy`, `NoLostWakeup`
and `StaleHarmless` for every set of callers, finite set of permits, window, opening
rules and half-open policy that `Config` accepts (`BreakerAssumption`). The four
invariants are inductive together with `SampleKept`: with `ReopenImmediately` a sample
that goes on has seen successes only. Without it nothing rules out a sample that has
reached `MaxProbes` below `RequiredSuccesses` and is undecided, because
`completeHalfOpenLocked` then evaluates no other rule. The lemmas follow the pieces of
the locked sections: `Released` for probes taken out of the sample, `Restarted` for a
new generation, `Signalled` for the changed channel, `TransitionPreserves` for
`transitionLocked`; one lemma per action or group of actions combines them.
`StaleHarmless` follows because a permit that is stale, disabled or expired is never
in `probes`.

`BulkheadProofs` proves `CapacityShared`, `NoLostGrant` and the action property
`StrictFifo` for every finite set of callers with their weights, every capacity, queue
bound and number of partitions created. `BulkheadInv` adds to `NoLostGrant` that a
waiter without a grant is in the list of its partition once and nobody else is
(`WaiterInv`, `PartitionInv`), that a partition's counter is the weight of its permits,
and that a partition that is not registered is empty and, once created, closed. The
last one is why the capacity is shared: `Registry.Remove` asks for a drained partition,
and a closed one admits nobody, so all but one summand of `CapacityShared` are zero.
Sums are handled as in `SemaphoreProofs`. `Without` numbers the places that stay;
`PlaceFacts` and `WithoutFacts` show that this keeps the order and loses nobody else.
`GrantFacts` states what the loop of `grantWaitersLocked` decides: a grant has only
granted, timed out or decided waiters ahead of it, the grants fit, and a live waiter
left behind with only granted ones ahead does not. `SectionStep` is the common end of `finishWait` and
`Release`; the other actions have a lemma each.

Proved and in no run: `Serialized`, `ReplacedCannotMutate`, `AdmittedHoldsLease`, `TokensUnique`, `SuccessorSafe`,
`FenceMonotonic`, `HeadBlocked`, `BlockedMeansBusy`, `QueueExact`,
`CloseKeepsPermits` and `EffectOnce`.

Every safety property of a passing run is proved. Only model-checked: all liveness
(`LossCancelsCallback`, `RunReturns`, `ShutdownStopsRenewal`, `NoStarvation`,
`EventuallySettled`, `RelayStops`, `RecoveryDecided`, `Progress`), which needs
fairness and `ENABLED`, that TLAPS does not handle. The three violations are TLC's
counterexamples.

## Not modelled

Within the modelled packages: the retry loop of `Client.Acquire`, observers,
metrics, validation of arguments, panics of injected clocks and callbacks, overflow
of 64-bit counters, time windows, ratio and slow-call rules and the open-duration
schedule of the breaker, `Inspect` and `Backlog` of the outbox,
`AvailabilityAllowUntracked` and the capacity of the memory store of idempotency, the
reentrancy check of the bulkhead's `Execute`, and registration, definition drift,
conditions, deferral and the inline `Runner` of the sequencer.

The other packages are listed in `PROJECT.json` with the reason: parsers and
formats work on unbounded text, values and algorithms are pure, transports and
broker adapters have the guarantees of the service behind them.

## Plan

1. `LeaseAcquire`: the retry loop on top of `Lease`.
2. `Hedge` and the queue's worker pool.
