------------------------------ MODULE Bulkhead ------------------------------
(***************************************************************************)
(* pkg/bulkhead: a registry entry and the partitions created for it one     *)
(* after the other.  Each partition admits weight up to its capacity and    *)
(* queues the rest in FIFO order with a deadline.  A waiter that has been   *)
(* timed out or closed by somebody else stays in the list, and counts as    *)
(* queued, until its own goroutine takes it out (finishWait).  Clocks are   *)
(* sampled before the mutex is taken, so a section may judge deadlines by a *)
(* time that is already over.  Counters and events are left out.            *)
(***************************************************************************)
EXTENDS Naturals, Sequences, FiniteSetsExt

CONSTANTS Callers,
          Weight,         \* Weight[c]: what caller c asks for
          Capacity, MaxQueued,
          MaxCreated      \* bound: partitions ever created for the resource

(* Acquire turns other weights away (ErrInvalidWeight). *)
ASSUME WeightAssumption == Weight \in [Callers -> 1..Capacity]

ASSUME ConfigAssumption == /\ IsFiniteSet(Callers)
                           /\ Capacity \in Nat \ {0} /\ MaxQueued \in Nat
                           /\ MaxCreated \in Nat \ {0}

VARIABLES registry,       \* the registered partition, 0 when there is none
          created,        \* how many partitions have been created
          active, queue, draining, drained,      \* of each partition
          pc,             \* pc[c]: "idle", "waiting" or "holding" a permit
          at,             \* at[c]: the partition c called last
          verdict,        \* verdict[c]: what others have decided on the waiter
          past            \* past[c]: the waiter's deadline is over

partition == <<active, queue, draining, drained>>
waiter    == <<pc, at, verdict, past>>
vars      == <<registry, created, partition, waiter>>

Partitions == 1..MaxCreated

TypeOK == /\ registry \in 0..created /\ created \in 0..MaxCreated
          /\ active \in [Partitions -> 0..Capacity]
          /\ queue \in [Partitions -> Seq(Callers)]
          /\ \A b \in Partitions : Len(queue[b]) <= MaxQueued
          /\ draining \in [Partitions -> BOOLEAN] /\ drained \in [Partitions -> BOOLEAN]
          /\ pc \in [Callers -> {"idle", "waiting", "holding"}]
          /\ at \in [Callers -> Partitions]
          /\ verdict \in [Callers -> {"none", "granted", "timeout", "closed"}]
          /\ past \in [Callers -> BOOLEAN]

Init == /\ registry = 0 /\ created = 0
        /\ active = [b \in Partitions |-> 0]
        /\ queue = [b \in Partitions |-> <<>>]
        /\ draining = [b \in Partitions |-> FALSE]
        /\ drained = [b \in Partitions |-> FALSE]
        /\ pc = [c \in Callers |-> "idle"]
        /\ at = [c \in Callers |-> 1]
        /\ verdict = [c \in Callers |-> "none"]
        /\ past = [c \in Callers |-> FALSE]

-----------------------------------------------------------------------------
(* The registry.                                                           *)

(* Create: ErrPartitionExists while one is registered. *)
Create == /\ registry = 0 /\ created < MaxCreated
          /\ created' = created + 1
          /\ registry' = created + 1
          /\ UNCHANGED <<partition, waiter>>

(* Variant: a partition is removed as soon as it is closed. *)
RemovableClosed(b) == draining[b]

(* Snapshot().Drained *)
Removable(b) == draining[b] /\ active[b] = 0 /\ queue[b] = <<>>

(* Remove: ErrPartitionBusy otherwise. *)
Remove == /\ registry # 0 /\ Removable(registry)
          /\ registry' = 0
          /\ UNCHANGED <<created, partition, waiter>>

-----------------------------------------------------------------------------
(* Sections under a partition's mutex.                                     *)

(* The Weighted semaphore of x/sync, never waited on. *)
TryAcquire(a, w) == a + w <= Capacity

(* grantWaitersLocked passes over the waiters that are done, times out those *)
(* it sees overdue, and grants the others from the head while they fit: a    *)
(* waiter is granted when it fits together with all of those up to it.      *)
Live(overdue) == {x \in Callers : verdict[x] = "none" /\ x \notin overdue}
UpTo(q, i) == {q[h] : h \in 1..i}
Total(f, S) == MapThenSumSet(LAMBDA x : f[x], S)

(* Variant: a waiter that does not fit is passed over, the lighter ones      *)
(* behind it are tried.                                                    *)
GrantedFitting(q, a, overdue) ==
    LET fits == {i \in DOMAIN q : q[i] \in Live(overdue) /\ TryAcquire(a, Weight[q[i]])}
    IN IF fits = {} THEN {} ELSE {q[Min(fits)]}

Granted(q, a, overdue) ==
    {x \in Live(overdue) : \E i \in DOMAIN q :
        q[i] = x /\ TryAcquire(a, Total(Weight, UpTo(q, i) \cap Live(overdue)))}

(* The overdue waiters the loop comes by before it stops. *)
TimedOut(q, overdue, granted) ==
    {x \in overdue : verdict[x] = "none" /\ \E i \in DOMAIN q :
        /\ q[i] = x
        /\ \A y \in UpTo(q, i) : y \in overdue \cup granted \/ verdict[y] # "none"}

(* removeWaiterLocked: q without the members of S, in order. *)
Place(I, i) == Cardinality({h \in I : h <= i})
Without(q, S) ==
    LET kept == {i \in DOMAIN q : q[i] \notin S}
    IN [k \in 1..Cardinality(kept) |-> q[CHOOSE i \in kept : Place(kept, i) = k]]

(* The rest of the section of caller c at b: the queue is q and the weight a *)
(* before the grants, nothing is granted once the partition is draining, and *)
(* maybeDrainedLocked closes the drained channel.  (Quantifiers over one     *)
(* value instead of LET: TLC computes it once when it evaluates ENABLED.)    *)
GrantWaiters(b, c, q, a, overdue) ==
    \E granted \in {IF draining[b] THEN {} ELSE Granted(q, a, overdue)} :
    \E late    \in {IF draining[b] THEN {} ELSE TimedOut(q, overdue, granted)} :
       /\ queue' = [queue EXCEPT ![b] = Without(q, granted)]
       /\ active' = [active EXCEPT ![b] = a + Total(Weight, granted)]
       /\ verdict' = [x \in Callers |-> IF x \in granted THEN "granted"
                                        ELSE IF x \in late THEN "timeout"
                                        ELSE IF x = c THEN "none" ELSE verdict[x]]
       /\ drained' = [drained EXCEPT ![b] =
                         @ \/ (draining[b] /\ active'[b] = 0 /\ queue'[b] = <<>>)]
       /\ UNCHANGED draining

(* What the clock, read some time before the section, shows to be overdue. *)
Overdue == SUBSET {x \in Callers : past[x]}

-----------------------------------------------------------------------------
(* Acquire by a caller that has looked b up, at any time since it was        *)
(* created: ErrClosed once it is draining, ErrRejected or ErrQueueFull when  *)
(* there is neither weight nor a place in the queue (MaxQueued = 0 stands    *)
(* for RejectImmediately).                                                 *)

Admissible(b, c) == queue[b] = <<>> /\ TryAcquire(active[b], Weight[c])

Admit(c, b) ==
    /\ pc[c] = "idle" /\ b <= created /\ ~draining[b]
    /\ Admissible(b, c)
    /\ active' = [active EXCEPT ![b] = @ + Weight[c]]
    /\ pc' = [pc EXCEPT ![c] = "holding"]
    /\ at' = [at EXCEPT ![c] = b]
    /\ UNCHANGED <<registry, created, queue, draining, drained, verdict, past>>

Enqueue(c, b) ==
    /\ pc[c] = "idle" /\ b <= created /\ ~draining[b]
    /\ ~Admissible(b, c) /\ Len(queue[b]) < MaxQueued
    /\ queue' = [queue EXCEPT ![b] = Append(@, c)]
    /\ pc' = [pc EXCEPT ![c] = "waiting"]
    /\ at' = [at EXCEPT ![c] = b]
    /\ UNCHANGED <<registry, created, active, draining, drained, verdict, past>>

(* finishWait of a waiter that was granted: the permit counts, whatever      *)
(* woke its goroutine up.                                                  *)
Permitted(c) ==
    /\ pc[c] = "waiting" /\ verdict[c] = "granted"
    /\ pc' = [pc EXCEPT ![c] = "holding"]
    /\ verdict' = [verdict EXCEPT ![c] = "none"]
    /\ past' = [past EXCEPT ![c] = FALSE]
    /\ UNCHANGED <<registry, created, partition, at>>

(* Variant: nobody looks whether those behind a leaving waiter fit now. *)
LeaveNoGrant(c, overdue) ==
    /\ pc[c] = "waiting" /\ verdict[c] # "granted"
    /\ queue' = [queue EXCEPT ![at[c]] = Without(@, {c})]
    /\ drained' = [drained EXCEPT ![at[c]] =
          @ \/ (draining[at[c]] /\ active[at[c]] = 0 /\ queue'[at[c]] = <<>>)]
    /\ verdict' = [verdict EXCEPT ![c] = "none"]
    /\ pc' = [pc EXCEPT ![c] = "idle"]
    /\ past' = [past EXCEPT ![c] = FALSE]
    /\ UNCHANGED <<registry, created, active, draining, at>>

(* finishWait otherwise: the waiter leaves the list with its error, and the  *)
(* ones behind it may fit.                                                 *)
Leave(c, overdue) ==
    /\ pc[c] = "waiting" /\ verdict[c] # "granted"
    /\ pc' = [pc EXCEPT ![c] = "idle"]
    /\ past' = [past EXCEPT ![c] = FALSE]
    /\ UNCHANGED <<registry, created, at>>
    /\ GrantWaiters(at[c], c, Without(queue[at[c]], {c}), active[at[c]], overdue)

(* Woken by its ready channel or its timer, or by its context. *)
Woken(c)     == /\ verdict[c] # "none" \/ past[c]
                /\ \E overdue \in Overdue : Leave(c, overdue)
Cancelled(c) == \E overdue \in Overdue : Leave(c, overdue)

(* Permit.Release, the first one; Execute calls it on return and on panic. *)
Release(c) ==
    /\ pc[c] = "holding"
    /\ pc' = [pc EXCEPT ![c] = "idle"]
    /\ UNCHANGED <<registry, created, at, past>>
    /\ \E overdue \in Overdue :
          GrantWaiters(at[c], c, queue[at[c]], active[at[c]] - Weight[c], overdue)

(* Variant: the waiters are not told. *)
CloseSilent(b) ==
    /\ b <= created /\ ~draining[b]
    /\ draining' = [draining EXCEPT ![b] = TRUE]
    /\ drained' = [drained EXCEPT ![b] = active[b] = 0 /\ queue[b] = <<>>]
    /\ UNCHANGED <<registry, created, active, queue, waiter>>

(* Close, the first half of Drain: every waiter is told, none is removed. *)
Close(b) ==
    /\ b <= created /\ ~draining[b]
    /\ draining' = [draining EXCEPT ![b] = TRUE]
    /\ verdict' = [x \in Callers |->
          IF pc[x] = "waiting" /\ at[x] = b /\ verdict[x] = "none" THEN "closed"
          ELSE verdict[x]]
    /\ drained' = [drained EXCEPT ![b] = active[b] = 0 /\ queue[b] = <<>>]
    /\ UNCHANGED <<registry, created, active, queue, pc, at, past>>

(* MaxWait is over. *)
Expire(c) == /\ pc[c] = "waiting" /\ ~past[c]
             /\ past' = [past EXCEPT ![c] = TRUE]
             /\ UNCHANGED <<registry, created, partition, pc, at, verdict>>

Next == \/ Create \/ Remove
        \/ \E b \in Partitions : Close(b)
        \/ \E c \in Callers :
              \/ \E b \in Partitions : Admit(c, b) \/ Enqueue(c, b)
              \/ Permitted(c) \/ Woken(c) \/ Cancelled(c) \/ Release(c) \/ Expire(c)

Spec == Init /\ [][Next]_vars

(* What the goroutine of c does without anybody's help. *)
Proceed(c) == Permitted(c) \/ Woken(c) \/ Release(c)

(* Woken goroutines run and holders return their permit.  Deadlines,         *)
(* cancellation and Close are not needed for progress.                     *)
FairSpec == Spec /\ \A c \in Callers : WF_vars(Proceed(c))

-----------------------------------------------------------------------------
(* Properties *)

(* The permits of a partition: held, or granted to a goroutine that has not  *)
(* noticed.                                                                *)
Permits(b) == {c \in Callers : at[c] = b /\ (pc[c] = "holding" \/ verdict[c] = "granted")}

(* All partitions ever created for the resource together never admit more   *)
(* than its capacity, whatever pointers callers retain: a partition is      *)
(* replaced only when nothing of it is left (Registry.Remove).  Each counts *)
(* exactly its permits, none is lost between a grant and a cancellation or  *)
(* timeout that races it (finishWait).                                     *)
CapacityShared ==
    /\ TypeOK
    /\ \A b \in Partitions : active[b] = Total(Weight, Permits(b))
    /\ Total(active, Partitions) <= Capacity

(* No waiter is forgotten: the head of the list does not fit, unless a       *)
(* decided waiter is still in the list and its finishWait will come by       *)
(* (grantWaitersLocked after every removal and release).  A draining         *)
(* partition leaves nobody undecided.                                      *)
NoLostGrant ==
    \A b \in Partitions :
       LET undecided == {i \in DOMAIN queue[b] : verdict[queue[b][i]] = "none"}
       IN /\ queue[b] # <<>> /\ undecided = DOMAIN queue[b]
                => ~TryAcquire(active[b], Weight[Head(queue[b])])
          /\ draining[b] => undecided = {}

(* Who is granted stands behind decided or departing waiters only; who is    *)
(* admitted at once found the queue empty.                                 *)
FifoStep(c, b) ==
    LET q      == queue[b]
        grants == verdict[c] # "granted" /\ verdict'[c] = "granted"
        admits == pc[c] = "idle" /\ pc'[c] = "holding"
    IN /\ grants /\ at[c] = b =>
            \E i \in DOMAIN q :
               /\ q[i] = c
               /\ \A h \in 1..i : \/ verdict[q[h]] # "none" \/ verdict'[q[h]] # "none"
                                  \/ pc'[q[h]] = "idle"
       /\ admits /\ at'[c] = b => q = <<>>

(* Permits are handed out in the order of the queue: a grant leaves nobody   *)
(* undecided ahead, an immediate admission finds the queue empty, even of    *)
(* waiters that have timed out and not left.                               *)
StrictFifo == [][\A c \in Callers, b \in Partitions : FifoStep(c, b)]_vars

(* Everyone who waits gets an answer, without the help of a deadline, and a  *)
(* closed partition drains once its permits are returned (Drain).          *)
Progress == /\ \A c \in Callers : pc[c] = "waiting" ~> pc[c] # "waiting"
            /\ \A b \in Partitions : draining[b] ~> drained[b]

-----------------------------------------------------------------------------
(* What makes the safety properties inductive *)

(* A verdict waits for its goroutine; who is not granted is in the list. *)
WaiterInv(c) ==
    /\ verdict[c] # "none" => pc[c] = "waiting"
    /\ pc[c] = "waiting" /\ verdict[c] # "granted" =>
          \E i \in DOMAIN queue[at[c]] : queue[at[c]][i] = c

(* The list names waiters of the partition once each, the counter its        *)
(* permits; nothing is left in a partition but the registered one.          *)
PartitionInv(b) ==
    LET q == queue[b]
    IN /\ \A i \in DOMAIN q : pc[q[i]] = "waiting" /\ at[q[i]] = b /\ verdict[q[i]] # "granted"
       /\ \A i, j \in DOMAIN q : q[i] = q[j] => i = j
       /\ active[b] = Total(Weight, Permits(b))
       /\ b # registry => active[b] = 0 /\ q = <<>>
       /\ b # registry /\ b <= created => draining[b]

BulkheadInv == /\ TypeOK /\ NoLostGrant
               /\ \A c \in Callers : WaiterInv(c)
               /\ \A b \in Partitions : PartitionInv(b)
=============================================================================
