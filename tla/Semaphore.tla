----------------------------- MODULE Semaphore -----------------------------
(***************************************************************************)
(* pkg/semaphore: the process-local weighted semaphore with a bounded FIFO  *)
(* queue, cancellation, exactly-once permits, Close and Wait.  Every        *)
(* operation is one section under the semaphore's mutex; what happens       *)
(* between a grant and the moment the waiting goroutine notices it is not.  *)
(* Counters and observer events are left out: nothing reads them.           *)
(***************************************************************************)
EXTENDS Integers, Sequences, FiniteSetsExt

CONSTANTS Clients,       \* goroutines that acquire, each with one request
          Drainers,      \* goroutines that call Wait
          Capacity,      \* Config.Capacity
          MaxWaiters,    \* Config.MaxWaiters
          Weights        \* the weights callers ask for

ASSUME ConfigAssumption == /\ IsFiniteSet(Clients)
                           /\ Capacity \in Nat \ {0} /\ MaxWaiters \in Nat

(* validateWeight turns the others away. *)
ASSUME WeightAssumption == Weights \subseteq 1..Capacity

VARIABLES acquired,      \* weight held by permits
          queue,         \* the waiter list, head first
          closed,        \* Close was called
          client,        \* client[c]: its request, see Clients below
          weight,        \* weight[c]: the weight of its request
          drain,         \* drain[d]: its Wait call
          drained        \* the drain channel: "nil" or "open"

vars == <<acquired, queue, closed, client, weight, drain, drained>>

(* A waiting client is granted or refused by somebody else; it has its permit *)
(* (or its error) only when it has noticed.                                   *)
ClientStates == {"idle", "waiting", "granted", "refused", "holding", "released"}

(* The clients whose permit has been issued and not returned. *)
Owners == {c \in Clients : client[c] \in {"granted", "holding"}}

TypeOK == /\ acquired \in 0..Capacity
          /\ queue \in Seq(Clients)
          /\ closed \in BOOLEAN
          /\ client \in [Clients -> ClientStates]
          /\ weight \in [Clients -> 1..Capacity]
          /\ drain \in [Drainers -> {"idle", "blocked", "drained"}]
          /\ drained \in {"nil", "open"}

Init == /\ acquired = 0
        /\ queue = <<>>
        /\ closed = FALSE
        /\ client = [c \in Clients |-> "idle"]
        /\ weight = [c \in Clients |-> 1]
        /\ drain = [d \in Drainers |-> "idle"]
        /\ drained = "nil"

Fits(a, w) == Capacity - a >= w

(* removeWaiterLocked: q without its i-th element, and without its k first. *)
Without(q, i) == [j \in 1..(Len(q) - 1) |-> IF j < i THEN q[j] ELSE q[j + 1]]
Drop(q, k) == [j \in 1..(Len(q) - k) |-> q[j + k]]

-----------------------------------------------------------------------------
(* grantWaitersLocked, starting from the queue q and the acquired weight a:   *)
(* heads are granted while they fit.  used lists the successive values of     *)
(* acquired; the k heads of q leave the queue.  c itself ends in state s.     *)
GrantWaiters(q, a, c, s) ==
  \E k \in 0..Len(q) : \E used \in [0..k -> 0..Capacity] :
    /\ used[0] = a
    /\ \A i \in 1..k : /\ Fits(used[i - 1], weight[q[i]])
                       /\ used[i] = used[i - 1] + weight[q[i]]
    /\ k < Len(q) => ~Fits(used[k], weight[q[k + 1]])
    /\ acquired' = used[k]
    /\ queue' = Drop(q, k)
    /\ client' = [x \in Clients |-> IF \E i \in 1..k : q[i] = x THEN "granted"
                                    ELSE IF x = c THEN s ELSE client[x]]

(* A request with no permit of its own pending: a new one may be made. *)
Free(c) == client[c] \in {"idle", "released"}

(* The variant without the check that nobody is queued. *)
AdmitPastQueue(c, w) ==
  /\ Free(c) /\ ~closed
  /\ Fits(acquired, w)
  /\ acquired' = acquired + w
  /\ client' = [client EXCEPT ![c] = "holding"]
  /\ weight' = [weight EXCEPT ![c] = w]
  /\ UNCHANGED <<queue, closed, drain, drained>>

(* Acquire and TryAcquire admit at once only past an empty queue. *)
Admit(c, w) ==
  /\ Free(c) /\ ~closed
  /\ queue = <<>> /\ Fits(acquired, w)
  /\ acquired' = acquired + w
  /\ client' = [client EXCEPT ![c] = "holding"]
  /\ weight' = [weight EXCEPT ![c] = w]
  /\ UNCHANGED <<queue, closed, drain, drained>>

(* Acquire queues what cannot be admitted, up to the bound. *)
Enqueue(c, w) ==
  /\ Free(c) /\ ~closed
  /\ ~(queue = <<>> /\ Fits(acquired, w))
  /\ Len(queue) < MaxWaiters
  /\ queue' = Append(queue, c)
  /\ client' = [client EXCEPT ![c] = "waiting"]
  /\ weight' = [weight EXCEPT ![c] = w]
  /\ UNCHANGED <<acquired, closed, drain, drained>>

(* The waiter finds its permit or its error, whatever woke it up. *)
Return(c) ==
  /\ client[c] \in {"granted", "refused"}
  /\ client' = [client EXCEPT ![c] = IF @ = "granted" THEN "holding" ELSE "idle"]
  /\ UNCHANGED <<acquired, queue, closed, weight, drain, drained>>

(* Variant: the waiter leaves without a look at its permit. *)
CancelDropsPermit(c) ==
  /\ client[c] \in {"waiting", "granted"}
  /\ queue' = SelectSeq(queue, LAMBDA x : x # c)
  /\ client' = [client EXCEPT ![c] = "idle"]
  /\ UNCHANGED <<acquired, closed, weight, drain, drained>>

(* The waiter finds neither: its context is done, and those behind it may fit. *)
Cancel(c) ==
  /\ client[c] = "waiting"
  /\ \E i \in DOMAIN queue : /\ queue[i] = c
                             /\ GrantWaiters(Without(queue, i), acquired, c, "idle")
  /\ UNCHANGED <<closed, weight, drain, drained>>

(* Close of the drain channel wakes every blocked Wait call. *)
CloseDrained ==
  IF acquired' = 0 /\ drained = "open"
  THEN /\ drained' = "nil"
       /\ drain' = [d \in Drainers |-> IF drain[d] = "blocked" THEN "drained" ELSE drain[d]]
  ELSE UNCHANGED <<drain, drained>>

(* Variant: the drain channel is closed before the released weight goes to    *)
(* the queue.                                                                 *)
ReleaseSignalsFirst(c) ==
  /\ client[c] = "holding"
  /\ GrantWaiters(queue, acquired - weight[c], c, "released")
  /\ IF acquired = weight[c] /\ drained = "open"
     THEN /\ drained' = "nil"
          /\ drain' = [d \in Drainers |-> IF drain[d] = "blocked" THEN "drained" ELSE drain[d]]
     ELSE UNCHANGED <<drain, drained>>
  /\ UNCHANGED <<closed, weight>>

(* Permit.Release, also by Execute after success, error or panic. *)
Release(c) ==
  /\ client[c] = "holding"
  /\ GrantWaiters(queue, acquired - weight[c], c, "released")
  /\ CloseDrained
  /\ UNCHANGED <<closed, weight>>

(* A second Release of the same permit is refused and changes nothing. *)
ReleaseAgain(c) == client[c] = "released" /\ UNCHANGED vars

(* Close refuses the waiters and leaves the permits alone. *)
Close ==
  /\ ~closed
  /\ closed' = TRUE
  /\ queue' = <<>>
  /\ client' = [c \in Clients |-> IF client[c] = "waiting" THEN "refused" ELSE client[c]]
  /\ UNCHANGED <<acquired, weight, drain, drained>>

(* Wait subscribes to the drain channel unless nothing is held. *)
Wait(d) ==
  /\ drain[d] = "idle" /\ acquired # 0
  /\ drain' = [drain EXCEPT ![d] = "blocked"]
  /\ drained' = "open"
  /\ UNCHANGED <<acquired, queue, closed, client, weight>>

(* Wait returns: drained, or its context is done. *)
WaitReturn(d) ==
  /\ drain[d] # "idle"
  /\ drain' = [drain EXCEPT ![d] = "idle"]
  /\ UNCHANGED <<acquired, queue, closed, client, weight, drained>>

Next == \/ \E c \in Clients : \/ \E w \in Weights : Admit(c, w) \/ Enqueue(c, w)
                              \/ Return(c) \/ Cancel(c)
                              \/ Release(c) \/ ReleaseAgain(c)
        \/ Close
        \/ \E d \in Drainers : Wait(d) \/ WaitReturn(d)

Spec == Init /\ [][Next]_vars

(* Holders of permits release them and woken goroutines run.  No context has  *)
(* to end and no client has to ask.                                          *)
Fairness == \A c \in Clients : WF_vars(Return(c)) /\ WF_vars(Release(c))

FairSpec == Spec /\ Fairness

-----------------------------------------------------------------------------
(* Properties.                                                              *)

(* The sum of f over S. *)
Total(f, S) == MapThenSumSet(LAMBDA c : f[c], S)

(* The counter is the weight of the outstanding permits, within capacity: no   *)
(* grant, cancellation, duplicate release or shutdown loses or invents weight. *)
WeightConserved ==
  /\ acquired = Total(weight, Owners)
  /\ acquired \in 0..Capacity

(* The queue is exactly the clients still waiting, each once, within bound,   *)
(* and empty after Close.                                                     *)
QueueExact ==
  /\ \A i \in DOMAIN queue : client[queue[i]] = "waiting"
  /\ \A i, j \in DOMAIN queue : queue[i] = queue[j] => i = j
  /\ \A c \in Clients : client[c] = "waiting" => \E i \in DOMAIN queue : queue[i] = c
  /\ Len(queue) <= MaxWaiters
  /\ closed => queue = <<>>

(* No lost wakeup: whoever is at the head of the queue does not fit, so a      *)
(* release or a cancellation never leaves room that a waiter could use.       *)
HeadBlocked == queue # <<>> => ~Fits(acquired, weight[queue[1]])

(* c comes before x in the queue. *)
Ahead(c, x) == \E i, j \in DOMAIN queue : i < j /\ queue[i] = c /\ queue[j] = x

(* Strict FIFO: a client that obtains its permit in a step, at once or from    *)
(* the queue, overtakes nobody who is still waiting after that step.          *)
NoBypass ==
  [][\A x \in Clients : x \in Owners' \ Owners =>
       \A c \in Clients : client[c] = "waiting" /\ client'[c] = "waiting"
                          => Ahead(x, c)]_vars

(* A Wait call is woken only when nothing is held any more, counting what the  *)
(* same release handed to the queue.                                          *)
DrainedMeansIdle ==
  [][\A d \in Drainers : drain[d] = "blocked" /\ drain'[d] = "drained"
                         => acquired' = 0]_vars

(* A Wait call that is still blocked has something to wait for.               *)
BlockedMeansBusy ==
  \A d \in Drainers : drain[d] = "blocked" => acquired # 0 /\ drained = "open"

(* A permit that was issued before Close stays valid, and Close admits nobody. *)
CloseKeepsPermits ==
  [][closed => Owners' \subseteq Owners]_vars

(* Under fair holders nobody waits for ever, not even a client that needs the  *)
(* whole capacity while smaller requests keep coming.                         *)
NoStarvation == \A c \in Clients : client[c] = "waiting" ~> client[c] # "waiting"

=============================================================================
