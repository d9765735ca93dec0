-------------------------- MODULE SemaphoreProofs --------------------------
(***************************************************************************)
(* Proofs about Semaphore.tla, for every number of clients, capacity, queue *)
(* bound and set of weights.                                                *)
(***************************************************************************)
EXTENDS Semaphore, FiniteSetTheorems, WellFoundedInduction, TLAPS

(* What is preserved by every step. *)
Inv == TypeOK /\ QueueExact /\ HeadBlocked /\ BlockedMeansBusy

(* The initial state satisfies the invariant. *)
LEMMA InitInv == Init => Inv
<1> SUFFICES ASSUME Init PROVE Inv
  OBVIOUS
<1>1. TypeOK
  <2>1. 1 \in 1..Capacity
    BY ConfigAssumption
  <2>2. acquired \in 0..Capacity /\ queue \in Seq(Clients)
    BY ConfigAssumption DEF Init
  <2>b. closed \in BOOLEAN
    BY ConfigAssumption, Zenon DEF Init
  <2>3. client \in [Clients -> ClientStates] /\ weight \in [Clients -> 1..Capacity]
    BY <2>1 DEF Init, ClientStates
  <2>4. drain \in [Drainers -> {"idle", "blocked", "drained"}] /\ drained \in {"nil", "open"}
    BY ConfigAssumption DEF Init
  <2>5. QED
    BY <2>2, <2>b, <2>3, <2>4 DEF TypeOK
<1>2. QueueExact
  BY ConfigAssumption DEF Init, QueueExact
<1>3. HeadBlocked /\ BlockedMeansBusy
  BY DEF Init, HeadBlocked, BlockedMeansBusy
<1>4. QED
  BY <1>1, <1>2, <1>3 DEF Inv

(* The queue parts of the invariant after grantWaitersLocked has run on a     *)
(* queue of distinct waiting clients: it holds exactly the ungranted ones, in *)
(* order, and its head does not fit.                                          *)
LEMMA GrantFacts ==
  ASSUME TypeOK, NEW q \in Seq(Clients), NEW a \in Int, NEW c \in Clients,
         NEW s \in {"idle", "released"}, GrantWaiters(q, a, c, s),
         weight' = weight, closed' = closed,
         Len(q) <= MaxWaiters, closed => q = <<>>,
         \A i \in DOMAIN q : client[q[i]] = "waiting" /\ q[i] # c,
         \A i, j \in DOMAIN q : q[i] = q[j] => i = j,
         \A x \in Clients : client[x] = "waiting" /\ x # c
                            => \E i \in DOMAIN q : q[i] = x
  PROVE  /\ acquired' \in 0..Capacity /\ queue' \in Seq(Clients)
         /\ client' \in [Clients -> ClientStates]
         /\ QueueExact' /\ HeadBlocked'
         /\ a # 0 => acquired' # 0
         /\ \A x \in Owners' \ Owners : \E i \in DOMAIN q : q[i] = x
         /\ \A x \in Owners' \ Owners, y \in Clients :
              client'[y] = "waiting" =>
                \E i, j \in DOMAIN q : i < j /\ q[i] = x /\ q[j] = y
<1>a. PICK k \in 0..Len(q) : \E used \in [0..k -> 0..Capacity] :
        /\ used[0] = a
        /\ \A i \in 1..k : /\ Fits(used[i - 1], weight[q[i]])
                           /\ used[i] = used[i - 1] + weight[q[i]]
        /\ k < Len(q) => ~Fits(used[k], weight[q[k + 1]])
        /\ acquired' = used[k]
        /\ queue' = Drop(q, k)
        /\ client' = [x \in Clients |-> IF \E i \in 1..k : q[i] = x THEN "granted"
                                        ELSE IF x = c THEN s ELSE client[x]]
  BY Zenon DEF GrantWaiters
<1>1. PICK used \in [0..k -> 0..Capacity] :
        /\ used[0] = a
        /\ \A i \in 1..k : /\ Fits(used[i - 1], weight[q[i]])
                           /\ used[i] = used[i - 1] + weight[q[i]]
        /\ k < Len(q) => ~Fits(used[k], weight[q[k + 1]])
        /\ acquired' = used[k]
        /\ queue' = Drop(q, k)
        /\ client' = [x \in Clients |-> IF \E i \in 1..k : q[i] = x THEN "granted"
                                        ELSE IF x = c THEN s ELSE client[x]]
  BY <1>a, Zenon
<1>2. /\ Len(q) \in Nat /\ DOMAIN q = 1..Len(q)
      /\ \A i \in 1..Len(q) : q[i] \in Clients
  OBVIOUS
<1>3. /\ queue' \in Seq(Clients) /\ Len(queue') = Len(q) - k
      /\ DOMAIN queue' = 1..(Len(q) - k)
      /\ \A j \in 1..(Len(q) - k) : queue'[j] = q[j + k]
  BY <1>1, <1>2 DEF Drop
<1>4. acquired' \in 0..Capacity /\ client' \in [Clients -> ClientStates]
  BY <1>1, ConfigAssumption DEF TypeOK, ClientStates
<1>5. ASSUME NEW i \in 1..Len(q), i > k PROVE client'[q[i]] = "waiting"
  <2>1. q[i] \in Clients /\ q[i] # c /\ client[q[i]] = "waiting"
    BY <1>2
  <2>2. ~\E j \in 1..k : q[j] = q[i]
    <3>1. SUFFICES ASSUME NEW j \in 1..k, q[j] = q[i] PROVE FALSE
      OBVIOUS
    <3>2. j \in DOMAIN q /\ i \in DOMAIN q
      BY <1>2
    <3>3. j = i
      BY <3>1, <3>2
    <3>4. QED
      BY <3>3, <1>5
  <2>3. QED
    BY <1>1, <2>1, <2>2
<1>6. QueueExact'
  <2>1. \A i \in DOMAIN queue' : client'[queue'[i]] = "waiting"
    <3>1. SUFFICES ASSUME NEW i \in 1..(Len(q) - k) PROVE client'[queue'[i]] = "waiting"
      BY <1>3
    <3>2. i + k \in 1..Len(q) /\ i + k > k /\ queue'[i] = q[i + k]
      BY <1>2, <1>3
    <3>3. QED
      BY <1>5, <3>2
  <2>2. \A i, j \in DOMAIN queue' : queue'[i] = queue'[j] => i = j
    <3>1. SUFFICES ASSUME NEW i \in 1..(Len(q) - k), NEW j \in 1..(Len(q) - k),
                          queue'[i] = queue'[j]
                   PROVE  i = j
      BY <1>3
    <3>2. i + k \in DOMAIN q /\ j + k \in DOMAIN q /\ q[i + k] = q[j + k]
      BY <1>2, <1>3, <3>1
    <3>3. i + k = j + k
      BY <3>2
    <3>4. QED
      BY <3>3
  <2>3. ASSUME NEW x \in Clients, client'[x] = "waiting"
        PROVE  \E i \in DOMAIN queue' : queue'[i] = x
    <3>1. client[x] = "waiting" /\ x # c /\ ~\E i \in 1..k : q[i] = x
      BY <1>1, <2>3
    <3>2. PICK i \in 1..Len(q) : q[i] = x
      BY <1>2, <3>1
    <3>3. i - k \in DOMAIN queue' /\ queue'[i - k] = x
      BY <1>2, <1>3, <3>1, <3>2
    <3>4. QED
      BY <3>3
  <2>4. Len(queue') <= MaxWaiters
    BY <1>2, <1>3, ConfigAssumption
  <2>5. closed' => queue' = <<>>
    BY <1>2, <1>3
  <2>6. QED
    BY <2>1, <2>2, <2>3, <2>4, <2>5 DEF QueueExact
<1>7. HeadBlocked'
  <2>1. ASSUME queue' # <<>> PROVE k < Len(q) /\ queue'[1] = q[k + 1]
    BY <1>2, <1>3, <2>1
  <2>2. QED
    BY <1>1, <2>1 DEF HeadBlocked, Fits
<1>8. a # 0 => acquired' # 0
  <2>1. CASE k = 0
    BY <1>1, <2>1
  <2>2. CASE k # 0
    <3>1. k - 1 \in 0..k /\ k \in 1..k /\ k \in 1..Len(q)
      BY <1>2, <2>2
    <3>2. used[k - 1] \in 0..Capacity /\ weight[q[k]] \in 1..Capacity
      BY <1>2, <3>1 DEF TypeOK
    <3>3. used[k] = used[k - 1] + weight[q[k]]
      BY <1>1, <3>1
    <3>4. QED
      BY <1>1, <3>2, <3>3, ConfigAssumption
  <2>3. QED
    BY <2>1, <2>2
<1>9. ASSUME NEW x \in Owners' \ Owners PROVE \E i \in 1..k : q[i] = x
  BY <1>1, <1>9 DEF Owners
<1>10. ASSUME NEW x \in Owners' \ Owners, NEW y \in Clients, client'[y] = "waiting"
       PROVE  \E i, j \in DOMAIN q : i < j /\ q[i] = x /\ q[j] = y
  <2>1. PICK i \in 1..k : q[i] = x
    BY <1>9
  <2>2. client[y] = "waiting" /\ y # c /\ ~\E j \in 1..k : q[j] = y
    BY <1>1, <1>10
  <2>3. PICK j \in 1..Len(q) : q[j] = y
    BY <1>2, <2>2
  <2>4. i \in DOMAIN q /\ j \in DOMAIN q /\ i < j
    BY <1>2, <2>1, <2>2, <2>3
  <2>5. QED
    BY <2>1, <2>3, <2>4
<1>11. \A x \in Owners' \ Owners : \E i \in DOMAIN q : q[i] = x
  BY <1>2, <1>9
<1>12. QED
  BY <1>3, <1>4, <1>6, <1>7, <1>8, <1>10, <1>11

(* What NoBypass and CloseKeepsPermits say of one step. *)
Fair == \A x \in Clients : x \in Owners' \ Owners =>
          \A c \in Clients : client[c] = "waiting" /\ client'[c] = "waiting" => Ahead(x, c)
Sealed == closed => Owners' \subseteq Owners

(* A queue from which removeWaiterLocked took one element is the old one with  *)
(* that element skipped.                                                      *)
LEMMA WithoutFacts ==
  ASSUME NEW q \in Seq(Clients), NEW i \in DOMAIN q
  PROVE  /\ Without(q, i) \in Seq(Clients)
         /\ Len(Without(q, i)) = Len(q) - 1
         /\ DOMAIN Without(q, i) = 1..(Len(q) - 1)
         /\ \A j \in 1..(Len(q) - 1) :
              Without(q, i)[j] = q[IF j < i THEN j ELSE j + 1]
         /\ \A j \in DOMAIN q : j # i =>
              \E m \in 1..(Len(q) - 1) : Without(q, i)[m] = q[j]
<1>1. Len(q) \in Nat /\ DOMAIN q = 1..Len(q) /\ i \in 1..Len(q) /\ Len(q) - 1 \in Nat
  OBVIOUS
<1>2. \A j \in 1..(Len(q) - 1) : q[j] \in Clients /\ q[j + 1] \in Clients
  BY <1>1
<1>3. /\ Without(q, i) \in Seq(Clients)
      /\ Len(Without(q, i)) = Len(q) - 1
      /\ DOMAIN Without(q, i) = 1..(Len(q) - 1)
  BY <1>1, <1>2 DEF Without
<1>4. \A j \in 1..(Len(q) - 1) : Without(q, i)[j] = q[IF j < i THEN j ELSE j + 1]
  BY <1>1 DEF Without
<1>5. ASSUME NEW j \in DOMAIN q, j # i
      PROVE  \E m \in 1..(Len(q) - 1) : Without(q, i)[m] = q[j]
  <2>1. CASE j < i
    <3>1. j \in 1..(Len(q) - 1) /\ Without(q, i)[j] = q[j]
      BY <1>1, <1>4, <2>1
    <3>2. QED
      BY <3>1
  <2>2. CASE j > i
    <3>1. j - 1 \in 1..(Len(q) - 1) /\ ~(j - 1 < i) /\ j - 1 + 1 = j
      BY <1>1, <2>2
    <3>2. Without(q, i)[j - 1] = q[j]
      BY <1>4, <3>1
    <3>3. QED
      BY <3>1, <3>2
  <2>3. QED
    BY <1>1, <1>5, <2>1, <2>2
<1>6. QED
  BY <1>3, <1>4, <1>5

(* A cancelled waiter leaves the queue and those behind it keep their order. *)
LEMMA CancelStep ==
  ASSUME Inv, NEW c \in Clients, Cancel(c)
  PROVE  Inv' /\ Fair /\ Sealed
<1>1. PICK i \in DOMAIN queue :
        queue[i] = c /\ GrantWaiters(Without(queue, i), acquired, c, "idle")
  BY DEF Cancel
<1> DEFINE q == Without(queue, i)
<1>2. TypeOK /\ QueueExact /\ HeadBlocked /\ BlockedMeansBusy
  BY DEF Inv
<1>3. /\ queue \in Seq(Clients) /\ Len(queue) \in Nat /\ DOMAIN queue = 1..Len(queue)
      /\ i \in 1..Len(queue)
  BY <1>2 DEF TypeOK
<1>4. /\ q \in Seq(Clients) /\ Len(q) = Len(queue) - 1 /\ DOMAIN q = 1..(Len(queue) - 1)
      /\ \A j \in 1..(Len(queue) - 1) : q[j] = queue[IF j < i THEN j ELSE j + 1]
      /\ \A j \in DOMAIN queue : j # i =>
           \E m \in 1..(Len(queue) - 1) : q[m] = queue[j]
  BY <1>3, WithoutFacts, Zenon
<1>5. weight' = weight /\ closed' = closed /\ drain' = drain /\ drained' = drained
  BY DEF Cancel
<1> HIDE DEF q
<1>6. Len(q) <= MaxWaiters /\ (closed => q = <<>>)
  BY <1>1, <1>2, <1>3, <1>4, ConfigAssumption DEF QueueExact
<1>7. ASSUME NEW j \in DOMAIN q PROVE client[q[j]] = "waiting" /\ q[j] # c
  <2> DEFINE old == IF j < i THEN j ELSE j + 1
  <2>a. old \in 1..Len(queue) /\ old # i
    BY <1>3, <1>4
  <2>b. q[j] = queue[old]
    BY <1>4
  <2>1. PICK m \in 1..Len(queue) : q[j] = queue[m] /\ m # i
    BY <2>a, <2>b
  <2>2. QED
    BY <1>1, <1>2, <1>3, <2>1 DEF QueueExact
<1>8. ASSUME NEW j \in DOMAIN q, NEW m \in DOMAIN q, q[j] = q[m] PROVE j = m
  <2> DEFINE old(n) == IF n < i THEN n ELSE n + 1
  <2>1. old(j) \in DOMAIN queue /\ old(m) \in DOMAIN queue
    BY <1>3, <1>4
  <2>2. queue[old(j)] = queue[old(m)]
    BY <1>4, <1>8, Zenon
  <2>3. old(j) = old(m)
    BY <1>2, <2>1, <2>2 DEF QueueExact
  <2>4. QED
    BY <1>3, <1>4, <2>3
<1>9. ASSUME NEW x \in Clients, client[x] = "waiting" /\ x # c
      PROVE  \E j \in DOMAIN q : q[j] = x
  <2>1. PICK j \in DOMAIN queue : queue[j] = x
    BY <1>2, <1>9 DEF QueueExact
  <2>2. QED
    BY <1>1, <1>4, <1>9, <2>1
<1>10. acquired \in Int /\ GrantWaiters(q, acquired, c, "idle")
  BY <1>1, <1>2 DEF TypeOK, q
<1>11. /\ acquired' \in 0..Capacity /\ queue' \in Seq(Clients)
       /\ client' \in [Clients -> ClientStates]
       /\ QueueExact' /\ HeadBlocked'
       /\ acquired # 0 => acquired' # 0
       /\ \A x \in Owners' \ Owners : \E j \in DOMAIN q : q[j] = x
       /\ \A x \in Owners' \ Owners, y \in Clients :
            client'[y] = "waiting" =>
              \E j, m \in DOMAIN q : j < m /\ q[j] = x /\ q[m] = y
  <2>1. /\ \A j \in DOMAIN q : client[q[j]] = "waiting" /\ q[j] # c
        /\ \A j, m \in DOMAIN q : q[j] = q[m] => j = m
        /\ \A x \in Clients : client[x] = "waiting" /\ x # c => \E j \in DOMAIN q : q[j] = x
    BY <1>7, <1>8, <1>9
  <2>2. "idle" \in {"idle", "released"} /\ TypeOK /\ q \in Seq(Clients)
    BY <1>2, <1>4
  <2>3. QED
    BY <2>1, <2>2, <1>5, <1>6, <1>10, GrantFacts, SMTT(60)
<1>12. TypeOK'
  BY <1>2, <1>5, <1>11 DEF TypeOK
<1>13. BlockedMeansBusy'
  BY <1>2, <1>5, <1>11 DEF BlockedMeansBusy
<1>14. Sealed
  <2>1. closed => DOMAIN q = {}
    BY <1>3, <1>4, <1>6
  <2>2. QED
    BY <2>1, <1>11 DEF Sealed
<1>15. ASSUME NEW x \in Clients, x \in Owners' \ Owners, NEW y \in Clients,
              client'[y] = "waiting"
       PROVE  Ahead(x, y)
  <2>1. PICK j \in DOMAIN q, m \in DOMAIN q : j < m /\ q[j] = x /\ q[m] = y
    BY <1>11, <1>15
  <2> DEFINE old(n) == IF n < i THEN n ELSE n + 1
  <2>2. old(j) \in DOMAIN queue /\ old(m) \in DOMAIN queue /\ old(j) < old(m)
    BY <1>3, <1>4, <2>1
  <2>3. queue[old(j)] = x /\ queue[old(m)] = y
    BY <1>4, <2>1
  <2>4. QED
    BY <2>2, <2>3 DEF Ahead
<1>16. QED
  BY <1>11, <1>12, <1>13, <1>14, <1>15 DEF Inv, Fair

(* A release hands its weight to the head of the queue and wakes Wait calls   *)
(* only when nothing is held any more.                                       *)
LEMMA ReleaseStep ==
  ASSUME Inv, NEW c \in Clients, Release(c)
  PROVE  Inv' /\ Fair /\ Sealed
<1>1. TypeOK /\ QueueExact /\ HeadBlocked /\ BlockedMeansBusy
  BY DEF Inv
<1>2. /\ queue \in Seq(Clients) /\ acquired - weight[c] \in Int
      /\ GrantWaiters(queue, acquired - weight[c], c, "released")
      /\ weight' = weight /\ closed' = closed /\ client[c] = "holding"
  BY <1>1 DEF Release, TypeOK
<1>3. /\ acquired' \in 0..Capacity /\ queue' \in Seq(Clients)
      /\ client' \in [Clients -> ClientStates]
      /\ QueueExact' /\ HeadBlocked'
      /\ \A x \in Owners' \ Owners : \E j \in DOMAIN queue : queue[j] = x
      /\ \A x \in Owners' \ Owners, y \in Clients :
           client'[y] = "waiting" =>
             \E j, m \in DOMAIN queue : j < m /\ queue[j] = x /\ queue[m] = y
  <2>1. /\ \A j \in DOMAIN queue : client[queue[j]] = "waiting" /\ queue[j] # c
        /\ \A j, m \in DOMAIN queue : queue[j] = queue[m] => j = m
        /\ \A x \in Clients : client[x] = "waiting" /\ x # c
                              => \E j \in DOMAIN queue : queue[j] = x
        /\ Len(queue) <= MaxWaiters /\ (closed => queue = <<>>)
    BY <1>1, <1>2 DEF QueueExact
  <2>2. "released" \in {"idle", "released"} /\ TypeOK
    BY <1>1
  <2>3. QED
    BY <1>2, <2>1, <2>2, GrantFacts, SMTT(60)
<1>4. /\ drain' \in [Drainers -> {"idle", "blocked", "drained"}]
      /\ drained' \in {"nil", "open"}
      /\ BlockedMeansBusy'
  <2>1. CloseDrained
    BY DEF Release
  <2>2. CASE acquired' = 0 /\ drained = "open"
    <3>1. /\ drained' = "nil"
          /\ drain' = [d \in Drainers |-> IF drain[d] = "blocked" THEN "drained" ELSE drain[d]]
      BY <2>1, <2>2 DEF CloseDrained
    <3>2. QED
      BY <1>1, <3>1 DEF TypeOK, BlockedMeansBusy
  <2>3. CASE ~(acquired' = 0 /\ drained = "open")
    <3>1. drained' = drained /\ drain' = drain
      BY <2>1, <2>3 DEF CloseDrained
    <3>2. QED
      BY <1>1, <2>3, <3>1 DEF TypeOK, BlockedMeansBusy
  <2>4. QED
    BY <2>2, <2>3
<1>5. TypeOK'
  BY <1>1, <1>2, <1>3, <1>4 DEF TypeOK
<1>6. Sealed
  <2>1. closed => DOMAIN queue = {}
    BY <1>1 DEF QueueExact
  <2>2. QED
    BY <2>1, <1>3 DEF Sealed
<1>7. Fair
  BY <1>3 DEF Fair, Ahead
<1>8. QED
  BY <1>3, <1>4, <1>5, <1>6, <1>7 DEF Inv

(* Immediate admission happens past an empty queue only. *)
LEMMA AdmitStep ==
  ASSUME Inv, NEW c \in Clients, NEW w \in Weights, Admit(c, w)
  PROVE  Inv' /\ Fair /\ Sealed
<1>1. TypeOK /\ QueueExact /\ HeadBlocked /\ BlockedMeansBusy
  BY DEF Inv
<1>2. w \in 1..Capacity /\ Capacity \in Nat
  BY WeightAssumption, ConfigAssumption
<1>3. TypeOK'
  <2>1. acquired' \in 0..Capacity /\ queue' = queue /\ closed' = closed /\ drain' = drain
        /\ drained' = drained
    BY <1>1, <1>2 DEF Admit, TypeOK, Fits
  <2>2. client' \in [Clients -> ClientStates] /\ weight' \in [Clients -> 1..Capacity]
    BY <1>1, <1>2 DEF Admit, TypeOK, ClientStates
  <2>3. QED
    BY <1>1, <2>1, <2>2 DEF TypeOK
<1>4. \A x \in Clients : client[x] # "waiting" /\ client'[x] # "waiting"
  BY <1>1 DEF Admit, QueueExact, TypeOK
<1>5. QueueExact' /\ HeadBlocked'
  BY <1>1, <1>4 DEF Admit, QueueExact, HeadBlocked
<1>6. BlockedMeansBusy'
  <2>1. acquired # 0 => acquired' # 0
    BY <1>1, <1>2 DEF Admit, TypeOK
  <2>2. QED
    BY <1>1, <2>1 DEF Admit, BlockedMeansBusy
<1>7. Fair /\ Sealed
  BY <1>4 DEF Fair, Sealed, Admit
<1>8. QED
  BY <1>3, <1>5, <1>6, <1>7 DEF Inv

(* A request that cannot be admitted goes to the back of the queue. *)
LEMMA EnqueueStep ==
  ASSUME Inv, NEW c \in Clients, NEW w \in Weights, Enqueue(c, w)
  PROVE  Inv' /\ Fair /\ Sealed
<1>1. TypeOK /\ QueueExact /\ HeadBlocked /\ BlockedMeansBusy
  BY DEF Inv
<1>2. /\ w \in 1..Capacity /\ Capacity \in Nat /\ MaxWaiters \in Nat
      /\ queue \in Seq(Clients) /\ Len(queue) \in Nat /\ DOMAIN queue = 1..Len(queue)
      /\ \A i \in 1..Len(queue) : queue[i] \in Clients
  BY <1>1, WeightAssumption, ConfigAssumption DEF TypeOK
<1>3. /\ queue' \in Seq(Clients) /\ Len(queue') = Len(queue) + 1
      /\ DOMAIN queue' = 1..(Len(queue) + 1)
      /\ \A i \in 1..Len(queue) : queue'[i] = queue[i]
      /\ queue'[Len(queue) + 1] = c
  BY <1>2 DEF Enqueue
<1>4. /\ client' \in [Clients -> ClientStates] /\ weight' \in [Clients -> 1..Capacity]
      /\ \A x \in Clients : x # c => client'[x] = client[x] /\ weight'[x] = weight[x]
      /\ client'[c] = "waiting" /\ weight'[c] = w /\ client[c] # "waiting"
  BY <1>1, <1>2 DEF Enqueue, TypeOK, ClientStates, Free
<1>5. /\ acquired' = acquired /\ closed' = closed /\ ~closed /\ drain' = drain
      /\ drained' = drained
  BY DEF Enqueue
<1>6. TypeOK'
  BY <1>1, <1>3, <1>4, <1>5 DEF TypeOK
<1>7. \A i \in 1..Len(queue) : queue[i] # c /\ client[queue[i]] = "waiting"
  BY <1>1, <1>2, <1>4 DEF QueueExact
<1>8. QueueExact'
  <2>1. ASSUME NEW i \in 1..(Len(queue) + 1) PROVE client'[queue'[i]] = "waiting"
    <3>1. CASE i \in 1..Len(queue)
      <4>1. queue'[i] = queue[i] /\ queue[i] \in Clients /\ queue[i] # c
        BY <1>2, <1>3, <1>7, <3>1
      <4>2. QED
        BY <1>4, <1>7, <3>1, <4>1
    <3>2. CASE i = Len(queue) + 1
      BY <1>3, <1>4, <3>2
    <3>3. QED
      BY <1>2, <3>1, <3>2
  <2>2. ASSUME NEW i \in 1..(Len(queue) + 1), NEW j \in 1..(Len(queue) + 1),
               queue'[i] = queue'[j]
        PROVE  i = j
    <3>1. CASE i \in DOMAIN queue /\ j \in DOMAIN queue
      BY <1>1, <1>2, <1>3, <2>2, <3>1 DEF QueueExact
    <3>2. CASE i = Len(queue) + 1 \/ j = Len(queue) + 1
      BY <1>2, <1>3, <1>7, <2>2, <3>2
    <3>3. QED
      BY <1>2, <3>1, <3>2
  <2>3. ASSUME NEW x \in Clients, client'[x] = "waiting"
        PROVE  \E i \in 1..(Len(queue) + 1) : queue'[i] = x
    <3>1. CASE x = c
      BY <1>2, <1>3, <3>1
    <3>2. CASE x # c
      <4>1. PICK i \in 1..Len(queue) : queue[i] = x
        BY <1>1, <1>2, <1>4, <2>3, <3>2 DEF QueueExact
      <4>2. i \in 1..(Len(queue) + 1) /\ queue'[i] = x
        BY <1>2, <1>3, <4>1
      <4>3. QED
        BY <4>2
    <3>3. QED
      BY <3>1, <3>2
  <2>4. Len(queue') <= MaxWaiters
    BY <1>2, <1>3 DEF Enqueue
  <2>5. QED
    BY <1>3, <1>5, <2>1, <2>2, <2>3, <2>4 DEF QueueExact
<1>9. HeadBlocked'
  <2>1. CASE queue = <<>>
    <3>1. queue'[1] = c
      BY <1>3, <2>1
    <3>2. QED
      BY <1>4, <1>5, <2>1, <3>1 DEF Enqueue, HeadBlocked, Fits
  <2>2. CASE queue # <<>>
    <3>1. 1 \in 1..Len(queue)
      BY <1>2, <2>2
    <3>2. queue'[1] = queue[1] /\ queue[1] # c /\ queue[1] \in Clients
      BY <1>2, <1>3, <1>7, <3>1
    <3>3. QED
      BY <1>1, <1>4, <1>5, <2>2, <3>2 DEF HeadBlocked, Fits
  <2>3. QED
    BY <2>1, <2>2
<1>10. BlockedMeansBusy'
  BY <1>1, <1>5 DEF BlockedMeansBusy
<1>11. Owners' \subseteq Owners
  BY <1>4 DEF Owners
<1>12. QED
  BY <1>6, <1>8, <1>9, <1>10, <1>11 DEF Inv, Fair, Sealed

(* A waiter that notices its grant or its refusal. *)
LEMMA ReturnStep ==
  ASSUME Inv, NEW c \in Clients, Return(c)
  PROVE  Inv' /\ Fair /\ Sealed
<1>1. TypeOK /\ QueueExact /\ HeadBlocked /\ BlockedMeansBusy
  BY DEF Inv
<1>2. /\ acquired' = acquired /\ queue' = queue /\ closed' = closed /\ weight' = weight
      /\ drain' = drain /\ drained' = drained
      /\ client[c] \in {"granted", "refused"}
      /\ client' = [client EXCEPT ![c] = IF client[c] = "granted" THEN "holding" ELSE "idle"]
  BY DEF Return
<1>3. /\ client' \in [Clients -> ClientStates]
      /\ \A x \in Clients : (client'[x] = "waiting") <=> (client[x] = "waiting")
      /\ Owners' \subseteq Owners
  BY <1>1, <1>2 DEF TypeOK, ClientStates, Owners
<1>4. TypeOK'
  BY <1>1, <1>2, <1>3 DEF TypeOK
<1>5. QueueExact'
  <2>1. \A i \in DOMAIN queue : queue[i] \in Clients
    BY <1>1 DEF TypeOK
  <2>2. QED
    BY <1>1, <1>2, <1>3, <2>1 DEF QueueExact
<1>6. HeadBlocked' /\ BlockedMeansBusy'
  BY <1>1, <1>2 DEF HeadBlocked, BlockedMeansBusy, Fits
<1>7. QED
  BY <1>3, <1>4, <1>5, <1>6 DEF Inv, Fair, Sealed

(* Close empties the queue and leaves the permits alone. *)
LEMMA CloseStep ==
  ASSUME Inv, Close
  PROVE  Inv' /\ Fair /\ Sealed
<1>1. TypeOK /\ QueueExact /\ HeadBlocked /\ BlockedMeansBusy
  BY DEF Inv
<1>2. /\ acquired' = acquired /\ queue' = <<>> /\ closed' = TRUE /\ weight' = weight
      /\ drain' = drain /\ drained' = drained
      /\ client' = [c \in Clients |-> IF client[c] = "waiting" THEN "refused" ELSE client[c]]
  BY DEF Close
<1>3. /\ client' \in [Clients -> ClientStates]
      /\ \A x \in Clients : client'[x] # "waiting"
      /\ Owners' \subseteq Owners
  BY <1>1, <1>2 DEF TypeOK, ClientStates, Owners
<1>4. TypeOK'
  <2>1. <<>> \in Seq(Clients)
    OBVIOUS
  <2>2. TRUE \in BOOLEAN
    OBVIOUS
  <2>3. closed' \in BOOLEAN
    BY <1>2, <2>2
  <2>4. QED
    BY <1>1, <1>2, <1>3, <2>1, <2>3 DEF TypeOK
<1>5. QueueExact'
  BY <1>2, <1>3, ConfigAssumption DEF QueueExact
<1>6. HeadBlocked' /\ BlockedMeansBusy'
  BY <1>1, <1>2 DEF HeadBlocked, BlockedMeansBusy
<1>7. QED
  BY <1>3, <1>4, <1>5, <1>6 DEF Inv, Fair, Sealed

(* Wait calls touch nothing but the drain channel. *)
LEMMA WaitStep ==
  ASSUME Inv, NEW d \in Drainers, Wait(d) \/ WaitReturn(d)
  PROVE  Inv' /\ Fair /\ Sealed
<1>1. TypeOK /\ QueueExact /\ HeadBlocked /\ BlockedMeansBusy
  BY DEF Inv
<1>2. /\ acquired' = acquired /\ queue' = queue /\ closed' = closed /\ weight' = weight
      /\ client' = client
  BY DEF Wait, WaitReturn
<1>3. /\ drain' \in [Drainers -> {"idle", "blocked", "drained"}]
      /\ drained' \in {"nil", "open"}
  BY <1>1 DEF Wait, WaitReturn, TypeOK
<1>4. BlockedMeansBusy'
  BY <1>1, <1>2 DEF BlockedMeansBusy, Wait, WaitReturn, TypeOK
<1>5. TypeOK' /\ QueueExact' /\ HeadBlocked' /\ Owners' = Owners
  BY <1>1, <1>2, <1>3 DEF TypeOK, QueueExact, HeadBlocked, Owners, Fits
<1>6. QED
  BY <1>4, <1>5 DEF Inv, Fair, Sealed

(* Every step preserves the invariant, overtakes nobody and, after Close,     *)
(* issues nothing.                                                            *)
LEMMA NextStep ==
  ASSUME Inv, [Next]_vars
  PROVE  Inv' /\ Fair /\ Sealed
<1>1. ASSUME NEW c \in Clients, NEW w \in Weights, Admit(c, w) PROVE Inv' /\ Fair /\ Sealed
  BY <1>1, AdmitStep
<1>2. ASSUME NEW c \in Clients, NEW w \in Weights, Enqueue(c, w) PROVE Inv' /\ Fair /\ Sealed
  BY <1>2, EnqueueStep
<1>3. ASSUME NEW c \in Clients, Return(c) PROVE Inv' /\ Fair /\ Sealed
  BY <1>3, ReturnStep
<1>4. ASSUME NEW c \in Clients, Cancel(c) PROVE Inv' /\ Fair /\ Sealed
  BY <1>4, CancelStep
<1>5. ASSUME NEW c \in Clients, Release(c) PROVE Inv' /\ Fair /\ Sealed
  BY <1>5, ReleaseStep
<1>6. CASE Close
  BY <1>6, CloseStep
<1>7. ASSUME NEW d \in Drainers, Wait(d) \/ WaitReturn(d) PROVE Inv' /\ Fair /\ Sealed
  BY <1>7, WaitStep
<1>8. CASE UNCHANGED vars
  BY <1>8 DEF vars, Inv, TypeOK, QueueExact, HeadBlocked, BlockedMeansBusy, Fits, Owners,
              Fair, Sealed
<1>9. ASSUME NEW c \in Clients, ReleaseAgain(c) PROVE Inv' /\ Fair /\ Sealed
  BY <1>8, <1>9 DEF ReleaseAgain
<1>10. QED
  BY <1>1, <1>2, <1>3, <1>4, <1>5, <1>6, <1>7, <1>8, <1>9 DEF Next

-----------------------------------------------------------------------------
(* Sums of weights.  A request of weight w stands for w units; the sum over a *)
(* set is the number of its units, and cardinalities are easy to reason about. *)
Units(f, S, m) == {p \in S \X (1..m) : p[2] <= f[p[1]]}

(* A set has finitely many units, none when it is empty, and gains f[x] of    *)
(* them with a new element x.                                                 *)
LEMMA UnitsFacts ==
  ASSUME NEW C, IsFiniteSet(C), NEW m \in Nat, NEW f \in [C -> 0..m], NEW S \in SUBSET C
  PROVE  /\ Cardinality(Units(f, S, m)) \in Nat
         /\ S = {} => Cardinality(Units(f, S, m)) = 0
         /\ \A x \in C \ S :
              Cardinality(Units(f, S \cup {x}, m)) = f[x] + Cardinality(Units(f, S, m))
<1> DEFINE U(T) == Units(f, T, m)
<1>1. IsFiniteSet(U(S)) /\ Cardinality(U(S)) \in Nat
  <2>1. IsFiniteSet(S) /\ IsFiniteSet(1..m)
    BY FS_Subset, FS_Interval
  <2>2. IsFiniteSet(S \X (1..m))
    BY <2>1, FS_Product, Zenon
  <2>3. U(S) \in SUBSET (S \X (1..m))
    BY DEF Units
  <2>4. IsFiniteSet(U(S))
    BY <2>2, <2>3, FS_Subset
  <2> QED
    BY <2>4, FS_CardinalityType
<1>2. ASSUME S = {} PROVE Cardinality(U(S)) = 0
  <2>1. U(S) = {}
    BY <1>2 DEF Units
  <2> QED
    BY <2>1, FS_EmptySet
<1>3. ASSUME NEW x \in C \ S
      PROVE  Cardinality(U(S \cup {x})) = f[x] + Cardinality(U(S))
  <2> DEFINE V == {x} \X (1..f[x])
  <2>1. f[x] \in Nat /\ IsFiniteSet(1..f[x]) /\ Cardinality(1..f[x]) = f[x]
    BY FS_Interval
  <2>2. IsFiniteSet({x}) /\ Cardinality({x}) = 1
    BY FS_Singleton, Zenon
  <2>3. IsFiniteSet(V) /\ Cardinality(V) = 1 * f[x]
    BY <2>1, <2>2, FS_Product, Zenon
  <2>4. U(S \cup {x}) = U(S) \cup V
    <3>1. V = {p \in {x} \X (1..m) : p[2] <= f[p[1]]}
      OBVIOUS
    <3> HIDE DEF V
    <3> QED
      BY <3>1 DEF Units
  <2>5. U(S) \cap V = {}
    BY DEF Units
  <2> HIDE DEF U, V
  <2>6. Cardinality(U(S) \cap V) = 0
    BY <2>5, FS_EmptySet
  <2>7. Cardinality(U(S) \cup V)
          = Cardinality(U(S)) + Cardinality(V) - Cardinality(U(S) \cap V)
    BY <1>1, <2>3, FS_Union
  <2>8. Cardinality(V) = f[x]
    BY <2>1, <2>3
  <2>9. \A a, b \in Nat : a + b - 0 = b + a
    OBVIOUS
  <2>10. Cardinality(U(S)) + f[x] - 0 = f[x] + Cardinality(U(S))
    BY ONLY <1>1, <2>1, <2>9
  <2> QED
    BY <2>4, <2>6, <2>7, <2>8, <2>10, Zenon
<1> QED
  BY <1>1, <1>2, <1>3

(* The recursion of MapThenSumSet has a solution, the number of units, and,   *)
(* by induction along strict inclusion, no other.                             *)
LEMMA TotalIsUnits ==
  ASSUME NEW C, IsFiniteSet(C), NEW m \in Nat, NEW f \in [C -> 0..m], NEW S \in SUBSET C
  PROVE  Total(f, S) = Cardinality(Units(f, S, m))
<1> DEFINE pick(s) == CHOOSE x \in s : TRUE
           Body(h) == [s \in SUBSET S |-> IF s = {} THEN 0
                                          ELSE LET x == CHOOSE x \in s : TRUE
                                               IN f[x] + h[s \ {x}]]
           g == [s \in SUBSET S |-> Cardinality(Units(f, s, m))]
           sum == CHOOSE h : h = Body(h)
<1>1. ASSUME NEW s \in SUBSET S, s # {}
      PROVE  /\ pick(s) \in s /\ s \ {pick(s)} \in SUBSET S
             /\ g[s] = f[pick(s)] + g[s \ {pick(s)}]
  <2>1. pick(s) \in s
    BY <1>1
  <2> HIDE DEF pick
  <2>2. /\ s \ {pick(s)} \in SUBSET S /\ pick(s) \in C \ (s \ {pick(s)})
        /\ (s \ {pick(s)}) \cup {pick(s)} = s
    BY <2>1
  <2> QED
    BY <2>1, <2>2, UnitsFacts
<1>2. g[{}] = 0
  BY UnitsFacts
<1>3. g = Body(g)
  <2>1. ASSUME NEW s \in SUBSET S PROVE g[s] = Body(g)[s]
    <3> HIDE DEF g
    <3> QED
      BY <1>1, <1>2, Zenon
  <2> QED
    BY <2>1, Zenon
<1>4. sum = Body(sum)
  BY <1>3, Zenon
<1>5. Total(f, S) = sum[S]
  BY DEF Total, MapThenSumSet, MapThenFoldSet
<1> HIDE DEF g, sum
<1>6. ASSUME NEW s \in SUBSET S
      PROVE  sum[s] = IF s = {} THEN 0 ELSE f[pick(s)] + sum[s \ {pick(s)}]
  BY <1>4
<1> HIDE DEF pick, Body
<1>7. sum[S] = g[S]
  <2> DEFINE bad == {s \in SUBSET S : sum[s] # g[s]}
  <2> SUFFICES ASSUME bad # {} PROVE FALSE
    OBVIOUS
  <2>1. bad \subseteq SUBSET S /\ IsFiniteSet(S)
    BY FS_Subset
  <2>2. /\ IsWellFoundedOn(StrictSubsetOrdering(S), FiniteSubsetsOf(S))
        /\ FiniteSubsetsOf(S) = SUBSET S
    BY <2>1, FS_StrictSubsetOrderingWellFounded, FS_FiniteSubsetsOfFinite
  <2>3. PICK s \in bad : \A r \in bad : ~(<<r, s>> \in StrictSubsetOrdering(S))
    <3> HIDE DEF bad
    <3> QED
      BY <2>1, <2>2, WFMin
  <2>4. s # {}
    BY <1>2, <1>6, <2>3, Zenon
  <2>5. pick(s) \in s /\ s \ {pick(s)} \in SUBSET S
    BY <1>1, <2>3, <2>4
  <2>6. <<s \ {pick(s)}, s>> \in StrictSubsetOrdering(S)
    BY <2>3, <2>5 DEF StrictSubsetOrdering
  <2>7. sum[s \ {pick(s)}] = g[s \ {pick(s)}]
    BY <2>3, <2>5, <2>6
  <2> QED
    BY <1>1, <1>6, <2>3, <2>4, <2>7
<1>8. g[S] = Cardinality(Units(f, S, m))
  BY DEF g
<1> QED
  BY <1>5, <1>7, <1>8

(* Sums over clients: 0 for nobody, more by its weight with another client,   *)
(* and the same for weights that agree on the clients summed over.            *)
LEMMA TotalNone ==
  ASSUME NEW f \in [Clients -> 0..Capacity]
  PROVE  Total(f, {}) = 0
<1>1. Capacity \in Nat /\ IsFiniteSet(Clients) /\ {} \in SUBSET Clients
  BY ConfigAssumption
<1> QED
  BY <1>1, TotalIsUnits, UnitsFacts

LEMMA TotalAdd ==
  ASSUME NEW f \in [Clients -> 0..Capacity], NEW S \in SUBSET Clients, NEW x \in Clients \ S
  PROVE  /\ Total(f, S) \in Nat /\ Total(f, S \cup {x}) \in Nat /\ f[x] \in Nat
         /\ Total(f, S \cup {x}) = Total(f, S) + f[x]
<1>1. /\ Capacity \in Nat /\ IsFiniteSet(Clients) /\ S \cup {x} \in SUBSET Clients
      /\ f[x] \in Nat
  BY ConfigAssumption
<1>2. /\ Total(f, S) = Cardinality(Units(f, S, Capacity))
      /\ Total(f, S \cup {x}) = Cardinality(Units(f, S \cup {x}, Capacity))
  BY <1>1, TotalIsUnits
<1>3. /\ Total(f, S) \in Nat /\ Total(f, S \cup {x}) \in Nat
      /\ Total(f, S \cup {x}) = f[x] + Total(f, S)
  BY <1>1, <1>2, UnitsFacts
<1> QED
  BY <1>1, <1>3

LEMMA TotalSame ==
  ASSUME NEW f \in [Clients -> 0..Capacity], NEW g \in [Clients -> 0..Capacity],
         NEW S \in SUBSET Clients, \A x \in S : g[x] = f[x]
  PROVE  Total(g, S) = Total(f, S)
<1>1. Capacity \in Nat /\ IsFiniteSet(Clients)
  BY ConfigAssumption
<1>2. Units(g, S, Capacity) = Units(f, S, Capacity)
  BY DEF Units
<1> QED
  BY <1>1, <1>2, TotalIsUnits

(* The induction principle for natural numbers, with a set for the predicate. *)
LEMMA NatSetInduction ==
  ASSUME NEW T \in SUBSET Nat, 0 \in T, \A n \in T : n + 1 \in T
  PROVE  T = Nat
<1> SUFFICES ASSUME Nat \ T # {} PROVE FALSE
  BY Zenon
<1> DEFINE U == Nat \ T
           R == OpToRel(<, Nat)
<1>1. IsWellFoundedOn(R, Nat)
  BY NatLessThanWellFounded, Zenon
<1>2. \A x, y \in Nat : <<x, y>> \in R <=> x < y
  BY DEF OpToRel
<1> HIDE DEF R
<1>3. PICK x \in U : \A y \in U : ~(<<y, x>> \in R)
  BY <1>1, WFMin, Zenon
<1>4. x # 0 /\ x - 1 \in Nat /\ x - 1 < x /\ x = (x - 1) + 1
  BY <1>3
<1>5. x - 1 \notin U
  BY <1>2, <1>3, <1>4, Zenon
<1> QED
  BY <1>3, <1>4, <1>5

-----------------------------------------------------------------------------
(* Type correctness, the exactness of the waiter queue, the absence of lost   *)
(* wakeups and of Wait calls blocked on an idle semaphore, in every           *)
(* reachable state.                                                           *)
THEOREM SemaphoreInvariant == Spec => []Inv
<1>1. Init => Inv
  BY InitInv
<1>2. Inv /\ [Next]_vars => Inv'
  BY NextStep
<1>3. QED
  BY <1>1, <1>2, PTL DEF Spec

(* No lost wakeup: grantWaitersLocked runs wherever weight or the queue       *)
(* changes, so the head of the queue never fits.                             *)
THEOREM SemaphoreHeadBlocked == Spec => []HeadBlocked
<1>1. Inv => HeadBlocked
  BY DEF Inv
<1>2. QED
  BY <1>1, SemaphoreInvariant, PTL

(* The waiter list holds exactly the waiting requests, each once, in bound.  *)
THEOREM SemaphoreQueueExact == Spec => []QueueExact
<1>1. Inv => QueueExact
  BY DEF Inv
<1>2. QED
  BY <1>1, SemaphoreInvariant, PTL

(* A blocked Wait call always has an outstanding permit to wait for.          *)
THEOREM SemaphoreBlockedMeansBusy == Spec => []BlockedMeansBusy
<1>1. Inv => BlockedMeansBusy
  BY DEF Inv
<1>2. QED
  BY <1>1, SemaphoreInvariant, PTL

(* Strict FIFO admission: no step overtakes a client that keeps waiting.      *)
THEOREM SemaphoreNoBypass == Spec => NoBypass
<1>1. Inv /\ [Next]_vars =>
        [\A x \in Clients : x \in Owners' \ Owners =>
           \A c \in Clients : client[c] = "waiting" /\ client'[c] = "waiting"
                              => Ahead(x, c)]_vars
  BY NextStep DEF Fair
<1>2. QED
  BY <1>1, SemaphoreInvariant, PTL DEF Spec, NoBypass

(* Close keeps issued permits valid and issues none.                          *)
THEOREM SemaphoreCloseKeepsPermits == Spec => CloseKeepsPermits
<1>1. Inv /\ [Next]_vars => [Sealed]_vars
  BY NextStep
<1>2. QED
  BY <1>1, SemaphoreInvariant, PTL DEF Spec, CloseKeepsPermits, Sealed

-----------------------------------------------------------------------------
(* What grantWaitersLocked hands out is what it counts, waiter by waiter.     *)
LEMMA GrantWeighs ==
  ASSUME TypeOK, NEW q \in Seq(Clients), NEW a, NEW c \in Clients,
         NEW s \in {"idle", "released"}, GrantWaiters(q, a, c, s), weight' = weight,
         \A i \in DOMAIN q : client[q[i]] = "waiting" /\ q[i] # c,
         \A i, j \in DOMAIN q : q[i] = q[j] => i = j,
         a = Total(weight, Owners \ {c})
  PROVE  acquired' = Total(weight', Owners')
<1>1. PICK k \in 0..Len(q) : \E used \in [0..k -> 0..Capacity] :
        /\ used[0] = a
        /\ \A i \in 1..k : /\ Fits(used[i - 1], weight[q[i]])
                           /\ used[i] = used[i - 1] + weight[q[i]]
        /\ k < Len(q) => ~Fits(used[k], weight[q[k + 1]])
        /\ acquired' = used[k]
        /\ queue' = Drop(q, k)
        /\ client' = [x \in Clients |-> IF \E i \in 1..k : q[i] = x THEN "granted"
                                        ELSE IF x = c THEN s ELSE client[x]]
  BY Zenon DEF GrantWaiters
<1>2. PICK used \in [0..k -> 0..Capacity] :
        /\ used[0] = a
        /\ \A i \in 1..k : used[i] = used[i - 1] + weight[q[i]]
        /\ acquired' = used[k]
        /\ client' = [x \in Clients |-> IF \E i \in 1..k : q[i] = x THEN "granted"
                                        ELSE IF x = c THEN s ELSE client[x]]
  BY <1>1, Zenon
<1>3. /\ k \in Nat /\ 1..k \subseteq DOMAIN q /\ \A i \in 1..k : q[i] \in Clients
      /\ IsFiniteSet(Clients) /\ Capacity \in Nat /\ weight \in [Clients -> 0..Capacity]
  BY ConfigAssumption DEF TypeOK
<1> DEFINE before == Owners \ {c}
           heads(n) == {q[i] : i \in 1..n}
           counted == {n \in Nat : n <= k => used[n] = Total(weight, before \cup heads(n))}
<1>4. 0 \in counted
  <2>1. before \cup heads(0) = before
    OBVIOUS
  <2> QED
    BY <1>2, <2>1, Zenon
<1>5. ASSUME NEW n \in counted PROVE n + 1 \in counted
  <2> SUFFICES ASSUME n + 1 <= k
               PROVE  used[n + 1] = Total(weight, before \cup heads(n + 1))
    OBVIOUS
  <2>1. n + 1 \in 1..k /\ n + 1 - 1 = n /\ n <= k /\ n \in 0..k
    BY <1>3
  <2>2. used[n + 1] = used[n] + weight[q[n + 1]]
    BY <1>2, <2>1
  <2>3. used[n] = Total(weight, before \cup heads(n)) /\ used[n] \in Nat
    BY <1>3, <1>5, <2>1
  <2>4. heads(n + 1) = heads(n) \cup {q[n + 1]}
    <3>1. 1..(n + 1) = (1..n) \cup {n + 1}
      OBVIOUS
    <3> QED
      BY <3>1, Zenon
  <2>5. before \cup heads(n) \in SUBSET Clients /\ q[n + 1] \in Clients
    <3>1. heads(n) \subseteq Clients
      BY <1>3, <2>1
    <3> QED
      BY <1>3, <2>1, <3>1 DEF Owners
  <2>6. q[n + 1] \notin before
    BY <1>3, <2>1 DEF Owners
  <2>7. q[n + 1] \notin heads(n)
    BY <1>3, <2>1
  <2>8. before \cup heads(n + 1) = (before \cup heads(n)) \cup {q[n + 1]}
    BY <2>4
  <2> HIDE DEF before, heads
  <2>9. q[n + 1] \in Clients \ (before \cup heads(n))
    BY <2>5, <2>6, <2>7
  <2>10. Total(weight, (before \cup heads(n)) \cup {q[n + 1]})
           = Total(weight, before \cup heads(n)) + weight[q[n + 1]]
    BY ONLY <1>3, <2>5, <2>9, TotalAdd, Zenon
  <2> QED
    BY <2>2, <2>3, <2>8, <2>10, Zenon
<1>6. used[k] = Total(weight, before \cup heads(k))
  <2>1. counted = Nat
    <3>1. counted \in SUBSET Nat
      OBVIOUS
    <3> HIDE DEF counted
    <3> QED
      BY <1>4, <1>5, <3>1, NatSetInduction, Zenon
  <2>2. k \in counted /\ k <= k
    <3> HIDE DEF counted
    <3> QED
      BY <1>3, <2>1
  <2> QED
    BY <2>2
<1>7. Owners' = before \cup heads(k)
  <2>1. ASSUME NEW x \in Clients
        PROVE  x \in Owners' <=> x \in before \/ \E i \in 1..k : q[i] = x
    <3>1. CASE \E i \in 1..k : q[i] = x
      BY <1>2, <3>1 DEF Owners
    <3>2. CASE x = c
      BY <1>2, <1>3, <3>2 DEF Owners
    <3>3. CASE x # c /\ ~\E i \in 1..k : q[i] = x
      BY <1>2, <3>3 DEF Owners
    <3> QED
      BY <3>1, <3>2, <3>3
  <2>2. heads(k) \subseteq Clients /\ before \subseteq Clients /\ Owners' \subseteq Clients
    BY <1>3 DEF Owners
  <2> QED
    BY <2>1, <2>2
<1> QED
  BY <1>2, <1>6, <1>7

(* The counter and the permits change together, in every step. *)
Weighed == acquired = Total(weight, Owners)

LEMMA WeighedStep ==
  ASSUME Inv, Weighed, [Next]_vars
  PROVE  Weighed'
<1>1. /\ TypeOK /\ QueueExact /\ Owners \subseteq Clients
      /\ IsFiniteSet(Clients) /\ Capacity \in Nat /\ weight \in [Clients -> 0..Capacity]
      /\ queue \in Seq(Clients) /\ DOMAIN queue = 1..Len(queue) /\ Len(queue) \in Nat
      /\ acquired \in Nat
  BY ConfigAssumption DEF Inv, TypeOK, Owners
<1>2. CASE acquired' = acquired /\ weight' = weight /\ Owners' = Owners
  BY <1>2 DEF Weighed
<1>3. ASSUME NEW c \in Clients, NEW w \in Weights, Free(c),
             weight' = [weight EXCEPT ![c] = w]
      PROVE  /\ weight' \in [Clients -> 0..Capacity] /\ weight'[c] = w /\ w \in Nat
             /\ c \notin Owners /\ Total(weight', Owners) = acquired
  <2>1. w \in 1..Capacity /\ w \in 0..Capacity /\ w \in Nat
    BY <1>1, WeightAssumption
  <2>2. weight' \in [Clients -> 0..Capacity] /\ weight'[c] = w
    BY <1>1, <1>3, <2>1
  <2>3. c \notin Owners
    BY <1>3 DEF Free, Owners
  <2>4. \A x \in Owners : weight'[x] = weight[x]
    BY <1>1, <1>3, <2>3
  <2>5. Total(weight', Owners) = Total(weight, Owners)
    BY ONLY <1>1, <2>2, <2>4, TotalSame, Zenon
  <2> QED
    BY <2>1, <2>2, <2>3, <2>5 DEF Weighed
<1>4. ASSUME NEW c \in Clients, NEW w \in Weights, Admit(c, w) PROVE Weighed'
  <2>1. /\ weight' \in [Clients -> 0..Capacity] /\ weight'[c] = w /\ w \in Nat
        /\ c \notin Owners /\ Total(weight', Owners) = acquired
    BY <1>3, <1>4, Zenon DEF Admit
  <2>2. Owners' = Owners \cup {c}
    BY <1>1, <1>4 DEF Admit, Owners, TypeOK
  <2>3. Total(weight', Owners \cup {c}) = acquired + w
    <3>1. c \in Clients \ Owners
      BY <2>1
    <3>2. Total(weight', Owners \cup {c}) = Total(weight', Owners) + weight'[c]
      BY ONLY <1>1, <2>1, <3>1, TotalAdd, Zenon
    <3> QED
      BY <2>1, <3>2
  <2>4. acquired' = acquired + w
    BY <1>4 DEF Admit
  <2> QED
    BY <2>2, <2>3, <2>4 DEF Weighed
<1>5. ASSUME NEW c \in Clients, NEW w \in Weights, Enqueue(c, w) PROVE Weighed'
  <2>1. c \notin Owners /\ Total(weight', Owners) = acquired
    BY <1>3, <1>5, Zenon DEF Enqueue
  <2>2. Owners' = Owners /\ acquired' = acquired
    BY <1>1, <1>5, <2>1 DEF Enqueue, Owners, TypeOK
  <2> QED
    BY <2>1, <2>2 DEF Weighed
<1>6. ASSUME NEW c \in Clients, Return(c) PROVE Weighed'
  <2>1. acquired' = acquired /\ weight' = weight /\ Owners' = Owners
    BY <1>1, <1>6 DEF Return, Owners, TypeOK
  <2> QED
    BY <1>2, <2>1
<1>7. ASSUME NEW c \in Clients, Cancel(c) PROVE Weighed'
  <2>1. PICK i \in DOMAIN queue :
          queue[i] = c /\ GrantWaiters(Without(queue, i), acquired, c, "idle")
    BY <1>7 DEF Cancel
  <2> DEFINE q == Without(queue, i)
             old(j) == IF j < i THEN j ELSE j + 1
  <2>2. /\ q \in Seq(Clients) /\ DOMAIN q = 1..(Len(queue) - 1)
        /\ \A j \in DOMAIN q : q[j] = queue[old(j)]
    BY <1>1, WithoutFacts, Zenon
  <2> HIDE DEF q
  <2>a. i \in 1..Len(queue) /\ Len(queue) \in Nat
    BY <1>1
  <2>b. /\ \A j \in 1..(Len(queue) - 1) : old(j) \in 1..Len(queue) /\ old(j) # i
        /\ \A j, n \in 1..(Len(queue) - 1) : old(j) = old(n) => j = n
    BY ONLY <2>a
  <2>3. \A j \in DOMAIN q : old(j) \in DOMAIN queue /\ old(j) # i
    BY <1>1, <2>2, <2>b, Zenon
  <2>4. \A j, n \in DOMAIN q : old(j) = old(n) => j = n
    BY <2>2, <2>b
  <2> HIDE DEF old
  <2>5. \A j \in DOMAIN q : client[q[j]] = "waiting" /\ q[j] # c
    BY <1>1, <2>1, <2>2, <2>3 DEF QueueExact
  <2>6. \A j, n \in DOMAIN q : q[j] = q[n] => j = n
    BY <1>1, <2>2, <2>3, <2>4 DEF QueueExact
  <2>7. Owners \ {c} = Owners /\ weight' = weight
    BY <1>7 DEF Cancel, Owners
  <2>8. acquired = Total(weight, Owners \ {c})
    BY <2>7 DEF Weighed
  <2>9. GrantWaiters(q, acquired, c, "idle")
    BY <2>1 DEF q
  <2> QED
    BY <1>1, <2>2, <2>5, <2>6, <2>7, <2>8, <2>9, GrantWeighs, Zenon DEF Weighed
<1>8. ASSUME NEW c \in Clients, Release(c) PROVE Weighed'
  <2>1. /\ GrantWaiters(queue, acquired - weight[c], c, "released") /\ weight' = weight
        /\ c \in Owners
    BY <1>8 DEF Release, Owners
  <2>2. \A j \in DOMAIN queue : client[queue[j]] = "waiting" /\ queue[j] # c
    BY <1>1, <1>8 DEF QueueExact, Release
  <2>3. \A j, n \in DOMAIN queue : queue[j] = queue[n] => j = n
    BY <1>1 DEF QueueExact
  <2>4. /\ Owners \ {c} \in SUBSET Clients /\ c \in Clients \ (Owners \ {c})
        /\ (Owners \ {c}) \cup {c} = Owners
    BY <1>1, <2>1
  <2>5. /\ Total(weight, Owners) = Total(weight, Owners \ {c}) + weight[c]
        /\ Total(weight, Owners \ {c}) \in Nat /\ weight[c] \in Nat
    <3>1. /\ Total(weight, (Owners \ {c}) \cup {c}) = Total(weight, Owners \ {c}) + weight[c]
          /\ Total(weight, Owners \ {c}) \in Nat /\ weight[c] \in Nat
      BY ONLY <1>1, <2>4, TotalAdd, Zenon
    <3> QED
      BY <2>4, <3>1
  <2>6. \A x, y, z \in Nat : x = z + y => x - y = z
    OBVIOUS
  <2>7. acquired - weight[c] = Total(weight, Owners \ {c})
    BY <1>1, <2>5, <2>6 DEF Weighed
  <2> QED
    BY <1>1, <2>1, <2>2, <2>3, <2>7, GrantWeighs, Zenon DEF Weighed
<1>9. CASE Close
  <2>1. acquired' = acquired /\ weight' = weight /\ Owners' = Owners
    BY <1>1, <1>9 DEF Close, Owners, TypeOK
  <2> QED
    BY <1>2, <2>1
<1>10. CASE UNCHANGED <<acquired, client, weight>>
  BY <1>2, <1>10 DEF Owners
<1> QED
  BY <1>4, <1>5, <1>6, <1>7, <1>8, <1>9, <1>10
     DEF Next, vars, ReleaseAgain, Wait, WaitReturn

(* No step loses or invents weight: the counter is the weight of the permits  *)
(* that have been issued and not returned, and never exceeds the capacity,    *)
(* through grants, cancellations, second releases and Close.                 *)
THEOREM SemaphoreWeightConserved == Spec => []WeightConserved
<1>1. Init => Weighed
  <2> SUFFICES ASSUME Init PROVE Weighed
    OBVIOUS
  <2>1. Owners = {} /\ weight \in [Clients -> 0..Capacity] /\ acquired = 0
    BY ConfigAssumption DEF Init, Owners
  <2>2. Total(weight, {}) = 0
    BY <2>1, TotalNone
  <2> QED
    BY <2>1, <2>2 DEF Weighed
<1>2. Inv /\ Weighed /\ [Next]_vars => Weighed'
  BY WeighedStep
<1>3. Inv /\ Weighed => WeightConserved
  BY DEF Inv, TypeOK, Weighed, WeightConserved
<1>4. QED
  BY <1>1, <1>2, <1>3, SemaphoreInvariant, PTL DEF Spec

(* A release that wakes the Wait calls has left nothing held, not even by the *)
(* waiters it granted on the way (the drain channel is closed last).          *)
THEOREM SemaphoreDrainedMeansIdle == Spec => DrainedMeansIdle
<1>1. Inv /\ [Next]_vars =>
        [\A d \in Drainers : drain[d] = "blocked" /\ drain'[d] = "drained"
                             => acquired' = 0]_vars
  <2> SUFFICES ASSUME Inv, Next, NEW d \in Drainers, drain[d] = "blocked",
                      drain'[d] = "drained"
               PROVE  acquired' = 0
    BY DEF vars
  <2>1. drain' # drain /\ drain \in [Drainers -> {"idle", "blocked", "drained"}]
    BY DEF Inv, TypeOK
  <2>2. ASSUME NEW c \in Clients, Release(c) PROVE acquired' = 0
    BY <2>1, <2>2 DEF Release, CloseDrained
  <2>3. ASSUME NEW e \in Drainers, Wait(e) \/ WaitReturn(e) PROVE FALSE
    BY <2>1, <2>3 DEF Wait, WaitReturn
  <2> QED
    BY <2>1, <2>2, <2>3
       DEF Next, Admit, Enqueue, Return, Cancel, ReleaseAgain, vars, Close
<1>2. QED
  BY <1>1, SemaphoreInvariant, PTL DEF Spec, DrainedMeansIdle
=============================================================================
