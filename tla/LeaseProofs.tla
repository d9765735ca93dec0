---------------------------- MODULE LeaseProofs ----------------------------
(***************************************************************************)
(* Proofs about Lease.tla, for every set of owners, backend, TTL, margin   *)
(* and drift.  The argument is one inductive invariant (Inductive); the    *)
(* admission properties follow from its last part, HoldInv, when the       *)
(* margin covers drift and truncation (MarginCovers).                      *)
(***************************************************************************)
EXTENDS Lease, TLAPS

(* The TTL the store receives: positive, and short of TTL by the remainder. *)
LEMMA RemainderFacts == /\ Remainder \in Nat /\ Remainder < TTL
                        /\ RemoteTTL \in Nat /\ RemoteTTL + Remainder = TTL
                        /\ Budget \in Nat /\ Budget + SafetyMargin = TTL
<1>1. Remainder \in Nat /\ Remainder < Grain
  BY PolicyAssumption DEF Remainder
<1>2. QED
  BY <1>1, PolicyAssumption DEF RemoteTTL, Budget

(* The initial state satisfies the invariant. *)
LEMMA InitInductive == Init => Inductive
<1> SUFFICES ASSUME Init PROVE Inductive
  OBVIOUS
<1> USE OwnersAssumption, BoundAssumption, RemainderFacts
        DEF Init, NoRow, NoHandle, Idle
<1>1. TypeOK
  BY DEF TypeOK, Rows, Handles, Calls, Orphans, Ops, Replies, States
<1>2. ClockInv /\ CallInv /\ OrphanInv /\ FenceInv
  BY DEF ClockInv, CallInv, OrphanInv, FenceInv
<1>3. RowInv /\ UniqueInv /\ HoldInv
  BY DEF RowInv, UniqueInv, HoldInv, Admitted
<1>4. QED
  BY <1>1, <1>2, <1>3 DEF Inductive

(* A deadline the record outlives has not been reached while the record has  *)
(* expired: drift and truncation fit into the margin.                       *)
LEMMA OutlivesLive ==
  ASSUME MarginCovers, TypeOK, ClockInv, NEW o \in Owners, NEW d \in Nat,
         clock[o] < d, Outlives(d)
  PROVE  now < row.expires
  BY PolicyAssumption, BoundAssumption, RemainderFacts
     DEF MarginCovers, TypeOK, Rows, ClockInv, Outlives

(* The result of one backend operation, whoever asked for it: what it may do  *)
(* to the counter and to the record.                                         *)
LEMMA ExecuteFacts ==
  ASSUME TypeOK, FenceInv, NEW op \in Ops, NEW o \in Owners, NEW t \in Nat,
         NEW reply \in Replies, Execute(op, o, t, reply)
  PROVE  /\ fence' \in Nat /\ fence <= fence' /\ fence' <= MaxToken
         /\ row' \in Rows
         /\ \/ row' = row
            \/ /\ op = "acquire" /\ reply = "ok" /\ ~Live
               /\ fence' = fence + 1 /\ row' = Install(o, fence')
            \/ /\ op = "renew" /\ reply = "ok" /\ Live /\ Owns(o, t)
               /\ row' = [row EXCEPT !.expires = now + RemoteTTL]
            \/ /\ op = "release" /\ Owns(o, t)
               /\ ~row'.active /\ row'.token <= row.token
               /\ row'.expires <= row.expires
               /\ row' = NoRow \/ row'.token = row.token
         /\ op = "acquire" /\ reply = "ok"
              => fence' = fence + 1 /\ row' = Install(o, fence')
         /\ op = "renew" /\ reply = "ok"
              => row' = [row EXCEPT !.expires = now + RemoteTTL]
<1> USE RemainderFacts, BoundAssumption DEF TypeOK, FenceInv, Ops
<1>1. CASE op = "acquire" /\ StoreTryAcquire(o, reply)
  <2>1. fence' \in Nat /\ fence <= fence' /\ fence' <= MaxToken
    BY <1>1 DEF StoreTryAcquire
  <2>2. now + RemoteTTL \in Nat /\ fence + 1 \in Nat
    OBVIOUS
  <2>3. Install(o, fence + 1) \in Rows
    BY <2>2 DEF Install, Rows
  <2>4. \/ row' = row /\ reply # "ok"
        \/ ~Live /\ reply = "ok" /\ fence' = fence + 1 /\ row' = Install(o, fence')
    BY <1>1 DEF StoreTryAcquire
  <2>5. QED
    BY <1>1, <2>1, <2>3, <2>4
<1>2. CASE op = "renew" /\ StoreRenew(o, t, reply)
  <2>1. now + RemoteTTL \in Nat
    OBVIOUS
  <2>2. [row EXCEPT !.expires = now + RemoteTTL] \in Rows
    BY <2>1 DEF Rows
  <2>3. QED
    BY <1>2, <2>2 DEF StoreRenew
<1>3. CASE op = "validate" /\ StoreValidate(o, t, reply)
  BY <1>3 DEF StoreValidate
<1>4. CASE op = "release" /\ StoreRelease(o, t, reply)
  <2>1. /\ NoRow \in Rows /\ ~NoRow.active
        /\ NoRow.token <= row.token /\ NoRow.expires <= row.expires
    BY DEF NoRow, Rows
  <2>2. [row EXCEPT !.active = FALSE] \in Rows
    BY Zenon DEF Rows
  <2>3. fence' = fence
    BY <1>4 DEF StoreRelease
  <2>4. \/ row' = row
        \/ Owns(o, t) /\ row' = NoRow
        \/ Owns(o, t) /\ row' = [row EXCEPT !.active = FALSE]
    BY <1>4 DEF StoreRelease
  <2>5. Owns(o, t) /\ row' = [row EXCEPT !.active = FALSE]
          => ~row'.active /\ row'.token = row.token /\ row'.expires <= row.expires
    BY DEF Rows
  <2>6. row' \in Rows
    BY <2>1, <2>2, <2>4, Zenon
  <2>a. fence' \in Nat /\ fence <= fence' /\ fence' <= MaxToken
    BY <2>3
  <2>7. \/ row' = row
        \/ /\ Owns(o, t) /\ ~row'.active
           /\ row'.token <= row.token /\ row'.expires <= row.expires
           /\ row' = NoRow \/ row'.token = row.token
    BY <2>1, <2>4, <2>5 DEF Rows
  <2>8. op # "acquire" /\ op # "renew"
    BY <1>4
  <2>9. QED
    BY <1>4, <2>6, <2>a, <2>7, <2>8
<1>5. QED
  BY <1>1, <1>2, <1>3, <1>4 DEF Execute

(* Tick and ClientTick: clocks move, admissions can only end. *)
LEMMA ClockStep ==
  ASSUME Inductive, Tick \/ \E o \in Owners : ClientTick(o)
  PROVE  Inductive'
<1> USE DEF Inductive, TypeOK
<1>1. UNCHANGED <<fence, row, handle, call, orphans>>
  BY DEF Tick, ClientTick
<1>2. /\ now' \in Nat /\ clock' \in [Owners -> Nat]
      /\ \A o \in Owners : clock[o] <= clock'[o]
      /\ ClockInv'
  <2>1. CASE Tick
    BY <2>1, BoundAssumption, RemainderFacts DEF Tick, ClockInv, Rows
  <2>2. CASE \E o \in Owners : ClientTick(o)
    BY <2>2, BoundAssumption, RemainderFacts DEF ClientTick, ClockInv, Rows
  <2>3. QED
    BY <2>1, <2>2
<1>3. TypeOK'
  BY <1>1, <1>2
<1>4. CallInv'
  BY <1>1, <1>2 DEF CallInv, Calls
<1>5. OrphanInv' /\ FenceInv' /\ RowInv' /\ UniqueInv'
  BY <1>1 DEF OrphanInv, FenceInv, RowInv, UniqueInv
<1>6. HoldInv'
  BY <1>1, <1>2, RemainderFacts
     DEF HoldInv, Admitted, Holds, Owns, Outlives, Handles, Calls
<1>7. QED
  BY <1>2, <1>3, <1>4, <1>5, <1>6

(* cleanupSQL only removes a row that backs no admission. *)
LEMMA CleanupStep == ASSUME Inductive, Cleanup PROVE Inductive'
<1> USE DEF Inductive, TypeOK, Cleanup
<1>1. NoRow \in Rows
  BY DEF NoRow, Rows
<1>2. TypeOK' /\ CallInv' /\ OrphanInv' /\ UniqueInv'
  BY <1>1 DEF CallInv, OrphanInv, UniqueInv
<1>a. ClockInv'
  BY RemainderFacts DEF ClockInv, NoRow
<1>3. FenceInv' /\ RowInv'
  BY DEF FenceInv, RowInv, NoRow
<1>4. HoldInv'
  BY DEF HoldInv, Holds, Admitted
<1>5. QED
  BY <1>2, <1>a, <1>3, <1>4

(* What a backend operation leaves true of the record and of every owner that *)
(* did not ask for it: the record of an admission is only extended, or ended  *)
(* by a release of the same owner and token.                                  *)
LEMMA BackendStep ==
  ASSUME Inductive, MarginCovers, NEW op \in Ops, NEW o \in Owners,
         NEW t \in Nat, NEW reply \in Replies, Execute(op, o, t, reply),
         UNCHANGED <<now, clock>>,
         NEW p \in Owners, NEW u \in Nat, NEW d \in Nat,
         clock[p] < d, Holds(p, u, d), p # o \/ op # "release"
  PROVE  Holds(p, u, d)' /\ row.expires <= row'.expires
<1> USE DEF Inductive
<1>1. Live
  BY OutlivesLive DEF Live, Holds
<1>2. \/ row' = row
      \/ row' = [row EXCEPT !.expires = now + RemoteTTL]
      \/ op = "release" /\ Owns(o, t)
  BY <1>1, ExecuteFacts
<1>3. ~(op = "release" /\ Owns(o, t))
  BY DEF Holds, Owns
<1>4. row.expires <= now + RemoteTTL /\ row \in Rows /\ now \in Nat
  BY DEF ClockInv, TypeOK
<1>5. QED
  BY <1>2, <1>3, <1>4, RemainderFacts, PolicyAssumption DEF Holds, Owns, Outlives, Rows

(* The record and counter parts of the invariant after a backend operation. *)
LEMMA BackendRow ==
  ASSUME Inductive, NEW op \in Ops, NEW o \in Owners,
         NEW t \in Nat, NEW reply \in Replies, Execute(op, o, t, reply),
         UNCHANGED <<now, clock, handle>>
  PROVE  /\ ClockInv' /\ row'.token <= fence'
         /\ row'.active => \A p \in Owners \ {row'.owner} :
              handle[p].token < row'.token /\ call[p].token < row'.token
<1> USE DEF Inductive, TypeOK
<1>1. /\ \/ row' = row
         \/ fence' = fence + 1 /\ row' = Install(o, fence')
         \/ row' = [row EXCEPT !.expires = now + RemoteTTL]
         \/ /\ ~row'.active /\ row'.token <= row.token
            /\ row'.expires <= row.expires
      /\ row' \in Rows /\ fence' \in Nat /\ fence <= fence'
  BY ExecuteFacts
<1>2. row'.expires <= now + RemoteTTL
  BY <1>1, RemainderFacts DEF ClockInv, Rows, Install
<1>3. QED
  BY <1>1, <1>2, RemainderFacts
     DEF ClockInv, FenceInv, RowInv, Rows, Install, Handles, Calls

(* The backend executes a call: a new record starts with a fresh token, a    *)
(* renewal covers the deadline its client will adopt.                        *)
LEMMA ServeStep ==
  ASSUME Inductive, MarginCovers, NEW o \in Owners, Serve(o)
  PROVE  Inductive'
<1> USE DEF Inductive, TypeOK
<1>1. PICK reply \in Replies \ {"pending"} :
        /\ Execute(call[o].op, o, handle[o].token, reply)
        /\ call' = [call EXCEPT ![o].reply = reply,
                                ![o].token = IF call[o].op = "acquire" /\ reply = "ok"
                                             THEN fence' ELSE 0]
  BY Zenon DEF Serve
<1> DEFINE op == call[o].op
           t  == handle[o].token
<1>2. /\ op \in Ops /\ t \in Nat /\ reply \in Replies /\ reply # "pending"
      /\ UNCHANGED <<now, clock, handle, orphans>>
  BY DEF Serve, Calls, Handles, Ops
<1>3. /\ fence' \in Nat /\ fence <= fence' /\ fence' <= MaxToken /\ row' \in Rows
      /\ op = "acquire" /\ reply = "ok"
           => fence' = fence + 1 /\ row' = Install(o, fence')
      /\ op = "renew" /\ reply = "ok"
           => row' = [row EXCEPT !.expires = now + RemoteTTL]
  BY <1>1, <1>2, ExecuteFacts
<1>4. ClockInv' /\ row'.token <= fence'
  BY <1>1, <1>2, BackendRow
<1>5. row'.active => \A p \in Owners \ {row'.owner} :
         handle[p].token < row'.token /\ call[p].token < row'.token
  BY <1>1, <1>2, BackendRow
<1>6. /\ call' \in [Owners -> Calls]
      /\ \A p \in Owners \ {o} : call'[p] = call[p]
      /\ call'[o].op = op /\ call'[o].started = call[o].started
      /\ call'[o].reply = reply
      /\ call'[o].token = IF op = "acquire" /\ reply = "ok" THEN fence' ELSE 0
  BY <1>1, <1>3, Zenon DEF Calls
<1>7. TypeOK'
  BY <1>2, <1>3, <1>6
<1>8. CallInv'
  BY <1>2, <1>3, <1>6 DEF CallInv
<1>9. OrphanInv'
  BY <1>2 DEF OrphanInv
<1>10. FenceInv' /\ RowInv'
  <2>1. \A p \in Owners : handle'[p].token <= fence' /\ call'[p].token <= fence'
    BY <1>2, <1>3, <1>6 DEF FenceInv, Handles, Calls
  <2>2. ASSUME row'.active, NEW p \in Owners \ {row'.owner}
        PROVE  handle'[p].token < row'.token /\ call'[p].token < row'.token
    <3>1. CASE p # o
      BY <1>2, <1>5, <1>6, <2>2, <3>1
    <3>2. CASE p = o
      <4>1. ~(op = "acquire" /\ reply = "ok")
        BY <1>3, <2>2, <3>2 DEF Install
      <4>2. row' \in Rows /\ handle[o].token \in Nat
        BY <1>3 DEF Handles
      <4>3. QED
        BY <1>2, <1>5, <1>6, <2>2, <3>2, <4>1, <4>2 DEF Rows
    <3>3. QED
      BY <3>1, <3>2
  <2>3. QED
    BY <1>3, <1>4, <2>1, <2>2 DEF FenceInv, RowInv
<1>11. UniqueInv'
  <2>1. call'[o].token = 0
        \/ \A p \in Owners : handle[p].token < call'[o].token /\ call[p].token < call'[o].token
    BY <1>3, <1>6 DEF FenceInv, Handles, Calls
  <2>2. QED
    BY <1>2, <1>6, <2>1 DEF UniqueInv, Handles, Calls
<1>12. HoldInv'
  <2> SUFFICES ASSUME NEW p \in Owners
      PROVE  /\ Admitted(p)' => Holds(p, handle[p].token, handle[p].deadline)'
             /\ (call[p].reply = "ok" /\ call[p].op = "acquire"
                 /\ clock[p] < call[p].started + Budget)'
                  => Holds(p, call[p].token, call[p].started + Budget)'
             /\ (call[p].reply = "ok" /\ call[p].op = "renew" /\ Admitted(p))'
                  => Outlives(call[p].started + Budget)'
    BY DEF HoldInv
  <2>1. Admitted(p)' => Admitted(p) /\ (p # o \/ op # "release")
    BY <1>2, <1>6 DEF Admitted
  <2>2. /\ handle[p].deadline \in Nat /\ handle[p].token \in Nat
        /\ call[p].started + Budget \in Nat /\ call[p].token \in Nat
    BY RemainderFacts DEF Handles, Calls
  <2>3. Admitted(p)' => Holds(p, handle[p].token, handle[p].deadline)'
    <3>1. SUFFICES ASSUME Admitted(p)'
                   PROVE  Holds(p, handle[p].token, handle[p].deadline)'
      OBVIOUS
    <3>2. /\ clock[p] < handle[p].deadline
          /\ Holds(p, handle[p].token, handle[p].deadline)
      BY <2>1, <3>1 DEF HoldInv, Admitted
    <3>3. QED
      BY <1>1, <1>2, <2>1, <2>2, <3>1, <3>2, BackendStep DEF Holds, Owns, Outlives
  <2>4. ASSUME (call[p].reply = "ok" /\ call[p].op = "acquire"
                /\ clock[p] < call[p].started + Budget)'
        PROVE  Holds(p, call[p].token, call[p].started + Budget)'
    <3>1. CASE p # o
      <4>1. /\ clock[p] < call[p].started + Budget
            /\ Holds(p, call[p].token, call[p].started + Budget)
        BY <1>2, <1>6, <2>4, <3>1 DEF HoldInv
      <4>2. QED
        BY <1>1, <1>2, <1>6, <2>2, <3>1, <4>1, BackendStep DEF Holds, Owns, Outlives
    <3>2. CASE p = o
      BY <1>2, <1>3, <1>6, <2>4, <3>2, RemainderFacts, PolicyAssumption
         DEF Holds, Owns, Outlives, Install, CallInv, ClockInv, Calls
    <3>3. QED
      BY <3>1, <3>2
  <2>5. ASSUME (call[p].reply = "ok" /\ call[p].op = "renew" /\ Admitted(p))'
        PROVE  Outlives(call[p].started + Budget)'
    <3>1. CASE p # o
      <4>1. Outlives(call[p].started + Budget) /\ call'[p] = call[p]
        BY <1>6, <2>1, <2>5, <3>1 DEF HoldInv
      <4>2. row.expires <= row'.expires
        BY <1>1, <1>2, <2>1, <2>2, <2>5, <3>1, BackendStep DEF HoldInv, Admitted
      <4>3. QED
        BY <1>3, <2>2, <4>1, <4>2, RemainderFacts, PolicyAssumption DEF Outlives, Rows
    <3>2. CASE p = o
      BY <1>2, <1>3, <1>6, <2>5, <3>2, RemainderFacts, PolicyAssumption
         DEF Outlives, CallInv, ClockInv, Calls, Rows
    <3>3. QED
      BY <3>1, <3>2
  <2>6. QED
    BY <2>3, <2>4, <2>5
<1>13. QED
  BY <1>4, <1>7, <1>8, <1>9, <1>10, <1>11, <1>12

(* A request its client gave up on belongs to a handle that admits nothing and *)
(* to no acquisition in flight, so it disturbs no admission.                  *)
LEMMA ServeOrphanStep ==
  ASSUME Inductive, MarginCovers, NEW m \in orphans, ServeOrphan(m)
  PROVE  Inductive'
<1> USE DEF Inductive, TypeOK
<1>1. PICK reply \in Replies \ {"pending"} : Execute(m.op, m.owner, m.token, reply)
  BY DEF ServeOrphan
<1>2. /\ m.op \in Ops /\ m.owner \in Owners /\ m.token \in Nat /\ reply \in Replies
      /\ UNCHANGED <<now, clock, handle, call>>
      /\ orphans' \subseteq orphans
  BY DEF ServeOrphan, Orphans
<1>3. fence' \in Nat /\ fence <= fence' /\ fence' <= MaxToken /\ row' \in Rows
  BY <1>1, <1>2, ExecuteFacts
<1>4. /\ ClockInv' /\ row'.token <= fence'
      /\ row'.active => \A p \in Owners \ {row'.owner} :
            handle[p].token < row'.token /\ call[p].token < row'.token
  BY <1>1, <1>2, BackendRow
<1>5. TypeOK' /\ CallInv' /\ OrphanInv' /\ UniqueInv'
  BY <1>2, <1>3 DEF CallInv, OrphanInv, UniqueInv
<1>6. FenceInv' /\ RowInv'
  BY <1>2, <1>3, <1>4 DEF FenceInv, RowInv, Handles, Calls
<1>7. HoldInv'
  <2> SUFFICES ASSUME NEW p \in Owners
      PROVE  /\ Admitted(p)' => Holds(p, handle[p].token, handle[p].deadline)'
             /\ (call[p].reply = "ok" /\ call[p].op = "acquire"
                 /\ clock[p] < call[p].started + Budget)'
                  => Holds(p, call[p].token, call[p].started + Budget)'
             /\ (call[p].reply = "ok" /\ call[p].op = "renew" /\ Admitted(p))'
                  => Outlives(call[p].started + Budget)'
    BY DEF HoldInv
  <2>1. /\ Admitted(p)' <=> Admitted(p)
        /\ Admitted(p) => p # m.owner
        /\ call[p].op = "acquire" => p # m.owner
    BY <1>2 DEF Admitted, OrphanInv, CallInv
  <2>2. /\ handle[p].deadline \in Nat /\ handle[p].token \in Nat
        /\ call[p].started + Budget \in Nat /\ call[p].token \in Nat
    BY RemainderFacts DEF Handles, Calls
  <2>3. Admitted(p) => /\ Holds(p, handle[p].token, handle[p].deadline)'
                       /\ row.expires <= row'.expires
    <3>1. SUFFICES ASSUME Admitted(p)
                   PROVE  /\ Holds(p, handle[p].token, handle[p].deadline)'
                          /\ row.expires <= row'.expires
      OBVIOUS
    <3>2. /\ clock[p] < handle[p].deadline
          /\ Holds(p, handle[p].token, handle[p].deadline)
      BY <3>1 DEF HoldInv, Admitted
    <3>3. QED
      BY <1>1, <1>2, <2>1, <2>2, <3>1, <3>2, BackendStep DEF Holds, Owns, Outlives
  <2>4. ASSUME (call[p].reply = "ok" /\ call[p].op = "acquire"
                /\ clock[p] < call[p].started + Budget)'
        PROVE  Holds(p, call[p].token, call[p].started + Budget)'
    <3>1. /\ clock[p] < call[p].started + Budget /\ p # m.owner
          /\ Holds(p, call[p].token, call[p].started + Budget)
      BY <1>2, <2>1, <2>4 DEF HoldInv
    <3>2. QED
      BY <1>1, <1>2, <2>2, <3>1, BackendStep DEF Holds, Owns, Outlives
  <2>5. ASSUME (call[p].reply = "ok" /\ call[p].op = "renew" /\ Admitted(p))'
        PROVE  Outlives(call[p].started + Budget)'
    <3>1. Outlives(call[p].started + Budget) /\ row.expires <= row'.expires
      BY <1>2, <2>1, <2>3, <2>5 DEF HoldInv
    <3>2. QED
      BY <1>2, <1>3, <2>2, <3>1, RemainderFacts, PolicyAssumption DEF Outlives, Rows
  <2>6. QED
    BY <2>1, <2>3, <2>4, <2>5
<1>8. QED
  BY <1>4, <1>5, <1>6, <1>7

(* Starting a call changes no handle and no record. *)
LEMMA DispatchStep ==
  ASSUME Inductive, NEW o \in Owners,
         \/ TryAcquire(o)
         \/ \E op \in {"renew", "validate"} : BeginActive(o, op)
         \/ BeginRelease(o)
  PROVE  Inductive'
<1> USE DEF Inductive, TypeOK
<1>1. PICK op \in Ops :
        /\ Dispatch(o, op) /\ call[o].op = "idle"
        /\ op = "acquire" => handle[o].state = "none"
        /\ op # "acquire" => handle[o].state \in {"active", "expired"}
  BY Zenon DEF TryAcquire, BeginActive, BeginRelease, Ops
<1>2. UNCHANGED <<now, clock, fence, row, handle, orphans>>
  BY Zenon DEF TryAcquire, BeginActive, BeginRelease
<1>3. /\ call' \in [Owners -> Calls]
      /\ \A p \in Owners \ {o} : call'[p] = call[p]
      /\ call'[o].op = op /\ call'[o].started = clock[o]
      /\ call'[o].reply = "pending" /\ call'[o].token = 0
  BY <1>1 DEF Dispatch, Calls, Replies
<1>4. TypeOK' /\ ClockInv' /\ OrphanInv'
  BY <1>2, <1>3 DEF ClockInv, OrphanInv
<1>5. CallInv'
  BY <1>1, <1>2, <1>3 DEF CallInv, Ops
<1>6. FenceInv'
  BY <1>2, <1>3 DEF FenceInv
<1>7. RowInv'
  BY <1>2, <1>3 DEF RowInv, Rows, Handles
<1>8. UniqueInv'
  BY <1>2, <1>3 DEF UniqueInv
<1>9. HoldInv'
  BY <1>1, <1>2, <1>3 DEF HoldInv, Admitted, Holds, Owns, Outlives
<1>10. QED
  BY <1>4, <1>5, <1>6, <1>7, <1>8, <1>9

(* A reply, a failure or an expiry changes one handle and ends its call: the   *)
(* part of the invariant that such a step cannot disturb, given what it does.  *)
LEMMA ReturnStep ==
  ASSUME Inductive, NEW o \in Owners,
         UNCHANGED <<now, clock, fence, row>>,
         NEW h \in Handles, handle' = [handle EXCEPT ![o] = h],
         call' = call \/ call' = [call EXCEPT ![o] = Idle],
         h.state # "none" \/ h = handle[o],
         h.token = handle[o].token \/ h.token = call[o].token,
         call' = call => call[o].op # "acquire" /\ h.state \in {"active", "expired"},
         h.state = "active" => \/ h = handle[o] /\ (call' = call \/ call[o].op # "release")
                               \/ /\ call[o].reply = "ok" /\ call[o].op = "acquire"
                                  /\ h.token = call[o].token
                                  /\ h.deadline = call[o].started + Budget
                               \/ /\ call[o].reply = "ok" /\ call[o].op = "renew"
                                  /\ Admitted(o) /\ h.token = handle[o].token
                                  /\ h.deadline = call[o].started + Budget
                               \/ clock[o] >= h.deadline,
         orphans' \subseteq Orphans,
         \A m \in orphans' : m \in orphans \/ (m.owner = o /\ h.state \notin {"none", "active"}),
         handle[o].state \notin {"none", "active"} => h.state \notin {"none", "active"}
  PROVE  Inductive'
<1> USE DEF Inductive, TypeOK
<1>1. /\ handle' \in [Owners -> Handles] /\ handle'[o] = h
      /\ \A p \in Owners \ {o} : handle'[p] = handle[p] /\ call'[p] = call[p]
  BY DEF Handles
<1>2. /\ call' \in [Owners -> Calls]
      /\ call' = call \/ call'[o] = Idle
  BY DEF Idle, Calls, Replies
<1>3. TypeOK' /\ ClockInv'
  BY <1>1, <1>2 DEF ClockInv
<1>4. CallInv'
  BY <1>1, <1>2 DEF CallInv, Idle, Handles
<1>5. OrphanInv'
  BY <1>1 DEF OrphanInv, Orphans
<1>6. FenceInv' /\ RowInv'
  BY <1>1, <1>2 DEF FenceInv, RowInv, Idle, Rows, Handles
<1>7. UniqueInv'
  BY <1>1, <1>2 DEF UniqueInv, Idle, Handles, Calls, CallInv
<1>8. HoldInv'
  <2> DEFINE Hold(p) ==
        /\ Admitted(p) => Holds(p, handle[p].token, handle[p].deadline)
        /\ call[p].reply = "ok" /\ call[p].op = "acquire"
           /\ clock[p] < call[p].started + Budget
             => Holds(p, call[p].token, call[p].started + Budget)
        /\ call[p].reply = "ok" /\ call[p].op = "renew" /\ Admitted(p)
             => Outlives(call[p].started + Budget)
  <2>1. \A p \in Owners : Hold(p)
    BY DEF HoldInv
  <2>2. ASSUME NEW p \in Owners \ {o} PROVE Hold(p)'
    BY <1>1, <2>1, <2>2 DEF Admitted, Holds, Owns, Outlives
  <2>3. Hold(o)'
    BY <1>1, <1>2, <2>1 DEF Admitted, Holds, Owns, Outlives, Idle, Handles
  <2> QED
    BY <2>2, <2>3 DEF HoldInv
<1>9. QED
  BY <1>3, <1>4, <1>5, <1>6, <1>7, <1>8

(* State and a refused operation only turn an active handle into an expired one. *)
LEMMA ObserveStep == ASSUME Inductive, NEW o \in Owners, Observe(o) PROVE Inductive'
<1> DEFINE h == [handle[o] EXCEPT !.state = "expired"]
<1>1. h \in Handles /\ h.state = "expired" /\ h.token = handle[o].token
  BY DEF Inductive, TypeOK, Handles, States
<1>2. /\ UNCHANGED <<now, clock, fence, row, call, orphans>>
      /\ handle' = [handle EXCEPT ![o] = h] /\ handle[o].state = "active"
  BY DEF Observe, Expires
<1>3. call[o].op # "acquire" /\ orphans' \subseteq Orphans
  BY <1>2 DEF Inductive, TypeOK, CallInv
<1> HIDE DEF h
<1>4. QED
  BY <1>1, <1>2, <1>3, ReturnStep, Zenon

(* An acquisition's reply: a handle whose deadline counts from before the     *)
(* request, nothing (contention), or a failed acquisition.                    *)
LEMMA ReturnAcquireStep ==
  ASSUME Inductive, NEW o \in Owners, ReturnAcquire(o) PROVE Inductive'
<1> USE DEF Inductive, TypeOK
<1> DEFINE h == CASE call[o].reply = "ok"        -> NewHandle(o)
                  [] call[o].reply = "contended" -> handle[o]
                  [] OTHER -> [handle[o] EXCEPT !.state = "failed"]
<1>1. /\ handle' = [handle EXCEPT ![o] = h] /\ call' = [call EXCEPT ![o] = Idle]
      /\ UNCHANGED <<now, clock, fence, row, orphans>>
      /\ call[o].op = "acquire" /\ handle[o].state = "none"
  BY DEF ReturnAcquire, CallInv
<1>2. call[o].started + Budget \in Nat /\ call[o].token \in Nat
  BY RemainderFacts DEF Calls
<1>3. NewHandle(o) \in Handles
  BY <1>2 DEF NewHandle, Handles, States
<1>4. h \in Handles
  BY <1>3 DEF Handles, States
<1>5. /\ h.state # "none" \/ h = handle[o]
      /\ h.token = handle[o].token \/ h.token = call[o].token
      /\ h.state = "active" => /\ call[o].reply = "ok" /\ h.token = call[o].token
                               /\ h.deadline = call[o].started + Budget
  BY <1>1 DEF NewHandle, Handles
<1>6. call' # call
  BY <1>1 DEF Idle
<1> HIDE DEF h
<1>7. QED
  BY <1>1, <1>4, <1>5, <1>6, ReturnStep, Zenon

(* The reply to Renew or Validate: the old deadline is checked first. *)
LEMMA ReturnActiveStep ==
  ASSUME Inductive, NEW o \in Owners, ReturnActive(o) PROVE Inductive'
<1> USE DEF Inductive, TypeOK
<1>1. PICK early \in BOOLEAN : handle' = [handle EXCEPT ![o] =
          IF call[o].reply # "ok" THEN Failed(Expired(o, early), call[o].reply)
          ELSE IF Expired(o, early).state = "active" /\ call[o].op = "renew"
          THEN [Expired(o, early) EXCEPT !.deadline = call[o].started + Budget]
          ELSE Expired(o, early)]
  BY Zenon DEF ReturnActive
<1> DEFINE e == Expired(o, early)
           h == IF call[o].reply # "ok" THEN Failed(e, call[o].reply)
                ELSE IF e.state = "active" /\ call[o].op = "renew"
                THEN [e EXCEPT !.deadline = call[o].started + Budget]
                ELSE e
<1>2. /\ call' = [call EXCEPT ![o] = Idle] /\ handle' = [handle EXCEPT ![o] = h]
      /\ UNCHANGED <<now, clock, fence, row, orphans>>
      /\ call[o].op \in {"renew", "validate"}
      /\ handle[o].state \in {"active", "expired"}
  BY <1>1, Zenon DEF ReturnActive, CallInv
<1>3. /\ e \in Handles /\ e.token = handle[o].token
      /\ e.state \in {"active", "expired"}
      /\ handle[o].state = "expired" => e.state = "expired"
      /\ e.state = "active" => e = handle[o] /\ clock[o] < handle[o].deadline
  BY <1>2 DEF Expired, Expires, Handles, States
<1>4. call[o].started + Budget \in Nat
  BY RemainderFacts DEF Calls
<1>5. /\ h \in Handles /\ h.token = handle[o].token /\ h.state # "none"
      /\ h.state = "active" =>
           \/ h = handle[o]
           \/ /\ call[o].reply = "ok" /\ call[o].op = "renew" /\ e.state = "active"
              /\ h.deadline = call[o].started + Budget
      /\ handle[o].state = "expired" => h.state # "active"
  <2> HIDE DEF e
  <2> QED
    BY <1>3, <1>4 DEF Failed, Handles, States
<1>6. e.state = "active" => Admitted(o)
  BY <1>2, <1>3 DEF Admitted
<1>7. call' # call
  BY <1>2 DEF Idle
<1> HIDE DEF h, e
<1>8. QED
  BY <1>2, <1>5, <1>6, <1>7, ReturnStep, Zenon

(* The reply to Release: released, or failed as any other call. *)
LEMMA ReturnReleaseStep ==
  ASSUME Inductive, NEW o \in Owners, ReturnRelease(o) PROVE Inductive'
<1> USE DEF Inductive, TypeOK
<1> DEFINE h == IF call[o].reply = "ok" THEN [handle[o] EXCEPT !.state = "released"]
                ELSE Failed(handle[o], call[o].reply)
<1>1. /\ handle' = [handle EXCEPT ![o] = h] /\ call' = [call EXCEPT ![o] = Idle]
      /\ UNCHANGED <<now, clock, fence, row, orphans>>
      /\ call[o].op = "release" /\ handle[o].state \in {"active", "expired"}
  BY DEF ReturnRelease, CallInv
<1>2. h \in Handles /\ h.token = handle[o].token /\ h.state \notin {"none", "active"}
  BY <1>1 DEF Failed, Handles, States
<1>3. call' # call
  BY <1>1 DEF Idle
<1> HIDE DEF h
<1>4. QED
  BY <1>1, <1>2, <1>3, ReturnStep, Zenon

(* Giving up on a call leaves an orphan behind, and a handle that admits nothing. *)
LEMMA GiveUpStep == ASSUME Inductive, NEW o \in Owners, GiveUp(o) PROVE Inductive'
<1> USE DEF Inductive, TypeOK
<1>1. PICK early \in BOOLEAN : handle' = [handle EXCEPT ![o] =
         CASE call[o].op = "acquire" -> [handle[o] EXCEPT !.state = "failed"]
           [] call[o].op = "release" -> Failed(handle[o], "unavailable")
           [] OTHER                  -> Failed(Expired(o, early), "unavailable")]
  BY Zenon DEF GiveUp
<1> DEFINE e == Expired(o, early)
           h == CASE call[o].op = "acquire" -> [handle[o] EXCEPT !.state = "failed"]
                  [] call[o].op = "release" -> Failed(handle[o], "unavailable")
                  [] OTHER                  -> Failed(e, "unavailable")
           m == [op |-> call[o].op, owner |-> o, token |-> handle[o].token]
<1>2. /\ call' = [call EXCEPT ![o] = Idle] /\ handle' = [handle EXCEPT ![o] = h]
      /\ UNCHANGED <<now, clock, fence, row>> /\ orphans' \subseteq orphans \cup {m}
      /\ call[o].op \in Ops
      /\ call[o].op # "acquire" => handle[o].state \in {"active", "expired"}
  BY <1>1, Zenon DEF GiveUp, CallInv, Calls, Ops
<1>3. m \in Orphans
  BY <1>2 DEF Orphans, Handles
<1>4. /\ e \in Handles /\ e.token = handle[o].token
      /\ handle[o].state \in {"active", "expired"} => e.state \in {"active", "expired"}
  BY DEF Expired, Expires, Handles, States
<1>5. h \in Handles /\ h.token = handle[o].token /\ h.state \notin {"none", "active"}
  <2> HIDE DEF e
  <2> QED
    BY <1>2, <1>4 DEF Failed, Handles, States
<1>6. call' # call
  BY <1>2 DEF Idle, GiveUp
<1> HIDE DEF h, e, m
<1>7. orphans' \subseteq Orphans /\ \A n \in orphans' : n \in orphans \/ n = m
  BY <1>2, <1>3
<1>8. m.owner = o
  BY DEF m
<1>9. QED
  BY <1>2, <1>5, <1>6, <1>7, <1>8, ReturnStep, Zenon

(* Every step of the system preserves the invariant. *)
LEMMA NextInductive ==
  ASSUME MarginCovers, Inductive, [Next]_vars
  PROVE  Inductive'
<1>1. CASE Tick \/ \E o \in Owners : ClientTick(o)
  BY <1>1, ClockStep
<1>2. CASE Cleanup
  BY <1>2, CleanupStep
<1>3. CASE \E m \in orphans : ServeOrphan(m)
  BY <1>3, ServeOrphanStep
<1>4. ASSUME NEW o \in Owners, Serve(o) PROVE Inductive'
  BY <1>4, ServeStep
<1>5. ASSUME NEW o \in Owners,
             \/ TryAcquire(o)
             \/ \E op \in {"renew", "validate"} : BeginActive(o, op)
             \/ BeginRelease(o)
      PROVE Inductive'
  BY <1>5, DispatchStep
<1>6. ASSUME NEW o \in Owners, Observe(o) PROVE Inductive'
  BY <1>6, ObserveStep
<1>7. ASSUME NEW o \in Owners,
             ReturnAcquire(o) \/ ReturnActive(o) \/ ReturnRelease(o) \/ GiveUp(o)
      PROVE Inductive'
  BY <1>7, ReturnAcquireStep, ReturnActiveStep, ReturnReleaseStep, GiveUpStep
<1>8. CASE UNCHANGED vars
  BY <1>8 DEF vars, Inductive, TypeOK, ClockInv, CallInv, OrphanInv, FenceInv,
              RowInv, UniqueInv, HoldInv, Admitted, Holds, Owns, Outlives
<1>9. QED
  BY <1>1, <1>2, <1>3, <1>4, <1>5, <1>6, <1>7, <1>8 DEF Next

(* For every number of owners, backend, TTL and clock drift, a policy whose   *)
(* margin covers drift and truncation keeps the invariant.                    *)
THEOREM LeaseInvariant == ASSUME MarginCovers PROVE Spec => []Inductive
<1>1. Inductive /\ [Next]_vars => Inductive'
  BY NextInductive
<1>2. QED
  BY InitInductive, <1>1, PTL DEF Spec

(* The invariant makes every admitted handle the owner of the live record. *)
LEMMA InductiveAdmitted ==
  ASSUME MarginCovers, Inductive
  PROVE  AdmittedHoldsLease /\ MutualExclusion /\ TokensUnique
<1>1. ASSUME NEW o \in Owners, Admitted(o)
      PROVE  Live /\ Owns(o, handle[o].token)
  <2>1. handle[o].deadline \in Nat /\ clock[o] < handle[o].deadline
    BY <1>1 DEF Inductive, TypeOK, Handles, Admitted
  <2>2. Holds(o, handle[o].token, handle[o].deadline)
    BY <1>1 DEF Inductive, HoldInv
  <2>3. QED
    BY <2>1, <2>2, OutlivesLive DEF Holds, Live, Inductive
<1>2. AdmittedHoldsLease
  BY <1>1 DEF AdmittedHoldsLease
<1>3. MutualExclusion
  BY <1>1 DEF MutualExclusion, Owns
<1>4. TokensUnique
  BY DEF Inductive, UniqueInv, TokensUnique
<1>5. QED
  BY <1>2, <1>3, <1>4

(* A handle that reports active holds the backend's live record. *)
THEOREM LeaseAdmission == ASSUME MarginCovers PROVE Spec => []AdmittedHoldsLease
<1>1. Inductive => AdmittedHoldsLease
  BY InductiveAdmitted
<1>2. QED
  BY <1>1, LeaseInvariant, PTL

(* Two handles of a key never admit work at the same time. *)
THEOREM LeaseExclusion == ASSUME MarginCovers PROVE Spec => []MutualExclusion
<1>1. Inductive => MutualExclusion
  BY InductiveAdmitted
<1>2. QED
  BY <1>1, LeaseInvariant, PTL

(* No fencing token is handed out twice. *)
THEOREM LeaseTokens == ASSUME MarginCovers PROVE Spec => []TokensUnique
<1>1. Inductive => TokensUnique
  BY InductiveAdmitted
<1>2. QED
  BY <1>1, LeaseInvariant, PTL

(* One step never revives a handle: the only action that makes one admit work *)
(* starts from no handle at all, and a renewal is adopted only while the old   *)
(* deadline stands.                                                           *)
LEMMA StepNoRevival ==
  ASSUME Inductive, Next, NEW o \in Owners, handle[o].state # "none", Admitted(o)'
  PROVE  Admitted(o)
<1> USE DEF Inductive, TypeOK
<1>1. CASE Tick \/ \E p \in Owners : ClientTick(p)
  BY <1>1 DEF Tick, ClientTick, Admitted, Handles
<1>2. CASE Cleanup \/ \E m \in orphans : ServeOrphan(m)
  BY <1>2 DEF Cleanup, ServeOrphan, Admitted
<1>3. ASSUME NEW p \in Owners, Serve(p) PROVE Admitted(o)
  BY <1>3 DEF Serve, Admitted, Calls
<1>4. ASSUME NEW p \in Owners,
             \/ TryAcquire(p)
             \/ \E op \in {"renew", "validate"} : BeginActive(p, op)
             \/ BeginRelease(p)
      PROVE Admitted(o)
  BY <1>4, Zenon DEF TryAcquire, BeginActive, BeginRelease, Dispatch, Admitted
<1>5. ASSUME NEW p \in Owners, Observe(p) PROVE Admitted(o)
  BY <1>5 DEF Observe, Admitted, Handles
<1>6. ASSUME NEW p \in Owners, ReturnAcquire(p) PROVE Admitted(o)
  BY <1>6 DEF ReturnAcquire, Admitted, CallInv
<1>7. ASSUME NEW p \in Owners, ReturnActive(p) PROVE Admitted(o)
  <2>1. CASE p = o
    <3>1. call[o].op # "release" /\ UNCHANGED clock
      BY <1>7, <2>1 DEF ReturnActive
    <3>2. handle'[o].state = "active" => handle[o].state = "active" /\ ~Expires(o, FALSE)
      BY <1>7, <2>1 DEF ReturnActive, Expired, Expires, Failed, Handles
    <3>3. QED
      BY <3>1, <3>2 DEF Admitted, Expires, Handles
  <2>2. CASE p # o
    BY <1>7, <2>2 DEF ReturnActive, Admitted
  <2>3. QED
    BY <2>1, <2>2
<1>8. ASSUME NEW p \in Owners, ReturnRelease(p) PROVE Admitted(o)
  BY <1>8 DEF ReturnRelease, Failed, Admitted, Handles
<1>9. ASSUME NEW p \in Owners, GiveUp(p) PROVE Admitted(o)
  <2>1. CASE p = o
    <3>1. handle'[o].state # "active"
      BY <1>9, <2>1 DEF GiveUp, Failed, Expired, Handles
    <3>2. QED
      BY <3>1 DEF Admitted
  <2>2. CASE p # o
    BY <1>9, <2>2 DEF GiveUp, Admitted
  <2>3. QED
    BY <2>1, <2>2
<1>10. QED
  BY <1>1, <1>2, <1>3, <1>4, <1>5, <1>6, <1>7, <1>8, <1>9 DEF Next

(* A handle that stopped admitting work never admits work again. *)
THEOREM LeaseNoRevival == ASSUME MarginCovers PROVE Spec => NoRevival
<1>1. Inductive /\ [Next]_vars
        => [\A o \in Owners : handle[o].state # "none" /\ ~Admitted(o)
                              => ~Admitted(o)']_vars
  BY StepNoRevival
<1>2. QED
  BY <1>1, LeaseInvariant, PTL DEF Spec, NoRevival

(* What one step may do to the record behind a handle that stays admitted. *)
LEMMA StepSuccessorSafe ==
  ASSUME MarginCovers, Inductive, Next, NEW o \in Owners, Admitted(o), Admitted(o)'
  PROVE  row'.owner = o /\ row'.expires >= row.expires
<1> USE DEF Inductive, TypeOK
<1>1. /\ handle[o].deadline \in Nat /\ handle[o].token \in Nat
      /\ clock[o] < handle[o].deadline
      /\ Holds(o, handle[o].token, handle[o].deadline)
  BY DEF HoldInv, Admitted, Handles
<1>2. CASE row' = row
  BY <1>1, <1>2 DEF Holds, Owns, Rows
<1>3. ASSUME NEW p \in Owners, Serve(p)
      PROVE  row'.owner = o /\ row'.expires >= row.expires
  <2>1. PICK reply \in Replies : Execute(call[p].op, p, handle[p].token, reply)
    BY <1>3 DEF Serve
  <2>2. /\ call[p].op \in Ops /\ handle[p].token \in Nat /\ UNCHANGED <<now, clock>>
        /\ o # p \/ call[p].op # "release"
    <3>1. call[p].op # "idle" /\ UNCHANGED <<now, clock>>
      BY <1>3 DEF Serve
    <3>2. call[p].op \in Ops
      BY <3>1 DEF Calls
    <3>3. handle[p].token \in Nat
      BY DEF Handles
    <3>4. o # p \/ call[p].op # "release"
      BY DEF Admitted
    <3> QED
      BY <3>1, <3>2, <3>3, <3>4
  <2>3. Holds(o, handle[o].token, handle[o].deadline)
          => row.expires <= row'.expires /\ row'.owner = o
    BY <1>1, <2>1, <2>2, BackendStep DEF Holds, Owns
  <2>4. row' \in Rows
    BY <2>1, <2>2, ExecuteFacts
  <2>5. QED
    BY <1>1, <2>3, <2>4 DEF Rows
<1>4. ASSUME NEW m \in orphans, ServeOrphan(m)
      PROVE  row'.owner = o /\ row'.expires >= row.expires
  <2>1. PICK reply \in Replies : Execute(m.op, m.owner, m.token, reply)
    BY <1>4 DEF ServeOrphan
  <2>2. /\ m.op \in Ops /\ m.owner \in Owners /\ m.token \in Nat
        /\ UNCHANGED <<now, clock>> /\ o # m.owner
    BY <1>4 DEF ServeOrphan, Orphans, OrphanInv, Admitted
  <2>3. row.expires <= row'.expires /\ row'.owner = o
    BY <1>1, <2>1, <2>2, BackendStep DEF Holds, Owns
  <2>4. row' \in Rows
    BY <2>1, <2>2, ExecuteFacts
  <2>5. QED
    BY <2>3, <2>4 DEF Rows
<1>5. CASE Cleanup
  BY <1>1, <1>5 DEF Cleanup, Holds
<1>6. QED
  BY <1>2, <1>3, <1>4, <1>5, Zenon
     DEF Next, Tick, ClientTick, TryAcquire, Observe, BeginActive, BeginRelease,
         ReturnAcquire, ReturnActive, ReturnRelease, GiveUp

(* No request of another acquisition shortens or ends an admitted lease. *)
THEOREM LeaseSuccessorSafe == ASSUME MarginCovers PROVE Spec => SuccessorSafe
<1>1. Inductive /\ [Next]_vars
        => [\A o \in Owners : Admitted(o) /\ Admitted(o)'
               => row'.owner = o /\ row'.expires >= row.expires]_vars
  BY StepSuccessorSafe
<1>2. QED
  BY <1>1, LeaseInvariant, PTL DEF Spec, SuccessorSafe

(* One step of the counter and of the record's token. *)
LEMMA StepFence ==
  ASSUME Inductive, Next
  PROVE  /\ fence' >= fence
         /\ row'.token # row.token => row' = NoRow \/ row'.token > fence
<1> USE DEF Inductive, TypeOK
<1>1. ASSUME NEW op \in Ops, NEW o \in Owners, NEW t \in Nat, NEW reply \in Replies,
             Execute(op, o, t, reply)
      PROVE  /\ fence' >= fence
             /\ row'.token # row.token => row' = NoRow \/ row'.token > fence
  <2>1. /\ fence' \in Nat /\ fence <= fence'
        /\ \/ row' = row
           \/ fence' = fence + 1 /\ row' = Install(o, fence')
           \/ row' = [row EXCEPT !.expires = now + RemoteTTL]
           \/ row' = NoRow \/ row'.token = row.token
    BY <1>1, ExecuteFacts
  <2>2. QED
    BY <2>1 DEF Install, Rows
<1>2. ASSUME NEW p \in Owners, Serve(p)
      PROVE  \E reply \in Replies : Execute(call[p].op, p, handle[p].token, reply)
             /\ call[p].op \in Ops /\ handle[p].token \in Nat
  BY <1>2 DEF Serve, Calls, Handles
<1>3. ASSUME NEW m \in orphans, ServeOrphan(m)
      PROVE  \E reply \in Replies : Execute(m.op, m.owner, m.token, reply)
             /\ m.op \in Ops /\ m.owner \in Owners /\ m.token \in Nat
  BY <1>3 DEF ServeOrphan, Orphans
<1>4. CASE \/ \E p \in Owners : Serve(p)
           \/ \E m \in orphans : ServeOrphan(m)
  BY <1>1, <1>2, <1>3, <1>4
<1>5. CASE UNCHANGED <<fence, row>>
  BY <1>5
<1>6. CASE Cleanup
  BY <1>6 DEF Cleanup
<1>7. QED
  BY <1>4, <1>5, <1>6, Zenon
     DEF Next, Tick, ClientTick, TryAcquire, Observe, BeginActive, BeginRelease,
         ReturnAcquire, ReturnActive, ReturnRelease, GiveUp

(* Tokens only grow, on every backend, across releases and cleanup. *)
THEOREM LeaseFence == ASSUME MarginCovers PROVE Spec => FenceMonotonic
<1>1. Inductive /\ [Next]_vars
        => [/\ fence' >= fence
            /\ row'.token # row.token => row' = NoRow \/ row'.token > fence]_vars
  BY StepFence
<1>2. QED
  BY <1>1, LeaseInvariant, PTL DEF Spec, FenceMonotonic

-----------------------------------------------------------------------------
(* Lease implements FencedLease. *)

(* A step that makes no handle out of a reply ends admissions or changes none. *)
LEMMA QuietStep ==
  ASSUME MarginCovers, Inductive, Next,
         \A o \in Owners : handle'[o].token = handle[o].token,
         \A o \in Owners : Admitted(o)' => handle[o].state # "none"
  PROVE  [Promise!Next]_(Promise!vars)
<1>1. \A o \in Owners : Admitted(o)' => Admitted(o)
  BY StepNoRevival
<1>2. Holders' \subseteq Holders
  BY <1>1 DEF Holders
<1>3. \A o, p \in Owners : Admitted(o) /\ Admitted(p) => o = p
  BY InductiveAdmitted DEF MutualExclusion
<1>4. Holders' = Holders \/ (Holders # {} /\ Holders' = {})
  BY <1>2, <1>3 DEF Holders
<1>5. Seen' = Seen
  BY DEF Seen
<1>6. QED
  BY <1>4, <1>5 DEF Promise!Next, Promise!Lapse, Promise!vars

(* An acquisition's success is a Grant when its deadline has not passed, and a *)
(* Miss when it has.                                                          *)
LEMMA AcquiredStep ==
  ASSUME MarginCovers, Inductive, NEW o \in Owners, ReturnAcquire(o),
         call[o].reply = "ok"
  PROVE  [Promise!Next]_(Promise!vars)
<1> USE DEF Inductive, TypeOK
<1> DEFINE t == call[o].token
<1>1. /\ handle'[o] = NewHandle(o) /\ handle[o].state = "none" /\ handle[o].token = 0
      /\ \A p \in Owners \ {o} : handle'[p] = handle[p] /\ call'[p] = call[p]
      /\ call'[o] = Idle /\ UNCHANGED <<clock, row>>
      /\ call[o].op = "acquire"
  BY DEF ReturnAcquire, CallInv
<1>2. t \in 1..MaxToken
  BY <1>1, BoundAssumption DEF CallInv, FenceInv, Calls
<1>3. Seen' = Seen \cup {t}
  BY <1>1, <1>2 DEF Seen, NewHandle
<1>4. \A p \in Owners \ {o} : Admitted(p)' <=> Admitted(p)
  BY <1>1 DEF Admitted
<1>5. ~Admitted(o)
  BY <1>1 DEF Admitted
<1>6. CASE ~Admitted(o)'
  <2>1. Holders' = Holders
    BY <1>4, <1>5, <1>6 DEF Holders
  <2>2. QED
    BY <1>2, <1>3, <2>1 DEF Promise!Next, Promise!Miss
<1>7. CASE Admitted(o)'
  <2>1. clock[o] < call[o].started + Budget
    BY <1>1, <1>7 DEF Admitted, NewHandle
  <2>2. row.active /\ Owns(o, t)
    BY <1>1, <2>1 DEF HoldInv, Holds
  <2>3. \A p \in Owners \ {o} : ~Admitted(p) /\ handle[p].token < t
    BY <2>2, InductiveAdmitted DEF AdmittedHoldsLease, Owns, RowInv
  <2>4. Holders = {} /\ Holders' = {o}
    BY <1>4, <1>5, <1>7, <2>3 DEF Holders
  <2>5. \A u \in Seen : u < t
    BY <1>1, <2>3 DEF Seen
  <2>6. QED
    BY <1>2, <1>3, <2>4, <2>5 DEF Promise!Next, Promise!Grant
<1>8. QED
  BY <1>6, <1>7

(* The system implements the abstract fenced lease. *)
THEOREM LeaseRefines == ASSUME MarginCovers PROVE Spec => FencedPromise
<1>1. Init => Promise!Init
  BY DEF Init, Promise!Init, Holders, Seen, Admitted, NoHandle
<1>2. Inductive /\ [Next]_vars => [Promise!Next]_(Promise!vars)
  <2> SUFFICES ASSUME Inductive, [Next]_vars PROVE [Promise!Next]_(Promise!vars)
    OBVIOUS
  <2>1. CASE UNCHANGED vars
    BY <2>1 DEF vars, Promise!vars, Holders, Seen, Admitted
  <2>2. CASE \E o \in Owners : ReturnAcquire(o) /\ call[o].reply = "ok"
    BY <2>2, AcquiredStep
  <2>3. CASE Next /\ ~\E o \in Owners : ReturnAcquire(o) /\ call[o].reply = "ok"
    <3> USE DEF Inductive, TypeOK, Handles
    <3>1. CASE UNCHANGED handle
      <4>1. \A o \in Owners : Admitted(o)' => handle[o].state # "none"
        BY <3>1 DEF Admitted
      <4>2. QED
        BY <2>3, <3>1, <4>1, QuietStep
    <3>2. ASSUME NEW p \in Owners,
                 \/ Observe(p) \/ ReturnActive(p) \/ ReturnRelease(p) \/ GiveUp(p)
                 \/ ReturnAcquire(p) /\ call[p].reply # "ok"
          PROVE  /\ \A o \in Owners : handle'[o].token = handle[o].token
                 /\ \A o \in Owners : Admitted(o)' => handle[o].state # "none"
      <4>1. \A o \in Owners : /\ handle'[o].token = handle[o].token
                              /\ handle'[o].state = "active" => handle[o].state = "active"
        <5>1. CASE Observe(p)
          BY <5>1 DEF Observe
        <5>2. CASE ReturnActive(p)
          BY <5>2 DEF ReturnActive, Failed, Expired
        <5>3. CASE ReturnRelease(p)
          BY <5>3 DEF ReturnRelease, Failed
        <5>4. CASE GiveUp(p)
          BY <5>4 DEF GiveUp, Failed, Expired
        <5>5. CASE ReturnAcquire(p) /\ call[p].reply # "ok"
          BY <5>5 DEF ReturnAcquire
        <5>6. QED
          BY <3>2, <5>1, <5>2, <5>3, <5>4, <5>5
      <4>2. QED
        BY <4>1 DEF Admitted
    <3>3. \/ UNCHANGED handle
          \/ \E p \in Owners :
               \/ Observe(p) \/ ReturnActive(p) \/ ReturnRelease(p) \/ GiveUp(p)
               \/ ReturnAcquire(p) /\ call[p].reply # "ok"
      BY <2>3, Zenon DEF Next, Tick, Cleanup, ClientTick, Serve, ServeOrphan, TryAcquire,
                  BeginActive, BeginRelease
    <3>4. QED
      BY <2>3, <3>1, <3>2, <3>3, QuietStep
  <2>4. QED
    BY <2>1, <2>2, <2>3
<1>3. QED
  BY <1>1, <1>2, LeaseInvariant, PTL DEF Spec, FencedPromise, Promise!Spec
=============================================================================
