------------------------------- MODULE Lease -------------------------------
(***************************************************************************)
(* pkg/lease for one key: the backend record and its fencing counter       *)
(* (memory, Valkey or PostgreSQL), the local handles with their fail-closed *)
(* state, and the remote calls between them.  A call has three separate    *)
(* moments: the client dispatches it, the backend executes it, the client  *)
(* sees the reply.  A client may give up on a call at any point; a request *)
(* it gave up on may still be executed later, or never.                    *)
(*                                                                         *)
(* Every acquisition draws a fresh random owner (client.go NewOwner), so an *)
(* owner stands for one acquisition and for the handle it may become.      *)
(***************************************************************************)
EXTENDS Naturals, FiniteSets

CONSTANTS Owners,        \* owner identities, one per acquisition
          NoOwner,       \* no row in the store
          Backend,       \* which store is modelled
          TTL,           \* Policy.TTL
          SafetyMargin,  \* Policy.SafetyMargin
          Grain,         \* ticks per unit of the store's TTL argument
          Drift,         \* how far a client clock may fall behind the backend
          MaxToken,      \* the last fencing token the counter can issue
          MaxTime        \* bound on the backend clock

ASSUME OwnersAssumption == NoOwner \notin Owners

ASSUME BackendAssumption == Backend \in {"memory", "valkey", "postgres"}

(* NewPolicy keeps TTL - SafetyMargin positive; validate() of the Valkey and *)
(* PostgreSQL stores keeps TTL at one grain at least.                       *)
ASSUME PolicyAssumption == /\ TTL \in Nat /\ SafetyMargin \in Nat
                           /\ Grain \in Nat \ {0}
                           /\ SafetyMargin < TTL
                           /\ Grain <= TTL

ASSUME BoundAssumption == Drift \in Nat /\ MaxToken \in Nat /\ MaxTime \in Nat

VARIABLES now,           \* the backend's clock
          clock,         \* clock[o]: the monotonic clock of o's process
          fence,         \* the last fencing token issued
          row,           \* the backend record
          handle,        \* handle[o]: the local handle
          call,          \* call[o]: the remote call o's process is waiting for
          orphans        \* requests abandoned by their client, not executed yet

vars == <<now, clock, fence, row, handle, call, orphans>>

Ops     == {"acquire", "renew", "validate", "release"}
Replies == {"pending", "ok", "contended", "stale", "unavailable"}
States  == {"none", "active", "expired", "lost", "uncertain", "released",
            "failed"}

NoRow    == [owner |-> NoOwner, token |-> 0, expires |-> 0, active |-> FALSE]
NoHandle == [state |-> "none", token |-> 0, deadline |-> 0]
Idle     == [op |-> "idle", started |-> 0, reply |-> "pending", token |-> 0]

(* ttl.Milliseconds(): the stores with a coarser clock drop the remainder. *)
Remainder == TTL % Grain
RemoteTTL == TTL - Remainder

(* The local budget of newHandleAt and Renew. *)
Budget == TTL - SafetyMargin

Rows    == [owner : Owners \cup {NoOwner}, token : Nat, expires : Nat,
            active : BOOLEAN]
Handles == [state : States, token : Nat, deadline : Nat]
Calls   == [op : Ops \cup {"idle"}, started : Nat, reply : Replies, token : Nat]
Orphans == [op : Ops, owner : Owners, token : Nat]

TypeOK == /\ now \in Nat /\ clock \in [Owners -> Nat]
          /\ fence \in Nat /\ row \in Rows
          /\ handle \in [Owners -> Handles]
          /\ call \in [Owners -> Calls]
          /\ orphans \subseteq Orphans

Init == /\ now = 0
        /\ clock = [o \in Owners |-> 0]
        /\ fence = 0
        /\ row = NoRow
        /\ handle = [o \in Owners |-> NoHandle]
        /\ call = [o \in Owners |-> Idle]
        /\ orphans = {}

-----------------------------------------------------------------------------
(* Clocks.  The backend is the time authority; a client's clock runs at its  *)
(* own pace but is never more than Drift behind.                            *)

Tick ==
  /\ now < MaxTime
  /\ now' = now + 1
  /\ clock' = [o \in Owners |-> IF now < clock[o] + Drift THEN clock[o]
                               ELSE clock[o] + 1]
  /\ UNCHANGED <<fence, row, handle, call, orphans>>

ClientTick(o) == /\ clock[o] < now
                 /\ clock' = [clock EXCEPT ![o] = @ + 1]
                 /\ UNCHANGED <<now, fence, row, handle, call, orphans>>

-----------------------------------------------------------------------------
(* The backend.  Each operation is one mutex section, script or statement.   *)

(* The lease is held: an active row that has not expired. *)
Live == row.active /\ now < row.expires

Owns(o, t) == row.owner = o /\ row.token = t

Install(o, t) == [owner |-> o, token |-> t, expires |-> now + RemoteTTL,
                  active |-> TRUE]

(* Variant: the store grants without looking for a live record. *)
StoreTryAcquireBlind(o, reply) ==
  /\ fence < MaxToken
  /\ reply = "ok"
  /\ fence' = fence + 1
  /\ row' = Install(o, fence + 1)

(* PostgreSQL takes the next fence before it looks at the row, so a contended *)
(* attempt consumes one; the others only count successes.                    *)
StoreTryAcquire(o, reply) ==
  \/ /\ Live
     /\ reply = "contended"
     /\ fence' = IF Backend = "postgres" THEN fence + 1 ELSE fence
     /\ Backend = "postgres" => fence < MaxToken
     /\ UNCHANGED row
  \/ /\ fence >= MaxToken
     /\ Live => Backend = "postgres"
     /\ reply = "unavailable"
     /\ UNCHANGED <<fence, row>>
  \/ /\ ~Live
     /\ fence < MaxToken
     /\ reply = "ok"
     /\ fence' = fence + 1
     /\ row' = Install(o, fence + 1)

StoreRenew(o, t, reply) ==
  \/ /\ Live /\ Owns(o, t)
     /\ reply = "ok"
     /\ row' = [row EXCEPT !.expires = now + RemoteTTL]
     /\ UNCHANGED fence
  \/ /\ ~(Live /\ Owns(o, t))
     /\ reply = "stale"
     /\ UNCHANGED <<fence, row>>

StoreValidate(o, t, reply) ==
  /\ reply = IF Live /\ Owns(o, t) THEN "ok" ELSE "stale"
  /\ UNCHANGED <<fence, row>>

(* Valkey deletes a live key and calls a missing one done; the others keep an *)
(* inactive row, and PostgreSQL also calls a cleaned-up row done.            *)
StoreRelease(o, t, reply) ==
  LET matches == IF Backend = "valkey" THEN Live /\ Owns(o, t) ELSE Owns(o, t)
      missing == \/ Backend = "valkey" /\ ~Live
                 \/ Backend = "postgres" /\ row = NoRow
  IN /\ reply = IF matches \/ missing THEN "ok" ELSE "stale"
     /\ row' = IF ~matches THEN row
               ELSE IF Backend = "valkey" THEN NoRow
               ELSE [row EXCEPT !.active = FALSE]
     /\ UNCHANGED fence

Execute(op, o, t, reply) ==
  \/ op = "acquire"  /\ StoreTryAcquire(o, reply)
  \/ op = "renew"    /\ StoreRenew(o, t, reply)
  \/ op = "validate" /\ StoreValidate(o, t, reply)
  \/ op = "release"  /\ StoreRelease(o, t, reply)

(* The backend executes the call a client is waiting for. *)
Serve(o) ==
  /\ call[o].op # "idle" /\ call[o].reply = "pending"
  /\ \E reply \in Replies \ {"pending"} :
       /\ Execute(call[o].op, o, handle[o].token, reply)
       /\ call' = [call EXCEPT ![o].reply = reply,
                               ![o].token = IF call[o].op = "acquire" /\ reply = "ok"
                                            THEN fence' ELSE 0]
  /\ UNCHANGED <<now, clock, handle, orphans>>

(* The backend executes a request its client no longer waits for. *)
ServeOrphan(m) ==
  /\ m \in orphans
  /\ \E reply \in Replies \ {"pending"} : Execute(m.op, m.owner, m.token, reply)
  /\ orphans' = orphans \ {m}
  /\ UNCHANGED <<now, clock, handle, call>>

(* cleanupSQL: an old inactive row goes, its fence stays. *)
Cleanup ==
  /\ Backend = "postgres"
  /\ row # NoRow /\ ~row.active
  /\ row' = NoRow
  /\ UNCHANGED <<now, clock, fence, handle, call, orphans>>

-----------------------------------------------------------------------------
(* The client: Client.TryAcquire and Client.Acquire, and Handle.             *)

(* The deadline check compares the process clock, and the injected scheduling *)
(* clock as well: that one may be any clock, so it may expire a handle early. *)
Expires(o, early) == /\ handle[o].state = "active"
                     /\ clock[o] >= handle[o].deadline \/ early

(* expireLocked *)
Expired(o, early) ==
  IF Expires(o, early) THEN [handle[o] EXCEPT !.state = "expired"] ELSE handle[o]

(* failLocked: only an active handle changes. *)
Failed(h, err) ==
  IF h.state # "active" THEN h
  ELSE [h EXCEPT !.state = IF err = "stale" THEN "lost" ELSE "uncertain"]

Dispatch(o, op) ==
  call' = [call EXCEPT ![o] = [op |-> op, started |-> clock[o],
                               reply |-> "pending", token |-> 0]]

(* One attempt of TryAcquire or of the Acquire loop, which repeats it with the *)
(* same owner after contention; the clock is read before the request leaves.  *)
TryAcquire(o) ==
  /\ handle[o].state = "none" /\ call[o].op = "idle"
  /\ Dispatch(o, "acquire")
  /\ UNCHANGED <<now, clock, fence, row, handle, orphans>>

(* State, and the deadline check of every operation that is then refused. *)
Observe(o) ==
  /\ \E early \in BOOLEAN : Expires(o, early)
  /\ handle' = [handle EXCEPT ![o].state = "expired"]
  /\ UNCHANGED <<now, clock, fence, row, call, orphans>>

(* beginActiveOperation of Renew and Validate; busy is a call in flight. *)
BeginActive(o, op) ==
  /\ op \in {"renew", "validate"}
  /\ handle[o].state = "active" /\ ~Expires(o, FALSE)
  /\ call[o].op = "idle"
  /\ Dispatch(o, op)
  /\ UNCHANGED <<now, clock, fence, row, handle, orphans>>

(* Release has no deadline check: an expired handle may still be released. *)
BeginRelease(o) ==
  /\ handle[o].state \in {"active", "expired"}
  /\ call[o].op = "idle"
  /\ Dispatch(o, "release")
  /\ UNCHANGED <<now, clock, fence, row, handle, orphans>>

(* newHandleAt: the deadline counts from the clock read before the request. *)
NewHandle(o) == [state |-> "active", token |-> call[o].token,
                 deadline |-> call[o].started + Budget]

ReturnAcquire(o) ==
  /\ call[o].op = "acquire" /\ call[o].reply # "pending"
  /\ handle' = [handle EXCEPT ![o] =
       CASE call[o].reply = "ok"        -> NewHandle(o)
         [] call[o].reply = "contended" -> @
         [] OTHER                       -> [@ EXCEPT !.state = "failed"]]
  /\ call' = [call EXCEPT ![o] = Idle]
  /\ UNCHANGED <<now, clock, fence, row, orphans>>

(* Variant: the new deadline is adopted before the old one is checked. *)
ReturnActiveRevives(o) ==
  /\ call[o].op \in {"renew", "validate"} /\ call[o].reply # "pending"
  /\ handle' = [handle EXCEPT ![o] =
       IF call[o].reply # "ok" THEN Failed(handle[o], call[o].reply)
       ELSE IF call[o].op = "renew" THEN [@ EXCEPT !.deadline = call[o].started + Budget]
       ELSE @]
  /\ call' = [call EXCEPT ![o] = Idle]
  /\ UNCHANGED <<now, clock, fence, row, orphans>>

(* finishActiveOperation: the old deadline is checked before the new one is *)
(* adopted, so a late success never revives the handle.                     *)
ReturnActive(o) ==
  /\ call[o].op \in {"renew", "validate"} /\ call[o].reply # "pending"
  /\ \E early \in BOOLEAN :
       LET h == Expired(o, early)
       IN handle' = [handle EXCEPT ![o] =
            IF call[o].reply # "ok" THEN Failed(h, call[o].reply)
            ELSE IF h.state = "active" /\ call[o].op = "renew"
            THEN [h EXCEPT !.deadline = call[o].started + Budget]
            ELSE h]
  /\ call' = [call EXCEPT ![o] = Idle]
  /\ UNCHANGED <<now, clock, fence, row, orphans>>

ReturnRelease(o) ==
  /\ call[o].op = "release" /\ call[o].reply # "pending"
  /\ handle' = [handle EXCEPT ![o] =
       IF call[o].reply = "ok" THEN [@ EXCEPT !.state = "released"]
       ELSE Failed(@, call[o].reply)]
  /\ call' = [call EXCEPT ![o] = Idle]
  /\ UNCHANGED <<now, clock, fence, row, orphans>>

(* Variant: an ambiguous outcome leaves the handle as it was. *)
GiveUpOptimistic(o) ==
  /\ call[o].op # "idle"
  /\ handle' = [handle EXCEPT ![o].state = IF call[o].op = "acquire" THEN "failed" ELSE @]
  /\ orphans' = IF call[o].reply # "pending" THEN orphans
                ELSE orphans \cup {[op |-> call[o].op, owner |-> o,
                                    token |-> handle[o].token]}
  /\ call' = [call EXCEPT ![o] = Idle]
  /\ UNCHANGED <<now, clock, fence, row>>

(* The operation timeout, a cancelled context or a lost connection: the call *)
(* ends with an ambiguous or unavailable error whatever the backend did.     *)
GiveUp(o) ==
  /\ call[o].op # "idle"
  /\ \E early \in BOOLEAN :
       handle' = [handle EXCEPT ![o] =
         CASE call[o].op = "acquire" -> [@ EXCEPT !.state = "failed"]
           [] call[o].op = "release" -> Failed(@, "unavailable")
           [] OTHER                  -> Failed(Expired(o, early), "unavailable")]
  /\ orphans' = IF call[o].reply # "pending" THEN orphans
                ELSE orphans \cup {[op |-> call[o].op, owner |-> o,
                                    token |-> handle[o].token]}
  /\ call' = [call EXCEPT ![o] = Idle]
  /\ UNCHANGED <<now, clock, fence, row>>

Next == \/ Tick
        \/ Cleanup
        \/ \E m \in orphans : ServeOrphan(m)
        \/ \E o \in Owners : \/ ClientTick(o)
                             \/ Serve(o)
                             \/ TryAcquire(o)
                             \/ Observe(o)
                             \/ \E op \in {"renew", "validate"} : BeginActive(o, op)
                             \/ BeginRelease(o)
                             \/ ReturnAcquire(o)
                             \/ ReturnActive(o)
                             \/ ReturnRelease(o)
                             \/ GiveUp(o)

Spec == Init /\ [][Next]_vars

-----------------------------------------------------------------------------
(* Properties.                                                              *)

(* A handle admits work: State reports active, and it is not being released. *)
Admitted(o) == /\ handle[o].state = "active"
               /\ clock[o] < handle[o].deadline
               /\ call[o].op # "release"

(* A handle that admits work still holds the backend's live record under its *)
(* own owner and token: the local deadline, counted from before the request, *)
(* ends before the backend can hand the key to a successor.                  *)
AdmittedHoldsLease ==
  \A o \in Owners : Admitted(o) => Live /\ Owns(o, handle[o].token)

(* Two handles of the same key never admit work at the same time, whatever   *)
(* is lost, delayed or executed late between the clients and the backend.    *)
MutualExclusion ==
  \A o, p \in Owners : Admitted(o) /\ Admitted(p) => o = p

(* A fencing token is never handed to two acquisitions, not even when the    *)
(* first response was lost, the lease was released or its row cleaned up.    *)
TokensUnique ==
  \A o, p \in Owners : handle[o].token # 0 /\ handle[o].token = handle[p].token
                        => o = p

(* Admission never comes back: once a handle has stopped admitting work, by  *)
(* its deadline, a failed call or a release, no later reply revives it.      *)
NoRevival ==
  [][\A o \in Owners : handle[o].state # "none" /\ ~Admitted(o)
                       => ~Admitted(o)']_vars

(* A request executed for an earlier acquisition, in time or long after its  *)
(* client gave up, never extends or ends the lease of a successor.           *)
SuccessorSafe ==
  [][\A o \in Owners : Admitted(o) /\ Admitted(o)'
        => row'.owner = o /\ row'.expires >= row.expires]_vars

(* The fencing counter of one key never goes back, and every new record      *)
(* carries a token above all tokens issued before, on each backend.          *)
FenceMonotonic ==
  [][/\ fence' >= fence
     /\ row'.token # row.token => row' = NoRow \/ row'.token > fence]_vars

(* The abstract promise: the handles that admit work, and the tokens seen.   *)
Holders == {o \in Owners : Admitted(o)}
Seen == {t \in {handle[o].token : o \in Owners} : t # 0}

Promise == INSTANCE FencedLease WITH Tokens <- 1..MaxToken,
                                     holders <- Holders, seen <- Seen

(* The whole system behaves like one fenced lease (FencedLease.tla): a handle *)
(* is admitted only when none other is, with a token above all seen before.   *)
FencedPromise == Promise!Spec

-----------------------------------------------------------------------------
(* The inductive invariant behind these properties (LeaseProofs.tla).        *)

(* What a policy must reserve: the clock drift and the truncated remainder.  *)
MarginCovers == Drift + Remainder <= SafetyMargin

(* The record outlives a local deadline d. *)
Outlives(d) == d + SafetyMargin <= row.expires + Remainder

Holds(o, t, d) == row.active /\ Owns(o, t) /\ Outlives(d)

ClockInv == /\ row.expires <= now + RemoteTTL
            /\ \A o \in Owners : clock[o] <= now /\ now <= clock[o] + Drift

CallInv ==
  \A o \in Owners :
    /\ call[o].started <= clock[o]
    /\ call[o].token # 0 <=> call[o].op = "acquire" /\ call[o].reply = "ok"
    /\ call[o].op = "acquire" => handle[o].state = "none"
    /\ call[o].op \in {"renew", "validate", "release"}
         => handle[o].state \in {"active", "expired"}
    /\ handle[o].state = "none" => handle[o].token = 0

OrphanInv == \A m \in orphans : handle[m.owner].state \notin {"none", "active"}

FenceInv == /\ fence <= MaxToken
            /\ row.token <= fence
            /\ \A o \in Owners : handle[o].token <= fence /\ call[o].token <= fence

(* While a record stands, every other acquisition carries an older token. *)
RowInv == row.active =>
            \A o \in Owners \ {row.owner} :
              handle[o].token < row.token /\ call[o].token < row.token

UniqueInv ==
  \A o, p \in Owners : o # p =>
    /\ handle[o].token # 0 => handle[o].token \notin {handle[p].token, call[p].token}
    /\ call[o].token # 0 => call[o].token # call[p].token

(* What backs an admitted handle, a success on its way to a new handle, and   *)
(* a renewal on its way to an admitted one.                                  *)
HoldInv ==
  \A o \in Owners :
    /\ Admitted(o) => Holds(o, handle[o].token, handle[o].deadline)
    /\ call[o].reply = "ok" /\ call[o].op = "acquire"
       /\ clock[o] < call[o].started + Budget
         => Holds(o, call[o].token, call[o].started + Budget)
    /\ call[o].reply = "ok" /\ call[o].op = "renew" /\ Admitted(o)
         => Outlives(call[o].started + Budget)

(* The state invariant that implies every property above: drift bounds, call *)
(* bookkeeping, token order, and a live record behind every admission that   *)
(* stands or is about to.                                                    *)
Inductive == /\ TypeOK /\ ClockInv /\ CallInv /\ OrphanInv /\ FenceInv /\ RowInv
             /\ UniqueInv /\ HoldInv
=============================================================================
