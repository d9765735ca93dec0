---------------------------- MODULE OutboxProofs ----------------------------
(***************************************************************************)
(* Proofs about OutboxRelay.tla and the table under it, for every set of    *)
(* messages, relays and tokens, every batch size, worker count, attempt     *)
(* limit and number of faults.  That no record is leased before an earlier  *)
(* one of its scope is proved for applications that commit in order and     *)
(* operators that replay nothing; otherwise only that no Claim passes an    *)
(* open record by.  Liveness stays with TLC.                                *)
(***************************************************************************)
EXTENDS OutboxRelay, TLAPS

(* The parts of TypeOK that the argument is about. *)
Typed == /\ record \in [Messages -> Rows]
         /\ job \in [Relays -> [Messages -> Jobs]]
         /\ late \subseteq Requests
         /\ reports \in [Messages -> SUBSET {"ok", "permanent", "failed"}]

(* The others. *)
Loops == /\ relay \in [Relays -> {"idle", "claiming", "running", "stopped"}]
         /\ snap \in [Relays -> SUBSET Messages]
         /\ cancelled \in [Relays -> BOOLEAN]
         /\ failed \in [Relays -> BOOLEAN]
         /\ faults \in 0..MaxFaults

(* What a step may do to a row: nothing, make it wait for a claim or remove   *)
(* it, lease it under a new token, extend or expire its lease, or settle it   *)
(* for a reason that has been reported.                                     *)
RowStep(m) ==
  \/ /\ record'[m] = record[m]
     /\ reports[m] \subseteq reports'[m]
  \/ record'[m].state \in {"absent", "pending", "pruned"}
  \/ /\ record'[m].state = "leased" /\ record'[m].token \in Tokens \ Used
  \/ /\ record[m].state = "leased" /\ record'[m].state = "leased"
     /\ record'[m].token = record[m].token /\ record'[m].attempts = record[m].attempts
     /\ reports[m] \subseteq reports'[m]
  \/ /\ record'[m].state \in Terminal /\ record'[m].attempts = record[m].attempts
     /\ reports[m] \subseteq reports'[m]
     /\ record'[m].state = "delivered" => Justified(m, "deliver")
     /\ record'[m].state = "dead" => Justified(m, "dead")

Table == record' \in [Messages -> Rows] /\ \A m \in Messages : RowStep(m)

(* Whoever refers to the current lease after such a step did so before, on    *)
(* the same attempt, and nothing reported has been forgotten since.          *)
LEMMA StillCurrent ==
  ASSUME NEW m \in Messages, NEW t \in Used, RowStep(m), Current(m, t)'
  PROVE  /\ Current(m, t) /\ record'[m].attempts = record[m].attempts
         /\ reports[m] \subseteq reports'[m]
<1>1. record'[m].state = "leased" /\ record'[m].token = t
  BY DEF Current
<1>2. CASE record'[m] = record[m] /\ reports[m] \subseteq reports'[m]
  BY <1>1, <1>2 DEF Current
<1>3. CASE /\ record[m].state = "leased" /\ record'[m].state = "leased"
           /\ record'[m].token = record[m].token /\ record'[m].attempts = record[m].attempts
           /\ reports[m] \subseteq reports'[m]
  BY <1>1, <1>3 DEF Current
<1> QED
  BY <1>1, <1>2, <1>3 DEF RowStep, Terminal

(* What is justified stays so on the same attempt. *)
LEMMA JustifiedKept ==
  ASSUME Typed, NEW m \in Messages, record'[m].attempts = record[m].attempts,
         reports[m] \subseteq reports'[m], NEW op, Justified(m, op)
  PROVE  Justified(m, op)'
BY DEF Justified, Exhausted

LEMMA RowKept ==
  ASSUME Typed, NEW m \in Messages, RowStep(m), RowSound(m)
  PROVE  RowSound(m)'
<1>1. CASE record'[m] = record[m] /\ reports[m] \subseteq reports'[m]
  BY <1>1 DEF RowSound, Exhausted
<1>2. CASE record'[m].state \in {"absent", "pending", "pruned"}
  BY <1>2 DEF RowSound
<1>3. CASE record'[m].state = "leased" /\ record'[m].token \in Tokens \ Used
  BY <1>3 DEF RowSound
<1>4. CASE /\ record[m].state = "leased" /\ record'[m].state = "leased"
           /\ record'[m].token = record[m].token
  BY <1>4 DEF RowSound
<1>5. CASE /\ record'[m].state \in Terminal /\ record'[m].attempts = record[m].attempts
           /\ reports[m] \subseteq reports'[m]
           /\ record'[m].state = "delivered" => Justified(m, "deliver")
           /\ record'[m].state = "dead" => Justified(m, "dead")
  BY <1>5 DEF RowSound, Justified, Exhausted, Terminal
<1> QED
  BY <1>1, <1>2, <1>3, <1>4, <1>5 DEF RowStep

(* A job that a step leaves alone. *)
LEMMA JobKept ==
  ASSUME Typed, NEW r \in Relays, NEW m \in Messages, RowStep(m), JobSound(r, m),
         job'[r][m] = job[r][m]
  PROVE  JobSound(r, m)'
<1> DEFINE j == job[r][m]
<1>1. j.token \in Used
  BY DEF Used
<1>2. ASSUME Current(m, j.token)'
      PROVE  /\ Current(m, j.token) /\ record'[m].attempts = record[m].attempts
             /\ reports[m] \subseteq reports'[m]
  BY <1>1, <1>2, StillCurrent
<1>3. ASSUME Current(m, j.token)' PROVE Justified(m, j.pc)'
  BY <1>2, <1>3, JustifiedKept DEF JobSound
<1>4. ASSUME Current(m, j.token)'
      PROVE  /\ j.pc \in {"queued", "publishing", "published"} => j.attempts = record'[m].attempts
             /\ j.pc = "published" =>
                  reports'[m] # {} /\ (j.out \in {"ok", "permanent"} => j.out \in reports'[m])
  BY <1>2, <1>4 DEF JobSound
<1> QED
  BY <1>3, <1>4 DEF JobSound, Current, Justified, Exhausted

(* What the server may still execute. *)
LEMMA LateKept ==
  ASSUME Typed, Table,
         \A x \in late' : /\ x.message \in Messages /\ x.token \in Used
                          /\ Current(x.message, x.token) => Justified(x.message, x.op)
  PROVE  LateSound'
<1> SUFFICES ASSUME NEW x \in late', Current(x.message, x.token)'
             PROVE  Justified(x.message, x.op)'
  BY DEF LateSound, Current, Justified, Exhausted
<1>1. x.message \in Messages /\ x.token \in Used /\ RowStep(x.message)
  BY DEF Table
<1>2. /\ Current(x.message, x.token)
      /\ record'[x.message].attempts = record[x.message].attempts
      /\ reports[x.message] \subseteq reports'[x.message]
  BY <1>1, StillCurrent
<1>3. Justified(x.message, x.op)
  BY <1>2
<1> QED
  BY <1>1, <1>2, <1>3, JustifiedKept

(* The invariant after a step in which at most relay c has new claims. *)
LEMMA Preserved ==
  ASSUME Inductive, Table, Typed', Loops', NEW c,
         \A r \in Relays, m \in Messages : JobSound(r, m)',
         \A r \in Relays, m \in Messages : job'[r][m].pc # "none" =>
            \/ job[r][m].pc # "none" /\ job'[r][m].token = job[r][m].token
            \/ r = c /\ job'[r][m].token \notin Used,
         LateSound'
  PROVE  Inductive'
<1>1. Typed
  BY DEF Inductive, TypeOK, StoreTypeOK, Typed
<1>2. TypeOK'
  BY DEF TypeOK, StoreTypeOK, Typed, Loops
<1>3. ASSUME NEW m \in Messages PROVE RowSound(m)'
  BY <1>1, RowKept DEF Inductive, Table
<1>4. HoldersDiffer'
  <2> SUFFICES ASSUME NEW m \in Messages, NEW r \in Relays, NEW q \in Relays,
                      job'[r][m].pc # "none", job'[q][m].pc # "none",
                      job'[r][m].token = job'[q][m].token
               PROVE  r = q
    BY DEF HoldersDiffer
  <2>1. job[r][m].token \in Used /\ job[q][m].token \in Used
    BY DEF Used
  <2> QED
    BY <2>1 DEF Inductive, HoldersDiffer
<1> QED
  BY <1>2, <1>3, <1>4 DEF Inductive

-----------------------------------------------------------------------------
(* The statements *)

LEMMA UnleasedType ==
  ASSUME NEW row \in Rows, NEW s \in States, NEW due \in BOOLEAN
  PROVE  Unleased(row, s, due) \in Rows /\ Unleased(row, s, due).state = s
         /\ Unleased(row, s, due).attempts = row.attempts
BY DEF Unleased, Rows

LEMMA SameTable ==
  ASSUME Typed, UNCHANGED record, \A m \in Messages : reports[m] \subseteq reports'[m]
  PROVE  Table
BY DEF Typed, Table, RowStep

(* Claim *)
LEMMA LeaseTable ==
  ASSUME Typed, NEW S, NEW t \in Tokens \ Used, Lease(S, t), UNCHANGED reports
  PROVE  Table
<1>1. ASSUME NEW m \in Messages PROVE record'[m] \in Rows /\ RowStep(m)
  <2>1. CASE m \notin S
    BY <2>1 DEF Lease, Typed, RowStep
  <2>2. CASE m \in S
    <3> DEFINE n == record[m].attempts
               k == IF n < AttemptCap THEN n + 1 ELSE n
    <3>1. record[m] \in Rows /\ n \in 0..AttemptCap /\ AttemptCap \in Nat
      BY StoreAssumption DEF Typed, Rows
    <3>2. k \in 0..AttemptCap /\ record[m].due \in BOOLEAN
      BY <3>1 DEF Rows
    <3>3. record'[m] = [state |-> "leased", token |-> t, expired |-> FALSE, due |-> record[m].due,
                        attempts |-> k]
      BY <2>2 DEF Lease
    <3> HIDE DEF k
    <3>4. record'[m] \in Rows
      BY <3>2, <3>3 DEF Rows, States
    <3> QED
      BY <3>3, <3>4 DEF RowStep
  <2> QED
    BY <2>1, <2>2
<1>2. record' = [m \in Messages |-> record'[m]]
  BY DEF Lease
<1> QED
  BY <1>1, <1>2 DEF Table

(* MarkDelivered, Retry, DeadLetter, Release and Extend, in time or late. *)
LEMMA TransitionTable ==
  ASSUME Typed, NEW m \in Messages, NEW t, NEW op \in Ops, Transition(m, t, op),
         Current(m, t) => Justified(m, op), UNCHANGED reports
  PROVE  Table
<1>1. CASE ~Current(m, t)
  BY <1>1, SameTable DEF Transition
<1>2. CASE Current(m, t)
  <2>1. record' = [record EXCEPT ![m] = Changed(record[m], op)]
    BY <1>2 DEF Transition
  <2>2. record[m] \in Rows /\ record[m].due \in BOOLEAN /\ record[m].state = "leased"
    BY <1>2 DEF Typed, Rows, Current
  <2>3. {"delivered", "pending", "dead"} \subseteq States
    BY DEF States
  <2>4. Changed(record[m], op) \in Rows /\ RowStep(m)
    <3>1. record'[m] = Changed(record[m], op)
      BY <2>1 DEF Typed
    <3>2. CASE op = "deliver"
      <4>1. record'[m] = Unleased(record[m], "delivered", record[m].due)
        BY <3>1, <3>2 DEF Changed
      <4> QED
        BY <1>2, <2>2, <2>3, <3>1, <3>2, <4>1, UnleasedType DEF RowStep, Terminal
    <3>3. CASE op = "dead"
      <4>1. record'[m] = Unleased(record[m], "dead", record[m].due)
        BY <3>1, <3>3 DEF Changed
      <4> QED
        BY <1>2, <2>2, <2>3, <3>1, <3>3, <4>1, UnleasedType DEF RowStep, Terminal
    <3>4. CASE op \in {"retry", "release"}
      <4>1. \/ record'[m] = Unleased(record[m], "pending", TRUE)
            \/ record'[m] = Unleased(record[m], "pending", FALSE)
        BY <3>1, <3>4, Zenon DEF Changed
      <4>2. \A due \in BOOLEAN : /\ Unleased(record[m], "pending", due) \in Rows
                                 /\ Unleased(record[m], "pending", due).state = "pending"
        <5>1. "pending" \in States
          BY DEF States
        <5> QED
          BY <2>2, <5>1, UnleasedType
      <4>3. record'[m] \in Rows /\ record'[m].state = "pending"
        BY ONLY <4>1, <4>2, Zenon
      <4> QED
        BY <3>1, <4>3 DEF RowStep
    <3>5. CASE op = "extend"
      <4>1. record'[m] = [record[m] EXCEPT !.expired = FALSE]
        BY <3>1, <3>5 DEF Changed
      <4> QED
        BY <2>2, <3>1, <4>1, Zenon DEF RowStep, Rows
    <3> QED
      BY <3>2, <3>3, <3>4, <3>5 DEF Ops
  <2>5. \A n \in Messages \ {m} : record'[n] = record[n]
    BY <2>1 DEF Typed
  <2> QED
    BY <2>1, <2>4, <2>5 DEF Typed, Table, RowStep
<1> QED
  BY <1>1, <1>2

(* Time reaches available_at or leased_until. *)
LEMMA TimeTable ==
  ASSUME Typed, NEW m \in Messages, Due(m) \/ Expire(m), UNCHANGED reports
  PROVE  Table
<1>1. record[m] \in Rows
  BY DEF Typed
<1>2. CASE Due(m)
  <2>1. record' = [record EXCEPT ![m] = [record[m] EXCEPT !.due = TRUE]]
    BY <1>2 DEF Due
  <2>2. /\ [record[m] EXCEPT !.due = TRUE] \in Rows
        /\ [record[m] EXCEPT !.due = TRUE].state = "pending"
    BY <1>1, <1>2, Zenon DEF Rows, Due
  <2> QED
    BY <2>1, <2>2 DEF Typed, Table, RowStep
<1>3. CASE Expire(m)
  <2> DEFINE x == [record[m] EXCEPT !.expired = TRUE]
  <2>1. record' = [record EXCEPT ![m] = x] /\ record[m].state = "leased"
    BY <1>3 DEF Expire
  <2>2. /\ x \in Rows /\ x.state = "leased" /\ x.token = record[m].token
        /\ x.attempts = record[m].attempts
    BY <1>1, <2>1, Zenon DEF Rows
  <2> HIDE DEF x
  <2> QED
    BY <2>1, <2>2 DEF Typed, Table, RowStep
<1> QED
  BY <1>2, <1>3

(* InsertBatch, PruneDelivered and PruneDead, and Replay, which forgets what  *)
(* was reported of the rows it makes pending again.                         *)
LEMMA BatchTable ==
  ASSUME Typed, NEW S \in SUBSET Messages,
         \/ (Insert(S) \/ Prune(S)) /\ UNCHANGED reports
         \/ Replay(S) /\ reports' = [m \in Messages |-> IF m \in S THEN {} ELSE reports[m]]
  PROVE  Table
<1>1. PICK s \in {"pending", "pruned"}, due \in BOOLEAN, z \in BOOLEAN :
        record' = [m \in Messages |->
          IF m \in S THEN IF z THEN [Unleased(record[m], s, due) EXCEPT !.attempts = 0]
                          ELSE Unleased(record[m], s, due)
          ELSE record[m]]
  <2>1. CASE Insert(S)
    BY <2>1, Zenon DEF Insert
  <2>2. CASE Prune(S)
    BY <2>2, Zenon DEF Prune
  <2>3. CASE Replay(S)
    BY <2>3, Zenon DEF Replay
  <2> QED
    BY <2>1, <2>2, <2>3
<1>2. ASSUME NEW m \in S PROVE record'[m] \in Rows /\ record'[m].state = s
  <2>1. record[m] \in Rows /\ s \in States
    BY DEF Typed, States
  <2>2. Unleased(record[m], s, due) \in Rows /\ Unleased(record[m], s, due).state = s
    BY <2>1, UnleasedType
  <2>3. /\ [Unleased(record[m], s, due) EXCEPT !.attempts = 0] \in Rows
        /\ [Unleased(record[m], s, due) EXCEPT !.attempts = 0].state = s
    BY <2>2, StoreAssumption DEF Rows
  <2> QED
    BY <1>1, <2>2, <2>3
<1>3. ASSUME NEW m \in Messages \ S PROVE record'[m] = record[m] /\ reports'[m] = reports[m]
  BY <1>1
<1>4. ASSUME NEW m \in Messages PROVE record'[m] \in Rows /\ RowStep(m)
  <2>1. CASE m \in S
    BY <1>2, <2>1 DEF RowStep
  <2>2. CASE m \notin S
    BY <1>3, <2>2 DEF Typed, RowStep
  <2> QED
    BY <2>1, <2>2
<1>5. record' = [m \in Messages |-> record'[m]]
  BY <1>1
<1> QED
  BY <1>4, <1>5 DEF Table

-----------------------------------------------------------------------------
(* The steps *)

(* A step that leaves jobs and requests alone. *)
LEMMA QuietStep ==
  ASSUME Inductive, Table, Loops', UNCHANGED job, late' \subseteq late,
         reports' \in [Messages -> SUBSET {"ok", "permanent", "failed"}]
  PROVE  Inductive'
<1>1. Typed
  BY DEF Inductive, TypeOK, StoreTypeOK, Typed
<1>2. Typed'
  BY <1>1 DEF Typed, Table
<1>3. ASSUME NEW r \in Relays, NEW m \in Messages PROVE JobSound(r, m)'
  <2>1. JobSound(r, m) /\ RowStep(m) /\ job'[r][m] = job[r][m]
    BY DEF Inductive, Table
  <2> QED
    BY <1>1, <2>1, JobKept
<1>4. \A x \in late' : /\ x.message \in Messages /\ x.token \in Used
                       /\ Current(x.message, x.token) => Justified(x.message, x.op)
  BY <1>1 DEF Inductive, LateSound, Typed, Requests, Used
<1>5. LateSound'
  BY <1>1, <1>4, LateKept
<1> QED
  BY <1>2, <1>3, <1>5, Preserved

(* Insertion, time, retention, replay, and requests executed late. *)
LEMMA DatabaseStep ==
  ASSUME Inductive,
         \/ \E m \in Messages : Available(m) \/ LeaseEnds(m) \/ Pause(m)
         \/ \E S \in SUBSET Messages : Commit(S) \/ Operator(S) \/ Retention(S)
         \/ \E x \in late : ExecuteLate(x)
  PROVE  Inductive'
<1>1. Typed /\ Loops
  BY DEF Inductive, TypeOK, StoreTypeOK, Typed, Loops
<1>2. CASE \E m \in Messages : Available(m) \/ LeaseEnds(m) \/ Pause(m)
  <2>1. PICK m \in Messages : (Due(m) \/ Expire(m)) /\ UNCHANGED <<relayVars, job, late, reports>>
    BY <1>2 DEF Available, LeaseEnds, Pause
  <2>2. faults' \in 0..MaxFaults
    BY <1>1, <1>2, RelayAssumption DEF Available, LeaseEnds, Pause, Fault, CountFault, Loops
  <2>3. Table
    BY <1>1, <2>1, TimeTable
  <2> QED
    BY <1>1, <2>1, <2>2, <2>3, QuietStep DEF Loops, relayVars, Typed
<1>3. CASE \E S \in SUBSET Messages : Commit(S) \/ Operator(S) \/ Retention(S)
  <2>1. PICK S \in SUBSET Messages : Commit(S) \/ Operator(S) \/ Retention(S)
    BY <1>3
  <2>2. /\ UNCHANGED <<relayVars, job, late>>
        /\ \/ (Insert(S) \/ Prune(S)) /\ UNCHANGED reports
           \/ Replay(S) /\ reports' = [m \in Messages |-> IF m \in S THEN {} ELSE reports[m]]
    BY <2>1 DEF Commit, Operator, Retention
  <2>3. Table
    BY <1>1, <2>2, BatchTable
  <2>4. reports' \in [Messages -> SUBSET {"ok", "permanent", "failed"}]
    BY <1>1, <2>2 DEF Typed
  <2>5. faults' \in 0..MaxFaults
    BY <1>1, <2>1, RelayAssumption DEF Commit, Operator, Retention, CountFault, Loops
  <2> QED
    BY <1>1, <2>2, <2>3, <2>4, <2>5, QuietStep DEF Loops, relayVars
<1>4. CASE \E x \in late : ExecuteLate(x)
  <2>1. PICK x \in late : ExecuteLate(x)
    BY <1>4
  <2>2. /\ Transition(x.message, x.token, x.op) /\ late' = late \ {x}
        /\ UNCHANGED <<relayVars, job, reports, faults>>
    BY <2>1 DEF ExecuteLate
  <2>3. x.message \in Messages /\ x.op \in Ops
    BY <1>1 DEF Typed, Requests
  <2>4. Table
    BY <1>1, <2>2, <2>3, TransitionTable DEF Inductive, LateSound
  <2> QED
    BY <1>1, <2>2, <2>4, QuietStep DEF Loops, relayVars, Typed
<1> QED
  BY <1>2, <1>3, <1>4

(* A job gives up on its request, or on a round of its heartbeat. *)
LEMMA AbandonStep ==
  ASSUME Inductive, Table, NEW r \in Relays, NEW m \in Messages, job[r][m].pc # "none",
         NEW op \in Ops, op = "extend" \/ op = job[r][m].pc,
         Abandon(m, job[r][m].token, op)
  PROVE  late' \subseteq Requests /\ LateSound'
<1> DEFINE j == job[r][m]
           x == [message |-> m, token |-> j.token, op |-> op]
<1>1. Typed /\ JobSound(r, m)
  BY DEF Inductive, TypeOK, StoreTypeOK, Typed
<1>2. j.token \in Tokens /\ j.token \in Used
  BY <1>1 DEF JobSound, Used
<1>3. x \in Requests /\ x.message = m /\ x.token = j.token /\ x.op = op
  BY <1>2 DEF Requests
<1>4. Current(m, j.token) => Justified(m, op)
  BY <1>1 DEF JobSound, Justified
<1>5. late' \subseteq late \cup {x}
  BY DEF Abandon
<1>6. \A y \in late : /\ y \in Requests /\ y.message \in Messages /\ y.token \in Used
                      /\ Current(y.message, y.token) => Justified(y.message, y.op)
  BY <1>1 DEF Inductive, LateSound, Typed, Requests, Used
<1>7. ASSUME NEW y \in late'
      PROVE  /\ y \in Requests /\ y.message \in Messages /\ y.token \in Used
             /\ Current(y.message, y.token) => Justified(y.message, y.op)
  <2>1. CASE y \in late
    BY <1>6, <2>1
  <2>2. CASE y = x
    BY <1>2, <1>3, <1>4, <2>2
  <2> QED
    BY <1>5, <2>1, <2>2
<1>8. LateSound'
  BY <1>1, <1>7, LateKept
<1> QED
  BY <1>7, <1>8

(* A step of one job, which keeps its token or ends. *)
LEMMA JobStep ==
  ASSUME Inductive, Table, Loops', NEW r \in Relays, NEW m \in Messages, NEW j \in Jobs,
         SetJob(r, m, j),
         j.pc # "none" => job[r][m].pc # "none" /\ j.token = job[r][m].token,
         JobSound(r, m)',
         late' \subseteq Requests, LateSound',
         reports' \in [Messages -> SUBSET {"ok", "permanent", "failed"}]
  PROVE  Inductive'
<1>1. Typed
  BY DEF Inductive, TypeOK, StoreTypeOK, Typed
<1>2. job' = [job EXCEPT ![r] = [job[r] EXCEPT ![m] = j]]
  BY DEF SetJob
<1>3. job' \in [Relays -> [Messages -> Jobs]] /\ job'[r][m] = j
  BY <1>1, <1>2 DEF Typed
<1>4. \A q \in Relays, n \in Messages : q # r \/ n # m => job'[q][n] = job[q][n]
  BY <1>1, <1>2 DEF Typed
<1>5. Typed'
  BY <1>3 DEF Typed, Table
<1>6. ASSUME NEW q \in Relays, NEW n \in Messages PROVE JobSound(q, n)'
  <2>1. CASE q = r /\ n = m
    BY <2>1
  <2>2. CASE q # r \/ n # m
    <3>1. JobSound(q, n) /\ RowStep(n) /\ job'[q][n] = job[q][n]
      BY <1>4, <2>2 DEF Inductive, Table
    <3> QED
      BY <1>1, <3>1, JobKept
  <2> QED
    BY <2>1, <2>2
<1>7. ASSUME NEW q \in Relays, NEW n \in Messages, job'[q][n].pc # "none"
      PROVE  job[q][n].pc # "none" /\ job'[q][n].token = job[q][n].token
  BY <1>3, <1>4, <1>7
<1> QED
  BY <1>5, <1>6, <1>7, Preserved

(* What a job made of well-typed parts consists of. *)
LEMMA JobFields ==
  ASSUME NEW p \in {"none", "queued", "publishing", "published"} \cup Ops,
         NEW t \in Tokens \cup {NoToken}, NEW n \in 0..AttemptCap,
         NEW b \in {"off", "on", "failed"}, NEW x \in Outcomes \cup {"none"}
  PROVE  /\ Job(p, t, n, b, x) \in Jobs
         /\ Job(p, t, n, b, x).pc = p /\ Job(p, t, n, b, x).token = t
         /\ Job(p, t, n, b, x).attempts = n /\ Job(p, t, n, b, x).beat = b
         /\ Job(p, t, n, b, x).out = x
BY DEF Job, Jobs

(* A job that ends. *)
LEMMA NoJobFacts ==
  /\ NoJob \in Jobs /\ NoJob.pc = "none"
  /\ \A r \in Relays, m \in Messages : job'[r][m] = NoJob => JobSound(r, m)'
<1>1. NoJob \in Jobs /\ NoJob.pc = "none"
  BY StoreAssumption DEF NoJob, Job, Jobs, Outcomes
<1>2. ASSUME NEW r \in Relays, NEW m \in Messages, job'[r][m] = NoJob PROVE JobSound(r, m)'
  BY <1>1, <1>2 DEF JobSound, Justified
<1> QED
  BY <1>1, <1>2

(* What job' holds after SetJob. *)
LEMMA SetJobFact ==
  ASSUME Typed, NEW r \in Relays, NEW m \in Messages, NEW j, SetJob(r, m, j)
  PROVE  job'[r][m] = j
BY DEF Typed, SetJob

(* A job that ends, whatever becomes of its request. *)
LEMMA EndStep ==
  ASSUME Inductive, Table, Loops', NEW r \in Relays, NEW m \in Messages,
         SetJob(r, m, NoJob), UNCHANGED reports, late' \subseteq Requests, LateSound'
  PROVE  Inductive'
<1>1. Typed
  BY DEF Inductive, TypeOK, StoreTypeOK, Typed
<1>2. job'[r][m] = NoJob
  BY <1>1, SetJobFact
<1>3. JobSound(r, m)' /\ NoJob \in Jobs /\ NoJob.pc = "none"
  BY <1>2, NoJobFacts
<1> QED
  BY <1>1, <1>3, JobStep DEF Typed

LEMMA LateSame ==
  ASSUME Inductive, Table, UNCHANGED late
  PROVE  late' \subseteq Requests /\ LateSound'
<1>1. Typed
  BY DEF Inductive, TypeOK, StoreTypeOK, Typed
<1>2. \A x \in late' : /\ x.message \in Messages /\ x.token \in Used
                       /\ Current(x.message, x.token) => Justified(x.message, x.op)
  BY <1>1 DEF Inductive, LateSound, Typed, Requests, Used
<1> QED
  BY <1>1, <1>2, LateKept DEF Typed

LEMMA FaultType ==
  ASSUME Loops, NEW f, Fault(f) \/ UNCHANGED faults
  PROVE  faults' \in 0..MaxFaults
BY RelayAssumption DEF Loops, Fault, CountFault

(* Run between two batches, and claims that fail. *)
LEMMA LoopStep ==
  ASSUME Inductive, NEW r \in Relays,
         \/ ClaimBegin(r) \/ ClaimFails(r) \/ RunOnceEnds(r) \/ Quit(r)
         \/ Restart(r) \/ Cancel(r)
  PROVE  Inductive'
<1>1. Typed /\ Loops
  BY DEF Inductive, TypeOK, StoreTypeOK, Typed, Loops
<1>2. UNCHANGED <<job, late, reports>>
  BY DEF ClaimBegin, ClaimFails, RunOnceEnds, Quit, Restart, Cancel
<1>3. Table
  <2>1. CASE UNCHANGED record
    BY <1>1, <1>2, <2>1, SameTable
  <2>2. CASE \E S \in SUBSET snap[r] : Take(S, {m \in snap[r] : Claimable(m)})
    <3>1. PICK S : NewToken \in Tokens \ Used /\ Lease(S, NewToken)
      BY <2>2 DEF Take
    <3> QED
      BY <1>1, <1>2, <3>1, LeaseTable
  <2> QED
    BY <2>1, <2>2 DEF ClaimBegin, ClaimFails, RunOnceEnds, Quit, Restart, Cancel
<1>4. Loops'
  <2>1. CASE ClaimBegin(r)
    <3>1. Candidates \subseteq Messages
      BY DEF Candidates
    <3> QED
      BY <1>1, <2>1, <3>1 DEF ClaimBegin, Goto, Loops
  <2>2. CASE ClaimFails(r)
    <3>1. faults' \in 0..MaxFaults
      BY <1>1, <2>2, FaultType DEF ClaimFails
    <3> QED
      BY <1>1, <2>2, <3>1 DEF ClaimFails, Goto, Loops
  <2>3. CASE RunOnceEnds(r) \/ Quit(r)
    BY <1>1, <2>3 DEF RunOnceEnds, Quit, Goto, Loops
  <2>4. CASE Restart(r)
    BY <1>1, <2>4 DEF Restart, Goto, Loops
  <2>5. CASE Cancel(r)
    <3>1. faults' \in 0..MaxFaults
      BY <1>1, <2>5, FaultType DEF Cancel
    <3> QED
      BY <1>1, <2>5, <3>1 DEF Cancel, Loops
  <2> QED
    BY <2>1, <2>2, <2>3, <2>4, <2>5
<1> QED
  BY <1>1, <1>2, <1>3, <1>4, QuietStep DEF Typed

(* A step that replaces all jobs of relay r, by none or by new claims. *)
LEMMA BatchStep ==
  ASSUME Inductive, Table, Loops', NEW r \in Relays, NEW js \in [Messages -> Jobs],
         job' = [job EXCEPT ![r] = js],
         \A m \in Messages : js[m].pc = "none" \/ js[m].token \notin Used,
         \A m \in Messages : JobSound(r, m)',
         late' \subseteq Requests, LateSound', UNCHANGED reports
  PROVE  Inductive'
<1>1. Typed
  BY DEF Inductive, TypeOK, StoreTypeOK, Typed
<1>2. /\ job' \in [Relays -> [Messages -> Jobs]] /\ job'[r] = js
      /\ \A q \in Relays \ {r} : job'[q] = job[q]
  BY <1>1 DEF Typed
<1>3. Typed'
  BY <1>1, <1>2 DEF Typed, Table
<1>4. ASSUME NEW q \in Relays, NEW m \in Messages PROVE JobSound(q, m)'
  <2>1. CASE q = r
    BY <2>1
  <2>2. CASE q # r
    <3>1. JobSound(q, m) /\ RowStep(m) /\ job'[q][m] = job[q][m]
      BY <1>2, <2>2 DEF Inductive, Table
    <3> QED
      BY <1>1, <3>1, JobKept
  <2> QED
    BY <2>1, <2>2
<1>5. ASSUME NEW q \in Relays, NEW m \in Messages, job'[q][m].pc # "none"
      PROVE  \/ job[q][m].pc # "none" /\ job'[q][m].token = job[q][m].token
             \/ q = r /\ job'[q][m].token \notin Used
  BY <1>2, <1>5
<1> QED
  BY <1>3, <1>4, <1>5, Preserved

LEMMA ClaimEndStep ==
  ASSUME Inductive, NEW r \in Relays, ClaimEnd(r)
  PROVE  Inductive'
<1>1. Typed /\ Loops
  BY DEF Inductive, TypeOK, StoreTypeOK, Typed, Loops
<1>2. /\ snap' = [snap EXCEPT ![r] = {}]
      /\ UNCHANGED <<cancelled, failed, late, reports, faults>>
      /\ Goto(r, "idle") \/ Goto(r, "running")
  BY Zenon DEF ClaimEnd
<1>3. Loops'
  BY <1>1, <1>2 DEF Loops, Goto
<1>4. CASE UNCHANGED <<record, job>>
  <2>1. Table
    BY <1>1, <1>2, <1>4, SameTable
  <2> QED
    BY <1>1, <1>2, <1>3, <1>4, <2>1, QuietStep DEF Typed
<1>5. CASE \E S \in SUBSET {m \in snap[r] : Claimable(m)} :
             /\ Take(S, {m \in snap[r] : Claimable(m)})
             /\ job' = [job EXCEPT ![r] = [m \in Messages |->
                  IF m \in S THEN Job("queued", NewToken, record'[m].attempts, "off", "none")
                  ELSE NoJob]]
  <2>1. PICK S :
          /\ NewToken \in Tokens \ Used /\ Lease(S, NewToken)
          /\ job' = [job EXCEPT ![r] = [m \in Messages |->
               IF m \in S THEN Job("queued", NewToken, record'[m].attempts, "off", "none")
               ELSE NoJob]]
    BY <1>5 DEF Take
  <2> DEFINE js == [m \in Messages |->
               IF m \in S THEN Job("queued", NewToken, record'[m].attempts, "off", "none")
               ELSE NoJob]
  <2>2. Table
    BY <1>1, <1>2, <2>1, LeaseTable
  <2>3. late' \subseteq Requests /\ LateSound'
    BY <1>2, <2>2, LateSame
  <2>4. ASSUME NEW m \in Messages
        PROVE  /\ js[m] \in Jobs
               /\ js[m].pc = "none" \/ js[m].token \notin Used
               /\ job'[r][m] = js[m] => JobSound(r, m)'
    <3>1. CASE m \notin S
      BY <3>1, NoJobFacts
    <3>2. CASE m \in S
      <4>1. record'[m].attempts \in 0..AttemptCap
        BY <2>2 DEF Table, Rows
      <4>2. js[m] = Job("queued", NewToken, record'[m].attempts, "off", "none")
        BY <3>2
      <4> HIDE DEF js
      <4>3. /\ js[m] \in Jobs /\ js[m].pc = "queued" /\ js[m].token \in Tokens \ Used
            /\ js[m].attempts = record'[m].attempts
        <5>1. NewToken \in Tokens \ Used
          BY <2>1
        <5> QED
          BY ONLY <4>1, <4>2, <5>1, JobFields
      <4>4. ASSUME job'[r][m] = js[m] PROVE JobSound(r, m)'
        <5>1. /\ job'[r][m].pc = "queued" /\ job'[r][m].token \in Tokens
              /\ job'[r][m].attempts = record'[m].attempts
          BY ONLY <4>3, <4>4
        <5> QED
          BY <5>1 DEF JobSound, Justified
      <4> QED
        BY <4>3, <4>4
    <3> QED
      BY <3>1, <3>2
  <2>5. js \in [Messages -> Jobs] /\ job' = [job EXCEPT ![r] = js]
    BY <2>1, <2>4
  <2>6. ASSUME NEW m \in Messages PROVE JobSound(r, m)'
    <3>1. job'[r][m] = js[m]
      BY <1>1, <2>5 DEF Typed
    <3> QED
      BY <2>4, <3>1
  <2> HIDE DEF js
  <2> QED
    BY <1>2, <1>3, <2>2, <2>3, <2>4, <2>5, <2>6, BatchStep, Zenon
<1> QED
  BY <1>4, <1>5 DEF ClaimEnd

LEMMA CrashStep ==
  ASSUME Inductive, NEW r \in Relays, Crash(r)
  PROVE  Inductive'
<1>1. Typed /\ Loops
  BY DEF Inductive, TypeOK, StoreTypeOK, Typed, Loops
<1>2. /\ UNCHANGED <<record, cancelled, failed, reports>>
      /\ job' = [job EXCEPT ![r] = [m \in Messages |-> NoJob]]
      /\ snap' = [snap EXCEPT ![r] = {}] /\ Goto(r, "stopped")
  BY DEF Crash
<1>3. faults' \in 0..MaxFaults
  BY <1>1, FaultType DEF Crash
<1>4. Loops'
  BY <1>1, <1>2, <1>3 DEF Loops, Goto
<1>5. Table
  BY <1>1, <1>2, SameTable
<1>6. late' \subseteq Requests /\ LateSound'
  <2>1. CASE UNCHANGED late
    BY <1>5, <2>1, LateSame
  <2>2. CASE \E m \in Messages : job[r][m].pc \in Ops /\ Abandon(m, job[r][m].token, job[r][m].pc)
    <3>1. PICK m \in Messages : job[r][m].pc \in Ops /\ Abandon(m, job[r][m].token, job[r][m].pc)
      BY <2>2
    <3>2. job[r][m].pc # "none"
      BY <3>1 DEF Ops
    <3> QED
      BY <1>5, <3>1, <3>2, AbandonStep
  <2> QED
    BY <2>1, <2>2 DEF Crash
<1>7. /\ [m \in Messages |-> NoJob] \in [Messages -> Jobs]
      /\ \A m \in Messages : [n \in Messages |-> NoJob][m].pc = "none"
  BY NoJobFacts
<1>8. ASSUME NEW m \in Messages PROVE JobSound(r, m)'
  <2>1. job'[r][m] = NoJob
    BY <1>1, <1>2 DEF Typed
  <2> QED
    BY <2>1, NoJobFacts
<1> QED
  BY <1>2, <1>4, <1>5, <1>6, <1>7, <1>8, BatchStep, Zenon

(* A worker starts on a claim. *)
LEMMA PublishStep ==
  ASSUME Inductive, NEW r \in Relays, NEW m \in Messages, Publish(r, m)
  PROVE  Inductive'
<1> DEFINE j == job[r][m]
           k == Job("publishing", j.token, j.attempts, "on", "none")
<1>1. Typed /\ Loops /\ JobSound(r, m)
  BY DEF Inductive, TypeOK, StoreTypeOK, Typed, Loops
<1>2. j.pc = "queued" /\ SetJob(r, m, k) /\ UNCHANGED <<record, relayVars, late, reports, faults>>
  BY DEF Publish
<1>3. j \in Jobs /\ j.token \in Tokens \cup {NoToken} /\ j.attempts \in 0..AttemptCap
  BY <1>1 DEF Typed, Jobs
<1>4. k \in Jobs /\ k.pc = "publishing" /\ k.token = j.token /\ k.attempts = j.attempts
  <2> HIDE DEF j
  <2> QED
    BY ONLY <1>3, JobFields
<1>5. job'[r][m] = k
  BY <1>1, <1>2, SetJobFact
<1> HIDE DEF k
<1>6. JobSound(r, m)'
  BY <1>1, <1>2, <1>4, <1>5 DEF JobSound, Current, Justified
<1>7. Table /\ Loops'
  BY <1>1, <1>2, SameTable DEF Loops, relayVars
<1>8. late' \subseteq Requests /\ LateSound'
  BY <1>2, <1>7, LateSame
<1> QED
  BY <1>1, <1>2, <1>4, <1>6, <1>7, <1>8, JobStep DEF Typed

(* The publisher returns, and what it said is on record. *)
LEMMA PublishReturnsStep ==
  ASSUME Inductive, NEW r \in Relays, NEW m \in Messages, PublishReturns(r, m)
  PROVE  Inductive'
<1>1. Typed /\ Loops /\ JobSound(r, m)
  BY DEF Inductive, TypeOK, StoreTypeOK, Typed, Loops
<1> DEFINE j == job[r][m]
<1>2. PICK out \in Outcomes :
        /\ SetJob(r, m, Job("published", j.token, j.attempts, j.beat, out))
        /\ reports' = [reports EXCEPT ![m] =
                          @ \cup {IF out \in {"ok", "permanent"} THEN out ELSE "failed"}]
  BY Zenon DEF PublishReturns
<1> DEFINE k == Job("published", j.token, j.attempts, j.beat, out)
<1>3. j.pc = "publishing" /\ UNCHANGED <<record, relayVars, late, faults>>
  BY DEF PublishReturns
<1>4. /\ j \in Jobs /\ j.token \in Tokens \cup {NoToken} /\ j.attempts \in 0..AttemptCap
      /\ j.beat \in {"off", "on", "failed"}
  BY <1>1 DEF Typed, Jobs
<1>5. /\ k \in Jobs /\ k.pc = "published" /\ k.token = j.token /\ k.attempts = j.attempts
      /\ k.out = out
  <2> HIDE DEF j
  <2> QED
    BY ONLY <1>4, JobFields
<1>6. job'[r][m] = k
  BY <1>1, <1>2, SetJobFact
<1>7. /\ reports' \in [Messages -> SUBSET {"ok", "permanent", "failed"}]
      /\ \A n \in Messages : reports[n] \subseteq reports'[n]
      /\ reports'[m] # {} /\ (out \in {"ok", "permanent"} => out \in reports'[m])
  BY <1>1, <1>2 DEF Typed
<1> HIDE DEF k
<1>8. JobSound(r, m)'
  BY <1>1, <1>3, <1>5, <1>6, <1>7 DEF JobSound, Current, Justified
<1>9. Table /\ Loops'
  BY <1>1, <1>3, <1>7, SameTable DEF Loops, relayVars
<1>10. late' \subseteq Requests /\ LateSound'
  BY <1>3, <1>9, LateSame
<1>11. SetJob(r, m, k)
  BY <1>2 DEF k
<1> QED
  BY <1>3, <1>5, <1>7, <1>8, <1>9, <1>10, <1>11, JobStep

(* process() decides: what it asks for has been reported. *)
LEMMA DecideStep ==
  ASSUME Inductive, NEW r \in Relays, NEW m \in Messages, Decide(r, m)
  PROVE  Inductive'
<1> DEFINE j == job[r][m]
           v == Verdict(r, m)
           k == Job(v, j.token, 0, "off", "none")
<1>1. Typed /\ Loops /\ JobSound(r, m)
  BY DEF Inductive, TypeOK, StoreTypeOK, Typed, Loops
<1>2. j.pc = "published" /\ UNCHANGED <<record, relay, snap, cancelled, late, reports, faults>>
  BY DEF Decide
<1>3. Table
  BY <1>1, <1>2, SameTable
<1>4. Loops'
  BY <1>1, <1>2, Zenon DEF Decide, Loops
<1>5. late' \subseteq Requests /\ LateSound'
  BY <1>2, <1>3, LateSame
<1>6. CASE SetJob(r, m, NoJob)
  BY <1>2, <1>3, <1>4, <1>5, <1>6, EndStep
<1>7. CASE SetJob(r, m, k)
  <2>1. v \in {"deliver", "release", "dead", "retry"} /\ v \in Ops
    BY DEF Verdict, Ops
  <2>2. j.token \in Tokens \cup {NoToken} /\ j.token \in Tokens
    BY <1>1, <1>2 DEF JobSound
  <2>3. k \in Jobs /\ k.pc = v /\ k.token = j.token
    <3> HIDE DEF j, v
    <3>1. 0 \in 0..AttemptCap
      BY StoreAssumption
    <3> QED
      BY ONLY <2>1, <2>2, <3>1, JobFields
  <2>4. job'[r][m] = k
    BY <1>1, <1>7, SetJobFact
  <2>5. ASSUME Current(m, j.token) PROVE Justified(m, v)
    <3>1. /\ j.attempts = record[m].attempts
          /\ reports[m] # {} /\ (j.out \in {"ok", "permanent"} => j.out \in reports[m])
      BY <1>1, <1>2, <2>5 DEF JobSound
    <3>2. (v = "deliver" => j.out = "ok")
          /\ (v = "dead" => j.attempts >= MaxAttempts \/ j.out = "permanent")
      BY DEF Verdict
    <3> HIDE DEF v
    <3> QED
      BY <3>1, <3>2 DEF Justified, Exhausted
  <2> HIDE DEF k, v
  <2>6. JobSound(r, m)'
    <3>1. job'[r][m].pc = v /\ job'[r][m].token = j.token
      BY <2>3, <2>4
    <3>2. record'[m] = record[m] /\ reports'[m] = reports[m]
      BY <1>2
    <3> QED
      BY <2>1, <2>2, <2>5, <3>1, <3>2 DEF JobSound, Current, Justified, Exhausted
  <2>7. j.pc # "none" /\ reports' \in [Messages -> SUBSET {"ok", "permanent", "failed"}]
    BY <1>1, <1>2 DEF Typed
  <2> QED
    BY <1>3, <1>4, <1>5, <1>7, <2>3, <2>6, <2>7, JobStep
<1> QED
  BY <1>6, <1>7 DEF Decide

(* The request is executed, or given up by its relay. *)
LEMMA SettleStep ==
  ASSUME Inductive, NEW r \in Relays, NEW m \in Messages, Settle(r, m) \/ SettleFails(r, m)
  PROVE  Inductive'
<1> DEFINE j == job[r][m]
<1>1. Typed /\ Loops /\ JobSound(r, m)
  BY DEF Inductive, TypeOK, StoreTypeOK, Typed, Loops
<1>2. /\ j.pc \in Ops /\ SetJob(r, m, NoJob) /\ UNCHANGED <<relay, snap, cancelled, reports>>
      /\ j.pc # "none"
  BY Zenon DEF Settle, SettleFails, Ops
<1>3. faults' \in 0..MaxFaults
  <2>1. \E f : Fault(f) \/ UNCHANGED faults
    BY Zenon DEF Settle, SettleFails
  <2> QED
    BY <1>1, <2>1, FaultType
<1>4. failed' \in [Relays -> BOOLEAN]
  BY <1>1, Zenon DEF Settle, SettleFails, Loops
<1>5. Loops'
  BY <1>1, <1>2, <1>3, <1>4 DEF Loops
<1>6. CASE Settle(r, m)
  <2>1. Transition(m, j.token, j.pc) /\ UNCHANGED late
    BY <1>6, Zenon DEF Settle
  <2>2. Table
    BY <1>1, <1>2, <2>1, TransitionTable DEF JobSound
  <2>3. late' \subseteq Requests /\ LateSound'
    BY <2>1, <2>2, LateSame
  <2> QED
    BY <1>2, <1>5, <2>2, <2>3, EndStep
<1>7. CASE SettleFails(r, m)
  <2>1. Abandon(m, j.token, j.pc) /\ UNCHANGED record
    BY <1>7 DEF SettleFails
  <2>2. Table
    BY <1>1, <1>2, <2>1, SameTable
  <2>3. late' \subseteq Requests /\ LateSound'
    BY <1>2, <2>1, <2>2, AbandonStep
  <2> QED
    BY <1>2, <1>5, <2>2, <2>3, EndStep
<1> QED
  BY <1>6, <1>7

(* A round of the heartbeat. *)
LEMMA HeartbeatStep ==
  ASSUME Inductive, NEW r \in Relays, NEW m \in Messages, Heartbeat(r, m)
  PROVE  Inductive'
<1> DEFINE j == job[r][m]
<1>1. Typed /\ Loops /\ JobSound(r, m)
  BY DEF Inductive, TypeOK, StoreTypeOK, Typed, Loops
<1>2. j.pc \in {"publishing", "published"} /\ UNCHANGED <<relayVars, reports>>
  BY DEF Heartbeat
<1>3. faults' \in 0..MaxFaults
  <2>1. \E f : Fault(f) \/ UNCHANGED faults
    BY DEF Heartbeat
  <2> QED
    BY <1>1, <2>1, FaultType
<1>4. Loops'
  BY <1>1, <1>2, <1>3 DEF Loops, relayVars
<1>5. "extend" \in Ops /\ Justified(m, "extend") /\ j.pc # "none"
  BY <1>2 DEF Ops, Justified
<1>6. Table /\ late' \subseteq Requests /\ LateSound'
  <2>1. CASE Transition(m, j.token, "extend") /\ UNCHANGED late
    <3>1. Table
      BY <1>1, <1>2, <1>5, <2>1, TransitionTable
    <3> QED
      BY <2>1, <3>1, LateSame
  <2>2. CASE Abandon(m, j.token, "extend") /\ UNCHANGED record
    <3>1. Table
      BY <1>1, <1>2, <2>2, SameTable
    <3> QED
      BY <1>5, <2>2, <3>1, AbandonStep
  <2> QED
    BY <2>1, <2>2 DEF Heartbeat
<1>7. CASE UNCHANGED job
  <2>1. ASSUME NEW q \in Relays, NEW n \in Messages PROVE JobSound(q, n)'
    <3>1. JobSound(q, n) /\ RowStep(n) /\ job'[q][n] = job[q][n]
      BY <1>6, <1>7 DEF Inductive, Table
    <3> QED
      BY <1>1, <3>1, JobKept
  <2>2. Typed'
    BY <1>1, <1>2, <1>6, <1>7 DEF Typed, Table
  <2> QED
    BY <1>4, <1>6, <1>7, <2>1, <2>2, Preserved
<1>8. CASE \E b \in {"failed", "off"} : SetJob(r, m, [j EXCEPT !.beat = b])
  <2>1. PICK b \in {"failed", "off"} : SetJob(r, m, [j EXCEPT !.beat = b])
    BY <1>8
  <2> DEFINE k == [j EXCEPT !.beat = b]
  <2>2. /\ k \in Jobs /\ k.pc = j.pc /\ k.token = j.token /\ k.attempts = j.attempts
        /\ k.out = j.out
    <3>1. j \in Jobs
      BY <1>1 DEF Typed
    <3> HIDE DEF j
    <3> QED
      BY <3>1 DEF Jobs
  <2>3. SetJob(r, m, k)
    BY <2>1
  <2>4. job'[r][m] = k
    BY <1>1, <2>3, SetJobFact
  <2> HIDE DEF k
  <2>5. j.token \in Used /\ RowStep(m) /\ j.token \in Tokens
    <3>1. j.token \in Used
      BY <1>5 DEF Used
    <3>2. RowStep(m)
      BY <1>6 DEF Table
    <3>3. j.token \in Tokens
      BY <1>1, <1>5 DEF JobSound
    <3> QED
      BY <3>1, <3>2, <3>3
  <2>6. ASSUME record'[m].state = "leased", record'[m].token = j.token
        PROVE  /\ Current(m, j.token) /\ record'[m].attempts = record[m].attempts
               /\ reports[m] \subseteq reports'[m]
    <3>1. \A t : record'[m].state = "leased" /\ record'[m].token = t => Current(m, t)'
      BY DEF Current
    <3> QED
      BY <2>5, <2>6, <3>1, StillCurrent
  <2>7. JobSound(r, m)'
    BY <1>1, <1>2, <2>2, <2>4, <2>5, <2>6, Zenon DEF JobSound, Current, Justified
  <2> QED
    BY <1>1, <1>2, <1>4, <1>5, <1>6, <2>2, <2>3, <2>7, JobStep DEF Typed
<1> QED
  BY <1>7, <1>8 DEF Heartbeat

LEMMA InitInductive == Init => Inductive
<1> SUFFICES ASSUME Init PROVE Inductive
  OBVIOUS
<1>1. NoJob \in Jobs /\ NoJob.pc = "none"
  BY NoJobFacts
<1>2. NoRow \in Rows /\ NoRow.state = "absent"
  BY StoreAssumption DEF NoRow, Rows, States
<1>3. TypeOK
  BY <1>1, <1>2, RelayAssumption DEF Init, StoreInit, TypeOK, StoreTypeOK
<1>4. /\ \A m \in Messages : record[m].state = "absent"
      /\ \A r \in Relays, m \in Messages : job[r][m].pc = "none"
      /\ late = {}
  BY <1>1, <1>2 DEF Init, StoreInit
<1> QED
  BY <1>3, <1>4 DEF Inductive, RowSound, JobSound, Current, LateSound, HoldersDiffer

LEMMA NextInductive == Inductive /\ [Next]_vars => Inductive'
<1> SUFFICES ASSUME Inductive, [Next]_vars PROVE Inductive'
  OBVIOUS
<1>1. CASE \E r \in Relays : Loop(r) \/ Cancel(r) \/ Crash(r)
  BY <1>1, LoopStep, ClaimEndStep, CrashStep DEF Loop
<1>2. CASE \E r \in Relays, m \in Messages : Process(r, m) \/ Heartbeat(r, m)
  BY <1>2, PublishStep, PublishReturnsStep, DecideStep, SettleStep, HeartbeatStep DEF Process
<1>3. CASE \/ \E m \in Messages : Available(m) \/ LeaseEnds(m) \/ Pause(m)
           \/ \E S \in SUBSET Messages : Commit(S) \/ Operator(S) \/ Retention(S)
           \/ \E x \in late : ExecuteLate(x)
  BY <1>3, DatabaseStep
<1>4. CASE UNCHANGED vars
  <2>1. Typed /\ Loops
    BY DEF Inductive, TypeOK, StoreTypeOK, Typed, Loops
  <2>2. Table /\ Loops' /\ UNCHANGED <<job, late, reports>>
    BY <1>4, <2>1, SameTable DEF vars, Loops
  <2> QED
    BY <2>1, <2>2, QuietStep DEF Typed
<1> QED
  BY <1>1, <1>2, <1>3, <1>4 DEF Next, Clock

(* The step behind ReplacedCannotMutate, statement by statement. *)
LEMMA SameRow ==
  ASSUME NEW m \in Messages, record'[m] = record[m]
  PROVE  FencedByToken(m)
BY DEF FencedByToken

LEMMA ClaimChanges ==
  ASSUME Inductive, NEW m \in Messages, NEW S, NEW R, Take(S, {n \in R : Claimable(n)})
  PROVE  FencedByToken(m)
<1>1. NewToken \notin Used /\ Lease(S, NewToken) /\ S \subseteq {n \in R : Claimable(n)}
  BY DEF Take
<1>2. CASE m \notin S
  BY <1>1, <1>2, SameRow, Zenon DEF Lease
<1>3. CASE m \in S
  <2>1. record'[m].state = "leased" /\ record'[m].token = NewToken
    BY <1>1, <1>3 DEF Lease
  <2>2. record[m].state = "pending" \/ (record[m].state = "leased" /\ record[m].expired)
    BY <1>1, <1>3 DEF Claimable
  <2> QED
    BY <1>1, <2>1, <2>2 DEF FencedByToken, Terminal
<1> QED
  BY <1>2, <1>3

LEMMA TransitionChanges ==
  ASSUME Inductive, NEW m \in Messages, NEW n \in Messages, NEW t, NEW op \in Ops,
         Transition(n, t, op),
         \/ Acts(n, t, op)
         \/ \E r \in Relays : job[r][n].beat = "on" /\ job[r][n].token = t
  PROVE  FencedByToken(m)
<1>1. record \in [Messages -> Rows]
  BY DEF Inductive, TypeOK, StoreTypeOK
<1>2. CASE ~Current(n, t) \/ m # n
  <2>1. record'[m] = record[m]
    BY <1>1, <1>2 DEF Transition
  <2> QED
    BY <2>1, SameRow
<1>3. CASE Current(n, t) /\ m = n
  <2>1. record[m].state = "leased" /\ record[m].token = t
    BY <1>3 DEF Current
  <2> QED
    BY <1>3, <2>1 DEF FencedByToken, Terminal
<1> QED
  BY <1>2, <1>3

LEMMA OtherChanges ==
  ASSUME Inductive, NEW m \in Messages,
         \/ \E n \in Messages : Due(n) \/ Expire(n)
         \/ \E S \in SUBSET Messages : Insert(S) \/ Replay(S) \/ Prune(S)
  PROVE  FencedByToken(m)
<1>1. record \in [Messages -> Rows] /\ record[m] \in Rows
  BY DEF Inductive, TypeOK, StoreTypeOK
<1>2. CASE \E n \in Messages : Due(n) \/ Expire(n)
  <2>1. PICK n \in Messages : Due(n) \/ Expire(n)
    BY <1>2
  <2>2. CASE m # n
    <3>1. record'[m] = record[m]
      BY <1>1, <2>1, <2>2 DEF Due, Expire
    <3> QED
      BY <3>1, SameRow
  <2>3. CASE m = n /\ Due(n)
    BY <2>3 DEF Due, FencedByToken, Terminal
  <2>4. CASE m = n /\ Expire(n)
    <3>1. record'[m] = [record[m] EXCEPT !.expired = TRUE] /\ record[m].state = "leased"
      BY <1>1, <2>4 DEF Expire
    <3> QED
      BY <3>1 DEF FencedByToken, Terminal
  <2> QED
    BY <2>1, <2>2, <2>3, <2>4
<1>3. CASE \E S \in SUBSET Messages : Insert(S) \/ Replay(S) \/ Prune(S)
  <2>1. PICK S \in SUBSET Messages : Insert(S) \/ Replay(S) \/ Prune(S)
    BY <1>3
  <2>2. CASE m \notin S
    <3>1. record'[m] = record[m]
      BY <2>1, <2>2, Zenon DEF Insert, Replay, Prune
    <3> QED
      BY <3>1, SameRow
  <2>3. CASE m \in S /\ Insert(S)
    BY <2>3 DEF Insert, FencedByToken, Terminal
  <2>4. CASE m \in S /\ Prune(S)
    <3>1. record[m].state \in Terminal /\ record'[m].state = "pruned"
      BY <2>4 DEF Prune, Unleased
    <3> QED
      BY <3>1 DEF FencedByToken, Terminal
  <2>5. CASE m \in S /\ Replay(S)
    <3>1. /\ record[m].state \in Terminal /\ "replay" \in Features
          /\ record'[m].state = "pending" /\ record'[m].attempts = 0
      BY <2>5 DEF Replay, Unleased
    <3> QED
      BY <3>1 DEF FencedByToken, Terminal
  <2> QED
    BY <2>1, <2>2, <2>3, <2>4, <2>5
<1> QED
  BY <1>2, <1>3

(* The steps that write to the table. *)
LEMMA Writers ==
  ASSUME Next
  PROVE  \/ UNCHANGED record
         \/ \E r \in Relays : ClaimEnd(r) \/ ClaimFails(r)
         \/ \E r \in Relays, n \in Messages : Settle(r, n) \/ Heartbeat(r, n)
         \/ \E x \in late : ExecuteLate(x)
         \/ \E n \in Messages : Available(n) \/ LeaseEnds(n) \/ Pause(n)
         \/ \E S \in SUBSET Messages : Commit(S) \/ Operator(S) \/ Retention(S)
<1>1. ASSUME NEW r \in Relays, ClaimBegin(r) \/ RunOnceEnds(r) \/ Quit(r) \/ Restart(r)
                               \/ Cancel(r) \/ Crash(r)
      PROVE  UNCHANGED record
  BY <1>1 DEF ClaimBegin, RunOnceEnds, Quit, Restart, Cancel, Crash
<1>2. ASSUME NEW r \in Relays, NEW n \in Messages,
             Publish(r, n) \/ PublishReturns(r, n) \/ Decide(r, n) \/ SettleFails(r, n)
      PROVE  UNCHANGED record
  BY <1>2 DEF Publish, PublishReturns, Decide, SettleFails
<1> QED
  BY <1>1, <1>2, Zenon DEF Next, Loop, Process, Clock

LEMMA HolderStep ==
  ASSUME Inductive, Next, NEW m \in Messages
  PROVE  FencedByToken(m)
<1>1. CASE UNCHANGED record
  BY <1>1, SameRow
<1>2. CASE \E r \in Relays : ClaimEnd(r) \/ ClaimFails(r)
  <2>1. PICK r \in Relays : ClaimEnd(r) \/ ClaimFails(r)
    BY <1>2
  <2>2. \/ UNCHANGED record
        \/ \E S : Take(S, {n \in snap[r] : Claimable(n)})
    BY <2>1, Zenon DEF ClaimEnd, ClaimFails
  <2> QED
    BY <1>1, <2>2, ClaimChanges, Zenon
<1>3. CASE \E r \in Relays, n \in Messages : Settle(r, n)
  <2>1. PICK r \in Relays, n \in Messages : Settle(r, n)
    BY <1>3
  <2>2. job[r][n].pc \in Ops /\ Transition(n, job[r][n].token, job[r][n].pc)
    BY <2>1 DEF Settle
  <2>3. Acts(n, job[r][n].token, job[r][n].pc)
    BY DEF Acts
  <2> QED
    BY <2>2, <2>3, TransitionChanges
<1>4. CASE \E r \in Relays, n \in Messages : Heartbeat(r, n)
  <2>1. PICK r \in Relays, n \in Messages : Heartbeat(r, n)
    BY <1>4
  <2>2. /\ job[r][n].beat = "on" /\ "extend" \in Ops
        /\ UNCHANGED record \/ Transition(n, job[r][n].token, "extend")
    BY <2>1 DEF Heartbeat, Ops
  <2> QED
    BY <1>1, <2>2, TransitionChanges
<1>5. CASE \E x \in late : ExecuteLate(x)
  <2>1. PICK x \in late : Transition(x.message, x.token, x.op)
    BY <1>5 DEF ExecuteLate
  <2>2. x \in Requests
    BY DEF Inductive, TypeOK
  <2>3. /\ x.message \in Messages /\ x.op \in Ops
        /\ x = [message |-> x.message, token |-> x.token, op |-> x.op]
    BY <2>2 DEF Requests
  <2>4. Acts(x.message, x.token, x.op)
    BY <2>3 DEF Acts
  <2> QED
    BY <2>1, <2>3, <2>4, TransitionChanges
<1>6. CASE \/ \E n \in Messages : Available(n) \/ LeaseEnds(n) \/ Pause(n)
           \/ \E S \in SUBSET Messages : Commit(S) \/ Operator(S) \/ Retention(S)
  <2>1. \/ \E n \in Messages : Due(n) \/ Expire(n)
        \/ \E S \in SUBSET Messages : Insert(S) \/ Replay(S) \/ Prune(S)
    BY <1>6 DEF Available, LeaseEnds, Pause, Commit, Operator, Retention
  <2> QED
    BY <2>1, OtherChanges
<1> QED
  BY <1>1, <1>2, <1>3, <1>4, <1>5, <1>6, Writers

-----------------------------------------------------------------------------
(* Order within a scope.  How one row may move: a settled one stays settled  *)
(* unless there are replays, a committed one is not forgotten and comes      *)
(* after the earlier ones unless there are late commits, and only a record   *)
(* of some Claim's snapshot becomes leased.                                  *)
Moves(m) ==
  /\ "replay" \in Features \/ (record[m].state \in Settled => record'[m].state \in Settled)
  /\ record[m].state # "absent" => record'[m].state # "absent"
  /\ \/ record'[m].state = "absent" \/ record[m].state # "absent" \/ "late_commit" \in Features
     \/ \A n \in Messages : n < m => record'[n].state # "absent"
  /\ \/ record'[m].state # "leased" \/ record[m].state = "leased"
     \/ \E r \in Relays : m \in snap[r]

(* A row that did not change its state. *)
LEMMA SameMoves ==
  ASSUME NEW m \in Messages, record'[m].state = record[m].state
  PROVE  Moves(m)
BY DEF Moves

(* Claim: leases are taken of claimable rows of a snapshot. *)
LEMMA ClaimMoves ==
  ASSUME NEW m \in Messages, NEW r \in Relays, NEW S,
         Take(S, {n \in snap[r] : Claimable(n)})
  PROVE  Moves(m)
<1>1. Lease(S, NewToken) /\ S \subseteq {n \in snap[r] : Claimable(n)}
  BY DEF Take
<1>2. CASE m \notin S
  <2>1. record'[m] = record[m]
    BY <1>1, <1>2, Zenon DEF Lease
  <2> QED
    BY <2>1, SameMoves
<1>3. CASE m \in S
  <2>1. record'[m].state = "leased" /\ m \in snap[r]
    BY <1>1, <1>3 DEF Lease
  <2>2. record[m].state \in {"pending", "leased"}
    BY <1>1, <1>3 DEF Claimable
  <2> QED
    BY <2>1, <2>2 DEF Moves, Settled, Terminal
<1> QED
  BY <1>2, <1>3

(* execLeaseUpdate: only a leased row moves, and to any state but absent. *)
LEMMA TransitionMoves ==
  ASSUME Inductive, NEW m \in Messages, NEW n \in Messages, NEW t, NEW op \in Ops,
         Transition(n, t, op)
  PROVE  Moves(m)
<1>1. record \in [Messages -> Rows] /\ record[m] \in Rows
  BY DEF Inductive, TypeOK, StoreTypeOK
<1>2. CASE ~Current(n, t) \/ m # n
  <2>1. record'[m] = record[m]
    BY <1>1, <1>2 DEF Transition
  <2> QED
    BY <2>1, SameMoves
<1>3. CASE Current(n, t) /\ m = n
  <2>1. record[m].state = "leased" /\ record'[m] = Changed(record[m], op)
    BY <1>1, <1>3 DEF Current, Transition
  <2>2. record'[m].state \in {"delivered", "pending", "dead", "leased"}
    <3>1. CASE op = "extend"
      BY <1>1, <2>1, <3>1 DEF Changed, Rows
    <3>2. CASE op # "extend"
      BY <2>1, <3>2 DEF Changed, Unleased, Ops
    <3> QED
      BY <3>1, <3>2
  <2> QED
    BY <2>1, <2>2 DEF Moves, Settled, Terminal
<1> QED
  BY <1>2, <1>3

(* Time, InsertBatch and retention. *)
LEMMA OtherMoves ==
  ASSUME Inductive, NEW m \in Messages,
         \/ \E n \in Messages : Due(n) \/ Expire(n)
         \/ \E S \in SUBSET Messages : Insert(S) \/ Replay(S) \/ Prune(S)
  PROVE  Moves(m)
<1>1. record \in [Messages -> Rows] /\ record[m] \in Rows
  BY DEF Inductive, TypeOK, StoreTypeOK
<1>2. CASE \E n \in Messages : Due(n) \/ Expire(n)
  <2>1. PICK n \in Messages : Due(n) \/ Expire(n)
    BY <1>2
  <2>2. record'[m].state = record[m].state
    <3>1. CASE m # n
      BY <1>1, <2>1, <3>1 DEF Due, Expire
    <3>2. CASE m = n
      BY <1>1, <2>1, <3>2 DEF Due, Expire, Rows
    <3> QED
      BY <3>1, <3>2
  <2> QED
    BY <2>2, SameMoves
<1>3. CASE \E S \in SUBSET Messages : Insert(S) \/ Replay(S) \/ Prune(S)
  <2>1. PICK S \in SUBSET Messages : Insert(S) \/ Replay(S) \/ Prune(S)
    BY <1>3
  <2>2. CASE m \notin S
    <3>1. record'[m] = record[m]
      BY <2>1, <2>2, Zenon DEF Insert, Replay, Prune
    <3> QED
      BY <3>1, SameMoves
  <2>3. CASE m \in S /\ Prune(S)
    <3>1. record[m].state \in Terminal /\ record'[m].state = "pruned"
      BY <2>3 DEF Prune, Unleased
    <3> QED
      BY <3>1 DEF Moves, Settled, Terminal
  <2>4. CASE m \in S /\ Insert(S)
    <3>1. PICK due \in BOOLEAN : record' = [n \in Messages |->
             IF n \in S THEN Unleased(record[n], "pending", due) ELSE record[n]]
      BY <2>4 DEF Insert
    <3>2. record[m].state = "absent" /\ record'[m].state = "pending"
      BY <2>4, <3>1 DEF Insert, Unleased
    <3>3. ASSUME NEW n \in Messages, n < m, "late_commit" \notin Features
          PROVE  record'[n].state # "absent"
      <4>1. CASE n \in S
        BY <3>1, <4>1 DEF Unleased
      <4>2. CASE n \notin S
        BY <2>4, <3>1, <3>3, <4>2 DEF Insert
      <4> QED
        BY <4>1, <4>2
    <3> QED
      BY <3>2, <3>3 DEF Moves, Settled, Terminal
  <2>5. CASE m \in S /\ Replay(S)
    <3>1. "replay" \in Features /\ record[m].state # "absent" /\ record'[m].state = "pending"
      BY <2>5 DEF Replay, Unleased, Terminal
    <3> QED
      BY <3>1 DEF Moves
  <2> QED
    BY <2>1, <2>2, <2>3, <2>4, <2>5
<1> QED
  BY <1>2, <1>3

(* Every step moves rows that way. *)
LEMMA RowMoves ==
  ASSUME Inductive, Next, NEW m \in Messages
  PROVE  Moves(m)
<1>1. CASE UNCHANGED record
  BY <1>1, SameMoves
<1>2. CASE \E r \in Relays : ClaimEnd(r) \/ ClaimFails(r)
  <2>1. PICK r \in Relays : \/ UNCHANGED record
                            \/ \E S : Take(S, {n \in snap[r] : Claimable(n)})
    BY <1>2, Zenon DEF ClaimEnd, ClaimFails
  <2> QED
    BY <1>1, <2>1, ClaimMoves, Zenon
<1>3. CASE \E r \in Relays, n \in Messages : Settle(r, n) \/ Heartbeat(r, n)
  <2>1. PICK r \in Relays, n \in Messages :
          \/ UNCHANGED record
          \/ job[r][n].pc \in Ops /\ Transition(n, job[r][n].token, job[r][n].pc)
          \/ Transition(n, job[r][n].token, "extend")
    BY <1>3, Zenon DEF Settle, Heartbeat
  <2>2. "extend" \in Ops
    BY DEF Ops
  <2> QED
    BY <1>1, <2>1, <2>2, TransitionMoves
<1>4. CASE \E x \in late : ExecuteLate(x)
  <2>1. PICK x \in late : Transition(x.message, x.token, x.op)
    BY <1>4 DEF ExecuteLate
  <2>2. x.message \in Messages /\ x.op \in Ops
    BY DEF Inductive, TypeOK, Requests
  <2> QED
    BY <2>1, <2>2, TransitionMoves
<1>5. CASE \/ \E n \in Messages : Available(n) \/ LeaseEnds(n) \/ Pause(n)
           \/ \E S \in SUBSET Messages : Commit(S) \/ Operator(S) \/ Retention(S)
  <2>1. \/ \E n \in Messages : Due(n) \/ Expire(n)
        \/ \E S \in SUBSET Messages : Insert(S) \/ Replay(S) \/ Prune(S)
    BY <1>5 DEF Available, LeaseEnds, Pause, Commit, Operator, Retention
  <2> QED
    BY <2>1, OtherMoves
<1> QED
  BY <1>1, <1>2, <1>3, <1>4, <1>5, Writers

(* A snapshot holds what it held, or is taken now and holds the candidates. *)
LEMMA SnapshotMoves ==
  ASSUME Inductive, Next, NEW q \in Relays
  PROVE  snap'[q] \subseteq snap[q] \/ (snap'[q] = Candidates /\ UNCHANGED record)
<1>1. snap \in [Relays -> SUBSET Messages]
  BY DEF Inductive, TypeOK
<1>2. CASE UNCHANGED snap
  BY <1>2
<1>3. CASE \E r \in Relays : snap' = [snap EXCEPT ![r] = {}]
  BY <1>1, <1>3
<1>4. CASE \E r \in Relays : ClaimBegin(r)
  <2>1. PICK r \in Relays : snap' = [snap EXCEPT ![r] = Candidates] /\ UNCHANGED record
    BY <1>4, Zenon DEF ClaimBegin
  <2> QED
    BY <1>1, <2>1
<1>5. ASSUME NEW r \in Relays, Loop(r) \/ Cancel(r) \/ Crash(r)
      PROVE  UNCHANGED snap \/ snap' = [snap EXCEPT ![r] = {}] \/ ClaimBegin(r)
  BY <1>5, Zenon DEF Loop, ClaimEnd, ClaimFails, RunOnceEnds, Quit, Restart, Cancel, Crash
<1>6. ASSUME NEW r \in Relays, NEW n \in Messages, Process(r, n) \/ Heartbeat(r, n)
      PROVE  UNCHANGED snap
  BY <1>6, Zenon DEF Process, Publish, PublishReturns, Decide, Settle, SettleFails, Heartbeat,
                     relayVars
<1>7. ASSUME \/ \E n \in Messages : Available(n) \/ LeaseEnds(n) \/ Pause(n)
             \/ \E S \in SUBSET Messages : Commit(S) \/ Operator(S) \/ Retention(S)
             \/ \E x \in late : ExecuteLate(x)
      PROVE  UNCHANGED snap
  BY <1>7 DEF Available, LeaseEnds, Pause, Commit, Operator, Retention, ExecuteLate, relayVars
<1> QED
  BY <1>2, <1>3, <1>4, <1>5, <1>6, <1>7, Zenon DEF Next, Clock

(* What serializationPredicate lets through has only settled records before  *)
(* it.                                                                       *)
LEMMA CandidatesInOrder ==
  ASSUME Inductive, InOrder, NEW m \in Candidates \ Unordered,
         NEW n \in Messages \ Unordered, n < m
  PROVE  record[n].state \in Settled
<1>1. m \in Messages /\ record[m].state # "absent"
  BY DEF Candidates, Claimable
<1>2. record[n].state # "absent"
  BY <1>1 DEF InOrder
<1>3. record[n].state \notin {"pending", "leased"}
  BY <1>1 DEF Candidates, Blocked
<1>4. record[n].state \in States
  BY DEF Inductive, TypeOK, StoreTypeOK, Rows
<1> QED
  BY <1>2, <1>3, <1>4 DEF States, Settled, Terminal

LEMMA InOrderKept ==
  ASSUME Inductive, InOrder, Next,
         "late_commit" \notin Features, "replay" \notin Features
  PROVE  InOrder'
<1>1. ASSUME NEW m \in Messages, NEW n \in Messages, n < m, record'[m].state # "absent"
      PROVE  record'[n].state # "absent"
  <2>1. Moves(m) /\ Moves(n)
    BY RowMoves
  <2> QED
    BY <1>1, <2>1 DEF Moves, InOrder
<1>2. ASSUME NEW m \in Messages \ Unordered, NEW n \in Messages \ Unordered, n < m,
             record'[m].state = "leased" \/ \E r \in Relays : m \in snap'[r]
      PROVE  record'[n].state \in Settled
  <2>1. Moves(m) /\ Moves(n)
    BY RowMoves
  <2>2. \/ record[m].state = "leased" \/ \E r \in Relays : m \in snap[r]
        \/ m \in Candidates /\ UNCHANGED record
    BY <1>2, <2>1, SnapshotMoves DEF Moves
  <2>3. record[n].state \in Settled
    <3>1. CASE m \in Candidates
      BY <1>2, <3>1, CandidatesInOrder
    <3>2. CASE record[m].state = "leased" \/ \E r \in Relays : m \in snap[r]
      BY <1>2, <3>2 DEF InOrder
    <3> QED
      BY <2>2, <3>1, <3>2
  <2> QED
    BY <2>1, <2>3 DEF Moves
<1> QED
  BY <1>1, <1>2 DEF InOrder

(* The step behind OrderKept: what is ahead now was ahead or is a candidate, *)
(* and no candidate has an open record before it.                            *)
LEMMA OvertakeStep ==
  ASSUME Inductive, Next, NEW m \in Messages \ Unordered, NEW n \in Messages \ Unordered,
         Overtaken(n, m)', ~Overtaken(n, m)
  PROVE  ~Open(n)
<1>1. n < m /\ (record'[m].state = "leased" \/ \E r \in Relays : m \in snap'[r])
  BY DEF Overtaken, Ahead
<1>2. Moves(m)
  BY RowMoves
<1>3. Ahead(m) \/ m \in Candidates
  BY <1>1, <1>2, SnapshotMoves DEF Moves, Ahead
<1>4. CASE Ahead(m)
  BY <1>1, <1>4 DEF Overtaken
<1>5. CASE m \in Candidates
  BY <1>1, <1>5 DEF Candidates, Blocked, Open
<1> QED
  BY <1>3, <1>4, <1>5

-----------------------------------------------------------------------------
(* The inductive invariant: under the current lease nobody asks for more     *)
(* than what was reported, and tokens tell relays apart.                    *)
THEOREM OutboxInvariant == Spec => []Inductive
<1> QED
  BY InitInductive, NextInductive, PTL DEF Spec

(* A delivered record was accepted by a publisher since it was inserted or   *)
(* replayed (MarkDelivered).                                                *)
THEOREM OutboxDelivered == Spec => []DeliveredWasAccepted
<1>1. Inductive => DeliveredWasAccepted
  BY DEF Inductive, RowSound, DeliveredWasAccepted
<1> QED
  BY <1>1, OutboxInvariant, PTL

(* A dead record failed permanently or used up its attempts (DeadLetter).    *)
THEOREM OutboxDead == Spec => []DeadWasExhausted
<1>1. Inductive => DeadWasExhausted
  BY DEF Inductive, RowSound, DeadWasExhausted
<1> QED
  BY <1>1, OutboxInvariant, PTL

(* At most one relay works under the current lease of a record               *)
(* (execLeaseUpdate with the token of the claim).                           *)
THEOREM OutboxHolder == Spec => []OneHolder
<1>1. Inductive => OneHolder
  BY DEF Inductive, HoldersDiffer, OneHolder, Current
<1> QED
  BY <1>1, OutboxInvariant, PTL

(* A replaced token changes nothing: only requests with the row's token, or  *)
(* a claim after the lease expired, change a leased row, and results stay    *)
(* (execLeaseUpdate, Claim, Replay, Prune).                                 *)
THEOREM OutboxReplaced == Spec => ReplacedCannotMutate
<1>1. Inductive /\ [Next]_vars => [\A m \in Messages : FencedByToken(m)]_vars
  BY HolderStep
<1> QED
  BY <1>1, OutboxInvariant, PTL DEF Spec, ReplacedCannotMutate

(* Order in a scope (serializationPredicate), whatever is committed late or  *)
(* replayed: no Claim passes an open record of the scope by, neither with    *)
(* its snapshot nor with the rows it locks later.                           *)
THEOREM OutboxOrder == Spec => OrderKept
<1>1. Inductive /\ [Next]_vars =>
        [\A m, n \in Messages \ Unordered :
           Overtaken(n, m)' /\ ~Overtaken(n, m) => ~Open(n)]_vars
  BY OvertakeStep
<1> QED
  BY <1>1, OutboxInvariant, PTL DEF Spec, OrderKept

(* Order in a scope (serializationPredicate): where records are committed in *)
(* the order of created_at and operators replay nothing, no record is leased *)
(* while an earlier one of its scope is pending or leased, although a Claim  *)
(* looks at the earlier ones in a snapshot that is stale when it locks.      *)
THEOREM OutboxSerialized ==
  ASSUME "late_commit" \notin Features, "replay" \notin Features
  PROVE  Spec => []Serialized
<1>1. Init => InOrder
  BY DEF Init, StoreInit, NoRow, InOrder
<1>2. Inductive /\ InOrder /\ [Next]_vars => InOrder'
  <2>1. ASSUME InOrder, UNCHANGED vars
        PROVE  InOrder'
    BY <2>1 DEF vars, InOrder
  <2> QED
    BY <2>1, InOrderKept
<1>3. InOrder => Serialized
  BY DEF InOrder, Serialized, Settled, Terminal
<1> QED
  BY <1>1, <1>2, <1>3, OutboxInvariant, PTL DEF Spec
=============================================================================
