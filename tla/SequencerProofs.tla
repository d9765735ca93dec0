-------------------------- MODULE SequencerProofs --------------------------
(***************************************************************************)
(* Proofs about Sequencer for any operations, compensations, fleets and     *)
(* budgets: the inductive invariant, and with it the four invariants of the *)
(* ledger.                                                                 *)
(***************************************************************************)
EXTENDS Sequencer, FiniteSetTheorems, TLAPS

(* The compensations of o in progress. *)
InProgress(o) == {p \in Ops : Forward[p] = o /\ IsActive(p, row[p])}

(* A compensation in progress keeps its forward operation's count above zero. *)
LEMMA Counted ==
  ASSUME LedgerTyped, CompensationFenced, NEW p \in Ops, IsActive(p, row[p])
  PROVE  Forward[p] \in Ops /\ row[Forward[p]].active > 0
<1>1. Forward[p] \in Ops /\ p \in InProgress(Forward[p])
  BY OpsAssumption DEF IsActive, InProgress
<1>2. row[Forward[p]].active = Cardinality(InProgress(Forward[p]))
  BY <1>1 DEF CompensationFenced, InProgress
<1>3. IsFiniteSet(InProgress(Forward[p]))
  BY OpsAssumption, FS_Subset DEF InProgress
<1>4. Cardinality(InProgress(Forward[p])) # 0
  BY <1>1, <1>3, FS_EmptySet
<1> QED
  BY <1>1, <1>2, <1>4 DEF LedgerTyped, Rows

(* What the triggers leave in the rows. *)
LEMMA UpdatedRows ==
  ASSUME LedgerTyped, NEW o \in Ops, NEW r \in Rows, Accepts(o, r),
         row' = Updated(o, r)
  PROVE  /\ row' \in [Ops -> Rows]
         /\ row'[o].state = r.state /\ row'[o].fence = r.fence
         /\ row'[o].owner = r.owner /\ row'[o].active = r.active
         /\ row'[o].bound = IF Enters(o, r) THEN row[Forward[o]].fence ELSE r.bound
         /\ \A p \in Ops \ {o} :
               /\ row'[p].state = row[p].state /\ row'[p].fence = row[p].fence
               /\ row'[p].owner = row[p].owner /\ row'[p].bound = row[p].bound
               /\ row'[p].active = IF p = Forward[o] /\ Enters(o, r) THEN row[p].active + 1
                                   ELSE IF p = Forward[o] /\ Leaves(o, r)
                                        THEN row[p].active - 1 ELSE row[p].active
<1>1. Enters(o, r) => row[Forward[o]].fence \in Nat
  BY OpsAssumption DEF Enters, IsActive, LedgerTyped, Rows
<1>2. ASSUME NEW p \in Ops PROVE row'[p] \in Rows
  <2>1. CASE p = o
    <3>1. CASE Enters(o, r)
      BY <1>1, <2>1, <3>1 DEF Updated, Rows
    <3>2. CASE ~Enters(o, r)
      BY <2>1, <3>2 DEF Updated, Rows
    <3> QED
      BY <3>1, <3>2
  <2>2. CASE p # o /\ p = Forward[o] /\ Enters(o, r)
    <3>1. row[p] \in Rows /\ row[p].active + 1 \in Nat
      BY DEF LedgerTyped, Rows
    <3>2. row'[p] = [row[p] EXCEPT !.active = @ + 1]
      BY <2>2 DEF Updated
    <3> QED
      BY <3>1, <3>2 DEF Rows
  <2>3. CASE p # o /\ p = Forward[o] /\ ~Enters(o, r) /\ Leaves(o, r)
    <3>1. row[p].active > 0 /\ row[p] \in Rows
      BY <2>3 DEF Accepts, LedgerTyped
    <3>2. row[p].active - 1 \in Nat
      BY <3>1 DEF Rows
    <3> QED
      BY <2>3, <3>1, <3>2 DEF Updated, Rows
  <2>4. CASE p # o /\ ~(p = Forward[o] /\ (Enters(o, r) \/ Leaves(o, r)))
    BY <2>4 DEF Updated, LedgerTyped
  <2> QED
    BY <2>1, <2>2, <2>3, <2>4
<1>3. row' \in [Ops -> Rows]
  BY <1>2 DEF Updated
<1>4. row'[o] = [r EXCEPT !.bound = IF Enters(o, r) THEN row[Forward[o]].fence ELSE @]
  BY DEF Updated
<1>5. /\ row'[o].state = r.state /\ row'[o].fence = r.fence
      /\ row'[o].owner = r.owner /\ row'[o].active = r.active
      /\ row'[o].bound = IF Enters(o, r) THEN row[Forward[o]].fence ELSE r.bound
  BY <1>4 DEF Rows
<1>6. ASSUME NEW p \in Ops \ {o}
      PROVE  /\ row'[p].state = row[p].state /\ row'[p].fence = row[p].fence
             /\ row'[p].owner = row[p].owner /\ row'[p].bound = row[p].bound
             /\ row'[p].active = IF p = Forward[o] /\ Enters(o, r) THEN row[p].active + 1
                                 ELSE IF p = Forward[o] /\ Leaves(o, r)
                                      THEN row[p].active - 1 ELSE row[p].active
  <2>1. row[p] \in Rows
    BY DEF LedgerTyped
  <2>2. row'[p] = IF p = Forward[o] /\ Enters(o, r) THEN [row[p] EXCEPT !.active = @ + 1]
                  ELSE IF p = Forward[o] /\ Leaves(o, r)
                       THEN [row[p] EXCEPT !.active = @ - 1] ELSE row[p]
    BY DEF Updated
  <2> QED
    BY <2>1, <2>2 DEF Rows
<1> QED
  BY <1>3, <1>5, <1>6

(* An accepted update keeps compensations fenced: a done forward operation  *)
(* changes only while nothing compensates it.                              *)
LEMMA UpdateFenced ==
  ASSUME LedgerTyped, CompensationFenced, NEW o \in Ops, NEW r \in Rows,
         Accepts(o, r), row' = Updated(o, r),
         r.active = row[o].active, r.bound = row[o].bound,
         row[o].active > 0 /\ row[o].state \in Done => r.state = row[o].state
                                                       /\ r.fence = row[o].fence
  PROVE  CompensationFenced'
<1>1. /\ row' \in [Ops -> Rows]
      /\ row'[o].state = r.state /\ row'[o].fence = r.fence
      /\ row'[o].active = row[o].active
      /\ row'[o].bound = IF Enters(o, r) THEN row[Forward[o]].fence ELSE row[o].bound
      /\ \A p \in Ops \ {o} :
            /\ row'[p].state = row[p].state /\ row'[p].fence = row[p].fence
            /\ row'[p].bound = row[p].bound
            /\ row'[p].active = IF p = Forward[o] /\ Enters(o, r) THEN row[p].active + 1
                                ELSE IF p = Forward[o] /\ Leaves(o, r)
                                     THEN row[p].active - 1 ELSE row[p].active
  BY UpdatedRows
<1>2. IsActive(o, row'[o]) <=> IsActive(o, r)
  BY <1>1 DEF IsActive
<1>3. \A p \in Ops \ {o} : IsActive(p, row'[p]) <=> IsActive(p, row[p])
  BY <1>1 DEF IsActive
<1>4. ASSUME NEW p \in Ops, IsActive(p, row'[p])
      PROVE  row'[Forward[p]].state \in Done /\ row'[Forward[p]].fence = row'[p].bound
  <2>1. Forward[p] \in Ops /\ Forward[p] # p
    BY <1>4, OpsAssumption DEF IsActive
  <2>2. CASE p = o
    <3>1. CASE Enters(o, r)
      BY <1>1, <2>1, <2>2, <3>1 DEF Accepts, Binds
    <3>2. CASE ~Enters(o, r)
      BY <1>1, <1>2, <1>4, <2>1, <2>2, <3>2, Zenon DEF Enters, CompensationFenced
    <3> QED
      BY <3>1, <3>2
  <2>3. CASE p # o
    <3>1. IsActive(p, row[p])
      BY <1>3, <1>4, <2>3
    <3>2. /\ row[Forward[p]].state \in Done /\ row[Forward[p]].fence = row[p].bound
          /\ row[Forward[p]].active > 0
      BY <3>1, Counted, Zenon DEF CompensationFenced
    <3> QED
      BY <1>1, <2>1, <2>3, <3>2
  <2> QED
    BY <2>2, <2>3
<1>5. ASSUME NEW q \in Ops PROVE row'[q].active = Cardinality(InProgress(q)')
  <2>1. /\ row[q].active = Cardinality(InProgress(q)) /\ row[q].active \in Nat
        /\ IsFiniteSet(InProgress(q))
    BY OpsAssumption, FS_Subset, Zenon DEF CompensationFenced, InProgress, LedgerTyped, Rows
  <2>2. CASE q = Forward[o] /\ Enters(o, r)
    <3>1. InProgress(q)' = InProgress(q) \cup {o} /\ o \notin InProgress(q)
      BY <1>2, <1>3, <2>2 DEF InProgress, Enters
    <3>2. Cardinality(InProgress(q)') = Cardinality(InProgress(q)) + 1
      BY <2>1, <3>1, FS_AddElement, Zenon
    <3>3. q # o
      BY <2>2, OpsAssumption
    <3> QED
      BY <1>1, <2>1, <2>2, <3>2, <3>3
  <2>3. CASE q = Forward[o] /\ Leaves(o, r)
    <3>1. InProgress(q)' = InProgress(q) \ {o} /\ o \in InProgress(q)
      BY <1>2, <1>3, <2>3 DEF InProgress, Leaves
    <3>2. Cardinality(InProgress(q)') = Cardinality(InProgress(q)) - 1
      BY <2>1, <3>1, FS_RemoveElement, Zenon
    <3>3. q # o /\ ~Enters(o, r)
      BY <2>3, OpsAssumption DEF Enters, Leaves
    <3> QED
      BY <1>1, <2>1, <2>3, <3>2, <3>3
  <2>4. CASE ~(q = Forward[o] /\ (Enters(o, r) \/ Leaves(o, r)))
    <3>1. InProgress(q)' = InProgress(q)
      BY <1>2, <1>3, <2>4 DEF InProgress, Enters, Leaves
    <3>2. row'[q].active = row[q].active
      BY <1>1, <2>4
    <3> QED
      BY <2>1, <3>1, <3>2
  <2> QED
    BY <2>2, <2>3, <2>4
<1> QED
  BY <1>4, <1>5 DEF CompensationFenced, InProgress

(* An update that no trigger reacts to keeps compensations fenced. *)
LEMMA SteadyFenced ==
  ASSUME CompensationFenced,
         \A o \in Ops : /\ row'[o].fence = row[o].fence /\ row'[o].active = row[o].active
                        /\ row'[o].bound = row[o].bound
                        /\ row[o].state \in Done => row'[o].state = row[o].state
                        /\ IsActive(o, row'[o]) <=> IsActive(o, row[o])
  PROVE  CompensationFenced'
<1>1. ASSUME NEW o \in Ops, IsActive(o, row'[o])
      PROVE  row'[Forward[o]].state \in Done /\ row'[Forward[o]].fence = row'[o].bound
  <2>1. Forward[o] \in Ops /\ IsActive(o, row[o])
    BY <1>1, OpsAssumption DEF IsActive
  <2> QED
    BY <2>1, Zenon DEF CompensationFenced
<1>2. \A o \in Ops : InProgress(o)' = InProgress(o)
  BY DEF InProgress
<1> QED
  BY <1>1, <1>2 DEF CompensationFenced, InProgress

----------------------------------------------------------------------------
(* The inductive invariant, taken apart: the ledger operation by operation,  *)
(* the loops of the fleets, the claims.                                     *)

Reconciled(o) ==
    o \notin Replayable =>
       \A n \in DOMAIN attempts[o] :
          attempts[o][n] = "indeterminate" /\ (n < row[o].fence \/ row[o].state # "indeterminate")
             => n \in resolved[o]

Spent(o) == /\ starts[o] <= MaxAttempts
            /\ epoch[o] <= row[o].fence
            /\ starts[o] <= row[o].fence - epoch[o]
            /\ row[o].state = "claimed" => starts[o] < row[o].fence - epoch[o]

Ledger == /\ LedgerTyped /\ CompensationFenced
          /\ \A o \in Ops : Agrees(o) /\ Reconciled(o) /\ Spent(o)

LoopOK(f) == /\ fleet[f].loop = "admit" => /\ fleet[f].claim \in Claims
                                           /\ fleet[f].claim.phase = "accepted"
                                           /\ Budgeted(fleet[f].claim)
             /\ \A o \in Ops : fleet[f].snap[o].epoch <= epoch[o]

ClaimOK(c) == /\ c \in Claims /\ Budgeted(c)
              /\ c.phase \in {"completing", "orphan"} => c.to \notin Open

Loop  == fleet \in [Fleets -> Loops] /\ \A f \in Fleets : LoopOK(f)
Claim == \A c \in claims : ClaimOK(c)

(* The parts make up the whole. *)
LEMMA Parts == /\ Inductive <=> Ledger /\ Loop /\ Claim
               /\ Inductive' <=> Ledger' /\ Loop' /\ Claim'
BY DEF Inductive, LedgerAgrees, TypeOK, FleetsTyped, NoBlindReplay, AttemptBudget,
       StartsCounted, ClaimsSound, Ledger, Loop, LoopOK, Claim, ClaimOK, Reconciled, Spent

(* An operation whose rows a step leaves alone stays as it was. *)
LEMMA Kept ==
  ASSUME NEW o \in Ops, Agrees(o), Reconciled(o), Spent(o),
         row'[o].state = row[o].state, row'[o].fence = row[o].fence,
         row'[o].owner = row[o].owner, attempts'[o] = attempts[o],
         epoch'[o] = epoch[o], resolved'[o] = resolved[o], starts'[o] = starts[o]
  PROVE  Agrees(o)' /\ Reconciled(o)' /\ Spent(o)'
BY DEF Agrees, Reconciled, Spent

(* A step that changes no row of the ledger. *)
LEMMA LedgerKept ==
  ASSUME Ledger, UNCHANGED <<row, attempts, epoch, resolved, starts>>
  PROVE  Ledger'
<1>1. LedgerTyped' /\ CompensationFenced'
  BY Zenon DEF Ledger, LedgerTyped, CompensationFenced, IsActive
<1>2. \A o \in Ops : Agrees(o)' /\ Reconciled(o)' /\ Spent(o)'
  BY DEF Ledger, Agrees, Reconciled, Spent
<1> QED
  BY <1>1, <1>2 DEF Ledger

(* A fleet's loop moves on with a sound snapshot and a sound claim. *)
LEMMA Moved ==
  ASSUME Loop, NEW f \in Fleets, NEW st \in {"accepting", "closed"},
         NEW lo \in {"poll", "snapped", "admit", "ended"}, NEW sn \in [Ops -> Seen],
         NEW cl \in Claims \cup {NoClaim}, Moves(f, st, lo, sn, cl),
         lo = "admit" => cl \in Claims /\ cl.phase = "accepted" /\ Budgeted(cl),
         \A o \in Ops : sn[o].epoch <= epoch[o], UNCHANGED epoch
  PROVE  Loop'
<1> DEFINE m == [state |-> st, loop |-> lo, snap |-> sn, claim |-> cl]
<1>1. m \in Loops
  BY DEF Loops
<1>2. fleet' = [fleet EXCEPT ![f] = m] /\ fleet \in [Fleets -> Loops]
  BY DEF Moves, Loop
<1>3. fleet' \in [Fleets -> Loops]
  BY <1>1, <1>2
<1>4. ASSUME NEW g \in Fleets PROVE LoopOK(g)'
  <2>1. CASE g = f
    BY <1>2, <2>1 DEF LoopOK, Budgeted
  <2>2. CASE g # f
    <3>1. fleet'[g] = fleet[g] /\ LoopOK(g)
      BY <1>2, <2>2 DEF Loop
    <3> QED
      BY <3>1 DEF LoopOK, Budgeted
  <2> QED
    BY <2>1, <2>2
<1> QED
  BY <1>3, <1>4 DEF Loop

(* The ends of a loop, and the way back to its start. *)
LEMMA Returned ==
  ASSUME Loop, LedgerTyped, NEW f \in Fleets, UNCHANGED epoch,
         Ends(f) \/ Polls(f) \/ Moves(f, fleet[f].state, "poll", NoSnap, NoClaim)
  PROVE  Loop'
<1>1. NoSnap \in [Ops -> Seen] /\ \A o \in Ops : NoSnap[o].epoch = 0
  BY DEF NoSnap, NotSeen, Seen
<1>2. \A o \in Ops : NoSnap[o].epoch <= epoch[o]
  BY <1>1 DEF LedgerTyped
<1>3. CASE Ends(f)
  BY <1>1, <1>2, <1>3, Moved DEF Ends
<1>4. CASE Polls(f)
  BY <1>1, <1>2, <1>4, Moved DEF Polls
<1>5. CASE Moves(f, fleet[f].state, "poll", NoSnap, NoClaim)
  <2>1. fleet[f].state \in {"accepting", "closed"}
    BY DEF Loop, Loops
  <2> QED
    BY <1>1, <1>2, <1>5, <2>1, Moved
<1> QED
  BY <1>3, <1>4, <1>5

(* A fleet that closes keeps its place in the loop. *)
LEMMA Closed ==
  ASSUME Loop, NEW f \in Fleets, Closes(f), UNCHANGED epoch
  PROVE  Loop'
<1>1. fleet[f] \in Loops /\ LoopOK(f)
  BY DEF Loop
<1>2. /\ fleet[f].snap \in [Ops -> Seen] /\ fleet[f].claim \in Claims \cup {NoClaim}
      /\ fleet[f].loop \in {"poll", "snapped", "admit", "ended"}
  BY <1>1 DEF Loops
<1>3. Moves(f, "closed", fleet[f].loop, fleet[f].snap, fleet[f].claim)
  BY DEF Closes
<1> QED
  BY <1>1, <1>2, <1>3, Moved DEF LoopOK

(* Loops that stand still. *)
LEMMA LoopKept == ASSUME Loop, UNCHANGED <<fleet, epoch>> PROVE Loop'
BY DEF Loop, LoopOK, Budgeted

(* Claims that a step leaves or removes. *)
LEMMA ClaimsKept ==
  ASSUME Claim, claims' \subseteq claims, UNCHANGED epoch
  PROVE  Claim'
BY DEF Claim, ClaimOK, Budgeted

----------------------------------------------------------------------------
(* The steps of the ledger.                                                *)

(* What is known of one operation's rows. *)
LEMMA RowFacts ==
  ASSUME Ledger, NEW o \in Ops
  PROVE  /\ row[o] \in Rows /\ row[o].fence \in Nat /\ attempts[o] \in Seq(States)
         /\ Len(attempts[o]) = row[o].fence
         /\ DOMAIN attempts[o] = 1..row[o].fence
         /\ epoch[o] \in Nat /\ starts[o] \in Nat /\ resolved[o] \subseteq Nat
         /\ Agrees(o) /\ Reconciled(o) /\ Spent(o)
<1>1. row[o] \in Rows /\ attempts[o] \in Seq(States) /\ epoch[o] \in Nat
      /\ starts[o] \in Nat /\ resolved[o] \subseteq Nat
  BY DEF Ledger, LedgerTyped
<1>2. Agrees(o) /\ Reconciled(o) /\ Spent(o)
  BY DEF Ledger
<1> QED
  BY <1>1, <1>2 DEF Rows, Agrees

(* Another state for the last attempt. *)
LEMMA LastAttempt ==
  ASSUME NEW s \in Seq(States), NEW n \in Nat, Len(s) = n, n > 0, NEW x \in States
  PROVE  LET t == [s EXCEPT ![n] = x]
         IN /\ t \in Seq(States) /\ Len(t) = n /\ DOMAIN t = 1..n /\ t[n] = x
            /\ \A m \in 1..(n - 1) : t[m] = s[m]
OBVIOUS

(* An attempt whose outcome becomes unknown leaves its operation unknown, or  *)
(* replayable, and the earlier attempts stay reconciled.                    *)
LEMMA ReconciledLast ==
  ASSUME NEW o \in Ops, row[o].fence \in Nat, Reconciled(o),
         DOMAIN attempts[o] = 1..row[o].fence, DOMAIN attempts'[o] = 1..row[o].fence,
         \A n \in 1..(row[o].fence - 1) : attempts'[o][n] = attempts[o][n],
         \/ attempts'[o][row[o].fence] # "indeterminate"
         \/ o \notin Replayable => row'[o].state = "indeterminate",
         row'[o].fence = row[o].fence, resolved' = resolved
  PROVE  Reconciled(o)'
<1>1. SUFFICES ASSUME o \notin Replayable, NEW n \in 1..row[o].fence,
                      attempts'[o][n] = "indeterminate",
                      n < row[o].fence \/ row'[o].state # "indeterminate"
               PROVE  n \in resolved[o]
  BY DEF Reconciled
<1>2. n < row[o].fence
  BY <1>1
<1>3. attempts[o][n] = "indeterminate" /\ n \in DOMAIN attempts[o]
  BY <1>1, <1>2
<1> QED
  BY <1>1, <1>2, <1>3 DEF Reconciled

(* Complete settles the operation and its last attempt together, or nothing. *)
LEMMA CompletePreserves ==
  ASSUME Ledger, NEW c \in Claims, NEW from \in Open, NEW to \in States \ Open,
         Complete(c, from, to), UNCHANGED <<epoch, resolved, starts>>
  PROVE  Ledger'
<1>1. CASE ~Proves(c, from, to)
  BY <1>1, LedgerKept DEF Complete
<1>2. CASE Proves(c, from, to)
  <2> DEFINE o == c.op
             r == Final(c, to)
  <2>0. o \in Ops /\ c.fence \in Nat
    BY DEF Claims
  <2>1. /\ row[o].state = from /\ row[o].fence = c.fence /\ Accepts(o, r)
        /\ row' = Updated(o, r)
        /\ attempts' = [attempts EXCEPT ![o][c.fence] = to]
    BY <1>2 DEF Complete, Proves, Owns
  <2>2. /\ row[o] \in Rows /\ row[o].fence \in Nat /\ attempts[o] \in Seq(States)
        /\ DOMAIN attempts[o] = 1..row[o].fence /\ Len(attempts[o]) = row[o].fence
        /\ Agrees(o) /\ Reconciled(o) /\ Spent(o)
    BY <2>0, RowFacts
  <2>3. /\ r \in Rows /\ r.state = to /\ r.owner = NoFleet /\ r.fence = row[o].fence
        /\ r.active = row[o].active /\ r.bound = row[o].bound
    BY <2>2, Zenon DEF Final, Rows
  <2>4. row[o].state \notin Done
    BY <2>1 DEF Open, Done
  <2> HIDE DEF r
  <2>5. CompensationFenced'
    BY <2>0, <2>1, <2>3, <2>4, UpdateFenced DEF Ledger
  <2>6. /\ row' \in [Ops -> Rows]
        /\ row'[o].state = to /\ row'[o].fence = row[o].fence /\ row'[o].owner = NoFleet
        /\ \A p \in Ops \ {o} :
              /\ row'[p].state = row[p].state /\ row'[p].fence = row[p].fence
              /\ row'[p].owner = row[p].owner
    BY <2>0, <2>1, <2>3, UpdatedRows DEF Ledger
  <2>7. row[o].fence > 0
    BY <2>1, <2>2 DEF Agrees
  <2>8. /\ attempts'[o] = [attempts[o] EXCEPT ![row[o].fence] = to]
        /\ \A p \in Ops \ {o} : attempts'[p] = attempts[p]
        /\ DOMAIN attempts' = Ops /\ attempts' = [p \in Ops |-> attempts'[p]]
    BY <2>0, <2>1, Zenon DEF Ledger, LedgerTyped
  <2>9. attempts'[o] \in Seq(States) /\ Len(attempts'[o]) = row[o].fence
    BY <2>2, <2>7, <2>8
  <2>10. /\ DOMAIN attempts'[o] = 1..row[o].fence /\ attempts'[o][row[o].fence] = to
         /\ \A n \in 1..(row[o].fence - 1) : attempts'[o][n] = attempts[o][n]
    BY <2>2, <2>7, <2>8
  <2>11. LedgerTyped'
    <3>1. attempts' \in [Ops -> Seq(States)]
      BY <2>8, <2>9, Zenon DEF Ledger, LedgerTyped
    <3> QED
      BY <2>6, <3>1 DEF Ledger, LedgerTyped
  <2>12. Agrees(o)'
    BY <2>2, <2>6, <2>7, <2>9, <2>10 DEF Agrees, Open
  <2>13. Reconciled(o)'
    <3>1. to # "indeterminate" \/ row'[o].state = "indeterminate"
      BY <2>6
    <3> QED
      BY <2>0, <2>2, <2>6, <2>10, <3>1, ReconciledLast
  <2>14. Spent(o)'
    BY <2>0, <2>2, <2>6 DEF Spent, Open
  <2>15. ASSUME NEW p \in Ops \ {o} PROVE Agrees(p)' /\ Reconciled(p)' /\ Spent(p)'
    BY <2>6, <2>8, <2>15, Kept DEF Ledger
  <2> QED
    BY <2>5, <2>11, <2>12, <2>13, <2>14, <2>15 DEF Ledger
<1> QED
  BY <1>1, <1>2 DEF Proves, Owns, Accepts

(* ClaimNext opens the next attempt of an operation that is not open. *)
LEMMA ClaimPreserves ==
  ASSUME Ledger, NEW f \in Fleets, NEW o \in Ops, NEW r,
         r = [row[o] EXCEPT !.state = "claimed", !.owner = f,
                            !.fence = @ + 1, !.lapsed = FALSE],
         row[o].state \in Claimable, Accepts(o, r), row' = Updated(o, r),
         attempts' = [attempts EXCEPT ![o] = Append(@, "claimed")],
         UNCHANGED <<epoch, resolved, starts>>
  PROVE  Ledger'
<1>1. /\ row[o] \in Rows /\ row[o].fence \in Nat /\ attempts[o] \in Seq(States)
      /\ DOMAIN attempts[o] = 1..row[o].fence /\ Len(attempts[o]) = row[o].fence
      /\ epoch[o] \in Nat /\ starts[o] \in Nat
      /\ Agrees(o) /\ Reconciled(o) /\ Spent(o)
  BY RowFacts
<1>2. /\ r \in Rows /\ r.state = "claimed" /\ r.owner = f /\ r.fence = row[o].fence + 1
      /\ r.active = row[o].active /\ r.bound = row[o].bound
  <2>1. "claimed" \in States /\ row[o].fence + 1 \in Nat
    BY <1>1 DEF States, Open
  <2> QED
    BY <1>1, <2>1, Zenon DEF Rows
<1>3. row[o].state \notin Done /\ row[o].state \notin Open /\ row[o].state # "indeterminate"
  BY DEF Claimable, Done, Open
<1>4. CompensationFenced'
  BY <1>2, <1>3, UpdateFenced, Zenon DEF Ledger
<1>5. /\ row' \in [Ops -> Rows]
      /\ row'[o].state = "claimed" /\ row'[o].fence = row[o].fence + 1 /\ row'[o].owner = f
      /\ \A p \in Ops \ {o} :
            /\ row'[p].state = row[p].state /\ row'[p].fence = row[p].fence
            /\ row'[p].owner = row[p].owner
  <2>1. LedgerTyped
    BY DEF Ledger
  <2>2. /\ row' \in [Ops -> Rows]
        /\ row'[o].state = r.state /\ row'[o].fence = r.fence /\ row'[o].owner = r.owner
        /\ \A p \in Ops \ {o} :
              /\ row'[p].state = row[p].state /\ row'[p].fence = row[p].fence
              /\ row'[p].owner = row[p].owner
    BY ONLY <1>2, <2>1, UpdatedRows, Accepts(o, r), row' = Updated(o, r), o \in Ops
  <2> QED
    BY <1>2, <2>2
<1>6. /\ attempts'[o] = Append(attempts[o], "claimed")
      /\ \A p \in Ops \ {o} : attempts'[p] = attempts[p]
      /\ attempts' = [p \in Ops |-> attempts'[p]]
  BY Zenon DEF Ledger, LedgerTyped
<1>7. /\ attempts'[o] \in Seq(States) /\ Len(attempts'[o]) = row[o].fence + 1
      /\ DOMAIN attempts'[o] = 1..(row[o].fence + 1)
      /\ attempts'[o][row[o].fence + 1] = "claimed"
      /\ \A n \in 1..row[o].fence : attempts'[o][n] = attempts[o][n]
  BY <1>1, <1>6 DEF States, Open
<1>8. LedgerTyped'
  <2>1. attempts' \in [Ops -> Seq(States)]
    BY <1>6, <1>7 DEF Ledger, LedgerTyped
  <2> QED
    BY <1>5, <2>1 DEF Ledger, LedgerTyped
<1>9. \A n \in 1..row[o].fence : attempts[o][n] \notin Open
  BY <1>1, <1>3 DEF Agrees
<1>10. Agrees(o)'
  <2>1. f # NoFleet /\ "claimed" \in Open
    BY OpsAssumption DEF Open
  <2>2. /\ row[o].fence \in Nat /\ row'[o].fence = row[o].fence + 1
        /\ row'[o].state = "claimed" /\ row'[o].owner = f
    BY <1>1, <1>5
  <2>3. ASSUME NEW n \in 1..(row'[o].fence - 1) PROVE attempts'[o][n] \notin Open
    <3>1. n \in 1..row[o].fence
      BY <2>2
    <3> QED
      BY ONLY <1>7, <1>9, <3>1
  <2>4. Len(attempts'[o]) = row'[o].fence /\ attempts'[o][row'[o].fence] = "claimed"
    BY ONLY <1>7, <2>2
  <2> QED
    BY ONLY <2>1, <2>2, <2>3, <2>4 DEF Agrees
<1>11. Reconciled(o)'
  <2>1. \A n \in 1..row[o].fence : o \notin Replayable /\ attempts[o][n] = "indeterminate"
                                     => n \in resolved[o]
    BY <1>1, <1>3 DEF Reconciled
  <2> QED
    BY <1>1, <1>7, <2>1 DEF Reconciled
<1>12. Spent(o)'
  BY <1>1, <1>5 DEF Spent
<1>13. ASSUME NEW p \in Ops \ {o} PROVE Agrees(p)' /\ Reconciled(p)' /\ Spent(p)'
  BY <1>5, <1>6, <1>13, Kept DEF Ledger
<1> QED
  BY <1>4, <1>8, <1>10, <1>11, <1>12, <1>13 DEF Ledger

(* MarkRunning: the open attempt runs; the handler it starts is one of the   *)
(* attempts of this epoch, and within the budget.                          *)
LEMMA RunningPreserves ==
  ASSUME Ledger, NEW c \in Claims, Budgeted(c), WithinBudget(c), Owns(c, "claimed"),
         row' = [row EXCEPT ![c.op].state = "running"],
         attempts' = [attempts EXCEPT ![c.op][c.fence] = "running"],
         \/ starts' = [starts EXCEPT ![c.op] = @ + 1]
         \/ starts' = starts,
         UNCHANGED <<epoch, resolved>>
  PROVE  Ledger'
<1> DEFINE o == c.op
<1>0. o \in Ops /\ c.fence \in Nat /\ c.budget.attempt \in Int
  BY DEF Claims, Budgets
<1>1. /\ row[o].state = "claimed" /\ row[o].fence = c.fence /\ row[o].owner = c.fleet
  BY DEF Owns
<1>2. /\ row[o] \in Rows /\ row[o].fence \in Nat /\ attempts[o] \in Seq(States)
      /\ DOMAIN attempts[o] = 1..row[o].fence /\ Len(attempts[o]) = row[o].fence
      /\ epoch[o] \in Nat /\ starts[o] \in Nat
      /\ Agrees(o) /\ Reconciled(o) /\ Spent(o)
  BY <1>0, RowFacts
<1>3. "running" \in States /\ "running" \in Open /\ "claimed" \in Open
  BY DEF States, Open
<1>4. /\ row' \in [Ops -> Rows]
      /\ row'[o].state = "running" /\ row'[o].fence = row[o].fence
      /\ row'[o].owner = row[o].owner /\ row'[o].active = row[o].active
      /\ row'[o].bound = row[o].bound
      /\ \A p \in Ops \ {o} : row'[p] = row[p]
  <2>1. row \in [Ops -> Rows] /\ row' = [row EXCEPT ![o] = [row[o] EXCEPT !.state = "running"]]
    BY DEF Ledger, LedgerTyped
  <2>2. [row[o] EXCEPT !.state = "running"] \in Rows
    BY <1>2, <1>3, Zenon DEF Rows
  <2>3. /\ row' \in [Ops -> Rows] /\ row'[o] = [row[o] EXCEPT !.state = "running"]
        /\ \A p \in Ops \ {o} : row'[p] = row[p]
    BY <1>0, <2>1, <2>2
  <2> QED
    BY <1>2, <2>3 DEF Rows
<1>5. row[o].fence > 0
  BY <1>1, <1>2, <1>3 DEF Agrees
<1>6. CompensationFenced'
  <2>1. ASSUME NEW p \in Ops
        PROVE  /\ row'[p].fence = row[p].fence /\ row'[p].active = row[p].active
               /\ row'[p].bound = row[p].bound
               /\ row[p].state \in Done => row'[p].state = row[p].state
               /\ IsActive(p, row'[p]) <=> IsActive(p, row[p])
    BY <1>1, <1>4 DEF IsActive, Done, Open
  <2> QED
    BY <2>1, SteadyFenced DEF Ledger
<1>7. /\ attempts'[o] = [attempts[o] EXCEPT ![row[o].fence] = "running"]
      /\ \A p \in Ops \ {o} : attempts'[p] = attempts[p]
      /\ attempts' = [p \in Ops |-> attempts'[p]]
  BY <1>0, <1>1, Zenon DEF Ledger, LedgerTyped
<1>8. /\ attempts'[o] \in Seq(States) /\ Len(attempts'[o]) = row[o].fence
      /\ DOMAIN attempts'[o] = 1..row[o].fence /\ attempts'[o][row[o].fence] = "running"
      /\ \A n \in 1..(row[o].fence - 1) : attempts'[o][n] = attempts[o][n]
  BY ONLY <1>2, <1>3, <1>5, <1>7, LastAttempt
<1>9. /\ starts' \in [Ops -> Nat] /\ starts'[o] \in {starts[o], starts[o] + 1}
      /\ \A p \in Ops \ {o} : starts'[p] = starts[p]
  BY <1>0, <1>2 DEF Ledger, LedgerTyped
<1>10. LedgerTyped'
  <2>1. attempts' \in [Ops -> Seq(States)]
    BY <1>7, <1>8, Zenon DEF Ledger, LedgerTyped
  <2> QED
    BY <1>4, <1>9, <2>1 DEF Ledger, LedgerTyped
<1>11. Agrees(o)'
  BY <1>1, <1>2, <1>3, <1>4, <1>5, <1>8 DEF Agrees
<1>12. Reconciled(o)'
  BY <1>0, <1>1, <1>2, <1>3, <1>4, <1>8, ReconciledLast
<1>13. Spent(o)'
  <2>1. starts[o] < row[o].fence - epoch[o] /\ row[o].fence - epoch[o] <= MaxAttempts
    BY <1>0, <1>1, <1>2, OpsAssumption DEF Spent, Budgeted, WithinBudget
  <2> QED
    BY <1>2, <1>4, <1>9, <2>1, OpsAssumption DEF Spent
<1>14. ASSUME NEW p \in Ops \ {o} PROVE Agrees(p)' /\ Reconciled(p)' /\ Spent(p)'
  BY <1>4, <1>7, <1>9, <1>14, Kept DEF Ledger
<1> QED
  BY <1>6, <1>10, <1>11, <1>12, <1>13, <1>14 DEF Ledger

(* RecoverExpired gives up the open attempts whose lease has elapsed. *)
LEMMA RecoverPreserves ==
  ASSUME Ledger, NEW f \in Fleets, RecoverExpired(f)
  PROVE  Ledger'
<1> DEFINE next(o) == IF o \in Replayable THEN "eligible" ELSE "indeterminate"
<1>1. /\ UNCHANGED <<epoch, resolved, starts>>
      /\ \A o \in Ops : o \notin Expired => row'[o] = row[o] /\ attempts'[o] = attempts[o]
      /\ \A o \in Expired :
            /\ row'[o] = [row[o] EXCEPT !.state = next(o), !.owner = NoFleet, !.lapsed = FALSE]
            /\ attempts'[o] = [attempts[o] EXCEPT ![row[o].fence] = "indeterminate"]
      /\ DOMAIN row' = Ops /\ DOMAIN attempts' = Ops
      /\ row' = [o \in Ops |-> row'[o]] /\ attempts' = [o \in Ops |-> attempts'[o]]
  BY Zenon DEF RecoverExpired, operators, Expired
<1>2. ASSUME NEW o \in Expired
      PROVE  /\ row[o] \in Rows /\ row[o].fence \in Nat /\ row[o].state \in Open
             /\ attempts[o] \in Seq(States) /\ DOMAIN attempts[o] = 1..row[o].fence
             /\ Len(attempts[o]) = row[o].fence /\ row[o].fence > 0
             /\ epoch[o] \in Nat /\ starts[o] \in Nat
             /\ Agrees(o) /\ Reconciled(o) /\ Spent(o)
             /\ next(o) \in States \ (Open \cup Done) /\ "indeterminate" \in States \ Open
  <2>1. o \in Ops /\ row[o].state \in Open
    BY DEF Expired
  <2>2. Agrees(o)
    BY <2>1, RowFacts
  <2>3. row[o].fence > 0
    BY <2>1, <2>2 DEF Agrees
  <2>4. next(o) \in States \ (Open \cup Done) /\ "indeterminate" \in States \ Open
    BY DEF States, Open, Claimable, Done
  <2> HIDE DEF next
  <2> QED
    BY <2>1, <2>3, <2>4, RowFacts
<1> HIDE DEF next
<1>3. ASSUME NEW o \in Expired
      PROVE  /\ row'[o] \in Rows /\ row'[o].state = next(o) /\ row'[o].owner = NoFleet
             /\ row'[o].fence = row[o].fence /\ row'[o].active = row[o].active
             /\ row'[o].bound = row[o].bound
  <2>1. row'[o] = [row[o] EXCEPT !.state = next(o), !.owner = NoFleet, !.lapsed = FALSE]
    BY <1>1, Zenon
  <2>2. row[o] \in Rows /\ next(o) \in States
    BY <1>2
  <2> QED
    BY ONLY <2>1, <2>2, Zenon DEF Rows
<1>4. ASSUME NEW o \in Expired
      PROVE  /\ attempts'[o] \in Seq(States) /\ Len(attempts'[o]) = row[o].fence
             /\ DOMAIN attempts'[o] = 1..row[o].fence
             /\ attempts'[o][row[o].fence] = "indeterminate"
             /\ \A n \in 1..(row[o].fence - 1) : attempts'[o][n] = attempts[o][n]
  <2>1. attempts'[o] = [attempts[o] EXCEPT ![row[o].fence] = "indeterminate"]
    BY <1>1, Zenon
  <2>2. /\ attempts[o] \in Seq(States) /\ row[o].fence \in Nat /\ row[o].fence > 0
        /\ Len(attempts[o]) = row[o].fence /\ "indeterminate" \in States
    BY <1>2
  <2> QED
    BY ONLY <2>1, <2>2, LastAttempt
<1>5. LedgerTyped'
  <2>1. \A o \in Ops : row'[o] \in Rows /\ attempts'[o] \in Seq(States)
    BY <1>1, <1>3, <1>4, Zenon DEF Ledger, LedgerTyped
  <2> QED
    BY <1>1, <2>1, Zenon DEF Ledger, LedgerTyped
<1>6. CompensationFenced'
  <2>1. ASSUME NEW o \in Ops
        PROVE  /\ row'[o].fence = row[o].fence /\ row'[o].active = row[o].active
               /\ row'[o].bound = row[o].bound
               /\ row[o].state \in Done => row'[o].state = row[o].state
               /\ IsActive(o, row'[o]) <=> IsActive(o, row[o])
    <3>1. CASE o \in Expired
      <4>1. row[o].state \in Open /\ row[o].fence > 0 /\ row[o].fence \in Nat
        BY <1>2, <3>1
      <4>2. row'[o].state \in {"eligible", "indeterminate"}
        BY <1>3, <3>1 DEF next
      <4> QED
        BY <1>3, <3>1, <4>1, <4>2 DEF IsActive, Open, Done
    <3>2. CASE o \notin Expired
      BY <1>1, <3>2, Zenon
    <3> QED
      BY <3>1, <3>2
  <2> QED
    BY <2>1, SteadyFenced DEF Ledger
<1>7. ASSUME NEW o \in Expired PROVE Agrees(o)' /\ Reconciled(o)' /\ Spent(o)'
  <2>0. /\ row[o].fence \in Nat /\ row[o].fence > 0 /\ Agrees(o) /\ Reconciled(o)
        /\ DOMAIN attempts[o] = 1..row[o].fence
        /\ next(o) \notin Open /\ "indeterminate" \notin Open
        /\ row'[o].state = next(o) /\ row'[o].owner = NoFleet
        /\ row'[o].fence = row[o].fence /\ resolved' = resolved
        /\ Len(attempts'[o]) = row[o].fence
        /\ DOMAIN attempts'[o] = 1..row[o].fence
        /\ attempts'[o][row[o].fence] = "indeterminate"
        /\ \A n \in 1..(row[o].fence - 1) : attempts'[o][n] = attempts[o][n]
    BY <1>1, <1>2, <1>3, <1>4, Zenon
  <2>1. Agrees(o)'
    BY ONLY <2>0 DEF Agrees
  <2>2. Reconciled(o)'
    <3>1. o \notin Replayable => row'[o].state = "indeterminate"
      BY <2>0 DEF next
    <3>2. o \in Ops
      BY <1>7 DEF Expired
    <3> QED
      BY ONLY <2>0, <3>1, <3>2, ReconciledLast
  <2>3. Spent(o)'
    <3>1. o \in Ops /\ row'[o].state # "claimed"
      BY <1>2, <1>3 DEF Expired, Open
    <3> QED
      BY <1>1, <1>2, <1>3, <3>1, Zenon DEF Spent
  <2> QED
    BY <2>1, <2>2, <2>3
<1>8. ASSUME NEW o \in Ops \ Expired PROVE Agrees(o)' /\ Reconciled(o)' /\ Spent(o)'
  BY <1>1, <1>8, Kept, Zenon DEF Ledger
<1> QED
  BY <1>5, <1>6, <1>7, <1>8 DEF Ledger

(* Lapse: only the lease elapses. *)
LEMMA LapsePreserves ==
  ASSUME Ledger, NEW o \in Ops, Lapse(o)
  PROVE  Ledger'
<1>1. /\ row[o] \in Rows /\ row \in [Ops -> Rows]
      /\ row' = [row EXCEPT ![o] = [row[o] EXCEPT !.lapsed = TRUE]]
      /\ UNCHANGED <<attempts, epoch, resolved, starts>>
  BY DEF Lapse, operators, Ledger, LedgerTyped
<1>2. [row[o] EXCEPT !.lapsed = TRUE] \in Rows
  BY <1>1, Zenon DEF Rows
<1>3. /\ row' \in [Ops -> Rows] /\ row'[o] = [row[o] EXCEPT !.lapsed = TRUE]
      /\ \A p \in Ops \ {o} : row'[p] = row[p]
  BY <1>1, <1>2
<1>4. ASSUME NEW p \in Ops
      PROVE  /\ row'[p].state = row[p].state /\ row'[p].fence = row[p].fence
             /\ row'[p].owner = row[p].owner /\ row'[p].active = row[p].active
             /\ row'[p].bound = row[p].bound
  BY <1>1, <1>3 DEF Rows
<1>5. LedgerTyped'
  BY <1>1, <1>3 DEF Ledger, LedgerTyped
<1>6. CompensationFenced'
  BY <1>4, SteadyFenced DEF Ledger, IsActive
<1>7. ASSUME NEW p \in Ops PROVE Agrees(p)' /\ Reconciled(p)' /\ Spent(p)'
  BY <1>1, <1>4, Kept DEF Ledger
<1> QED
  BY <1>5, <1>6, <1>7 DEF Ledger

(* An operator's update of an operation that is not open and, when done, not *)
(* being compensated: its attempts stay as they are.                       *)
LEMMA OperatorPreserves ==
  ASSUME Ledger, NEW o \in Ops, NEW r \in Rows, Accepts(o, r), row' = Updated(o, r),
         r.fence = row[o].fence, r.owner = row[o].owner,
         r.active = row[o].active, r.bound = row[o].bound,
         row[o].state \notin Open, r.state \notin Open,
         row[o].state \in Done => row[o].active = 0,
         attempts' = attempts, LedgerTyped', Reconciled(o)', Spent(o)',
         \A p \in Ops \ {o} : /\ epoch'[p] = epoch[p] /\ resolved'[p] = resolved[p]
                              /\ starts'[p] = starts[p]
  PROVE  Ledger'
<1>1. LedgerTyped /\ CompensationFenced /\ Agrees(o)
  BY DEF Ledger
<1>2. CompensationFenced'
  <2>1. row[o].active > 0 /\ row[o].state \in Done => r.state = row[o].state
                                                       /\ r.fence = row[o].fence
    <3>1. row[o].active \in Nat
      BY <1>1 DEF LedgerTyped, Rows
    <3> QED
      BY <3>1
  <2> QED
    BY <1>1, <2>1, UpdateFenced
<1>3. /\ row'[o].state = r.state /\ row'[o].fence = row[o].fence
      /\ row'[o].owner = row[o].owner
      /\ \A p \in Ops \ {o} :
            /\ row'[p].state = row[p].state /\ row'[p].fence = row[p].fence
            /\ row'[p].owner = row[p].owner
  <2>1. LedgerTyped /\ row' = Updated(o, r)
    BY <1>1
  <2> QED
    BY <2>1, UpdatedRows
<1>4. Agrees(o)'
  BY <1>1, <1>3 DEF Agrees
<1>5. ASSUME NEW p \in Ops \ {o} PROVE Agrees(p)' /\ Reconciled(p)' /\ Spent(p)'
  BY <1>3, <1>5, Kept DEF Ledger
<1> QED
  BY <1>2, <1>4, <1>5 DEF Ledger

(* Reset opens a new epoch behind the last attempt. *)
LEMMA ResetPreserves ==
  ASSUME Ledger, NEW o \in Ops, Reset(o)
  PROVE  Ledger' /\ \A p \in Ops : epoch[p] <= epoch'[p]
<1> DEFINE r == [row[o] EXCEPT !.state = "eligible", !.owner = NoFleet]
<1>1. /\ row[o].state \in Resettable /\ row[o].active = 0
      /\ Accepts(o, r) /\ row' = Updated(o, r)
      /\ epoch' = [epoch EXCEPT ![o] = row[o].fence]
      /\ starts' = [starts EXCEPT ![o] = 0]
      /\ UNCHANGED <<attempts, resolved>>
  BY DEF Reset
<1>2. /\ row[o] \in Rows /\ row[o].fence \in Nat /\ Agrees(o) /\ Reconciled(o) /\ Spent(o)
      /\ epoch[o] \in Nat
  BY RowFacts
<1>3. "eligible" \in States /\ "eligible" \notin Open /\ row[o].state \notin Open
      /\ row[o].state # "indeterminate"
  BY <1>1 DEF States, Claimable, Open, Resettable
<1>4. /\ r \in Rows /\ r.state = "eligible" /\ r.fence = row[o].fence /\ r.owner = NoFleet
      /\ r.active = row[o].active /\ r.bound = row[o].bound
  BY <1>2, <1>3, Zenon DEF Rows
<1>5. row[o].owner = NoFleet
  BY <1>2, <1>3 DEF Agrees
<1>6. LedgerTyped
  BY DEF Ledger
<1> HIDE DEF r
<1>7. row' \in [Ops -> Rows] /\ row'[o].state = "eligible" /\ row'[o].fence = row[o].fence
  BY <1>1, <1>4, <1>6, UpdatedRows
<1>8. LedgerTyped'
  BY <1>1, <1>2, <1>6, <1>7 DEF LedgerTyped
<1>9. /\ epoch'[o] = row[o].fence /\ starts'[o] = 0
      /\ \A p \in Ops \ {o} : epoch'[p] = epoch[p] /\ starts'[p] = starts[p]
  BY <1>1, <1>6 DEF LedgerTyped
<1>10. Reconciled(o)'
  BY <1>1, <1>2, <1>3, <1>7 DEF Reconciled
<1>11. Spent(o)'
  BY <1>2, <1>7, <1>9, OpsAssumption DEF Spent
<1>12. Ledger'
  BY <1>1, <1>3, <1>4, <1>5, <1>8, <1>9, <1>10, <1>11, OperatorPreserves
<1>13. ASSUME NEW p \in Ops PROVE epoch[p] <= epoch'[p]
  <2>1. epoch[p] \in Nat /\ epoch[o] <= row[o].fence
    BY <1>2, <1>6 DEF Spent, LedgerTyped
  <2> QED
    BY ONLY <1>9, <2>1, p \in Ops
<1> QED
  BY <1>12, <1>13

(* ResolveUnknown records the decision on the last attempt. *)
LEMMA ResolvePreserves ==
  ASSUME Ledger, NEW o \in Ops, NEW n \in Nat, NEW to \in {"succeeded", "eligible", "failed"},
         ResolveUnknown(o, n, to)
  PROVE  Ledger'
<1> DEFINE r == [row[o] EXCEPT !.state = to]
<1>1. /\ row[o].state = "indeterminate" /\ row[o].fence = n
      /\ Accepts(o, r) /\ row' = Updated(o, r)
      /\ resolved' = [resolved EXCEPT ![o] = @ \cup {n}]
      /\ UNCHANGED <<attempts, epoch, starts>>
  BY DEF ResolveUnknown, Decides
<1>2. /\ row[o] \in Rows /\ row[o].fence \in Nat /\ Agrees(o) /\ Reconciled(o) /\ Spent(o)
      /\ DOMAIN attempts[o] = 1..row[o].fence
  BY RowFacts
<1>3. to \in States /\ to \notin Open /\ row[o].state \notin Open /\ row[o].state \notin Done
  BY <1>1 DEF States, Claimable, Open, Done
<1>4. /\ r \in Rows /\ r.state = to /\ r.fence = row[o].fence /\ r.owner = row[o].owner
      /\ r.active = row[o].active /\ r.bound = row[o].bound
  BY <1>2, <1>3 DEF Rows
<1>5. LedgerTyped
  BY DEF Ledger
<1> HIDE DEF r
<1>6. row' \in [Ops -> Rows] /\ row'[o].state = to /\ row'[o].fence = row[o].fence
  BY <1>1, <1>4, <1>5, UpdatedRows
<1>7. /\ resolved'[o] = resolved[o] \cup {n}
      /\ \A p \in Ops \ {o} : resolved'[p] = resolved[p]
      /\ resolved' \in [Ops -> SUBSET Nat]
  BY <1>1, <1>5 DEF LedgerTyped
<1>8. LedgerTyped'
  BY <1>1, <1>5, <1>6, <1>7 DEF LedgerTyped
<1>9. Reconciled(o)'
  BY <1>1, <1>2, <1>6, <1>7 DEF Reconciled
<1>10. Spent(o)'
  BY <1>1, <1>2, <1>6 DEF Spent
<1> QED
  BY <1>1, <1>3, <1>4, <1>7, <1>8, <1>9, <1>10, OperatorPreserves

----------------------------------------------------------------------------
(* The steps of the fleets.                                                *)

(* The snapshot of ClaimNext counts retries since the last reset. *)
LEMMA SnapshotPreserves ==
  ASSUME Ledger, Loop, NEW f \in Fleets, Snapshot(f)
  PROVE  Loop'
<1> DEFINE sn == [o \in Ops |->
                    IF \A d \in DependsOn[o] : row[d].state \in Done
                    THEN [ready |-> TRUE, epoch |-> epoch[o],
                          exceptions |-> Cardinality(Retries(o))]
                    ELSE NotSeen]
<1>1. ASSUME NEW o \in Ops
      PROVE  epoch[o] \in Nat /\ Cardinality(Retries(o)) \in Nat
  <2>1. epoch[o] \in Nat /\ row[o].fence \in Nat
    BY RowFacts
  <2>2. Retries(o) \subseteq (epoch[o] + 1)..row[o].fence
    BY DEF Retries
  <2>3. IsFiniteSet(Retries(o))
    <3>1. epoch[o] + 1 \in Int /\ row[o].fence \in Int
      BY <2>1
    <3>2. IsFiniteSet((epoch[o] + 1)..row[o].fence)
      BY ONLY <3>1, FS_Interval
    <3> QED
      BY ONLY <2>2, <3>2, FS_Subset, Zenon
  <2> QED
    BY <2>1, <2>3, FS_CardinalityType
<1>2. ASSUME NEW o \in Ops PROVE sn[o] \in Seen /\ sn[o].epoch <= epoch[o]
  BY <1>1 DEF Seen, NotSeen
<1>3. sn \in [Ops -> Seen]
  BY <1>2
<1>4. Moves(f, "accepting", "snapped", sn, NoClaim) /\ UNCHANGED epoch
  BY DEF Snapshot, operators
<1> HIDE DEF sn
<1> QED
  BY <1>2, <1>3, <1>4, Moved

(* ClaimNext: the claim it returns carries the attempts of this epoch. *)
LEMMA ClaimNextPreserves ==
  ASSUME Ledger, Loop, Claim, NEW f \in Fleets, NEW o \in Ops, NEW reply \in BOOLEAN,
         ClaimNext(f, o, reply)
  PROVE  Ledger' /\ Loop' /\ Claim'
<1> DEFINE s == fleet[f].snap[o]
           r == [row[o] EXCEPT !.state = "claimed", !.owner = f,
                               !.fence = @ + 1, !.lapsed = FALSE]
           c == [fleet |-> f, op |-> o, fence |-> r.fence, phase |-> "accepted",
                 budget |-> [attempt |-> r.fence - s.epoch, exceptions |-> s.exceptions],
                 to |-> "claimed"]
<1>1. /\ UNCHANGED <<claims, starts, epoch, resolved>>
      /\ row[o].state \in Claimable
      /\ \/ /\ Accepts(o, r) /\ row' = Updated(o, r)
            /\ attempts' = [attempts EXCEPT ![o] = Append(@, "claimed")]
            /\ Moves(f, fleet[f].state, "admit", NoSnap, c) \/ Ends(f)
         \/ Ends(f) /\ UNCHANGED <<row, attempts>>
  BY DEF ClaimNext, Candidates, operators
<1>2. Claim'
  BY <1>1, ClaimsKept
<1>3. LedgerTyped
  BY DEF Ledger
<1>4. CASE Ends(f)
  <2>1. Loop'
    BY <1>1, <1>3, <1>4, Returned
  <2>2. Ledger'
    <3>1. CASE UNCHANGED <<row, attempts>>
      BY <1>1, <3>1, LedgerKept
    <3>2. CASE /\ Accepts(o, r) /\ row' = Updated(o, r)
               /\ attempts' = [attempts EXCEPT ![o] = Append(@, "claimed")]
      <4> HIDE DEF s, c
      <4> QED
        BY <1>1, <3>2, ClaimPreserves, Zenon
    <3> QED
      BY <1>1, <3>1, <3>2
  <2> QED
    BY <1>2, <2>1, <2>2
<1>5. CASE /\ Accepts(o, r) /\ row' = Updated(o, r)
           /\ attempts' = [attempts EXCEPT ![o] = Append(@, "claimed")]
           /\ Moves(f, fleet[f].state, "admit", NoSnap, c)
  <2>1. Ledger'
    <3> HIDE DEF s, c
    <3> QED
      BY <1>1, <1>5, ClaimPreserves, Zenon
  <2>2. fleet[f] \in Loops /\ fleet[f].state \in {"accepting", "closed"} /\ s \in Seen
        /\ s.epoch <= epoch[o] /\ s.epoch \in Nat /\ s.exceptions \in Nat
    BY DEF Loop, LoopOK, Loops, Seen
  <2>3. row[o] \in Rows /\ row[o].fence \in Nat /\ epoch[o] \in Nat
    BY RowFacts
  <2>4. r.fence = row[o].fence + 1
    BY <2>3 DEF Rows
  <2> HIDE DEF s, r
  <2>5. c \in Claims /\ c.phase = "accepted" /\ Budgeted(c)
    <3>1. r.fence - s.epoch \in Int /\ r.fence \in Nat /\ r.fence - s.epoch >= r.fence - epoch[o]
      BY <2>2, <2>3, <2>4
    <3>2. "claimed" \in States /\ "accepted" \in Phases
      BY DEF States, Open, Phases
    <3> QED
      BY <2>2, <3>1, <3>2 DEF Claims, Budgets, Budgeted
  <2>6. NoSnap \in [Ops -> Seen] /\ \A p \in Ops : NoSnap[p].epoch <= epoch[p]
    BY <1>3 DEF NoSnap, NotSeen, Seen, LedgerTyped
  <2> HIDE DEF c
  <2>7. Loop'
    BY <1>1, <1>5, <2>2, <2>5, <2>6, Moved
  <2> QED
    BY <1>2, <2>1, <2>7
<1> QED
  BY <1>1, <1>4, <1>5

(* admitClaim hands the claim over, settleUnadmittedClaim fails it. *)
LEMMA AdmitPreserves ==
  ASSUME Ledger, Loop, Claim, NEW f \in Fleets, Admit(f)
  PROVE  Ledger' /\ Loop' /\ Claim'
<1> DEFINE c == fleet[f].claim
<1>1. /\ c \in Claims /\ c.phase = "accepted" /\ Budgeted(c) /\ UNCHANGED <<starts, epoch, resolved>>
      /\ LedgerTyped
  BY DEF Admit, Loop, LoopOK, operators, Ledger
<1>2. Ends(f) \/ Polls(f)
  BY DEF Admit
<1>3. Loop'
  BY <1>1, <1>2, Returned
<1>4. CASE fleet[f].state = "accepting"
  <2>1. claims' = claims \cup {c} /\ UNCHANGED <<row, attempts>>
    BY <1>4 DEF Admit
  <2>2. Ledger'
    BY <1>1, <2>1, LedgerKept
  <2> QED
    BY <1>1, <1>3, <2>1, <2>2 DEF Claim, ClaimOK, Budgeted
<1>5. CASE fleet[f].state # "accepting"
  <2>1. Complete(c, "claimed", "failed") /\ claims' = claims
    BY <1>5 DEF Admit
  <2>2. Claim'
    BY <1>1, <2>1, ClaimsKept
  <2>3. "claimed" \in Open /\ "failed" \in States \ Open
    BY DEF States, Open
  <2>4. Ledger'
    BY <1>1, <2>1, <2>3, CompletePreserves
  <2> QED
    BY <1>3, <2>2, <2>4
<1> QED
  BY <1>4, <1>5

(* A claim that goes on is still sound. *)
LEMMA ClaimBecomes ==
  ASSUME Claim, NEW c \in claims, NEW d, Becomes(c, d), ClaimOK(d), UNCHANGED epoch
  PROVE  Claim'
BY DEF Claim, ClaimOK, Budgeted, Becomes

(* A claim that returns is gone, or waits in results. *)
LEMMA ClaimReturns ==
  ASSUME Claim, NEW c \in claims, NEW ok, Returns(c, ok), UNCHANGED epoch
  PROVE  Claim'
<1> DEFINE d == [c EXCEPT !.phase = "reported", !.to = "failed"]
<1>1. CASE claims' = claims \ {c}
  BY <1>1, ClaimsKept
<1>2. CASE Becomes(c, d)
  <2>1. c \in Claims /\ Budgeted(c)
    BY DEF Claim, ClaimOK
  <2>2. "failed" \in States \ Open
    BY DEF States, Open
  <2>3. ClaimOK(d)
    BY <2>1, <2>2, Zenon DEF ClaimOK, Claims, Phases, Budgeted
  <2> HIDE DEF d
  <2> QED
    BY <1>2, <2>3, ClaimBecomes
<1> QED
  BY <1>1, <1>2 DEF Returns

(* Exhausted and Finish: a settled claim has returned. *)
LEMMA SettlePreserves ==
  ASSUME Ledger, Loop, Claim, NEW c \in claims, NEW from \in Open,
         NEW to \in States \ Open, Complete(c, from, to), NEW ok, Returns(c, ok),
         UNCHANGED <<fleet, starts, epoch, resolved>>
  PROVE  Ledger' /\ Loop' /\ Claim'
<1>1. c \in Claims
  BY DEF Claim, ClaimOK
<1>2. Ledger'
  BY <1>1, CompletePreserves
<1>3. Loop'
  BY LoopKept
<1>4. Claim'
  BY ClaimReturns
<1> QED
  BY <1>2, <1>3, <1>4

(* MarkRunning starts the handler, or the claim returns an error. *)
LEMMA MarkRunningPreserves ==
  ASSUME Ledger, Loop, Claim, NEW c \in claims, NEW reply \in BOOLEAN,
         MarkRunning(c, reply)
  PROVE  Ledger' /\ Loop' /\ Claim'
<1>1. /\ c \in Claims /\ c.fleet \in Fleets /\ Budgeted(c) /\ WithinBudget(c)
      /\ UNCHANGED <<epoch, resolved>> /\ c.phase = "accepted"
  BY DEF Claim, ClaimOK, Claims, MarkRunning, operators
<1>2. CASE Owns(c, "claimed")
  <2>1. /\ row' = [row EXCEPT ![c.op].state = "running"]
        /\ attempts' = [attempts EXCEPT ![c.op][c.fence] = "running"]
    BY <1>2 DEF MarkRunning
  <2>2. CASE reply
    <3>1. /\ Becomes(c, [c EXCEPT !.phase = "executing"]) /\ UNCHANGED fleet
          /\ starts' = [starts EXCEPT ![c.op] = @ + 1]
      BY <1>2, <2>2 DEF MarkRunning
    <3>2. Ledger'
      BY <1>1, <1>2, <2>1, <3>1, RunningPreserves, Zenon
    <3>3. ClaimOK([c EXCEPT !.phase = "executing"])
      BY <1>1 DEF ClaimOK, Claims, Phases, Budgeted
    <3>4. Claim'
      BY <1>1, <3>1, <3>3, ClaimBecomes
    <3> QED
      BY <1>1, <3>1, <3>2, <3>4, LoopKept
  <2>3. CASE ~reply
    <3>1. Returns(c, FALSE) /\ UNCHANGED fleet /\ starts' = starts
      BY <1>2, <2>3 DEF MarkRunning
    <3>2. Ledger'
      BY <1>1, <1>2, <2>1, <3>1, RunningPreserves, Zenon
    <3> QED
      BY <1>1, <3>1, <3>2, LoopKept, ClaimReturns
  <2> QED
    BY <2>2, <2>3
<1>3. CASE ~Owns(c, "claimed")
  <2>1. UNCHANGED <<row, attempts, starts, fleet>> /\ Returns(c, FALSE)
    BY <1>3 DEF MarkRunning
  <2> QED
    BY <1>1, <2>1, LedgerKept, LoopKept, ClaimReturns
<1> QED
  BY <1>2, <1>3 DEF Owns

(* Return: the outcome a handler's result is classified as. *)
LEMMA ReturnPreserves ==
  ASSUME Ledger, Loop, Claim, NEW c \in claims, NEW result \in Results, Return(c, result)
  PROVE  Ledger' /\ Loop' /\ Claim'
<1> DEFINE d == [c EXCEPT !.phase = "completing", !.to = Classified(c, result)]
<1>1. Becomes(c, d) /\ UNCHANGED <<row, attempts, fleet, starts, epoch, resolved>>
  BY DEF Return, operators
<1>2. Classified(c, result) \in States \ Open
  <2>1. result \in {"succeeded", "skipped", "failed", "retryable", "indeterminate"}
    BY OpsAssumption
  <2> QED
    BY <2>1 DEF Classified, States, Open, Done, Claimable
<1>3. ClaimOK(d)
  <2>1. c \in Claims /\ Budgeted(c)
    BY DEF Claim, ClaimOK
  <2> QED
    BY <1>2, <2>1, Zenon DEF ClaimOK, Claims, Phases, Budgeted
<1> HIDE DEF d
<1> QED
  BY <1>1, <1>3, LedgerKept, LoopKept, ClaimBecomes

(* Restart leaves what the dead process had sent. *)
LEMMA RestartPreserves ==
  ASSUME Ledger, Loop, Claim, NEW f \in Fleets, Restart(f)
  PROVE  Ledger' /\ Loop' /\ Claim'
<1>1. Polls(f) /\ UNCHANGED <<row, attempts, starts, epoch, resolved>> /\ LedgerTyped
  BY DEF Restart, operators, Ledger
<1>2. ASSUME NEW d \in claims' PROVE ClaimOK(d)
  <2>1. CASE d \in claims
    BY <2>1 DEF Claim
  <2>2. CASE d \notin claims
    <3>1. PICK c \in Busy(f) : c.phase = "completing" /\ d = [c EXCEPT !.phase = "orphan"]
      BY <2>2 DEF Restart
    <3>2. ClaimOK(c)
      BY DEF Busy, Claim
    <3> QED
      BY <3>1, <3>2 DEF ClaimOK, Claims, Phases, Budgeted
  <2> QED
    BY <2>1, <2>2
<1>3. Claim'
  BY <1>1, <1>2 DEF Claim, ClaimOK, Budgeted
<1> QED
  BY <1>1, <1>3, LedgerKept, Returned

(* A later epoch leaves snapshots and claims sound. *)
LEMMA EpochGrows ==
  ASSUME LedgerTyped, LedgerTyped', Loop, Claim, UNCHANGED <<fleet, claims>>,
         \A o \in Ops : epoch[o] <= epoch'[o]
  PROVE  Loop' /\ Claim'
<1>1. \A o \in Ops : epoch[o] \in Nat /\ epoch'[o] \in Nat
  BY DEF LedgerTyped
<1>2. ASSUME NEW c \in Claims, Budgeted(c) PROVE Budgeted(c)'
  BY <1>1, <1>2 DEF Claims, Budgets, Budgeted
<1>3. ASSUME NEW f \in Fleets PROVE LoopOK(f)'
  <2>1. LoopOK(f) /\ \A o \in Ops : fleet[f].snap[o].epoch \in Nat
    BY DEF Loop, Loops, Seen
  <2>2. \A o \in Ops : fleet'[f].snap[o].epoch <= epoch'[o]
    BY <1>1, <2>1 DEF LoopOK
  <2> QED
    BY <1>2, <2>1, <2>2 DEF LoopOK, Budgeted
<1>4. Claim'
  BY <1>2 DEF Claim, ClaimOK, Budgeted
<1> QED
  BY <1>3, <1>4 DEF Loop

----------------------------------------------------------------------------
(* The theorems.                                                           *)

(* Init gives the inductive invariant. *)
LEMMA InitInductive == Init => Inductive
<1> SUFFICES ASSUME Init PROVE Ledger /\ Loop /\ Claim
  BY Parts
<1>1. LedgerTyped
  BY DEF Init, LedgerTyped, Rows, States, Claimable
<1>2. \A o \in Ops : ~IsActive(o, row[o])
  BY DEF Init, IsActive, Open
<1>3. CompensationFenced
  <2>1. \A o \in Ops : InProgress(o) = {} /\ row[o].active = 0
    BY <1>2, Zenon DEF InProgress, Init
  <2> QED
    BY <1>2, <2>1, FS_EmptySet DEF CompensationFenced, InProgress
<1>4. \A o \in Ops : Agrees(o) /\ Reconciled(o) /\ Spent(o)
  BY OpsAssumption DEF Init, Agrees, Reconciled, Spent, Open
<1>5. Loop
  <2>1. NoSnap \in [Ops -> Seen] /\ \A o \in Ops : NoSnap[o].epoch = 0
    BY DEF NoSnap, NotSeen, Seen
  <2>2. Running \in Loops
    BY <2>1 DEF Running, Loops
  <2> QED
    BY <2>1, <2>2 DEF Init, Loop, LoopOK, Running
<1>6. Claim
  BY DEF Init, Claim
<1> QED
  BY <1>1, <1>3, <1>4, <1>5, <1>6 DEF Ledger

(* Every step keeps it. *)
LEMMA NextInductive == Inductive /\ [Next]_vars => Inductive'
<1> SUFFICES ASSUME Ledger, Loop, Claim, [Next]_vars PROVE Ledger' /\ Loop' /\ Claim'
  BY Parts
<1>0. LedgerTyped
  BY DEF Ledger
<1>1. ASSUME NEW f \in Fleets, Snapshot(f) PROVE Ledger' /\ Loop' /\ Claim'
  <2>1. UNCHANGED <<row, attempts, claims, starts, epoch, resolved>>
    BY <1>1 DEF Snapshot, operators
  <2> QED
    BY <1>1, <2>1, LedgerKept, ClaimsKept, SnapshotPreserves
<1>2. ASSUME NEW f \in Fleets, NoneEligible(f) \/ Drain(f) PROVE Ledger' /\ Loop' /\ Claim'
  <2>1. /\ UNCHANGED <<row, attempts, starts, epoch, resolved>> /\ claims' \subseteq claims
        /\ Moves(f, fleet[f].state, "poll", NoSnap, NoClaim) \/ Ends(f)
    BY <1>2 DEF NoneEligible, Drain, operators
  <2> QED
    BY <1>0, <2>1, LedgerKept, ClaimsKept, Returned
<1>3. ASSUME NEW f \in Fleets, Admit(f) PROVE Ledger' /\ Loop' /\ Claim'
  BY <1>3, AdmitPreserves
<1>4. ASSUME NEW f \in Fleets, RecoverExpired(f) PROVE Ledger' /\ Loop' /\ Claim'
  <2>1. UNCHANGED <<fleet, claims, epoch>>
    BY <1>4, Zenon DEF RecoverExpired, operators
  <2> QED
    BY <1>4, <2>1, RecoverPreserves, LoopKept, ClaimsKept
<1>5. ASSUME NEW f \in Fleets, Restart(f) PROVE Ledger' /\ Loop' /\ Claim'
  BY <1>5, RestartPreserves
<1>6. ASSUME NEW f \in Fleets, NEW o \in Ops, NEW reply \in BOOLEAN, ClaimNext(f, o, reply)
      PROVE  Ledger' /\ Loop' /\ Claim'
  BY <1>6, ClaimNextPreserves
<1>7. ASSUME NEW c \in claims, Exhausted(c) PROVE Ledger' /\ Loop' /\ Claim'
  <2>1. /\ Complete(c, "claimed", "failed") /\ Returns(c, Proves(c, "claimed", "failed"))
        /\ UNCHANGED <<fleet, starts, epoch, resolved>>
    BY <1>7 DEF Exhausted, operators
  <2>2. "claimed" \in Open /\ "failed" \in States \ Open
    BY DEF States, Open
  <2> QED
    BY <2>1, <2>2, SettlePreserves
<1>8. ASSUME NEW c \in claims, RenewalFails(c) \/ Vanish(c) PROVE Ledger' /\ Loop' /\ Claim'
  <2>1. /\ UNCHANGED <<row, attempts, starts, epoch, resolved>>
        /\ Returns(c, FALSE) \/ claims' = claims \ {c}
        /\ Closes(c.fleet) \/ UNCHANGED fleet
    BY <1>8 DEF RenewalFails, Vanish, operators
  <2>2. c.fleet \in Fleets
    BY DEF Claim, ClaimOK, Claims
  <2> QED
    BY <2>1, <2>2, LedgerKept, ClaimsKept, ClaimReturns, Closed, LoopKept
<1>9. ASSUME NEW c \in claims, NEW reply \in BOOLEAN, MarkRunning(c, reply)
      PROVE  Ledger' /\ Loop' /\ Claim'
  BY <1>9, MarkRunningPreserves
<1>10. ASSUME NEW c \in claims, NEW reply \in BOOLEAN, Finish(c, reply)
       PROVE  Ledger' /\ Loop' /\ Claim'
  <2>1. /\ Complete(c, "running", c.to)
        /\ Returns(c, c.phase = "orphan" \/ (reply /\ Proves(c, "running", c.to)))
        /\ UNCHANGED <<fleet, starts, epoch, resolved>>
        /\ c.phase \in {"completing", "orphan"}
    BY <1>10 DEF Finish, operators
  <2>2. "running" \in Open /\ c.to \in States \ Open
    BY <2>1 DEF Claim, ClaimOK, Claims, Open
  <2> QED
    BY <2>1, <2>2, SettlePreserves
<1>11. ASSUME NEW c \in claims, NEW result \in Results, Return(c, result)
       PROVE  Ledger' /\ Loop' /\ Claim'
  BY <1>11, ReturnPreserves
<1>12. ASSUME NEW o \in Ops, Lapse(o) PROVE Ledger' /\ Loop' /\ Claim'
  <2>1. UNCHANGED <<fleet, claims, epoch>>
    BY <1>12 DEF Lapse, operators
  <2> QED
    BY <1>12, <2>1, LapsePreserves, LoopKept, ClaimsKept
<1>13. ASSUME NEW o \in Ops, Reset(o) PROVE Ledger' /\ Loop' /\ Claim'
  <2>1. Ledger' /\ \A p \in Ops : epoch[p] <= epoch'[p]
    BY <1>13, ResetPreserves
  <2>2. LedgerTyped' /\ UNCHANGED <<fleet, claims>>
    BY <1>13, <2>1 DEF Ledger, Reset
  <2> QED
    BY <1>0, <2>1, <2>2, EpochGrows
<1>14. ASSUME NEW o \in Ops, NEW n \in 1..MaxFence,
              NEW to \in {"succeeded", "eligible", "failed"}, ResolveUnknown(o, n, to)
       PROVE  Ledger' /\ Loop' /\ Claim'
  <2>1. UNCHANGED <<fleet, claims, epoch>> /\ n \in Nat
    BY <1>14 DEF ResolveUnknown
  <2> QED
    BY <1>14, <2>1, ResolvePreserves, LoopKept, ClaimsKept
<1>15. CASE UNCHANGED vars
  BY <1>15, LedgerKept, LoopKept, ClaimsKept DEF vars
<1> QED
  BY <1>1, <1>2, <1>3, <1>4, <1>5, <1>6, <1>7, <1>8, <1>9, <1>10, <1>11, <1>12, <1>13,
     <1>14, <1>15 DEF Next

(* The inductive invariant holds in every behaviour of the ledger and its   *)
(* fleets, whatever crashes, lost replies and operators do.                *)
THEOREM SequencerInvariant == Spec => []Inductive
BY InitInductive, NextInductive, PTL DEF Spec

(* While a compensation is in progress, its forward operation stays done in *)
(* the generation it was bound to, and counts it.                          *)
THEOREM SequencerCompensation == Spec => []CompensationFenced
<1>1. Inductive => CompensationFenced
  BY DEF Inductive
<1> QED
  BY <1>1, SequencerInvariant, PTL

(* No attempt follows one of unknown outcome without the replay policy or an *)
(* operator's decision on that attempt.                                    *)
THEOREM SequencerReplay == Spec => []NoBlindReplay
<1>1. Inductive => NoBlindReplay
  BY DEF Inductive
<1> QED
  BY <1>1, SequencerInvariant, PTL

(* Operation rows and attempt rows agree, for any number of attempts. *)
THEOREM SequencerLedger == Spec => []LedgerAgrees
<1>1. Inductive => LedgerAgrees
  BY DEF Inductive
<1> QED
  BY <1>1, SequencerInvariant, PTL

(* A replay epoch starts at most MaxAttempts handlers, although ClaimNext   *)
(* reads the budget on an older snapshot.                                  *)
THEOREM SequencerBudget == Spec => []AttemptBudget
<1>1. Inductive => AttemptBudget
  BY DEF Inductive
<1> QED
  BY <1>1, SequencerInvariant, PTL
=============================================================================
