------------------------- MODULE IdempotencyProofs -------------------------
(***************************************************************************)
(* Proofs about Idempotency for any callers, fingerprints, tokens and       *)
(* number of retention periods: the inductive invariant, the agreement of   *)
(* the answers, the effects committed with a completion, and the           *)
(* implementation of OncePerKey.                                           *)
(***************************************************************************)
EXTENDS Idempotency, TLAPS

(* Each action preserves each part of the invariant it can disturb.  What a  *)
(* step leaves alone is summed up once. *)
LEMMA Quiet ==
  ASSUME Inductive, UNCHANGED <<rec, txn, gen, elected, settled>>,
         TypeOK', ProofsGenuine'
  PROVE  Inductive'
BY DEF Inductive, AttemptsUnique, RecordIsNewest, TxnHolds, ResultsExact

(* Init gives the inductive invariant. *)
LEMMA InitInductive == Init => Inductive
<1> SUFFICES ASSUME Init PROVE Inductive
  OBVIOUS
<1>1. TypeOK
  BY CallersAssumption, TokensAssumption, Zenon
     DEF Init, TypeOK, NoRecord, NoProof, Records, Proofs, States, Active, Terminal
<1>2. AttemptsUnique /\ RecordIsNewest
  BY DEF Init, AttemptsUnique, RecordIsNewest, NoRecord
<1>3. ProofsGenuine /\ TxnHolds /\ ResultsExact
  BY TokensAssumption
     DEF Init, ProofsGenuine, TxnHolds, ResultsExact, NoRecord, Terminal
<1> QED
  BY <1>1, <1>2, <1>3 DEF Inductive

(* Acquire elects one fresh attempt with the next fence of the generation. *)
LEMMA AcquirePreserves ==
  ASSUME Inductive, NEW c \in Callers, NEW t \in Tokens, NEW reply \in BOOLEAN,
         Acquire(c, t, reply)
  PROVE  Inductive'
<1> DEFINE pr == IF rec.state = "missing" THEN PrintOf[c] ELSE rec.print
           e  == [gen |-> gen, print |-> pr, owner |-> t, fence |-> rec.fence + 1]
<1>1. /\ pr \in Prints /\ rec.fence \in Nat /\ gen \in Nat
      /\ elected \subseteq Attempts /\ settled \subseteq Results
  BY CallersAssumption DEF Inductive, TypeOK, Records
<1>2. /\ elected' = elected \cup {e} /\ \A f \in elected : f.owner # t
      /\ rec' = [state |-> "acquired", owner |-> t, fence |-> rec.fence + 1,
                 print |-> pr, result |-> NoToken]
      /\ UNCHANGED <<txn, calls, gen, settled, answers, envelopes>>
      /\ txn = NoToken
  BY DEF Acquire, NextFence, Unlocked
<1> HIDE DEF pr
<1>3. e \in Attempts
  BY <1>1 DEF Attempts
<1>4. TypeOK'
  <2>1. rec' \in Records
    BY <1>1, <1>2 DEF Records, States, Active
  <2>2. pc' \in [Callers -> {"idle", "working", "ending"}]
    BY DEF Inductive, TypeOK, Acquire, NextFence
  <2>3. proof' \in [Callers -> Proofs]
    BY <1>1 DEF Inductive, TypeOK, Acquire, NextFence, Proofs, NoProof
  <2>4. lapsed' \in BOOLEAN
    BY Zenon DEF Acquire
  <2> QED
    BY <1>1, <1>2, <1>3, <2>1, <2>2, <2>3, <2>4 DEF Inductive, TypeOK
<1>5. \A f \in elected : f.gen = gen => f.fence <= rec.fence /\ f.print = pr
  BY <1>1 DEF Inductive, RecordIsNewest, Attempts, pr
<1>6. AttemptsUnique'
  BY <1>1, <1>2, <1>5 DEF Inductive, AttemptsUnique, Attempts
<1>7. RecordIsNewest'
  BY <1>1, <1>2, <1>5 DEF Inductive, RecordIsNewest, Attempts
<1>8. ProofsGenuine'
  <2>1. \A f \in elected : f \in elected'
    BY <1>2
  <2>2. ASSUME NEW d \in Callers, pc'[d] # "idle"
        PROVE  \E f \in elected' : f.owner = proof'[d].owner /\ f.fence = proof'[d].fence
    <3>1. CASE d = c
      <4>0. /\ pc' = [pc EXCEPT ![c] = IF reply THEN "working" ELSE "idle"]
            /\ proof' = [proof EXCEPT ![c] = IF reply
                  THEN [owner |-> t, fence |-> rec.fence + 1] ELSE NoProof]
            /\ c \in DOMAIN pc /\ c \in DOMAIN proof
        BY DEF Inductive, TypeOK, Acquire, NextFence
      <4>1. proof'[d] = [owner |-> t, fence |-> rec.fence + 1]
        <5>1. CASE reply
          BY <3>1, <4>0, <5>1
        <5>2. CASE ~reply
          BY <2>2, <3>1, <4>0, <5>2
        <5> QED
          BY <5>1, <5>2
      <4>2. e \in elected' /\ e.owner = t /\ e.fence = rec.fence + 1
        BY <1>2
      <4> QED
        BY <4>1, <4>2
    <3>2. CASE d # c
      <4>1. pc'[d] = pc[d] /\ proof'[d] = proof[d]
        BY <3>2 DEF Inductive, TypeOK, Acquire
      <4> QED
        BY <2>1, <2>2, <4>1 DEF Inductive, ProofsGenuine
    <3> QED
      BY <3>1, <3>2
  <2>3. \A call \in calls' : \E f \in elected' :
           f.owner = call.owner /\ f.fence = call.fence
    BY <1>2, <2>1 DEF Inductive, ProofsGenuine
  <2> QED
    BY <2>2, <2>3 DEF ProofsGenuine
<1>9. TxnHolds'
  BY <1>2 DEF TxnHolds
<1>10. ResultsExact'
  <2>1. rec.state \notin Terminal
    BY DEF Acquire, Acquirable, Terminal, Active
  <2>2. \A s \in settled : s.gen # gen
    BY <2>1 DEF Inductive, TypeOK, ResultsExact, Results
  <2> QED
    BY <1>1, <1>2, <2>2 DEF Inductive, ResultsExact, Terminal
<1> QED
  BY <1>4, <1>6, <1>7, <1>8, <1>9, <1>10 DEF Inductive

(* The attempt that holds the active record settles or abandons it: the     *)
(* generation had no result, and the result recorded is of its own attempt. *)
LEMMA SettlePreserves ==
  ASSUME Inductive, NEW kind \in Kinds, NEW o \in Tokens,
         rec.state \in Active, rec.owner = o,
         rec' = Settled(kind, o), settled' = settled \cup Recorded(kind, o),
         txn' = NoToken, UNCHANGED <<gen, elected>>, TypeOK', ProofsGenuine'
  PROVE  Inductive'
<1>1. /\ rec \in Records /\ gen \in Nat /\ elected \subseteq Attempts
      /\ settled \subseteq Results
  BY DEF Inductive, TypeOK
<1>2. /\ rec'.state = kind /\ rec'.owner = o /\ rec'.fence = rec.fence
      /\ rec'.print = rec.print /\ (kind \in Terminal => rec'.result = o)
  BY <1>1 DEF Settled, Records
<1>3. rec.state # "missing" /\ rec'.state # "missing" /\ rec.state \notin Terminal
  BY <1>2 DEF Active, Kinds, Terminal
<1>4. AttemptsUnique' /\ RecordIsNewest'
  BY <1>2, <1>3 DEF Inductive, AttemptsUnique, RecordIsNewest
<1>5. TxnHolds'
  BY DEF TxnHolds
<1>6. ResultsExact'
  <2>1. \A s \in settled : s.gen # gen
    BY <1>3 DEF Inductive, TypeOK, ResultsExact, Results
  <2>2. [gen |-> gen, print |-> rec.print, owner |-> rec.owner,
         fence |-> rec.fence] \in elected
    BY <1>3 DEF Inductive, RecordIsNewest
  <2>3. \E e \in elected : e.owner = o /\ e.gen = gen /\ e.print = rec.print
    BY <2>2
  <2>4. CASE kind \in Terminal
    <3> DEFINE r == [gen |-> gen, print |-> rec.print, state |-> kind, by |-> o]
    <3>1. settled' = settled \cup {r}
      BY <2>4 DEF Recorded
    <3> QED
      BY <1>1, <1>2, <2>1, <2>3, <2>4, <3>1 DEF Inductive, ResultsExact
  <2>5. CASE kind \notin Terminal
    <3>1. settled' = settled
      BY <2>5 DEF Recorded
    <3> QED
      BY <1>2, <2>1, <2>5, <3>1 DEF Inductive, ResultsExact
  <2> QED
    BY <2>4, <2>5
<1> QED
  BY <1>4, <1>5, <1>6 DEF Inductive

(* A terminal call that reaches the store settles the record of the attempt *)
(* it belongs to, or nothing.                                              *)
LEMMA LandPreserves ==
  ASSUME Inductive, NEW call \in calls, NEW reply \in BOOLEAN, Land(call, reply)
  PROVE  Inductive'
<1> DEFINE told == IF reply THEN Waiting(call.owner) ELSE {}
<1>1. /\ call \in Calls /\ call.kind \in Kinds /\ call.owner \in Tokens
      /\ rec \in Records /\ gen \in Nat /\ txn = NoToken
  BY DEF Inductive, TypeOK, Calls, Land, Unlocked
<1>2. /\ calls' = calls \ {call} /\ UNCHANGED <<lapsed, txn, gen, elected, envelopes>>
      /\ pc' = [c \in Callers |-> IF c \in told THEN "idle" ELSE pc[c]]
      /\ proof' = [c \in Callers |-> IF c \in told THEN NoProof ELSE proof[c]]
  BY DEF Land
<1> HIDE DEF told
<1>3. ProofsGenuine'
  BY <1>2 DEF Inductive, TypeOK, ProofsGenuine
<1>4. /\ pc' \in [Callers -> {"idle", "working", "ending"}]
      /\ proof' \in [Callers -> Proofs] /\ calls' \subseteq Calls
  BY <1>2 DEF Inductive, TypeOK, Proofs, NoProof
<1>5. CASE Current(call)
  <2>1. /\ rec' = Settled(call.kind, call.owner)
        /\ settled' = settled \cup Recorded(call.kind, call.owner)
        /\ answers' \subseteq answers \cup Recorded(call.kind, call.owner)
    BY <1>5 DEF Land
  <2>2. rec' \in Records
    BY <1>1, <2>1, Zenon DEF Settled, Records, Kinds, States
  <2>3. Recorded(call.kind, call.owner) \subseteq Results
    BY <1>1 DEF Recorded, Results, Records
  <2>4. TypeOK'
    BY <1>2, <1>4, <2>1, <2>2, <2>3 DEF Inductive, TypeOK
  <2>5. rec.state \in Active /\ rec.owner = call.owner
    BY <1>5 DEF Current
  <2> QED
    BY <1>1, <1>2, <1>3, <2>1, <2>4, <2>5, SettlePreserves
<1>6. CASE ~Current(call)
  <2>1. rec' = rec /\ settled' = settled /\ answers' = answers
    BY <1>6 DEF Land
  <2>2. TypeOK'
    BY <1>2, <1>4, <2>1 DEF Inductive, TypeOK
  <2> QED
    BY <1>2, <1>3, <2>1, <2>2, Quiet
<1> QED
  BY <1>5, <1>6

(* The commit of an open transaction settles the record it has held. *)
LEMMA CommitTxPreserves ==
  ASSUME Inductive, NEW c \in Callers, NEW reply \in BOOLEAN, CommitTx(c, reply)
  PROVE  Inductive'
<1>1. /\ txn \in Tokens /\ rec \in Records /\ gen \in Nat
      /\ rec.state \in Active /\ rec.owner = txn
  BY DEF Inductive, TypeOK, CommitTx, TxnHolds
<1>2. /\ rec' = Settled("completed", txn)
      /\ settled' = settled \cup Recorded("completed", txn)
      /\ envelopes' = envelopes \cup Recorded("completed", txn)
      /\ answers' \subseteq answers \cup Recorded("completed", txn)
      /\ txn' = NoToken /\ UNCHANGED <<lapsed, calls, gen, elected>>
  BY DEF CommitTx
<1>3. "completed" \in Kinds
  BY DEF Kinds, Terminal
<1>4. TypeOK'
  <2>1. rec' \in Records
    BY <1>1, <1>2, <1>3, Zenon DEF Settled, Records, Kinds, States
  <2>2. Recorded("completed", txn) \subseteq Results
    BY <1>1 DEF Recorded, Results, Records
  <2>3. /\ pc' \in [Callers -> {"idle", "working", "ending"}]
        /\ proof' \in [Callers -> Proofs]
    BY DEF Inductive, TypeOK, CommitTx, Proofs, NoProof
  <2> QED
    BY <1>2, <2>1, <2>2, <2>3 DEF Inductive, TypeOK
<1>5. ProofsGenuine'
  BY DEF Inductive, TypeOK, ProofsGenuine, CommitTx
<1> QED
  BY <1>1, <1>2, <1>3, <1>4, <1>5, SettlePreserves

(* A heartbeat or an expiry changes the state of the active record only. *)
LEMMA MarkPreserves ==
  ASSUME Inductive, rec.state \in Active, NEW st \in {"running", "expired"},
         rec' = [rec EXCEPT !.state = st], st = "expired" => txn = NoToken,
         UNCHANGED <<lapsed, txn, pc, proof, calls, gen, elected, settled, answers,
                     envelopes>>
  PROVE  Inductive'
<1>1. /\ rec \in Records /\ rec' \in Records /\ gen \in Nat
      /\ settled \subseteq Results
  BY DEF Inductive, TypeOK, Records, States, Active
<1>2. /\ rec'.state = st /\ rec'.owner = rec.owner /\ rec'.fence = rec.fence
      /\ rec'.print = rec.print /\ rec'.result = rec.result
  BY <1>1 DEF Records
<1>3. rec.state # "missing" /\ rec'.state # "missing"
      /\ rec.state \notin Terminal /\ rec'.state \notin Terminal
  BY <1>2 DEF Active, Terminal
<1>4. TypeOK' /\ ProofsGenuine'
  BY <1>1 DEF Inductive, TypeOK, ProofsGenuine
<1>5. AttemptsUnique' /\ RecordIsNewest'
  BY <1>2, <1>3 DEF Inductive, AttemptsUnique, RecordIsNewest
<1>6. TxnHolds'
  BY <1>2 DEF Inductive, TxnHolds, Active
<1>7. ResultsExact'
  <2>1. \A s \in settled : s.gen # gen
    BY <1>3 DEF Inductive, TypeOK, ResultsExact, Results
  <2> QED
    BY <1>3, <2>1 DEF Inductive, ResultsExact
<1> QED
  BY <1>4, <1>5, <1>6, <1>7 DEF Inductive

(* Deleting the record opens a generation without attempts or results. *)
LEMMA CleanupPreserves ==
  ASSUME Inductive, Cleanup
  PROVE  Inductive'
<1>1. /\ rec' = NoRecord /\ lapsed' = FALSE /\ gen' = gen + 1 /\ gen \in Nat
      /\ UNCHANGED <<txn, pc, proof, calls, elected, settled, answers, envelopes>>
      /\ txn = NoToken /\ elected \subseteq Attempts /\ settled \subseteq Results
  BY DEF Inductive, TypeOK, Cleanup, Unlocked
<1>2. NoRecord \in Records
  BY CallersAssumption DEF NoRecord, Records, States
<1>3. TypeOK'
  <2>1. lapsed' \in BOOLEAN
    BY <1>1, Zenon
  <2>2. rec' \in Records
    BY <1>1, <1>2
  <2>3. gen' \in Nat
    BY <1>1
  <2> QED
    BY <1>1, <2>1, <2>2, <2>3 DEF Inductive, TypeOK
<1>4. AttemptsUnique' /\ ProofsGenuine' /\ TxnHolds'
  BY <1>1 DEF Inductive, AttemptsUnique, ProofsGenuine, TxnHolds
<1>5. RecordIsNewest'
  BY <1>1 DEF Inductive, RecordIsNewest, NoRecord, Attempts
<1>6. ResultsExact'
  BY <1>1 DEF Inductive, ResultsExact, NoRecord, Results, Terminal
<1> QED
  BY <1>3, <1>4, <1>5, <1>6 DEF Inductive

(* Every step preserves the inductive invariant. *)
LEMMA NextInductive ==
  ASSUME Inductive, [Next]_vars
  PROVE  Inductive'
<1>1. CASE UNCHANGED vars
  <2>1. TypeOK' /\ ProofsGenuine'
    BY <1>1 DEF Inductive, TypeOK, ProofsGenuine, vars
  <2> QED
    BY <1>1, <2>1, Quiet DEF vars
<1>2. ASSUME NEW c \in Callers, Replay(c) PROVE Inductive'
  <2>1. Outcome(c) \in settled
    BY <1>2 DEF Inductive, ResultsExact, Replay, Matches, Outcome, Terminal
  <2>2. TypeOK' /\ ProofsGenuine'
    BY <1>2, <2>1 DEF Inductive, TypeOK, ProofsGenuine, Replay
  <2> QED
    BY <1>2, <2>2, Quiet DEF Replay
<1>3. ASSUME NEW c \in Callers, Heartbeat(c) PROVE Inductive'
  <2>1. /\ rec.state \in Active /\ rec' = [rec EXCEPT !.state = "running"]
        /\ UNCHANGED <<lapsed, txn, pc, proof, calls, gen, elected, settled, answers,
                       envelopes>>
    BY <1>3 DEF Heartbeat, Current, history
  <2>2. "running" \in {"running", "expired"} /\ ("running" = "expired" => txn = NoToken)
    OBVIOUS
  <2> QED
    BY <2>1, <2>2, MarkPreserves
<1>4. ASSUME NEW c \in Callers, GiveUp(c) PROVE Inductive'
  <2>1. txn' \in {txn, NoToken}
    BY <1>4 DEF GiveUp
  <2>2. TypeOK'
    BY <1>4, <2>1 DEF Inductive, TypeOK, GiveUp, history, Proofs, NoProof
  <2>3. ProofsGenuine' /\ TxnHolds'
    BY <1>4, <2>1 DEF Inductive, TypeOK, ProofsGenuine, TxnHolds, GiveUp, history
  <2>4. AttemptsUnique' /\ RecordIsNewest' /\ ResultsExact'
    BY <1>4 DEF Inductive, AttemptsUnique, RecordIsNewest, ResultsExact, GiveUp, history
  <2> QED
    BY <2>2, <2>3, <2>4 DEF Inductive
<1>5. ASSUME NEW c \in Callers, CompleteTx(c) PROVE Inductive'
  <2>1. proof[c] \in Proofs /\ rec \in Records
    BY DEF Inductive, TypeOK
  <2>2. txn' \in Tokens \cup {NoToken} /\ TxnHolds'
    BY <1>5, <2>1 DEF CompleteTx, Current, TxnHolds, Proofs
  <2>3. TypeOK'
    BY <1>5, <2>2 DEF Inductive, TypeOK, CompleteTx, history
  <2>4. ProofsGenuine'
    BY <1>5 DEF Inductive, TypeOK, ProofsGenuine, CompleteTx, history
  <2>5. AttemptsUnique' /\ RecordIsNewest' /\ ResultsExact'
    BY <1>5 DEF Inductive, AttemptsUnique, RecordIsNewest, ResultsExact, CompleteTx,
                history
  <2> QED
    BY <2>2, <2>3, <2>4, <2>5 DEF Inductive
<1>6. ASSUME NEW c \in Callers, NEW kind \in Kinds, Finish(c, kind) PROVE Inductive'
  <2> DEFINE call == [kind |-> kind, owner |-> proof[c].owner, fence |-> proof[c].fence]
  <2>1. /\ calls' = calls \cup {call} /\ pc' = [pc EXCEPT ![c] = "ending"]
        /\ UNCHANGED <<rec, lapsed, txn, proof, gen, elected, settled, answers,
                       envelopes>>
        /\ pc[c] = "working"
    BY <1>6 DEF Finish, history
  <2>2. PICK e \in elected : e.owner = proof[c].owner /\ e.fence = proof[c].fence
    BY <2>1 DEF Inductive, ProofsGenuine
  <2>3. call \in Calls
    BY <2>2 DEF Inductive, TypeOK, Calls, Attempts
  <2>4. TypeOK'
    BY <2>1, <2>3 DEF Inductive, TypeOK
  <2>5. ProofsGenuine'
    BY <2>1, <2>2 DEF Inductive, TypeOK, ProofsGenuine
  <2> QED
    BY <2>1, <2>4, <2>5, Quiet
<1>7. ASSUME NEW call \in calls, Drop(call) PROVE Inductive'
  <2>1. TypeOK' /\ ProofsGenuine'
    BY <1>7 DEF Inductive, TypeOK, ProofsGenuine, Drop, history
  <2> QED
    BY <1>7, <2>1, Quiet DEF Drop, history
<1>8. CASE Lapse
  <2>1. TypeOK' /\ ProofsGenuine'
    BY <1>8 DEF Inductive, TypeOK, ProofsGenuine, Lapse, history
  <2> QED
    BY <1>8, <2>1, Quiet DEF Lapse, history
<1>9. CASE Expire
  <2>1. /\ rec.state \in Active /\ rec' = [rec EXCEPT !.state = "expired"]
        /\ "expired" = "expired" => txn = NoToken
        /\ UNCHANGED <<lapsed, txn, pc, proof, calls, gen, elected, settled, answers,
                       envelopes>>
    BY <1>9 DEF Expire, Unlocked, history
  <2>2. "expired" \in {"running", "expired"}
    OBVIOUS
  <2> QED
    BY <2>1, <2>2, MarkPreserves
<1> QED
  BY <1>1, <1>2, <1>3, <1>4, <1>5, <1>6, <1>7, <1>8, <1>9, AcquirePreserves,
     LandPreserves, CommitTxPreserves, CleanupPreserves DEF Next

(* The inductive invariant holds in every reachable state. *)
THEOREM IdempotencyInvariant == Spec => []Inductive
BY InitInductive, NextInductive, PTL DEF Spec

(* All callers given a terminal result of one retained record are given the *)
(* same result, for the fingerprint they asked with.                       *)
THEOREM IdempotencyAnswers == Spec => []AnswersAgree
<1>1. Inductive => AnswersAgree
  BY DEF Inductive, TypeOK, ResultsExact, AnswersAgree
<1> QED
  BY <1>1, IdempotencyInvariant, PTL

(* A result is recorded only by an attempt of its own generation, although *)
(* fences start again after retention.                                     *)
THEOREM IdempotencyNoCrossing == Spec => []NoCrossing
<1>1. Inductive => NoCrossing
  BY DEF Inductive, ResultsExact, NoCrossing
<1> QED
  BY <1>1, IdempotencyInvariant, PTL

(* Envelopes are committed only with a completion. *)
LEMMA EnvelopesCompleted ==
  ASSUME \A x \in envelopes : x.state = "completed", [Next]_vars
  PROVE  \A x \in envelopes' : x.state = "completed"
<1>1. CASE UNCHANGED envelopes
  BY <1>1
<1>2. ASSUME NEW c \in Callers, NEW reply \in BOOLEAN, CommitTx(c, reply)
      PROVE  \A x \in envelopes' : x.state = "completed"
  BY <1>2 DEF CommitTx, Recorded
<1> QED
  BY <1>1, <1>2 DEF Next, vars, history, Replay, Acquire, Heartbeat, Finish, Land,
                    Drop, GiveUp, CompleteTx, Lapse, Expire, Cleanup

(* The envelope of a generation is the only one, and goes with the answer  *)
(* every caller is given.                                                  *)
THEOREM IdempotencyEffects == Spec => []EffectOnce
<1> DEFINE E == \A x \in envelopes : x.state = "completed"
<1>1. Init => E
  BY DEF Init
<1>2. Inductive /\ E => EffectOnce
  BY DEF Inductive, TypeOK, ResultsExact, EffectOnce
<1>3. E /\ [Next]_vars => E'
  BY EnvelopesCompleted
<1> HIDE DEF E
<1> QED
  BY <1>1, <1>2, <1>3, IdempotencyInvariant, PTL DEF Spec

(* An attempt that records its result fixes the outcome of the abstract key: *)
(* the generation had none, and no earlier generation had this one.         *)
LEMMA SettleMaps ==
  ASSUME Inductive, NEW kind \in Terminal, NEW o \in Tokens,
         rec.state \in Active, rec.owner = o,
         rec' = Settled(kind, o), settled' = settled \cup Recorded(kind, o),
         answers' \in {answers, answers \cup Recorded(kind, o)},
         envelopes' \in {envelopes, envelopes \cup Recorded(kind, o)},
         UNCHANGED gen
  PROVE  \E x \in Outcomes : Once!Settle(x)
<1> DEFINE x == [print |-> rec.print, state |-> kind, by |-> o]
           r == [gen |-> gen, print |-> rec.print, state |-> kind, by |-> o]
<1>1. /\ rec \in Records /\ gen \in Nat /\ elected \subseteq Attempts
      /\ settled \subseteq Results /\ rec.state \notin Terminal
      /\ rec.state # "missing"
  BY DEF Inductive, TypeOK, Active, Terminal
<1>2. x \in Outcomes /\ Recorded(kind, o) = {r} /\ View(r) = x
  BY <1>1 DEF Outcomes, Records, Recorded, View
<1>3. rec'.state = kind /\ rec'.print = rec.print /\ rec'.result = o
  BY <1>1 DEF Settled, Records
<1>4. outcome = NoOutcome /\ outcome' = x
  BY <1>1, <1>3 DEF outcome
<1>5. x \notin {View(s) : s \in settled}
  <2> SUFFICES ASSUME NEW s \in settled, View(s) = x PROVE FALSE
    OBVIOUS
  <2>1. s.by = o /\ s.gen # gen
    BY <1>1 DEF View, Inductive, ResultsExact
  <2>2. PICK e \in elected : e.owner = s.by /\ e.gen = s.gen
    BY DEF Inductive, ResultsExact
  <2>3. [gen |-> gen, print |-> rec.print, owner |-> rec.owner,
         fence |-> rec.fence] \in elected
    BY <1>1 DEF Inductive, RecordIsNewest
  <2> DEFINE f == [gen |-> gen, print |-> rec.print, owner |-> rec.owner,
                   fence |-> rec.fence]
  <2>4. e.owner = f.owner /\ f.gen = gen
    BY <2>1, <2>2
  <2>5. e = f
    <3> HIDE DEF f
    <3> QED
      BY <2>2, <2>3, <2>4 DEF f, Inductive, AttemptsUnique
  <2> QED
    BY <2>1, <2>2, <2>4, <2>5
<1> HIDE DEF x, r
<1>6. {View(s) : s \in settled'} = {View(s) : s \in settled} \cup {x}
  BY <1>2
<1>7. r.gen = gen
  BY DEF r
<1>8. {<<a.gen, View(a)>> : a \in answers'} \in
         {{<<a.gen, View(a)>> : a \in answers},
          {<<a.gen, View(a)>> : a \in answers} \cup {<<gen, x>>}}
  <2>1. CASE answers' = answers
    BY <2>1
  <2>2. CASE answers' = answers \cup {r}
    <3>1. {<<a.gen, View(a)>> : a \in answers \cup {r}} =
             {<<a.gen, View(a)>> : a \in answers} \cup {<<r.gen, View(r)>>}
      OBVIOUS
    <3> QED
      BY <1>2, <1>7, <2>2, <3>1
  <2> QED
    BY <1>2, <2>1, <2>2
<1>9. {<<a.gen, View(a)>> : a \in envelopes'} \in
         {{<<a.gen, View(a)>> : a \in envelopes},
          {<<a.gen, View(a)>> : a \in envelopes} \cup {<<gen, x>>}}
  <2>1. CASE envelopes' = envelopes
    BY <2>1
  <2>2. CASE envelopes' = envelopes \cup {r}
    <3>1. {<<a.gen, View(a)>> : a \in envelopes \cup {r}} =
             {<<a.gen, View(a)>> : a \in envelopes} \cup {<<r.gen, View(r)>>}
      OBVIOUS
    <3> QED
      BY <1>2, <1>7, <2>2, <3>1
  <2> QED
    BY <1>2, <2>1, <2>2
<1>10. PICK y \in Outcomes : y = x
  BY <1>2
<1>11. Once!Settle(y)
  BY <1>4, <1>5, <1>6, <1>8, <1>9, <1>10 DEF Once!Settle
<1> QED
  BY <1>11

(* A step between states with no terminal result, or of the same terminal   *)
(* record, that records and answers nothing is an abstract stutter.        *)
LEMMA StutterMaps ==
  ASSUME UNCHANGED <<gen, settled, answers, envelopes>>,
         \/ rec' = rec
         \/ rec.state \notin Terminal /\ rec'.state \notin Terminal
  PROVE  UNCHANGED Once!vars
<1>1. outcome' = outcome
  BY DEF outcome
<1> QED
  BY <1>1 DEF Once!vars

(* Every step of the detailed system is a step of the promise or a stutter. *)
LEMMA StepMaps ==
  ASSUME Inductive, [Next]_vars
  PROVE  [Once!Next]_(Once!vars)
<1>1. CASE UNCHANGED vars
  BY <1>1, StutterMaps DEF vars
<1>2. ASSUME NEW c \in Callers, Replay(c) PROVE Once!Answer
  <2> DEFINE a0 == Outcome(c)
  <2>1. /\ rec.state \in Terminal /\ rec.print = PrintOf[c]
        /\ answers' = answers \cup {a0}
        /\ UNCHANGED <<rec, gen, settled, envelopes>>
    BY <1>2 DEF Replay, Matches, Terminal
  <2>2. outcome' = outcome /\ outcome # NoOutcome
    BY <2>1 DEF outcome, NoOutcome, Terminal
  <2>3. a0.gen = gen /\ View(a0) = outcome
    BY <2>1 DEF Outcome, View, outcome
  <2> HIDE DEF a0
  <2>4. {<<a.gen, View(a)>> : a \in answers \cup {a0}} =
           {<<a.gen, View(a)>> : a \in answers} \cup {<<a0.gen, View(a0)>>}
    OBVIOUS
  <2> QED
    BY <2>1, <2>2, <2>3, <2>4 DEF Once!Answer
<1>3. ASSUME NEW c \in Callers, NEW t \in Tokens, NEW reply \in BOOLEAN,
             Acquire(c, t, reply)
      PROVE  UNCHANGED Once!vars
  <2>1. /\ UNCHANGED <<gen, settled, answers, envelopes>>
        /\ rec.state \notin Terminal /\ rec'.state \notin Terminal
    BY <1>3 DEF Acquire, Acquirable, Terminal, Active
  <2> QED
    BY <2>1, StutterMaps
<1>4. ASSUME NEW c \in Callers, Heartbeat(c) PROVE UNCHANGED Once!vars
  <2>1. /\ UNCHANGED <<gen, settled, answers, envelopes>>
        /\ rec.state \notin Terminal /\ rec'.state \notin Terminal
    BY <1>4 DEF Inductive, TypeOK, Records, Heartbeat, Current, history, Terminal, Active
  <2> QED
    BY <2>1, StutterMaps
<1>5. ASSUME NEW c \in Callers,
             GiveUp(c) \/ CompleteTx(c) \/ (\E kind \in Kinds : Finish(c, kind))
      PROVE  UNCHANGED Once!vars
  BY <1>5, StutterMaps DEF GiveUp, CompleteTx, Finish, history
<1>6. ASSUME NEW call \in calls, Drop(call) PROVE UNCHANGED Once!vars
  BY <1>6, StutterMaps DEF Drop, history
<1>7. CASE Lapse
  BY <1>7, StutterMaps DEF Lapse, history
<1>8. CASE Expire
  <2>1. /\ UNCHANGED <<gen, settled, answers, envelopes>>
        /\ rec.state \notin Terminal /\ rec'.state \notin Terminal
    BY <1>8 DEF Inductive, TypeOK, Records, Expire, history, Terminal, Active
  <2> QED
    BY <2>1, StutterMaps
<1>9. CASE Cleanup
  <2>1. outcome' = NoOutcome
    BY <1>9 DEF Cleanup, NoRecord, outcome, Terminal
  <2> QED
    BY <1>9, <2>1 DEF Cleanup, Once!Next, Once!Forget
<1>10. ASSUME NEW call \in calls, NEW reply \in BOOLEAN, Land(call, reply)
       PROVE  [Once!Next]_(Once!vars)
  <2>1. /\ call.kind \in Kinds /\ call.owner \in Tokens /\ rec \in Records
        /\ UNCHANGED <<gen, envelopes>>
    BY <1>10 DEF Inductive, TypeOK, Calls, Land
  <2>2. CASE Current(call) /\ call.kind \in Terminal
    <3>1. /\ rec.state \in Active /\ rec.owner = call.owner
          /\ rec' = Settled(call.kind, call.owner)
          /\ settled' = settled \cup Recorded(call.kind, call.owner)
          /\ answers' \in {answers, answers \cup Recorded(call.kind, call.owner)}
      BY <1>10, <2>2 DEF Land, Current
    <3>2. \E x \in Outcomes : Once!Settle(x)
      BY <2>1, <2>2, <3>1, SettleMaps
    <3> QED
      BY <3>2 DEF Once!Next
  <2>3. CASE Current(call) /\ call.kind \notin Terminal
    <3>1. /\ rec.state \notin Terminal /\ rec'.state \notin Terminal
          /\ settled' = settled /\ answers' = answers
      BY <1>10, <2>1, <2>3
         DEF Land, Current, Settled, Recorded, Records, Active, Terminal
    <3> QED
      BY <2>1, <3>1, StutterMaps
  <2>4. CASE ~Current(call)
    <3>1. rec' = rec /\ settled' = settled /\ answers' = answers
      BY <1>10, <2>4 DEF Land
    <3> QED
      BY <2>1, <3>1, StutterMaps
  <2> QED
    BY <2>2, <2>3, <2>4
<1>11. ASSUME NEW c \in Callers, NEW reply \in BOOLEAN, CommitTx(c, reply)
       PROVE  [Once!Next]_(Once!vars)
  <2>1. /\ txn \in Tokens /\ rec.state \in Active /\ rec.owner = txn
        /\ "completed" \in Terminal
    BY <1>11 DEF Inductive, TypeOK, CommitTx, TxnHolds, Terminal
  <2>2. /\ rec' = Settled("completed", txn)
        /\ settled' = settled \cup Recorded("completed", txn)
        /\ answers' \in {answers, answers \cup Recorded("completed", txn)}
        /\ envelopes' \in {envelopes, envelopes \cup Recorded("completed", txn)}
        /\ UNCHANGED gen
    BY <1>11 DEF CommitTx
  <2>3. PICK o \in Tokens : o = txn
    BY <2>1
  <2>4. \E x \in Outcomes : Once!Settle(x)
    BY <2>1, <2>2, <2>3, SettleMaps
  <2> QED
    BY <2>4 DEF Once!Next
<1> QED
  BY <1>1, <1>2, <1>3, <1>4, <1>5, <1>6, <1>7, <1>8, <1>9, <1>10, <1>11
     DEF Next, Once!Next

(* The store with its callers, lost replies, late calls and transactions   *)
(* implements one outcome per key and generation.                          *)
THEOREM IdempotencyRefines == Spec => OncePromise
<1>1. Init => Once!Init
  BY DEF Init, Once!Init, NoRecord, outcome, Terminal
<1>2. Inductive /\ [Next]_vars => [Once!Next]_(Once!vars)
  BY StepMaps
<1> QED
  BY <1>1, <1>2, IdempotencyInvariant, PTL DEF Spec, OncePromise, Once!Spec
=============================================================================
