---------------------------- MODULE Idempotency ----------------------------
(***************************************************************************)
(* pkg/idempotency for one key: the retained record, the ownership proofs   *)
(* its callers carry, and the calls between them.  Every store operation is *)
(* atomic (one mutex section, one Lua script, or one transaction under an   *)
(* advisory lock), but the caller and the store see it at different times:  *)
(* a reply may be lost, a caller may give up or die with its terminal call  *)
(* still under way, and PostgreSQL callers may complete the record inside a *)
(* transaction of their own that commits an outbox envelope with it.        *)
(*                                                                         *)
(* Every acquisition draws a fresh random owner token, so a token stands    *)
(* for one attempt, and for the result that attempt computes.              *)
(***************************************************************************)
EXTENDS Naturals

CONSTANTS Callers,       \* concurrent handlers of requests for the key
          Prints,        \* request fingerprints
          PrintOf,       \* PrintOf[c]: the fingerprint of c's request
          Tokens,        \* owner tokens, one per attempt
          NoToken,
          MaxGen         \* bound: how often retention may delete the record

ASSUME CallersAssumption == Prints # {} /\ PrintOf \in [Callers -> Prints]
ASSUME TokensAssumption  == NoToken \notin Tokens /\ MaxGen \in Nat

VARIABLES rec,           \* the record; its state is "missing" when there is none
          lapsed,        \* now >= lease_expires_at
          txn,           \* the attempt whose open transaction holds the key
          pc,            \* pc[c]: what c is doing
          proof,         \* proof[c]: the ownership c carries
          calls,         \* terminal calls the store has not executed yet
          gen,           \* how often the record has been deleted
          elected,       \* every attempt elected so far
          settled,       \* every terminal result recorded so far
          answers,       \* every terminal result handed to a caller
          envelopes      \* outbox envelopes committed with a completion

vars == <<rec, lapsed, txn, pc, proof, calls, gen, elected, settled, answers,
          envelopes>>

Active   == {"acquired", "running"}
Terminal == {"completed", "failed"}
States   == Active \cup Terminal \cup {"missing", "expired", "abandoned"}
Kinds    == Terminal \cup {"abandoned"}   \* the state a terminal call asks for

NoRecord == [state |-> "missing", print |-> CHOOSE p \in Prints : TRUE,
             owner |-> NoToken, fence |-> 0, result |-> NoToken]
NoProof  == [owner |-> NoToken, fence |-> 0]

Records == [state : States, print : Prints, owner : Tokens \cup {NoToken},
            fence : Nat, result : Tokens \cup {NoToken}]
Proofs  == [owner : Tokens \cup {NoToken}, fence : Nat]
Calls   == [kind : Kinds, owner : Tokens, fence : Nat]
Results == [gen : Nat, print : Prints, state : Terminal, by : Tokens]
Attempts == [gen : Nat, print : Prints, owner : Tokens, fence : Nat]

TypeOK == /\ rec \in Records /\ lapsed \in BOOLEAN
          /\ txn \in Tokens \cup {NoToken}
          /\ pc \in [Callers -> {"idle", "working", "ending"}]
          /\ proof \in [Callers -> Proofs]
          /\ calls \subseteq Calls /\ gen \in Nat
          /\ elected \subseteq Attempts
          /\ settled \subseteq Results /\ answers \subseteq settled
          /\ envelopes \subseteq settled

Init == /\ rec = NoRecord /\ lapsed = FALSE /\ txn = NoToken
        /\ pc = [c \in Callers |-> "idle"]
        /\ proof = [c \in Callers |-> NoProof]
        /\ calls = {} /\ gen = 0 /\ elected = {} /\ settled = {}
        /\ answers = {} /\ envelopes = {}

history == <<gen, elected, settled, answers, envelopes>>

(* pg_advisory_xact_lock: no other operation on the key runs until an open *)
(* CompleteTx transaction ends.                                            *)
Unlocked == txn = NoToken

(* Variant: ownership is checked by fencing token alone. *)
CurrentByFence(p) == /\ rec.fence = p.fence
                     /\ rec.state \in Active /\ ~lapsed

(* currentRecord: the owner token and the fence match, the record is active, *)
(* and the lease has not elapsed.                                          *)
Current(p) == /\ rec.owner = p.owner /\ rec.fence = p.fence
              /\ rec.state \in Active /\ ~lapsed

(* The retained result as c's answer. *)
Outcome(c) == [gen |-> gen, print |-> PrintOf[c], state |-> rec.state,
               by |-> rec.result]

----------------------------------------------------------------------------
(* Acquire, and what Service.Begin and the integrations make of it.         *)

(* Variant: the fingerprint of a later request is not compared. *)
MatchesAny(c) == TRUE

(* A different fingerprint is a conflict, whatever the state. *)
Matches(c) == rec.state = "missing" \/ rec.print = PrintOf[c]

(* Replayed or terminal failure: the retained result is the answer. *)
Replay(c) == /\ Unlocked /\ pc[c] = "idle"
             /\ Matches(c) /\ rec.state \in Terminal
             /\ answers' = answers \cup {Outcome(c)}
             /\ UNCHANGED <<rec, lapsed, txn, pc, proof, calls, gen, elected,
                            settled, envelopes>>

(* Variant: a failed record is acquired again instead of replayed. *)
AcquirableFailed == \/ rec.state \in {"missing", "expired", "abandoned", "failed"}
                    \/ rec.state \in Active /\ lapsed

(* Nothing retained, nobody owns it, or its owner's lease has elapsed. *)
Acquirable == \/ rec.state \in {"missing", "expired", "abandoned"}
              \/ rec.state \in Active /\ lapsed

(* record.FencingToken++ *)
NextFence == rec.fence + 1

(* Acquired or stale-owner takeover: a fresh token and the next fence.  The *)
(* caller executes only if the reply arrives.                              *)
Acquire(c, t, reply) ==
    LET won == [state |-> "acquired", owner |-> t, fence |-> NextFence,
                print |-> IF rec.state = "missing" THEN PrintOf[c]
                                                   ELSE rec.print,
                result |-> NoToken]
    IN /\ Unlocked /\ pc[c] = "idle"
       /\ Matches(c) /\ Acquirable
       /\ t \notin {e.owner : e \in elected}
       /\ rec' = won /\ lapsed' = FALSE
       /\ elected' = elected \cup {[gen |-> gen, print |-> won.print,
                                    owner |-> t, fence |-> won.fence]}
       /\ pc' = [pc EXCEPT ![c] = IF reply THEN "working" ELSE "idle"]
       /\ proof' = [proof EXCEPT ![c] = IF reply
                        THEN [owner |-> t, fence |-> won.fence] ELSE NoProof]
       /\ UNCHANGED <<txn, calls, gen, settled, answers, envelopes>>

----------------------------------------------------------------------------
(* The owner's own operations.                                             *)

Heartbeat(c) == /\ Unlocked /\ pc[c] = "working" /\ Current(proof[c])
                /\ rec' = [rec EXCEPT !.state = "running"]
                /\ UNCHANGED <<lapsed, txn, pc, proof, calls>>
                /\ UNCHANGED history

(* The handler returns: a result is completed, an oversized one fails, an  *)
(* error or a panic releases.                                              *)
Finish(c, kind) ==
    /\ pc[c] = "working"
    /\ pc' = [pc EXCEPT ![c] = "ending"]
    /\ calls' = calls \cup {[kind |-> kind, owner |-> proof[c].owner,
                             fence |-> proof[c].fence]}
    /\ UNCHANGED <<rec, lapsed, txn, proof>> /\ UNCHANGED history

(* The record as a terminal call leaves it, and the result it records. *)
Settled(kind, owner) == [rec EXCEPT !.state = kind,
                             !.result = IF kind \in Terminal THEN owner
                                                             ELSE @]
Recorded(kind, owner) == IF kind \in Terminal
                         THEN {[gen |-> gen, print |-> rec.print,
                                state |-> kind, by |-> owner]}
                         ELSE {}

(* c still waits for the reply to a call of owner. *)
Awaits(c, owner) == pc[c] = "ending" /\ proof[c].owner = owner

Waiting(owner) == {c \in Callers : Awaits(c, owner)}

(* The store executes a terminal call.  If the reply arrives, a caller that *)
(* still waits for it answers with the result it recorded.                 *)
Land(call, reply) ==
    LET done == IF Current(call) THEN Recorded(call.kind, call.owner) ELSE {}
        told == IF reply THEN Waiting(call.owner) ELSE {}
    IN /\ Unlocked /\ call \in calls
       /\ calls' = calls \ {call}
       /\ rec' = IF Current(call) THEN Settled(call.kind, call.owner) ELSE rec
       /\ settled' = settled \cup done
       /\ answers' = answers \cup (IF told = {} THEN {} ELSE done)
       /\ pc' = [c \in Callers |-> IF c \in told THEN "idle" ELSE pc[c]]
       /\ proof' = [c \in Callers |-> IF c \in told THEN NoProof ELSE proof[c]]
       /\ UNCHANGED <<lapsed, txn, gen, elected, envelopes>>

(* The call never reaches the store. *)
Drop(call) == /\ call \in calls /\ calls' = calls \ {call}
              /\ UNCHANGED <<rec, lapsed, txn, pc, proof>> /\ UNCHANGED history

(* The caller's context ends, or its process dies: an open transaction is  *)
(* rolled back, a terminal call already sent may still be executed, and a  *)
(* retry starts from Begin.                                                *)
GiveUp(c) == /\ pc[c] # "idle"
             /\ pc' = [pc EXCEPT ![c] = "idle"]
             /\ proof' = [proof EXCEPT ![c] = NoProof]
             /\ txn' = IF proof[c].owner = txn THEN NoToken ELSE txn
             /\ UNCHANGED <<rec, lapsed, calls>> /\ UNCHANGED history

----------------------------------------------------------------------------
(* InsertAndComplete: the envelope and the completion in one transaction.   *)

CompleteTx(c) == /\ Unlocked /\ pc[c] = "working" /\ Current(proof[c])
                 /\ txn' = proof[c].owner
                 /\ pc' = [pc EXCEPT ![c] = "ending"]
                 /\ UNCHANGED <<rec, lapsed, proof, calls>>
                 /\ UNCHANGED history

(* The commit makes both visible, however long after the ownership check;  *)
(* its reply may be lost.                                                  *)
CommitTx(c, reply) ==
    /\ pc[c] = "ending" /\ txn # NoToken /\ proof[c].owner = txn
    /\ txn' = NoToken
    /\ rec' = Settled("completed", txn)
    /\ settled' = settled \cup Recorded("completed", txn)
    /\ envelopes' = envelopes \cup Recorded("completed", txn)
    /\ answers' = answers \cup (IF reply THEN Recorded("completed", txn) ELSE {})
    /\ pc' = [pc EXCEPT ![c] = "idle"]
    /\ proof' = [proof EXCEPT ![c] = NoProof]
    /\ UNCHANGED <<lapsed, calls, gen, elected>>

----------------------------------------------------------------------------
(* Time and retention.                                                     *)

Lapse == /\ rec.state \in Active /\ ~lapsed /\ lapsed' = TRUE
         /\ UNCHANGED <<rec, txn, pc, proof, calls>> /\ UNCHANGED history

Expire == /\ Unlocked /\ rec.state \in Active /\ lapsed
          /\ rec' = [rec EXCEPT !.state = "expired"]
          /\ UNCHANGED <<lapsed, txn, pc, proof, calls>> /\ UNCHANGED history

(* Cleanup, or an operation past purge_at: an active record is retained    *)
(* beyond its lease, and a row locked by a transaction is skipped.         *)
Cleanup == /\ Unlocked /\ gen < MaxGen
           /\ rec.state # "missing" /\ (rec.state \in Active => lapsed)
           /\ rec' = NoRecord /\ lapsed' = FALSE /\ gen' = gen + 1
           /\ UNCHANGED <<txn, pc, proof, calls, elected, settled, answers,
                          envelopes>>

Next == \/ \E c \in Callers :
              \/ Replay(c) \/ Heartbeat(c) \/ GiveUp(c) \/ CompleteTx(c)
              \/ \E t \in Tokens, reply \in BOOLEAN : Acquire(c, t, reply)
              \/ \E kind \in Kinds : Finish(c, kind)
              \/ \E reply \in BOOLEAN : CommitTx(c, reply)
        \/ \E call \in calls : (\E reply \in BOOLEAN : Land(call, reply)) \/ Drop(call)
        \/ Lapse \/ Expire \/ Cleanup

Spec == Init /\ [][Next]_vars

----------------------------------------------------------------------------
(* The inductive invariant of the proofs.                                  *)

(* A token is drawn once, and within a generation a fence is issued once.  *)
AttemptsUnique ==
    \A e, f \in elected : (e.owner = f.owner \/ <<e.gen, e.fence>> = <<f.gen, f.fence>>)
                             => e = f

(* The record is the newest attempt of its generation; all attempts of a   *)
(* generation are for one fingerprint.                                     *)
RecordIsNewest ==
    /\ \A e \in elected : e.gen <= gen
    /\ rec.state = "missing" => \A e \in elected : e.gen < gen
    /\ rec.state = "missing" => rec.fence = 0
    /\ rec.state # "missing" =>
          /\ [gen |-> gen, print |-> rec.print, owner |-> rec.owner,
              fence |-> rec.fence] \in elected
          /\ \A e \in elected : e.gen = gen => e.fence <= rec.fence
                                               /\ e.print = rec.print

(* Every proof and every call under way is that of an attempt. *)
ProofsGenuine ==
    /\ \A c \in Callers : pc[c] # "idle" =>
          \E e \in elected : e.owner = proof[c].owner /\ e.fence = proof[c].fence
    /\ \A call \in calls :
          \E e \in elected : e.owner = call.owner /\ e.fence = call.fence

(* An open transaction holds the record of the attempt that opened it. *)
TxnHolds == txn # NoToken => rec.state \in Active /\ rec.owner = txn

(* This generation's result is the record's; a result was recorded by an   *)
(* attempt of its own generation.                                          *)
ResultsExact ==
    /\ \A s \in settled :
          /\ s.gen <= gen
          /\ \E e \in elected : e.owner = s.by /\ e.gen = s.gen /\ e.print = s.print
          /\ s.gen = gen => /\ rec.state = s.state /\ rec.print = s.print
                            /\ rec.result = s.by
    /\ \A s, u \in settled : s.gen = u.gen => s = u
    /\ rec.state \in Terminal =>
          [gen |-> gen, print |-> rec.print, state |-> rec.state,
           by |-> rec.result] \in settled

Inductive == /\ TypeOK /\ AttemptsUnique /\ RecordIsNewest /\ ProofsGenuine
             /\ TxnHolds /\ ResultsExact

----------------------------------------------------------------------------
(* Properties *)

(* Within one retained record every caller that is given a terminal result *)
(* is given the same one, and only for the fingerprint it was computed for: *)
(* takeovers, lost replies, calls executed long after their caller gave up *)
(* and open transactions do not lead to a second answer (Store.Complete,   *)
(* Store.Acquire, Service.Begin, Middleware.execute).                      *)
AnswersAgree == \A a, b \in answers : a.gen = b.gen => a = b

(* An outbox envelope committed by InsertAndComplete is the only one of its *)
(* generation, and belongs to the completed result that callers are told:  *)
(* no attempt publishes and then sees another attempt's result replayed.   *)
EffectOnce ==
    \A x \in envelopes :
       /\ x.state = "completed"
       /\ \A y \in envelopes : y.gen = x.gen => y = x
       /\ \A a \in answers : a.gen = x.gen => a = x

(* A terminal result is recorded only by an attempt elected in the same    *)
(* generation: a call of an attempt whose record was deleted by retention  *)
(* does not settle the record that replaced it, although both count fences *)
(* from 1 (currentRecord compares the owner token as well).                *)
NoCrossing ==
    \A s \in settled : \E e \in elected :
       e.owner = s.by /\ e.gen = s.gen /\ e.print = s.print

(* The store, its callers and their transactions implement the promise of  *)
(* one outcome per key and generation.                                     *)
NoOutcome == [state |-> "none"]
View(r)   == [print |-> r.print, state |-> r.state, by |-> r.by]
Outcomes  == [print : Prints, state : Terminal, by : Tokens]
outcome   == IF rec.state \in Terminal
             THEN [print |-> rec.print, state |-> rec.state, by |-> rec.result]
             ELSE NoOutcome
Once == INSTANCE OncePerKey WITH
           spent   <- {View(s) : s \in settled},
           answers <- {<<a.gen, View(a)>> : a \in answers},
           effects <- {<<x.gen, View(x)>> : x \in envelopes}
OncePromise == Once!Spec
=============================================================================
