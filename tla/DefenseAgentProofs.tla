------------------------- MODULE DefenseAgentProofs -------------------------
(***************************************************************************)
(* The defense agent for any threats, policies, protocols and bounds: what *)
(* is sent was approved in its own wait, what is in force was caused by a  *)
(* confirmed threat, no delivery activates twice, and the reports are true.*)
(***************************************************************************)
EXTENDS DefenseAgent, DefenseChainProofs, FiniteSetTheorems, SequenceTheorems, TLAPS

USE ChainAssumption, AgentAssumption

-----------------------------------------------------------------------------
(* The inductive invariant *)

KnownPath == {"gate", "prove", "check", "send", "receipt"}
ProbePath == {"probe", "probeRead", "probeSend", "probeReceipt"}

\* The threat in hand is delivered, out of the batch and on the path of its kind.
InHand ==
  /\ pc \in {"idle", "down"} => threat = Zero
  /\ pc \notin {"idle", "down"} =>
       threat \in Events /\ delivery[threat] = "delivered" /\ threat \notin batch
  /\ \A e \in batch : delivery[e] = "delivered"
  /\ pc = "down" => batch = {}
  /\ pc \in KnownPath => threat \in Known
  /\ pc \in ProbePath => threat \notin Known
  /\ pc = "gate" => threat \in Gated
  /\ pc # "gate" => slot = "closed"
  /\ pc = "send" => sends < MaxSends

\* The slot holds the first decision read for the threat in hand in this wait.
SlotIsHeard ==
  /\ slot = "open" => heard[threat] = "none"
  /\ slot \in Decisions => heard[threat] = slot

\* Past the gate, the threat in hand was approved if it had to be.
PastGate == pc \in {"prove", "check", "send"} /\ threat \in Gated => heard[threat] = "approve"

\* Every transaction is the call for a confirmed threat, with the proof of its kind.
SentAreCalls ==
  \A i \in 1..Len(txs) :
    LET e == txs[i].action.eventId IN
    /\ e \in Events /\ delivery[e] # "none"
    /\ txs[i].action = CallFor(e)
    /\ txs[i].proof = IF e \in Known THEN "proof" ELSE "empty"

\* The nonce in hand is the account's next one, or that of the threat's transaction.
OwnNonce ==
  /\ pc = "send" => nonce \in 1..(Len(txs) + 1)
  /\ pc = "probeSend" => nonce = Len(txs) + 1
  /\ pc \in {"receipt", "probeReceipt"} =>
       nonce \in 1..Len(txs) /\ txs[nonce].action.eventId = threat

\* Whether a transaction for e may still be sent with no further crash.
Due(e) ==
  \/ delivery[e] \in {"none", "queued"}
  \/ pc = "down" /\ delivery[e] = "delivered"
  \/ e \in batch
  \/ threat = e /\ pc \in {"gate", "prove", "check", "probe", "probeRead"}
  \/ threat = e /\ pc \in {"send", "probeSend"} /\ nonce > Len(txs)

SentFor(e) == {i \in 1..Len(txs) : txs[i].action.eventId = e}
TookEffect(e) == {i \in 1..Len(receipts) : txs[i].action.eventId = e /\ receipts[i] = "ok"}

OnePerDelivery ==
  \A e \in Events : Cardinality(SentFor(e)) <= IF Due(e) THEN crashes ELSE crashes + 1

ActivationsAreReceipts == \A e \in Events : activations[e] = Cardinality(TookEffect(e))

Rejections == {"rejected: OPERATOR_REJECTED", "rejected: APPROVAL_TIMEOUT",
               "rejected: INVALID_PROOF", "rejected: STALE_POLICY"}

\* With no crash, a rejected threat is not due, and what was sent for it failed.
RejectedIsOver ==
  \A e \in Events : published[e] \intersect Rejections # {} /\ crashes = 0 =>
    ~Due(e) /\ SentFor(e) \subseteq 1..Len(receipts) /\ TookEffect(e) = {}

IInv ==
  /\ TypeOK /\ InHand /\ SlotIsHeard /\ PastGate /\ SentAreCalls /\ OwnNonce
  /\ OnePerDelivery /\ ActivationsAreReceipts /\ RejectedIsOver /\ ReportsMatchChain

-----------------------------------------------------------------------------
(* What the steps do to the chain, the node and the history *)

\* The agent's transactions, their receipts and the decisions on the way.
LEMMA Sequences ==
  ASSUME TypeOK
  PROVE  /\ txs \in Seq(Transactions) /\ receipts \in Seq(Verdicts) /\ approvals \in Seq(Approvals)
         /\ Len(txs) \in Nat /\ Len(receipts) \in Nat /\ Len(approvals) \in Nat
         /\ Len(receipts) <= Len(txs)
         /\ \A i \in 1..Len(txs) : txs[i] \in Transactions
         /\ \A i \in 1..Len(approvals) : approvals[i] \in Approvals
<1>1. /\ txs \in Seq(Transactions) /\ receipts \in Seq(Verdicts) /\ approvals \in Seq(Approvals)
      /\ Len(receipts) <= Len(txs)
  BY DEF TypeOK
<1>. QED
  BY <1>1, LenProperties, ElementOfSeq

\* The agent and its surroundings touch the contracts by transactions only.
LEMMA AgentStepIsTransaction == TypeOK /\ [Next]_vars => [ChainNext]_chainVars
<1>. SUFFICES ASSUME TypeOK, [Next]_vars PROVE ChainNext \/ UNCHANGED chainVars
  OBVIOUS
<1>1. CASE AgentStep \/ OnDecision \/ StepRaises \/ Crash
  BY <1>1 DEF AgentStep, Restart, ReadBatch, Take, GateAnswers, GateTimesOut, Prove,
     CheckAndSign, Send, AwaitReceipt, ProbeProver, ProbeRead, ProbeSend, ProbeReceipt, Ack,
     OnDecision, StepRaises, Crash
<1>2. CASE (\E e \in Events : Confirm(e)) \/ (\E e \in Events, d \in Decisions : Decide(e, d))
  BY <1>2 DEF Confirm, Decide
<1>3. ASSUME NEW h \in Hashes, UpdatePolicy(h) \/ EditPolicyFile(h)
      PROVE  ChainNext \/ UNCHANGED chainVars
  BY <1>3 DEF UpdatePolicy, EditPolicyFile, ChainNext, Proofs, TypeOK, ChainTypeOK
<1>4. ASSUME NEW t \in Targets, Release(t) PROVE ChainNext
  BY <1>4 DEF Release, ChainNext
<1>5. CASE Mine
  <2>. DEFINE tx == txs[Len(receipts) + 1]
  <2>1. tx \in Transactions
    <3>1. Len(receipts) + 1 \in 1..Len(txs)
      BY <1>5, Sequences DEF Mine
    <3>. QED
      BY <3>1, Sequences
  <2>2. VerifyAndExecute(Agent, tx.action, tx.proof, tx.inputs) \/ UNCHANGED chainVars
    BY <1>5 DEF Mine
  <2>. QED
    BY <2>1, <2>2 DEF ChainNext, Transactions
<1>6. CASE UNCHANGED vars
  BY <1>6 DEF vars
<1>. QED
  BY <1>1, <1>2, <1>3, <1>4, <1>5, <1>6 DEF Next, Surroundings

\* The node's list grows only by the transaction in hand, at the next nonce.
LEMMA NodeMoves ==
  ASSUME [Next]_vars
  PROVE  \/ UNCHANGED txs
         \/ Send /\ NodeTakes("proof")
         \/ ProbeSend /\ NodeTakes("empty")
<1>1. CASE AgentStep
  BY <1>1 DEF AgentStep, Restart, ReadBatch, Take, GateAnswers, GateTimesOut, Prove,
     CheckAndSign, Send, AwaitReceipt, ProbeProver, ProbeRead, ProbeSend, ProbeReceipt, Ack, node
<1>2. CASE OnDecision \/ StepRaises \/ Crash \/ Surroundings \/ UNCHANGED vars
  BY <1>2 DEF OnDecision, StepRaises, Crash, Surroundings, Confirm, Decide, UpdatePolicy,
     EditPolicyFile, Release, Mine, node, vars
<1>. QED
  BY <1>1, <1>2 DEF Next

\* Receipts and activations come from mining alone.
LEMMA MiningMoves ==
  ASSUME [Next]_vars
  PROVE  UNCHANGED <<receipts, activations>> \/ Mine
<1>1. CASE AgentStep
  BY <1>1 DEF AgentStep, Restart, ReadBatch, Take, GateAnswers, GateTimesOut, Prove,
     CheckAndSign, Send, AwaitReceipt, ProbeProver, ProbeRead, ProbeSend, ProbeReceipt, Ack, node
<1>2. CASE OnDecision \/ StepRaises \/ Crash \/ Surroundings \/ UNCHANGED vars
  BY <1>2 DEF OnDecision, StepRaises, Crash, Surroundings, Confirm, Decide, UpdatePolicy,
     EditPolicyFile, Release, node, vars
<1>. QED
  BY <1>1, <1>2 DEF Next

-----------------------------------------------------------------------------
(* Types *)

\* What the agent signs is typed, and so is the verdict on it.
LEMMA TransactionType ==
  ASSUME TypeOK, threat \in Events, NEW proof \in Proofs
  PROVE  Transaction(proof) \in Transactions /\ Append(txs, Transaction(proof)) \in Seq(Transactions)
<1>1. CallFor(threat) \in Calldata
  BY DEF CallFor, Calldata
<1>2. Transaction(proof) \in Transactions
  BY <1>1 DEF Transaction, Transactions, Inputs, TypeOK
<1>. QED
  BY <1>2, Sequences, AppendProperties

\* The node's list stays a list of transactions when it takes the one in hand.
LEMMA HandedOver ==
  ASSUME TypeOK, InHand, pc \in {"send", "probeSend"}, NEW proof \in Proofs, NodeTakes(proof)
  PROVE  txs' \in Seq(Transactions) /\ Len(txs') = Len(txs) + 1
<1>1. threat \in Events
  BY DEF InHand
<1>. QED
  BY <1>1, TransactionType, Sequences, AppendProperties DEF NodeTakes

LEMMA VerdictType == \A s, c, p, i : VerdictOf(s, c, p, i) \in Verdicts
  BY DEF VerdictOf, Verdicts

LEMMA RejectReasonType == \A v : RejectReason(v) \in Outcomes
  BY DEF RejectReason, Outcomes

\* Publishing an outcome of a threat keeps the history typed.
LEMMA PublishType ==
  ASSUME TypeOK, NEW e \in Events, NEW what \in Outcomes, Publish(e, what)
  PROVE  published' \in [Events -> SUBSET Outcomes]
  BY DEF Publish, TypeOK

LEMMA TypeStep == ASSUME TypeOK, InHand, SentAreCalls, [Next]_vars PROVE TypeOK'
<1>. USE DEF inbox, handler, operator, node, bounds, Finish, Fault
<1>1. ChainTypeOK'
  BY AgentStepIsTransaction, ChainStepType DEF TypeOK
<1>2. ASSUME NEW e \in Events, Confirm(e) PROVE TypeOK'
  BY <1>1, <1>2 DEF Confirm, TypeOK
<1>3. ASSUME NEW e \in Events, NEW d \in Decisions, Decide(e, d) PROVE TypeOK'
  <2>1. approvals' \in Seq(Approvals)
    BY <1>3, Sequences, AppendProperties DEF Decide, Approvals
  <2>. QED
    BY <1>1, <1>3, <2>1 DEF Decide, TypeOK
<1>4. ASSUME NEW h \in Hashes, UpdatePolicy(h) \/ EditPolicyFile(h) PROVE TypeOK'
  BY <1>1, <1>4 DEF UpdatePolicy, EditPolicyFile, TypeOK
<1>5. ASSUME NEW t \in Targets, Release(t) PROVE TypeOK'
  BY <1>1, <1>5 DEF Release, TypeOK
<1>6. CASE Mine
  <2>. DEFINE tx == txs[Len(receipts) + 1]
              verdict == VerdictOf(Agent, tx.action, tx.proof, tx.inputs)
  <2>1. receipts' = Append(receipts, verdict) /\ Len(receipts) + 1 <= Len(txs)
    BY <1>6 DEF Mine
  <2>2. receipts' \in Seq(Verdicts) /\ Len(receipts') <= Len(txs)
    BY <2>1, VerdictType, Sequences, AppendProperties
  <2>3. activations' \in [Events -> Nat]
    BY <1>6 DEF Mine, TypeOK
  <2>4. UNCHANGED <<txs, inbox, handler, operator, policyFile, published, bounds>>
    BY <1>6 DEF Mine
  <2>. QED
    BY <1>1, <2>2, <2>3, <2>4 DEF TypeOK
<1>7. CASE Restart
  BY <1>1, <1>7 DEF Restart, TypeOK
<1>8. CASE ReadBatch
  <2>1. batch' \in SUBSET Events /\ faults' \in Nat /\ crashes' \in Nat
    BY <1>8 DEF ReadBatch, TypeOK
  <2>. QED
    BY <1>1, <1>8, <2>1 DEF ReadBatch, TypeOK
<1>9. ASSUME NEW e \in Events, Take(e) PROVE TypeOK'
  BY <1>1, <1>9 DEF Take, TypeOK
<1>10. CASE GateAnswers
  BY <1>1, <1>10, PublishType DEF GateAnswers, InHand, Outcomes, TypeOK
<1>11. CASE GateTimesOut
  BY <1>1, <1>11, PublishType DEF GateTimesOut, InHand, Outcomes, TypeOK
<1>12. CASE Prove
  BY <1>1, <1>12, PublishType DEF Prove, InHand, Outcomes, TypeOK
<1>13. CASE CheckAndSign
  <2>1. published' \in [Events -> SUBSET Outcomes]
    BY <1>13, PublishType DEF CheckAndSign, InHand, Outcomes, TypeOK
  <2>2. nonce' \in Nat /\ sends' \in 0..MaxSends
    BY <1>13, Sequences DEF CheckAndSign, MaxSends, TypeOK
  <2>. QED
    BY <1>1, <1>13, <2>1, <2>2 DEF CheckAndSign, TypeOK
<1>14. CASE Send
  <2>1. txs' \in Seq(Transactions) /\ Len(receipts) <= Len(txs')
    <3>1. UNCHANGED txs \/ NodeTakes("proof")
      BY <1>14 DEF Send
    <3>2. pc \in {"send", "probeSend"} /\ "proof" \in Proofs
      BY <1>14 DEF Send, Proofs
    <3>. QED
      BY <3>1, <3>2, HandedOver, Sequences
  <2>2. sends' \in 0..MaxSends /\ pc' \in {"send", "receipt", "ack"} /\ slot' \in {slot, "closed"}
    BY <1>14 DEF Send, SendAgain, MaxSends, InHand, TypeOK
  <2>3. published' \in [Events -> SUBSET Outcomes]
    BY <1>14, PublishType DEF Send, InHand, Outcomes, TypeOK
  <2>4. faults' \in Nat /\ crashes' = crashes
    BY <1>14 DEF Send, TypeOK
  <2>. QED
    BY <1>1, <1>14, <2>1, <2>2, <2>3, <2>4 DEF Send, TypeOK
<1>15. CASE AwaitReceipt
  BY <1>1, <1>15, PublishType DEF AwaitReceipt, InHand, Outcomes, TypeOK
<1>16. CASE ProbeProver
  BY <1>1, <1>16, PublishType DEF ProbeProver, InHand, Outcomes, TypeOK
<1>17. CASE ProbeRead
  <2>1. published' \in [Events -> SUBSET Outcomes]
    BY <1>17, PublishType DEF ProbeRead, InHand, Outcomes, TypeOK
  <2>2. nonce' \in Nat /\ proofPolicy' \in Hashes \union {Zero}
    BY <1>17, Sequences DEF ProbeRead, TypeOK, ChainTypeOK
  <2>. QED
    BY <1>1, <1>17, <2>1, <2>2 DEF ProbeRead, TypeOK
<1>18. CASE ProbeSend
  <2>1. txs' \in Seq(Transactions) /\ Len(receipts) <= Len(txs')
    <3>1. UNCHANGED txs \/ NodeTakes("empty")
      BY <1>18 DEF ProbeSend
    <3>2. pc \in {"send", "probeSend"} /\ "empty" \in Proofs
      BY <1>18 DEF ProbeSend, Proofs
    <3>. QED
      BY <3>1, <3>2, HandedOver, Sequences
  <2>2. published' \in [Events -> SUBSET Outcomes]
    <3>1. UNCHANGED published \/ \E what \in Outcomes : Publish(threat, what)
      BY <1>18, RejectReasonType DEF ProbeSend, Outcomes
    <3>. QED
      BY <1>18, <3>1, PublishType DEF ProbeSend, InHand, TypeOK
  <2>3. pc' \in {"probeReceipt", "ack"} /\ slot' \in {slot, "closed"} /\ faults' \in Nat /\ crashes' = crashes
    BY <1>18 DEF ProbeSend, TypeOK
  <2>. QED
    BY <1>1, <1>18, <2>1, <2>2, <2>3 DEF ProbeSend, TypeOK
<1>19. CASE ProbeReceipt
  <2>1. published' \in [Events -> SUBSET Outcomes]
    <3>1. \E what \in Outcomes : Publish(threat, what)
      BY <1>19, RejectReasonType DEF ProbeReceipt, Outcomes
    <3>. QED
      BY <1>19, <3>1, PublishType DEF ProbeReceipt, InHand
  <2>. QED
    BY <1>1, <1>19, <2>1 DEF ProbeReceipt, TypeOK
<1>20. CASE Ack
  <2>1. delivery' \in [Events -> {"none", "queued", "delivered", "acked", "orphaned"}]
        /\ faults' \in Nat /\ crashes' \in Nat
    <3>1. CASE delivery' = [delivery EXCEPT ![threat] = "acked"] /\ UNCHANGED bounds
      BY <3>1 DEF TypeOK
    <3>2. CASE Fault /\ UNCHANGED delivery
      BY <3>2 DEF TypeOK
    <3>. QED
      BY <1>20, <3>1, <3>2 DEF Ack
  <2>. QED
    BY <1>1, <1>20, <2>1 DEF Ack, TypeOK
<1>21. CASE OnDecision
  <2>1. approvals' \in Seq(Approvals) /\ Head(approvals).decision \in Decisions
    BY <1>21, Sequences, HeadTailProperties DEF OnDecision, Approvals
  <2>2. heard' \in [Events -> Decisions \union {"none"}]
    BY <1>21, <2>1 DEF OnDecision, Hears, TypeOK
  <2>. QED
    BY <1>1, <1>21, <2>1, <2>2 DEF OnDecision, TypeOK
<1>22. CASE StepRaises
  BY <1>1, <1>22 DEF StepRaises, TypeOK
<1>23. CASE Crash
  <2>1. approvals' \in Seq(Approvals)
    BY <1>23, Sequences, SubSeqProperties DEF Crash
  <2>. QED
    BY <1>1, <1>23, <2>1 DEF Crash, MaxSends, TypeOK
<1>24. CASE UNCHANGED vars
  BY <1>1, <1>24 DEF vars, TypeOK
<1>. QED
  BY <1>2, <1>3, <1>4, <1>5, <1>6, <1>7, <1>8, <1>9, <1>10, <1>11, <1>12, <1>13, <1>14, <1>15,
     <1>16, <1>17, <1>18, <1>19, <1>20, <1>21, <1>22, <1>23, <1>24
  DEF Next, AgentStep, Surroundings

-----------------------------------------------------------------------------
(* The threat in hand *)

\* A handler that ends leaves its threat to be acknowledged, with the slot closed.
LEMMA FinishKeeps ==
  ASSUME TypeOK, InHand, Finish, pc \notin {"idle", "down"},
         UNCHANGED <<delivery, batch, threat>>
  PROVE  InHand'
  BY DEF Finish, InHand, KnownPath, ProbePath

\* So does one that goes on along its path.
LEMMA AdvanceKeeps ==
  ASSUME TypeOK, InHand, slot' = "closed", UNCHANGED <<delivery, batch, threat>>,
         \/ pc \in KnownPath /\ pc' \in KnownPath \ {"gate"}
         \/ pc \in ProbePath /\ pc' \in ProbePath,
         pc' = "send" => sends' < MaxSends
  PROVE  InHand'
  BY DEF InHand, KnownPath, ProbePath

LEMMA InHandStep == ASSUME TypeOK, InHand, [Next]_vars PROVE InHand'
<1>. USE DEF inbox, handler, operator, bounds
<1>1. ASSUME NEW e \in Events, Confirm(e) PROVE InHand'
  <2>1. /\ UNCHANGED <<batch, handler>>
        /\ \A x \in Events : delivery[x] = "delivered" => delivery'[x] = "delivered"
    BY <1>1 DEF Confirm, TypeOK
  <2>. QED
    BY <2>1 DEF InHand, TypeOK
<1>2. CASE \/ \E e \in Events, d \in Decisions : Decide(e, d)
           \/ \E h \in Hashes : UpdatePolicy(h) \/ EditPolicyFile(h)
           \/ \E t \in Targets : Release(t)
           \/ Mine \/ UNCHANGED vars
  <2>1. UNCHANGED <<inbox, handler>>
    BY <1>2 DEF Decide, UpdatePolicy, EditPolicyFile, Release, Mine, vars
  <2>. QED
    BY <2>1 DEF InHand
<1>3. CASE Restart
  <2>1. pc = "down" /\ pc' = "idle" /\ UNCHANGED <<threat, slot, sends>>
    BY <1>3 DEF Restart
  <2>2. batch' \subseteq Events /\ \A e \in batch' : delivery'[e] = "delivered"
    BY <1>3 DEF Restart
  <2>. QED
    BY <2>1, <2>2 DEF InHand, KnownPath, ProbePath
<1>4. CASE ReadBatch
  <2>1. pc = "idle" /\ UNCHANGED handler /\ batch' \subseteq Events
    BY <1>4 DEF ReadBatch
  <2>2. \A e \in batch' : delivery'[e] = "delivered"
    BY <1>4 DEF ReadBatch
  <2>. QED
    BY <2>1, <2>2 DEF InHand, KnownPath, ProbePath
<1>5. ASSUME NEW e \in Events, Take(e) PROVE InHand'
  BY <1>5 DEF Take, InHand, KnownPath, ProbePath, TypeOK
<1>6. CASE GateAnswers
  <2>1. CASE Finish
    BY <1>6, <2>1, FinishKeeps DEF GateAnswers
  <2>2. CASE pc' = "prove" /\ slot' = "closed"
    BY <1>6, <2>2, AdvanceKeeps DEF GateAnswers, KnownPath
  <2>. QED
    BY <1>6, <2>1, <2>2 DEF GateAnswers
<1>7. CASE GateTimesOut \/ AwaitReceipt \/ ProbeReceipt \/ StepRaises
  BY <1>7, FinishKeeps DEF GateTimesOut, AwaitReceipt, ProbeReceipt, StepRaises
<1>8. CASE Prove
  <2>1. CASE Finish
    BY <1>8, <2>1, FinishKeeps DEF Prove
  <2>2. CASE pc' = "check" /\ UNCHANGED slot
    BY <1>8, <2>2, AdvanceKeeps DEF Prove, KnownPath, InHand
  <2>. QED
    BY <1>8, <2>1, <2>2 DEF Prove
<1>9. CASE CheckAndSign
  <2>1. CASE Finish
    BY <1>9, <2>1, FinishKeeps DEF CheckAndSign
  <2>2. CASE pc' = "send" /\ sends' = 0 /\ UNCHANGED slot
    BY <1>9, <2>2, AdvanceKeeps DEF CheckAndSign, KnownPath, InHand, MaxSends
  <2>. QED
    BY <1>9, <2>1, <2>2 DEF CheckAndSign
<1>10. CASE Send
  <2>1. pc = "send" /\ slot = "closed" /\ UNCHANGED <<inbox, threat>>
    BY <1>10 DEF Send, InHand
  <2>2. CASE Finish
    BY <2>1, <2>2, FinishKeeps
  <2>3. CASE pc' = "receipt" /\ UNCHANGED slot
    BY <2>1, <2>3, AdvanceKeeps DEF KnownPath
  <2>4. CASE SendAgain /\ ~Finish
    <3>1. sends' < MaxSends /\ UNCHANGED <<pc, slot>>
      BY <2>1, <2>4 DEF SendAgain, InHand, MaxSends, TypeOK
    <3>. QED
      BY <2>1, <3>1, AdvanceKeeps DEF KnownPath
  <2>. QED
    BY <1>10, <2>2, <2>3, <2>4 DEF Send
<1>11. CASE ProbeProver \/ ProbeRead \/ ProbeSend
  <2>1. pc \in ProbePath /\ slot = "closed" /\ UNCHANGED <<delivery, batch, threat>>
    BY <1>11 DEF ProbeProver, ProbeRead, ProbeSend, InHand, ProbePath
  <2>2. CASE Finish
    BY <2>1, <2>2, FinishKeeps DEF ProbePath
  <2>3. CASE pc' \in ProbePath /\ UNCHANGED slot
    BY <2>1, <2>3, AdvanceKeeps DEF ProbePath
  <2>. QED
    BY <1>11, <2>2, <2>3 DEF ProbeProver, ProbeRead, ProbeSend, ProbePath
<1>12. CASE Ack
  <2>1. pc = "ack" /\ pc' = "idle" /\ threat' = Zero /\ UNCHANGED <<batch, slot>>
    BY <1>12 DEF Ack
  <2>2. \A e \in batch : delivery'[e] = "delivered"
    BY <1>12 DEF Ack, InHand, TypeOK
  <2>. QED
    BY <2>1, <2>2 DEF InHand, KnownPath, ProbePath
<1>13. CASE OnDecision
  <2>1. UNCHANGED <<inbox, pc, threat, sends>> /\ (slot = "closed" => slot' = "closed")
    BY <1>13 DEF OnDecision
  <2>. QED
    BY <2>1 DEF InHand
<1>14. CASE Crash
  BY <1>14 DEF Crash, InHand, KnownPath, ProbePath
<1>. QED
  BY <1>1, <1>2, <1>3, <1>4, <1>5, <1>6, <1>7, <1>8, <1>9, <1>10, <1>11, <1>12, <1>13, <1>14
  DEF Next, AgentStep, Surroundings

-----------------------------------------------------------------------------
(* Approval *)

LEMMA SlotStep ==
  ASSUME TypeOK, InHand, SlotIsHeard, [Next]_vars
  PROVE  SlotIsHeard'
<1>. USE DEF handler, Finish
<1>1. slot # "closed" => pc = "gate" /\ threat \in Events
  BY DEF InHand
<1>2. CASE UNCHANGED <<slot, threat, heard>>
  BY <1>2 DEF SlotIsHeard
<1>3. CASE slot' = "closed"
  BY <1>3 DEF SlotIsHeard, Decisions
<1>4. CASE OnDecision
  <2>. DEFINE said == Head(approvals)
  <2>1. said \in Approvals
    BY <1>4, Sequences, HeadTailProperties DEF OnDecision
  <2>2. UNCHANGED threat /\ Hears(said)
        /\ slot' = IF slot = "open" /\ said.event = threat THEN said.decision ELSE slot
    BY <1>4 DEF OnDecision
  <2>3. said.event \in Events /\ said.decision \in Decisions
    BY <2>1 DEF Approvals
  <2>4. heard \in [Events -> Decisions \union {"none"}]
    BY DEF TypeOK
  <2>. HIDE DEF said
  <2>5. CASE slot = "closed"
    BY <1>3, <2>2, <2>5
  <2>6. CASE slot = "open"
    <3>1. pc = "gate" /\ threat \in Events /\ heard[threat] = "none"
      BY <1>1, <2>6 DEF SlotIsHeard
    <3>2. CASE said.event = threat
      BY <2>2, <2>3, <2>4, <2>6, <3>1, <3>2 DEF Hears, SlotIsHeard, Decisions
    <3>3. CASE said.event # threat
      BY <2>2, <2>3, <2>4, <2>6, <3>1, <3>3 DEF Hears, SlotIsHeard, Decisions
    <3>. QED
      BY <3>2, <3>3
  <2>7. CASE slot \in Decisions
    <3>1. threat \in Events /\ heard[threat] = slot /\ slot # "none" /\ slot # "open"
      BY <1>1, <2>7 DEF SlotIsHeard, Decisions
    <3>. QED
      BY <2>2, <2>3, <2>4, <2>7, <3>1 DEF Hears, SlotIsHeard
  <2>. QED
    BY <2>5, <2>6, <2>7 DEF TypeOK
<1>5. CASE Ack
  BY <1>3, <1>5 DEF Ack, InHand
<1>6. ASSUME NEW e \in Events, Take(e) PROVE SlotIsHeard'
  BY <1>6 DEF Take, SlotIsHeard, Decisions
<1>7. CASE \/ Restart \/ ReadBatch \/ GateAnswers \/ GateTimesOut \/ Prove \/ CheckAndSign
           \/ AwaitReceipt \/ ProbeProver \/ ProbeRead \/ ProbeSend \/ ProbeReceipt
           \/ StepRaises \/ Crash
  BY <1>2, <1>3, <1>7 DEF Restart, ReadBatch, GateAnswers, GateTimesOut, Prove, CheckAndSign,
     AwaitReceipt, ProbeProver, ProbeRead, ProbeSend, ProbeReceipt, StepRaises, Crash, operator
<1>8. CASE Send
  BY <1>2, <1>3, <1>8 DEF Send, SendAgain, operator
<1>9. CASE Surroundings \/ UNCHANGED vars
  BY <1>2, <1>9 DEF Surroundings, Confirm, Decide, UpdatePolicy, EditPolicyFile, Release, Mine,
     vars, operator
<1>. QED
  BY <1>4, <1>5, <1>6, <1>7, <1>8, <1>9 DEF Next, AgentStep

LEMMA PastGateStep ==
  ASSUME TypeOK, InHand, SlotIsHeard, PastGate, [Next]_vars
  PROVE  PastGate'
<1>. USE DEF handler, Finish
<1>1. CASE pc' \notin {"prove", "check", "send"}
  BY <1>1 DEF PastGate
<1>2. CASE pc \in {"prove", "check", "send"} /\ threat' = threat /\ UNCHANGED heard
  BY <1>2 DEF PastGate
<1>3. CASE GateAnswers
  BY <1>1, <1>3 DEF GateAnswers, SlotIsHeard, PastGate, operator, Decisions
<1>4. ASSUME NEW e \in Events, Take(e) PROVE PastGate'
  BY <1>1, <1>4 DEF Take, PastGate
<1>5. CASE OnDecision
  <2>1. pc \in {"prove", "check", "send"} => UNCHANGED heard
    BY <1>5 DEF OnDecision, Hears
  <2>. QED
    BY <1>1, <1>2, <1>5, <2>1 DEF OnDecision
<1>6. CASE \/ Restart \/ ReadBatch \/ GateTimesOut \/ Prove \/ CheckAndSign \/ Send
           \/ AwaitReceipt \/ ProbeProver \/ ProbeRead \/ ProbeSend \/ ProbeReceipt \/ Ack
           \/ StepRaises \/ Crash
  BY <1>1, <1>2, <1>6 DEF Restart, ReadBatch, GateTimesOut, Prove, CheckAndSign, Send, SendAgain,
     AwaitReceipt, ProbeProver, ProbeRead, ProbeSend, ProbeReceipt, Ack, StepRaises, Crash, operator
<1>7. CASE Surroundings \/ UNCHANGED vars
  BY <1>1, <1>2, <1>7 DEF Surroundings, Confirm, Decide, UpdatePolicy, EditPolicyFile,
     Release, Mine, vars, operator
<1>. QED
  BY <1>3, <1>4, <1>5, <1>6, <1>7 DEF Next, AgentStep

-----------------------------------------------------------------------------
(* Transactions *)

\* What the node has taken stays; the only addition is the call for the threat in
\* hand, with the proof of its kind, under the nonce in hand.
Extends(proof) ==
  /\ nonce = Len(txs) + 1 /\ Len(txs') = Len(txs) + 1
  /\ \A i \in 1..Len(txs) : txs'[i] = txs[i]
  /\ txs'[Len(txs) + 1] = Transaction(proof)
  /\ threat \in Events /\ UNCHANGED <<delivery, batch, threat, nonce, receipts, activations>>

LEMMA NodeGrows ==
  ASSUME TypeOK, InHand, [Next]_vars
  PROVE  \/ UNCHANGED txs
         \/ pc = "send" /\ threat \in Known /\ pc' \in {"send", "receipt", "ack"} /\ Extends("proof")
         \/ pc = "probeSend" /\ threat \notin Known /\ pc' \in {"probeReceipt", "ack"} /\ Extends("empty")
<1>. USE DEF inbox, operator, Finish
<1>1. ASSUME NEW proof \in Proofs, NodeTakes(proof), pc \in {"send", "probeSend"},
             UNCHANGED <<delivery, batch, threat, nonce, receipts, activations>>
      PROVE  Extends(proof)
  <2>1. threat \in Events
    BY <1>1 DEF InHand
  <2>2. nonce = Len(txs) + 1 /\ txs' = Append(txs, Transaction(proof))
    BY <1>1 DEF NodeTakes
  <2>3. txs \in Seq(Transactions) /\ Transaction(proof) \in Transactions
    BY <1>1, <2>1, Sequences, TransactionType
  <2>. QED
    BY <1>1, <2>1, <2>2, <2>3, AppendProperties DEF Extends
<1>2. CASE Send /\ NodeTakes("proof")
  BY <1>1, <1>2 DEF Send, SendAgain, InHand, KnownPath, Proofs
<1>3. CASE ProbeSend /\ NodeTakes("empty")
  BY <1>1, <1>3 DEF ProbeSend, InHand, ProbePath, Proofs
<1>. QED
  BY <1>2, <1>3, NodeMoves

\* A confirmed threat stays confirmed.
LEMMA DeliveryMoves ==
  ASSUME TypeOK, [Next]_vars, NEW e \in Events, delivery[e] # "none"
  PROVE  delivery'[e] # "none"
<1>. USE DEF inbox
<1>1. CASE UNCHANGED delivery
  BY <1>1
<1>2. ASSUME NEW x \in Events, Confirm(x) PROVE delivery'[e] # "none"
  BY <1>2 DEF Confirm, TypeOK
<1>3. CASE Restart \/ ReadBatch \/ Ack
  BY <1>3 DEF Restart, ReadBatch, Ack, TypeOK
<1>4. CASE AgentStep \/ OnDecision \/ StepRaises \/ Crash
  BY <1>1, <1>3, <1>4 DEF AgentStep, Take, GateAnswers, GateTimesOut, Prove, CheckAndSign, Send,
     AwaitReceipt, ProbeProver, ProbeRead, ProbeSend, ProbeReceipt, OnDecision, StepRaises, Crash
<1>5. CASE Surroundings \/ UNCHANGED vars
  BY <1>1, <1>2, <1>5 DEF Surroundings, Decide, UpdatePolicy, EditPolicyFile, Release, Mine, vars
<1>. QED
  BY <1>4, <1>5 DEF Next

LEMMA SentAreCallsStep ==
  ASSUME TypeOK, InHand, SentAreCalls, [Next]_vars
  PROVE  SentAreCalls'
<1>. DEFINE IsCall(tx) == LET e == tx.action.eventId IN
                          /\ e \in Events /\ delivery'[e] # "none" /\ tx.action = CallFor(e)
                          /\ tx.proof = IF e \in Known THEN "proof" ELSE "empty"
<1>1. \A i \in 1..Len(txs) : IsCall(txs[i])
  BY DeliveryMoves DEF SentAreCalls
<1>2. CASE UNCHANGED txs
  BY <1>1, <1>2 DEF SentAreCalls
<1>3. ASSUME NEW proof, Extends(proof), proof = IF threat \in Known THEN "proof" ELSE "empty",
             pc \in {"send", "probeSend"}
      PROVE  SentAreCalls'
  <2>1. Transaction(proof).action = CallFor(threat) /\ Transaction(proof).proof = proof
        /\ CallFor(threat).eventId = threat
    BY DEF Transaction, CallFor
  <2>2. delivery'[threat] = "delivered" /\ threat \in Events
    BY <1>3 DEF Extends, InHand
  <2>3. IsCall(Transaction(proof))
    BY <1>3, <2>1, <2>2
  <2>4. Len(txs) \in Nat /\ Len(txs') = Len(txs) + 1 /\ txs'[Len(txs) + 1] = Transaction(proof)
        /\ \A i \in 1..Len(txs) : txs'[i] = txs[i]
    BY <1>3, Sequences DEF Extends
  <2>5. \A i \in 1..Len(txs') : IsCall(txs'[i])
    BY <1>1, <2>3, <2>4
  <2>. QED
    BY <2>5 DEF SentAreCalls, CallFor
<1>. QED
  BY <1>2, <1>3, NodeGrows

\* A gated threat's transaction is handed over only by a send past the gate.
LEMMA OnlyApprovedStep ==
  ASSUME TypeOK, InHand, PastGate, [Next]_vars, NEW e \in Known \intersect Gated,
         Len(txs') > Len(txs), txs'[Len(txs')].action.eventId = e
  PROVE  heard[e] = "approve"
<1>1. UNCHANGED txs => FALSE
  BY Sequences
<1>2. \A proof : Extends(proof) => e = threat
  BY DEF Extends, Transaction, CallFor
<1>3. pc = "send" /\ e = threat
  BY <1>1, <1>2, NodeGrows
<1>. QED
  BY <1>3 DEF PastGate

LEMMA OwnNonceStep ==
  ASSUME TypeOK, InHand, OwnNonce, [Next]_vars
  PROVE  OwnNonce'
<1>. USE DEF handler, Finish
<1>1. CASE pc' \notin {"send", "probeSend", "receipt", "probeReceipt"}
  BY <1>1 DEF OwnNonce
<1>2. CASE UNCHANGED <<pc, nonce, threat, txs>>
  BY <1>2 DEF OwnNonce
<1>3. CASE CheckAndSign \/ ProbeRead
  <2>1. txs' = txs /\ Len(txs) \in Nat
    BY <1>3, Sequences DEF CheckAndSign, ProbeRead, node
  <2>. QED
    BY <1>1, <1>3, <2>1 DEF CheckAndSign, ProbeRead, OwnNonce
<1>4. CASE Send
  <2>1. CASE pc' = "ack"
    BY <1>1, <2>1
  <2>2. CASE pc' = "receipt" /\ NodeTakes("proof")
    <3>1. Extends("proof")
      BY <2>2, NodeGrows, Sequences, AppendProperties, TransactionType, <1>4
      DEF NodeTakes, Send, Extends, InHand, Proofs, inbox, operator
    <3>. QED
      BY <2>2, <3>1, Sequences DEF OwnNonce, Extends, Transaction, CallFor
  <2>3. CASE pc' = "send"
    <3>1. nonce' = nonce /\ nonce \in 1..(Len(txs) + 1)
      BY <1>4, <2>3 DEF Send, OwnNonce
    <3>2. Len(txs) \in Nat /\ Len(txs') \in Nat /\ Len(txs') >= Len(txs)
      BY NodeGrows, Sequences DEF Extends
    <3>. QED
      BY <2>3, <3>1, <3>2 DEF OwnNonce
  <2>. QED
    BY <1>4, <2>1, <2>2, <2>3 DEF Send, SendAgain
<1>5. CASE ProbeSend
  <2>1. CASE pc' = "ack"
    BY <1>1, <2>1
  <2>2. CASE pc' = "probeReceipt" /\ NodeTakes("empty")
    <3>1. Extends("empty")
      BY <2>2, NodeGrows, Sequences, AppendProperties, TransactionType, <1>5
      DEF NodeTakes, ProbeSend, Extends, InHand, Proofs, inbox, operator
    <3>. QED
      BY <2>2, <3>1, Sequences DEF OwnNonce, Extends, Transaction, CallFor
  <2>. QED
    BY <1>5, <2>1, <2>2 DEF ProbeSend
<1>6. CASE \/ Restart \/ ReadBatch \/ (\E e \in Events : Take(e)) \/ GateAnswers \/ GateTimesOut
           \/ Prove \/ AwaitReceipt \/ ProbeProver \/ ProbeReceipt \/ Ack \/ StepRaises \/ Crash
  BY <1>1, <1>2, <1>6 DEF Restart, ReadBatch, Take, GateAnswers, GateTimesOut, Prove,
     AwaitReceipt, ProbeProver, ProbeReceipt, Ack, StepRaises, Crash, node
<1>7. CASE OnDecision \/ Surroundings \/ UNCHANGED vars
  BY <1>1, <1>2, <1>7 DEF OnDecision, Surroundings, Confirm, Decide, UpdatePolicy, EditPolicyFile,
     Release, Mine, vars, node
<1>. QED
  BY <1>3, <1>4, <1>5, <1>6, <1>7 DEF Next, AgentStep

-----------------------------------------------------------------------------
(* Counting transactions *)

\* Only a crash makes a threat due again.
LEMMA DueMoves ==
  ASSUME TypeOK, InHand, [Next]_vars, NEW e \in Events
  PROVE  \/ crashes' = crashes + 1
         \/ crashes' = crashes /\ (Due(e)' => Due(e))
<1>. USE DEF inbox, handler, bounds, node, Finish, Fault
<1>1. Len(txs) \in Nat /\ Len(txs') \in Nat /\ Len(txs') >= Len(txs)
  BY Sequences, NodeGrows DEF Extends
<1>2. CASE Crash
  BY <1>2 DEF Crash
<1>3. CASE UNCHANGED <<delivery, batch, threat, nonce, crashes>> /\ pc' \in {pc, "receipt", "ack"}
  BY <1>1, <1>3 DEF Due, TypeOK
<1>4. ASSUME NEW x \in Events, Confirm(x)
      PROVE  crashes' = crashes /\ (Due(e)' => Due(e))
  <2>1. delivery'[e] \in {"none", "queued"} => delivery[e] \in {"none", "queued"}
    BY <1>4 DEF Confirm, TypeOK
  <2>2. delivery'[e] = "delivered" => delivery[e] = "delivered"
    BY <1>4 DEF Confirm, TypeOK
  <2>. QED
    BY <1>1, <1>4, <2>1, <2>2 DEF Confirm, Due
<1>5. CASE Restart
  <2>1. pc = "down" /\ pc' = "idle" /\ crashes' = crashes
    BY <1>5 DEF Restart
  <2>2. e \in batch' => delivery[e] = "delivered"
    BY <1>5 DEF Restart
  <2>3. delivery'[e] \in {"none", "queued"} => delivery[e] = delivery'[e]
    BY <1>5 DEF Restart, TypeOK
  <2>. QED
    BY <2>1, <2>2, <2>3 DEF Due
<1>6. CASE ReadBatch
  <2>1. pc' = "idle" /\ crashes' = crashes
    BY <1>6 DEF ReadBatch
  <2>2. e \in batch' => delivery[e] = "queued"
    BY <1>6 DEF ReadBatch
  <2>3. delivery'[e] \in {"none", "queued"} => delivery[e] = delivery'[e]
    BY <1>6 DEF ReadBatch, TypeOK
  <2>. QED
    BY <2>1, <2>2, <2>3 DEF Due
<1>7. ASSUME NEW x \in Events, Take(x)
      PROVE  crashes' = crashes /\ (Due(e)' => Due(e))
  BY <1>7 DEF Take, Due
<1>8. CASE Ack
  <2>1. pc' = "idle" /\ batch' = batch /\ crashes' = crashes
    BY <1>8 DEF Ack
  <2>2. delivery'[e] \in {"none", "queued"} => delivery[e] = delivery'[e]
    BY <1>8 DEF Ack, TypeOK
  <2>. QED
    BY <2>1, <2>2 DEF Due
<1>9. CASE GateAnswers \/ Prove \/ ProbeProver
  BY <1>9 DEF GateAnswers, Prove, ProbeProver, Due
<1>10. CASE CheckAndSign \/ ProbeRead
  BY <1>10 DEF CheckAndSign, ProbeRead, Due
<1>11. CASE Send \/ ProbeSend
  BY <1>1, <1>11 DEF Send, SendAgain, ProbeSend, Due, TypeOK
<1>12. CASE GateTimesOut \/ AwaitReceipt \/ ProbeReceipt \/ StepRaises
  BY <1>3, <1>12 DEF GateTimesOut, AwaitReceipt, ProbeReceipt, StepRaises
<1>13. CASE OnDecision \/ (\E x \in Events, d \in Decisions : Decide(x, d))
            \/ (\E h \in Hashes : UpdatePolicy(h) \/ EditPolicyFile(h))
            \/ (\E t \in Targets : Release(t)) \/ Mine \/ UNCHANGED vars
  BY <1>3, <1>13 DEF OnDecision, Decide, UpdatePolicy, EditPolicyFile, Release, Mine, vars
<1>. QED
  BY <1>2, <1>4, <1>5, <1>6, <1>7, <1>8, <1>9, <1>10, <1>11, <1>12, <1>13
  DEF Next, AgentStep, Surroundings

LEMMA SentForFinite ==
  ASSUME TypeOK, NEW e
  PROVE  /\ IsFiniteSet(SentFor(e)) /\ Cardinality(SentFor(e)) \in Nat
         /\ IsFiniteSet(TookEffect(e)) /\ Cardinality(TookEffect(e)) \in Nat
<1>1. SentFor(e) \subseteq 1..Len(txs) /\ TookEffect(e) \subseteq 1..Len(receipts)
  BY DEF SentFor, TookEffect
<1>2. IsFiniteSet(1..Len(txs)) /\ IsFiniteSet(1..Len(receipts))
  BY Sequences, FS_Interval
<1>3. IsFiniteSet(SentFor(e)) /\ IsFiniteSet(TookEffect(e))
  BY <1>1, <1>2, FS_Subset
<1>. QED
  BY <1>3, FS_CardinalityType

\* A new transaction counts for the threat in hand and for no other.
LEMMA SentForMoves ==
  ASSUME TypeOK, NEW e \in Events, NEW proof, Extends(proof)
  PROVE  /\ e # threat => SentFor(e)' = SentFor(e)
         /\ e = threat => Cardinality(SentFor(e)') = Cardinality(SentFor(e)) + 1
<1>1. /\ Len(txs) \in Nat /\ Len(txs') = Len(txs) + 1
      /\ \A i \in 1..Len(txs) : txs'[i] = txs[i]
      /\ txs'[Len(txs) + 1].action.eventId = threat
  BY Sequences DEF Extends, Transaction, CallFor
<1>2. CASE e # threat
  BY <1>1, <1>2 DEF SentFor
<1>3. CASE e = threat
  <2>1. SentFor(e)' = SentFor(e) \union {Len(txs) + 1} /\ Len(txs) + 1 \notin SentFor(e)
    BY <1>1, <1>3 DEF SentFor
  <2>. QED
    BY <1>3, <2>1, SentForFinite, FS_AddElement
<1>. QED
  BY <1>2, <1>3

LEMMA OnePerDeliveryStep ==
  ASSUME TypeOK, InHand, OnePerDelivery, [Next]_vars
  PROVE  OnePerDelivery'
<1>. SUFFICES ASSUME NEW e \in Events
              PROVE  Cardinality(SentFor(e)') <= IF Due(e)' THEN crashes' ELSE crashes' + 1
  BY DEF OnePerDelivery
<1>1. crashes \in Nat /\ Cardinality(SentFor(e)) \in Nat
  BY SentForFinite DEF TypeOK
<1>2. Cardinality(SentFor(e)) <= IF Due(e) THEN crashes ELSE crashes + 1
  BY DEF OnePerDelivery
<1>3. CASE SentFor(e)' = SentFor(e)
  BY <1>1, <1>2, <1>3, DueMoves
<1>4. ASSUME NEW proof, Extends(proof), e = threat,
             pc \in {"send", "probeSend"}, pc' \in {"send", "receipt", "probeReceipt", "ack"}
      PROVE  Cardinality(SentFor(e)') <= IF Due(e)' THEN crashes' ELSE crashes' + 1
  <2>1. Due(e)
    BY <1>4, Sequences DEF Due, Extends
  <2>2. ~Due(e)'
    BY <1>4, Sequences DEF Due, Extends, InHand
  <2>3. Cardinality(SentFor(e)') = Cardinality(SentFor(e)) + 1
    BY <1>4, SentForMoves
  <2>4. crashes' \in {crashes, crashes + 1}
    BY DueMoves
  <2>. QED
    BY <1>1, <1>2, <2>1, <2>2, <2>3, <2>4
<1>5. CASE UNCHANGED txs
  BY <1>3, <1>5 DEF SentFor
<1>. QED
  BY <1>3, <1>4, <1>5, NodeGrows, SentForMoves

-----------------------------------------------------------------------------
(* Receipts and activations *)

\* Mining gives the next transaction its receipt, and an activation if that is "ok".
LEMMA Mined ==
  ASSUME TypeOK, SentAreCalls, Mine
  PROVE  LET i == Len(receipts) + 1
             e == txs[i].action.eventId IN
         /\ i \in 1..Len(txs) /\ UNCHANGED txs /\ Len(receipts') = i
         /\ \A j \in 1..Len(receipts) : receipts'[j] = receipts[j]
         /\ e \in Events
         /\ receipts'[i] = "ok" => activations' = [activations EXCEPT ![e] = @ + 1]
         /\ receipts'[i] # "ok" => activations' = activations
<1>. DEFINE i == Len(receipts) + 1
            verdict == VerdictOf(Agent, txs[i].action, txs[i].proof, txs[i].inputs)
<1>1. /\ i <= Len(txs) /\ receipts' = Append(receipts, verdict) /\ UNCHANGED txs
      /\ \/ /\ verdict = "ok"
            /\ activations' = [activations EXCEPT ![txs[i].action.eventId] = @ + 1]
         \/ verdict # "ok" /\ activations' = activations
  BY DEF Mine, VerifyAndExecute
<1>2. verdict \in Verdicts
  BY VerdictType
<1>. HIDE DEF verdict
<1>3. i \in 1..Len(txs) /\ Len(receipts') = i /\ receipts'[i] = verdict
      /\ \A j \in 1..Len(receipts) : receipts'[j] = receipts[j]
  BY <1>1, <1>2, Sequences, AppendProperties
<1>4. txs[i].action.eventId \in Events
  BY <1>3 DEF SentAreCalls
<1>. QED
  BY <1>1, <1>3, <1>4

\* Only mining makes a transaction take effect, and only for its own threat.
LEMMA TookEffectMoves ==
  ASSUME TypeOK, InHand, SentAreCalls, [Next]_vars, NEW e \in Events
  PROVE  \/ TookEffect(e)' = TookEffect(e) /\ activations'[e] = activations[e]
         \/ /\ Len(receipts) + 1 \in SentFor(e)
            /\ TookEffect(e)' = TookEffect(e) \union {Len(receipts) + 1}
            /\ Len(receipts) + 1 \notin TookEffect(e)
            /\ activations'[e] = activations[e] + 1
<1>1. CASE Mine
  <2>. DEFINE i == Len(receipts) + 1
              x == txs[i].action.eventId
  <2>1. /\ i \in 1..Len(txs) /\ UNCHANGED txs /\ Len(receipts') = i
        /\ \A j \in 1..Len(receipts) : receipts'[j] = receipts[j]
        /\ x \in Events
        /\ receipts'[i] = "ok" => activations' = [activations EXCEPT ![x] = @ + 1]
        /\ receipts'[i] # "ok" => activations' = activations
    BY <1>1, Mined
  <2>2. Len(receipts) \in Nat /\ activations \in [Events -> Nat]
    BY Sequences DEF TypeOK
  <2>3. CASE receipts'[i] = "ok" /\ x = e
    <3>1. TookEffect(e)' = TookEffect(e) \union {i} /\ i \notin TookEffect(e) /\ i \in SentFor(e)
      BY <2>1, <2>2, <2>3 DEF TookEffect, SentFor
    <3>. QED
      BY <2>1, <2>2, <2>3, <3>1
  <2>4. CASE ~(receipts'[i] = "ok" /\ x = e)
    <3>1. TookEffect(e)' = TookEffect(e)
      BY <2>1, <2>2, <2>4 DEF TookEffect
    <3>. QED
      BY <2>1, <2>2, <2>4, <3>1
  <2>. QED
    BY <2>3, <2>4
<1>2. CASE UNCHANGED <<receipts, activations>>
  <2>1. Len(receipts) <= Len(txs) /\ Len(receipts) \in Nat /\ Len(txs) \in Nat
    BY Sequences
  <2>2. \A i \in 1..Len(receipts) : txs'[i] = txs[i]
    BY <2>1, NodeGrows DEF Extends
  <2>. QED
    BY <1>2, <2>2 DEF TookEffect
<1>. QED
  BY <1>1, <1>2, MiningMoves

LEMMA ActivationsStep ==
  ASSUME TypeOK, InHand, SentAreCalls, ActivationsAreReceipts, [Next]_vars
  PROVE  ActivationsAreReceipts'
<1>. SUFFICES ASSUME NEW e \in Events
              PROVE  activations'[e] = Cardinality(TookEffect(e)')
  BY DEF ActivationsAreReceipts
<1>1. activations[e] = Cardinality(TookEffect(e))
  BY DEF ActivationsAreReceipts
<1>. QED
  BY <1>1, TookEffectMoves, SentForFinite, FS_AddElement

\* What took effect for a threat had been sent for it.
LEMMA EffectWasSent ==
  ASSUME TypeOK, NEW e
  PROVE  TookEffect(e) \subseteq SentFor(e)
  BY Sequences DEF TookEffect, SentFor

-----------------------------------------------------------------------------
(* Reports *)

\* A rejection is new only where the gate or the probe reports it, and ends there.
LEMMA NewRejection ==
  ASSUME TypeOK, InHand, [Next]_vars, NEW e \in Events,
         published[e] \intersect Rejections = {}, published'[e] \intersect Rejections # {}
  PROVE  /\ e = threat /\ pc' = "ack"
         /\ UNCHANGED <<delivery, batch, threat, txs, receipts>>
         /\ \/ pc \in {"gate", "probeSend"}
            \/ pc = "probeReceipt" /\ nonce <= Len(receipts) /\ receipts[nonce] # "ok"
<1>. USE DEF inbox, handler, node, Finish
<1>1. published' # published
  OBVIOUS
<1>2. ASSUME NEW what, Publish(threat, what) PROVE e = threat /\ what \in Rejections
  BY <1>2 DEF Publish, TypeOK
<1>3. CASE GateAnswers \/ GateTimesOut
  BY <1>1, <1>2, <1>3 DEF GateAnswers, GateTimesOut
<1>4. CASE ProbeSend
  <2>1. UNCHANGED <<delivery, batch, threat, receipts>> /\ pc = "probeSend"
    BY <1>4 DEF ProbeSend
  <2>2. \/ Publish(threat, "alert")
        \/ \E what : Publish(threat, what) /\ Finish /\ UNCHANGED txs
    BY <1>1, <1>4 DEF ProbeSend
  <2>3. ~Publish(threat, "alert")
    BY DEF Publish, Rejections, TypeOK
  <2>. QED
    BY <1>2, <2>1, <2>2, <2>3
<1>5. CASE ProbeReceipt
  <2>1. UNCHANGED <<delivery, batch, threat, txs, receipts>> /\ pc = "probeReceipt" /\ pc' = "ack"
    BY <1>5 DEF ProbeReceipt
  <2>2. ~Publish(threat, "alert")
    BY DEF Publish, Rejections, TypeOK
  <2>3. nonce <= Len(receipts) /\ receipts[nonce] # "ok" /\ \E what : Publish(threat, what)
    BY <1>5, <2>2 DEF ProbeReceipt
  <2>. QED
    BY <1>2, <2>1, <2>3
<1>6. CASE Prove \/ CheckAndSign \/ Send \/ AwaitReceipt \/ ProbeProver \/ ProbeRead
  <2>1. \E what \in {"alert", "submitted", "mined: 0", "mined: 1"} : Publish(threat, what)
    BY <1>1, <1>6 DEF Prove, CheckAndSign, Send, AwaitReceipt, ProbeProver, ProbeRead
  <2>. QED
    BY <1>2, <2>1 DEF Rejections
<1>7. CASE Restart \/ ReadBatch \/ (\E x \in Events : Take(x)) \/ Ack \/ OnDecision \/ StepRaises \/ Crash
  BY <1>1, <1>7 DEF Restart, ReadBatch, Take, Ack, OnDecision, StepRaises, Crash
<1>8. CASE Surroundings \/ UNCHANGED vars
  BY <1>1, <1>8 DEF Surroundings, Confirm, Decide, UpdatePolicy, EditPolicyFile, Release, Mine, vars
<1>. QED
  BY <1>3, <1>4, <1>5, <1>6, <1>7, <1>8 DEF Next, AgentStep

\* Before the first crash a threat still due has no transaction, any other at most one.
LEMMA SentOnce ==
  ASSUME TypeOK, OnePerDelivery, crashes = 0, NEW e \in Events
  PROVE  /\ Due(e) => SentFor(e) = {}
         /\ \A i, j \in SentFor(e) : i = j
<1>1. IsFiniteSet(SentFor(e)) /\ Cardinality(SentFor(e)) \in Nat
  BY SentForFinite
<1>2. Cardinality(SentFor(e)) <= IF Due(e) THEN 0 ELSE 1
  BY DEF OnePerDelivery
<1>3. Due(e) => SentFor(e) = {}
  BY <1>1, <1>2, FS_EmptySet
<1>4. Cardinality(SentFor(e)) = 0 \/ Cardinality(SentFor(e)) = 1
  BY <1>1, <1>2
<1>5. SentFor(e) = {} \/ \E i : SentFor(e) = {i}
  BY <1>1, <1>4, FS_EmptySet, FS_Singleton
<1>. QED
  BY <1>3, <1>5

LEMMA RejectedIsOverStep ==
  ASSUME TypeOK, InHand, SentAreCalls, OwnNonce, OnePerDelivery, RejectedIsOver, [Next]_vars
  PROVE  RejectedIsOver'
<1>. SUFFICES ASSUME NEW e \in Events, published'[e] \intersect Rejections # {}, crashes' = 0
              PROVE  /\ ~Due(e)' /\ SentFor(e)' \subseteq 1..Len(receipts')
                     /\ TookEffect(e)' = {}
  BY DEF RejectedIsOver
<1>1. crashes = 0 /\ (Due(e)' => Due(e))
  BY DueMoves DEF TypeOK
<1>2. CASE published[e] \intersect Rejections # {}
  <2>1. ~Due(e) /\ SentFor(e) \subseteq 1..Len(receipts) /\ TookEffect(e) = {}
    BY <1>1, <1>2 DEF RejectedIsOver
  <2>2. Len(receipts) \in Nat /\ Len(receipts') \in Nat /\ Len(receipts') >= Len(receipts)
    BY Sequences, MiningMoves, Mined
  <2>3. SentFor(e)' = SentFor(e)
    <3>1. ASSUME NEW proof, Extends(proof), pc \in {"send", "probeSend"} PROVE e # threat
      BY <2>1, <3>1, Sequences DEF Due, Extends
    <3>2. UNCHANGED txs => SentFor(e)' = SentFor(e)
      BY DEF SentFor
    <3>. QED
      BY <3>1, <3>2, NodeGrows, SentForMoves
  <2>4. TookEffect(e)' = TookEffect(e)
    BY <2>1, <2>2, TookEffectMoves
  <2>. QED
    BY <1>1, <2>1, <2>2, <2>3, <2>4
<1>3. CASE published[e] \intersect Rejections = {}
  <2>1. /\ e = threat /\ pc' = "ack" /\ UNCHANGED <<delivery, batch, threat, txs, receipts>>
        /\ \/ pc \in {"gate", "probeSend"}
           \/ pc = "probeReceipt" /\ nonce <= Len(receipts) /\ receipts[nonce] # "ok"
    BY <1>3, NewRejection
  <2>2. ~Due(e)'
    BY <2>1 DEF Due, InHand
  <2>3. SentFor(e)' = SentFor(e) /\ TookEffect(e)' = TookEffect(e)
    BY <2>1 DEF SentFor, TookEffect
  <2>4. CASE pc \in {"gate", "probeSend"}
    <3>1. Due(e)
      BY <2>1, <2>4, Sequences DEF Due, OwnNonce
    <3>. QED
      BY <1>1, <2>2, <2>3, <3>1, SentOnce, EffectWasSent
  <2>5. CASE pc = "probeReceipt" /\ nonce <= Len(receipts) /\ receipts[nonce] # "ok"
    <3>1. nonce \in SentFor(e) /\ nonce \in 1..Len(receipts)
      BY <2>1, <2>5, Sequences DEF SentFor, OwnNonce
    <3>2. SentFor(e) \subseteq {nonce}
      BY <1>1, <3>1, SentOnce
    <3>3. TookEffect(e) = {}
      BY <2>5, <3>2, EffectWasSent DEF TookEffect
    <3>. QED
      BY <2>1, <2>2, <2>3, <3>1, <3>2, <3>3
  <2>. QED
    BY <2>1, <2>4, <2>5
<1>. QED
  BY <1>2, <1>3

\* "submitted" is new where a transaction is handed over or about to be probed,
\* "mined" with status 1 where the receipt in hand says so.
LEMMA NewReport ==
  ASSUME TypeOK, InHand, [Next]_vars, NEW e \in Events
  PROVE  /\ "submitted" \in published'[e] \ published[e] =>
              e = threat /\ (pc = "probeRead" \/ txs' # txs)
         /\ "mined: 1" \in published'[e] \ published[e] =>
              e = threat /\ pc = "receipt" /\ nonce <= Len(receipts) /\ receipts[nonce] = "ok"
<1>. DEFINE New(what) == what \in published'[e] \ published[e]
<1>1. ASSUME NEW what, NEW known, Publish(threat, what), New(known) PROVE e = threat /\ what = known
  BY <1>1 DEF Publish, TypeOK
<1>2. CASE UNCHANGED published
  BY <1>2
<1>3. CASE Send
  <2>1. UNCHANGED published \/ (Publish(threat, "submitted") /\ NodeTakes("proof"))
    BY <1>3 DEF Send
  <2>2. NodeTakes("proof") => txs' # txs
    <3>1. threat \in Events /\ "proof" \in Proofs /\ pc \in {"send", "probeSend"}
      BY <1>3 DEF Send, InHand, Proofs
    <3>. QED
      BY <3>1, HandedOver, Sequences
  <2>3. CASE Publish(threat, "submitted") /\ NodeTakes("proof")
    <3>1. ~New("mined: 1") /\ (New("submitted") => e = threat)
      BY <2>3 DEF Publish, TypeOK
    <3>. QED
      BY <2>2, <2>3, <3>1
  <2>. QED
    BY <1>2, <2>1, <2>3
<1>4. CASE ProbeRead
  <2>1. Publish(threat, "submitted") /\ pc = "probeRead"
    BY <1>4 DEF ProbeRead
  <2>. QED
    BY <1>1, <2>1
<1>5. CASE AwaitReceipt
  <2>1. pc = "receipt"
    BY <1>5 DEF AwaitReceipt
  <2>2. CASE nonce <= Len(receipts) /\ receipts[nonce] = "ok" /\ Publish(threat, "mined: 1")
    BY <1>1, <2>1, <2>2
  <2>3. CASE Publish(threat, "mined: 0")
    BY <1>1, <2>3
  <2>. QED
    BY <1>2, <1>5, <2>2, <2>3 DEF AwaitReceipt
<1>6. CASE GateAnswers \/ GateTimesOut \/ Prove \/ CheckAndSign \/ ProbeProver
  <2>1. UNCHANGED published \/
          \E what \in Outcomes \ {"submitted", "mined: 1"} : Publish(threat, what)
    BY <1>6 DEF GateAnswers, GateTimesOut, Prove, CheckAndSign, ProbeProver, Outcomes
  <2>. QED
    BY <1>1, <1>2, <2>1
<1>7. CASE ProbeSend \/ ProbeReceipt
  <2>1. \A v : RejectReason(v) \in Outcomes \ {"submitted", "mined: 1"}
    BY DEF RejectReason, Outcomes
  <2>2. UNCHANGED published \/
          \E what \in Outcomes \ {"submitted", "mined: 1"} : Publish(threat, what)
    <3>1. CASE ProbeSend
      BY <2>1, <3>1 DEF ProbeSend, Outcomes
    <3>2. CASE ProbeReceipt
      BY <2>1, <3>2 DEF ProbeReceipt, Outcomes
    <3>. QED
      BY <1>7, <3>1, <3>2
  <2>. QED
    BY <1>1, <1>2, <2>2
<1>8. CASE Restart \/ ReadBatch \/ (\E x \in Events : Take(x)) \/ Ack \/ OnDecision \/ StepRaises \/ Crash
  BY <1>2, <1>8 DEF Restart, ReadBatch, Take, Ack, OnDecision, StepRaises, Crash
<1>9. CASE Surroundings \/ UNCHANGED vars
  BY <1>2, <1>9 DEF Surroundings, Confirm, Decide, UpdatePolicy, EditPolicyFile, Release, Mine, vars
<1>. QED
  BY <1>3, <1>4, <1>5, <1>6, <1>7, <1>8, <1>9 DEF Next, AgentStep

LEMMA ReportsStep ==
  ASSUME TypeOK, InHand, SentAreCalls, OwnNonce, ActivationsAreReceipts, ReportsMatchChain,
         [Next]_vars
  PROVE  ReportsMatchChain'
<1>. SUFFICES ASSUME NEW e \in Events
              PROVE  /\ "submitted" \in published'[e] /\ e \in Known =>
                          \E i \in 1..Len(txs') : txs'[i].action.eventId = e
                     /\ "mined: 1" \in published'[e] => activations'[e] > 0
  BY DEF ReportsMatchChain
<1>1. SentFor(e) \subseteq SentFor(e)'
  BY NodeGrows, Sequences DEF SentFor, Extends
<1>2. activations[e] \in Nat /\ activations'[e] \in Nat /\ activations'[e] >= activations[e]
  <2>1. activations[e] \in Nat
    BY DEF TypeOK
  <2>2. activations'[e] = activations[e] \/ activations'[e] = activations[e] + 1
    BY TookEffectMoves
  <2>. QED
    BY <2>1, <2>2
<1>3. ASSUME "submitted" \in published'[e], e \in Known PROVE SentFor(e)' # {}
  <2>1. CASE "submitted" \in published[e]
    BY <1>1, <1>3, <2>1 DEF ReportsMatchChain, SentFor
  <2>2. CASE e = threat /\ txs' # txs
    <3>1. PICK proof : Extends(proof)
      BY <2>2, NodeGrows
    <3>2. Len(txs) + 1 \in SentFor(e)'
      BY <2>2, <3>1, Sequences DEF Extends, SentFor, Transaction, CallFor
    <3>. QED
      BY <3>2
  <2>3. CASE e = threat /\ pc = "probeRead"
    BY <1>3, <2>3 DEF InHand, ProbePath
  <2>. QED
    BY <1>3, <2>1, <2>2, <2>3, NewReport
<1>4. ASSUME "mined: 1" \in published'[e] PROVE activations'[e] > 0
  <2>1. CASE "mined: 1" \in published[e]
    <3>1. activations[e] > 0
      BY <2>1 DEF ReportsMatchChain
    <3>. QED
      BY <1>2, <3>1
  <2>2. CASE "mined: 1" \notin published[e]
    <3>1. /\ e = threat /\ pc = "receipt" /\ nonce <= Len(receipts)
          /\ receipts[nonce] = "ok"
      BY <1>4, <2>2, NewReport
    <3>2. nonce \in TookEffect(e)
      BY <3>1, Sequences DEF OwnNonce, TookEffect
    <3>3. Cardinality(TookEffect(e)) # 0
      BY <3>2, SentForFinite, FS_EmptySet
    <3>. QED
      <4>1. activations[e] # 0
        BY <3>3 DEF ActivationsAreReceipts
      <4>. QED
        BY <1>2, <4>1
  <2>. QED
    BY <2>1, <2>2
<1>. QED
  BY <1>3, <1>4 DEF SentFor

-----------------------------------------------------------------------------
(* The theorems *)

LEMMA AgentInit == Init => IInv
<1>. SUFFICES ASSUME Init PROVE IInv
  OBVIOUS
<1>1. TypeOK
  <2>1. ChainTypeOK
    BY DEF Init, ChainTypeOK
  <2>. QED
    BY <2>1 DEF Init, TypeOK, Outcomes, MaxSends
<1>2. InHand /\ SlotIsHeard /\ PastGate /\ SentAreCalls /\ OwnNonce
  BY DEF Init, InHand, SlotIsHeard, PastGate, Decisions, SentAreCalls, OwnNonce, KnownPath,
     ProbePath
<1>3. \A e \in Events : SentFor(e) = {} /\ TookEffect(e) = {}
  BY DEF Init, SentFor, TookEffect
<1>4. OnePerDelivery /\ ActivationsAreReceipts
  <2>1. crashes = 0 /\ \A e \in Events : activations[e] = 0
    BY DEF Init
  <2>2. \A e \in Events : Cardinality(SentFor(e)) = 0 /\ Cardinality(TookEffect(e)) = 0
    BY <1>3, FS_EmptySet
  <2>. QED
    BY <2>1, <2>2 DEF OnePerDelivery, ActivationsAreReceipts
<1>5. RejectedIsOver /\ ReportsMatchChain
  BY DEF Init, RejectedIsOver, ReportsMatchChain
<1>. QED
  BY <1>1, <1>2, <1>4, <1>5 DEF IInv

LEMMA AgentStepInv == IInv /\ [Next]_vars => IInv'
<1>. SUFFICES ASSUME IInv, [Next]_vars PROVE IInv'
  OBVIOUS
<1>1. /\ TypeOK /\ InHand /\ SlotIsHeard /\ PastGate /\ SentAreCalls /\ OwnNonce
      /\ OnePerDelivery /\ ActivationsAreReceipts /\ RejectedIsOver /\ ReportsMatchChain
  BY DEF IInv
<1>2. TypeOK' /\ InHand'
  BY <1>1, TypeStep, InHandStep
<1>3. SlotIsHeard' /\ PastGate'
  BY <1>1, SlotStep, PastGateStep
<1>4. SentAreCalls' /\ OwnNonce'
  BY <1>1, SentAreCallsStep, OwnNonceStep
<1>5. OnePerDelivery' /\ ActivationsAreReceipts' /\ RejectedIsOver' /\ ReportsMatchChain'
  BY <1>1, OnePerDeliveryStep, ActivationsStep, RejectedIsOverStep, ReportsStep
<1>. QED
  BY <1>2, <1>3, <1>4, <1>5 DEF IInv

LEMMA AgentInvariant == Spec => []IInv
  BY AgentInit, AgentStepInv, PTL DEF Spec

\* Type correctness of agent, stream, node and contracts.
THEOREM AgentTypeCorrect == Spec => []TypeOK
  BY AgentInvariant, PTL DEF IInv

\* When a gated threat's transaction reaches the node, the first decision read for
\* that threat in this wait was an approval: no other threat's approval, earlier
\* wait, timeout or overruled rejection lets one through (approval_gate.py).
THEOREM AgentSendsOnlyApproved == Spec => OnlyApprovedIsSent
<1>1. IInv /\ [Next]_vars =>
        [\A e \in Known \intersect Gated :
           Len(txs') > Len(txs) /\ txs'[Len(txs')].action.eventId = e
             => heard[e] = "approve"]_vars
  BY OnlyApprovedStep DEF IInv
<1>. QED
  BY <1>1, AgentInvariant, PTL DEF Spec, OnlyApprovedIsSent

\* One delivery activates at most once, however often the send is retried and
\* whatever the node answered (retry.py, __main__.py).
THEOREM AgentActivatesOnce == Spec => []ActivatedOncePerDelivery
<1>1. IInv => ActivatedOncePerDelivery
  <2>. SUFFICES ASSUME IInv, NEW e \in Events PROVE activations[e] <= 1 + crashes
    BY DEF ActivatedOncePerDelivery
  <2>1. TypeOK /\ activations[e] = Cardinality(TookEffect(e)) /\ crashes \in Nat
    BY DEF IInv, ActivationsAreReceipts, TypeOK
  <2>2. Cardinality(TookEffect(e)) <= Cardinality(SentFor(e))
    BY <2>1, EffectWasSent, SentForFinite, FS_Subset
  <2>3. Cardinality(SentFor(e)) <= crashes + 1
    BY <2>1, SentForFinite DEF IInv, OnePerDelivery
  <2>. QED
    BY <2>1, <2>2, <2>3, SentForFinite
<1>. QED
  BY <1>1, AgentInvariant, PTL

\* In a life without a crash a threat reported rejected never takes effect,
\* before or after the report (__main__.py, constraint_failure.py).
THEOREM AgentRejectedStaysOff == Spec => []RejectedStaysOff
<1>1. IInv => RejectedStaysOff
  <2>. SUFFICES ASSUME IInv, NEW e \in Events, published[e] \intersect Rejections # {}
                PROVE  activations[e] = 0 \/ crashes > 0
    BY DEF RejectedStaysOff, Rejections
  <2>1. CASE crashes = 0
    <3>1. TookEffect(e) = {}
      BY <2>1 DEF IInv, RejectedIsOver
    <3>. QED
      BY <3>1, FS_EmptySet DEF IInv, ActivationsAreReceipts
  <2>2. CASE crashes # 0
    BY <2>2 DEF IInv, TypeOK
  <2>. QED
    BY <2>1, <2>2
<1>. QED
  BY <1>1, AgentInvariant, PTL

\* What the agent reports as submitted or mined is on the chain (__main__.py).
THEOREM AgentReportsMatchChain == Spec => []ReportsMatchChain
  BY AgentInvariant, PTL DEF IInv

\* Only a transaction of the agent turns a defense on, and it is "ok" then.
LEMMA DefenseMoves ==
  ASSUME TypeOK, SentAreCalls, [Next]_vars, NEW t \in Targets, activeDefense'[t].active
  PROVE  \/ activeDefense[t].active /\ activeDefense'[t] = activeDefense[t]
         \/ LET tx == txs[Len(receipts) + 1]
                e  == tx.action.eventId IN
            /\ Len(receipts) + 1 \in 1..Len(txs) /\ Len(receipts') = Len(receipts) + 1
            /\ receipts'[Len(receipts) + 1] = "ok" /\ txs' = txs
            /\ t = VictimOf[e] /\ activeDefense'[t].eventId = e
            /\ ~activeDefense[t].active
            /\ tx.inputs.policyHash = currentPolicyHash /\ IVerifier(tx.proof)
<1>1. CASE UNCHANGED activeDefense
  BY <1>1
<1>2. CASE Mine
  <2>. DEFINE tx == txs[Len(receipts) + 1]
  <2>1. CASE UNCHANGED chainVars
    BY <1>1, <2>1 DEF chainVars
  <2>2. CASE VerifyAndExecute(Agent, tx.action, tx.proof, tx.inputs)
    <3>1. Len(receipts) + 1 \in 1..Len(txs) /\ Len(receipts') = Len(receipts) + 1 /\ txs' = txs
      BY <1>2, Mined
    <3>8. receipts'[Len(receipts) + 1] = "ok"
      <4>1. receipts' = Append(receipts, "ok")
        BY <1>2, <2>2 DEF Mine, VerifyAndExecute
      <4>2. "ok" \in Verdicts
        BY DEF Verdicts
      <4>. QED
        BY <4>1, <4>2, Sequences, AppendProperties
    <3>2. tx.action = CallFor(tx.action.eventId) /\ tx.action.eventId \in Events
      BY <3>1 DEF SentAreCalls
    <3>3. /\ Activate(tx.action) /\ CanActivate(tx.action)
          /\ tx.inputs.policyHash = currentPolicyHash /\ IVerifier(tx.proof)
      BY <2>2 DEF VerifyAndExecute, VerdictOf
    <3>4. activeDefense \in [Targets -> [defenseType : DefenseTypes \union {"None"},
                                         eventId : Events \union {Zero}, active : BOOLEAN]]
      BY DEF TypeOK, ChainTypeOK
    <3>5. tx.action.target = VictimOf[tx.action.eventId]
      BY <3>2 DEF CallFor
    <3>6. CASE t = tx.action.target
      BY <3>1, <3>3, <3>4, <3>5, <3>6, <3>8 DEF Activate, CanActivate
    <3>7. CASE t # tx.action.target
      BY <3>1, <3>3, <3>4, <3>7, <3>8 DEF Activate
    <3>. QED
      BY <3>6, <3>7
  <2>. QED
    BY <1>2, <2>1, <2>2 DEF Mine
<1>3. ASSUME NEW x \in Targets, Release(x)
      PROVE  activeDefense[t].active /\ activeDefense'[t] = activeDefense[t]
  BY <1>3 DEF Release, Deactivate, TypeOK, ChainTypeOK
<1>4. CASE AgentStep \/ OnDecision \/ StepRaises \/ Crash
  BY <1>1, <1>4 DEF AgentStep, Restart, ReadBatch, Take, GateAnswers, GateTimesOut, Prove,
     CheckAndSign, Send, AwaitReceipt, ProbeProver, ProbeRead, ProbeSend, ProbeReceipt, Ack,
     OnDecision, StepRaises, Crash, chainVars
<1>5. CASE Surroundings \/ UNCHANGED vars
  BY <1>1, <1>2, <1>3, <1>5 DEF Surroundings, Confirm, Decide, UpdatePolicy, EditPolicyFile,
     PublishDefenseUpdate, vars, chainVars
<1>. QED
  BY <1>4, <1>5 DEF Next

\* The receipt that put a defense in force: mined "ok", with the proof of its kind.
Caused(e) ==
  \E i \in 1..Len(receipts) :
    /\ receipts[i] = "ok" /\ txs[i].action.eventId = e
    /\ txs[i].proof = IF e \in Known THEN "proof" ELSE "empty"

\* What was mined stays mined.
LEMMA CausedStays ==
  ASSUME TypeOK, InHand, [Next]_vars, NEW e, Caused(e)
  PROVE  Caused(e)'
<1>1. PICK i \in 1..Len(receipts) : /\ receipts[i] = "ok" /\ txs[i].action.eventId = e
                                   /\ txs[i].proof = IF e \in Known THEN "proof" ELSE "empty"
  BY DEF Caused
<1>2. i \in 1..Len(txs) /\ txs'[i] = txs[i]
  BY Sequences, NodeGrows DEF Extends
<1>3. i \in 1..Len(receipts') /\ receipts'[i] = receipts[i]
  <2>1. CASE UNCHANGED receipts
    BY <2>1
  <2>2. CASE Mine
    BY <2>2, Sequences, Mined, AppendProperties, VerdictType DEF Mine
  <2>. QED
    BY <2>1, <2>2, MiningMoves
<1>. QED
  BY <1>1, <1>2, <1>3 DEF Caused

\* A defense in force was caused by a confirmed threat against that protocol and a
\* mined transaction with the proof of its kind; one of unknown pattern has a
\* defense only where the verifier takes the empty proof of the probe, as
\* MockGroth16Verifier does (constraint_failure.py, DefenseProtocol.sol).
THEOREM AgentPauseHasItsThreat == Spec => []PauseHasItsThreat
<1>. DEFINE ActiveIsEvent ==
       \A t \in Targets : activeDefense[t].active => activeDefense[t].eventId \in Events
<1>1. Init => ActiveIsEvent /\ PauseHasItsThreat
  BY DEF Init, PauseHasItsThreat
<1>2. IInv /\ ActiveIsEvent /\ PauseHasItsThreat /\ [Next]_vars
        => ActiveIsEvent' /\ PauseHasItsThreat'
  <2>. SUFFICES ASSUME IInv, ActiveIsEvent, PauseHasItsThreat, [Next]_vars,
                       NEW t \in Targets, activeDefense'[t].active,
                       NEW e, e = activeDefense'[t].eventId
                PROVE  /\ e \in Events /\ delivery'[e] # "none" /\ VictimOf[e] = t
                       /\ e \in Known \/ AcceptsEmpty
                       /\ Caused(e)'
    BY DEF PauseHasItsThreat, Caused
  <2>1. TypeOK /\ InHand /\ SentAreCalls
    BY DEF IInv
  <2>2. CASE activeDefense[t].active /\ activeDefense'[t] = activeDefense[t]
    <3>1. e \in Events /\ delivery[e] # "none" /\ VictimOf[e] = t /\ (e \in Known \/ AcceptsEmpty)
          /\ Caused(e)
      BY <2>2 DEF PauseHasItsThreat, Caused
    <3>2. Caused(e)'
      BY <2>1, <3>1, CausedStays
    <3>3. delivery'[e] # "none"
      BY <2>1, <3>1, DeliveryMoves
    <3>. QED
      BY <3>1, <3>2, <3>3
  <2>3. CASE ~(activeDefense[t].active /\ activeDefense'[t] = activeDefense[t])
    <3>. DEFINE i  == Len(receipts) + 1
    <3>1. /\ i \in 1..Len(txs) /\ Len(receipts') = i /\ receipts'[i] = "ok" /\ txs' = txs
          /\ e = txs[i].action.eventId /\ t = VictimOf[e] /\ IVerifier(txs[i].proof)
      BY <2>1, <2>3, DefenseMoves
    <3>2. e \in Events /\ delivery[e] # "none"
          /\ txs[i].proof = IF e \in Known THEN "proof" ELSE "empty"
      BY <2>1, <3>1 DEF SentAreCalls
    <3>3. e \in Known \/ AcceptsEmpty
      BY <3>1, <3>2 DEF IVerifier
    <3>4. i \in 1..Len(receipts')
      BY <2>1, <3>1, Sequences
    <3>. HIDE DEF i
    <3>5. Caused(e)'
      BY <3>1, <3>2, <3>4 DEF Caused
    <3>6. delivery'[e] # "none"
      BY <2>1, <3>2, DeliveryMoves
    <3>. QED
      BY <3>1, <3>2, <3>3, <3>5, <3>6
  <2>. QED
    BY <2>2, <2>3
<1>. HIDE DEF ActiveIsEvent
<1>. QED
  BY <1>1, <1>2, AgentInvariant, PTL DEF Spec

\* A defense comes into force only with a proof the verifier takes, made for the
\* policy committed at that moment (__main__.py, DefenseProtocol.sol).
THEOREM AgentActivatesUnderCurrentPolicy == Spec => ActivatesUnderCurrentPolicy
<1>1. IInv /\ [Next]_vars =>
        [\A t \in Targets :
           activeDefense'[t].active /\ ~activeDefense[t].active =>
             /\ txs[Len(receipts')].inputs.policyHash = currentPolicyHash
             /\ IVerifier(txs[Len(receipts')].proof)]_vars
  BY DefenseMoves DEF IInv
<1>. QED
  BY <1>1, AgentInvariant, PTL DEF Spec, ActivatesUnderCurrentPolicy

-----------------------------------------------------------------------------
(* Agent and contracts together *)

\* Whatever the agent does, the policy history stays coherent and a defense in
\* force has its registered agent and real event (DefenseProtocol.sol).
THEOREM AgentKeepsChainCoherent == Spec => [](HistoryAgrees /\ ActiveIsAuthorized)
<1>. DEFINE AgentMeansPolicy == defenseAgent # Zero => policyVersion > 0
<1>1. Init => HistoryAgrees /\ ActiveIsAuthorized /\ AgentMeansPolicy
  BY DEF Init, HistoryAgrees, ActiveIsAuthorized
<1>2. TypeOK /\ HistoryAgrees /\ ActiveIsAuthorized /\ AgentMeansPolicy /\ [Next]_vars
        => HistoryAgrees' /\ ActiveIsAuthorized' /\ AgentMeansPolicy'
  <2>1. TypeOK => ChainTypeOK
    BY DEF TypeOK
  <2>. QED
    BY <2>1, AgentStepIsTransaction, StepHistoryAgrees, StepActiveIsAuthorized
<1>. HIDE DEF AgentMeansPolicy
<1>. QED
  BY <1>1, <1>2, AgentTypeCorrect, PTL DEF Spec

\* Agent and surroundings only ever extend the policy log, and no second threat
\* takes over the slot of a defense in force.
THEOREM AgentKeepsLogAndSlots == Spec => [][Log!Next]_(Log!logVars) /\ ActiveSlotIsKept
<1>1. TypeOK /\ TypeOK' /\ HistoryAgrees /\ HistoryAgrees' /\ [Next]_vars
        => [Log!Next]_(Log!logVars)
  BY AgentStepIsTransaction, LogStep DEF TypeOK
<1>2. IInv /\ [Next]_vars =>
        [\A t \in Targets : activeDefense[t].active /\ activeDefense'[t].active
           => activeDefense'[t] = activeDefense[t]]_chainVars
  BY DefenseMoves DEF IInv
<1>. QED
  BY <1>1, <1>2, AgentInvariant, AgentTypeCorrect, AgentKeepsChainCoherent, PTL
  DEF Spec, ActiveSlotIsKept

=============================================================================
