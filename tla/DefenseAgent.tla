---------------------------- MODULE DefenseAgent ----------------------------
(***************************************************************************)
(* The off-chain defense agent working against DefenseChain: it takes      *)
(* confirmed threats from its stream, waits for an operator where the gate *)
(* asks for one, gets a policy proof, checks the policy hash, sends        *)
(* verifyAndExecute and waits for the receipt.  Every step of a handler    *)
(* ends at an await or an RPC, so the chain, the operator, the policy file *)
(* and a crash may come between any two.  Threats of unknown pattern take  *)
(* the constraint-failure path, which probes the chain with an empty proof.*)
(***************************************************************************)
EXTENDS DefenseChain, Sequences

CONSTANTS
  Known,        \* threats whose pattern PATTERN_TO_PRIMITIVE has
  Gated,        \* threats approval_required() holds for
  VictimOf,     \* the victim protocol of each threat
  Agent,        \* the account of DEFENSE_AGENT_KEY
  MaxDecisions, \* bound: operator decisions published
  MaxCrashes,   \* bound: crashes of the agent
  MaxFaults     \* bound: RPC, Redis and XACK errors

ASSUME AgentAssumption ==
  /\ Known \subseteq Events /\ Gated \subseteq Events
  /\ VictimOf \in [Events -> Targets]
  /\ Agent \in Accounts
  /\ MaxDecisions \in Nat /\ MaxCrashes \in Nat /\ MaxFaults \in Nat

VARIABLES
  delivery,    \* per threat: "none", "queued", "delivered", "acked", "orphaned"
  batch,       \* delivered threats this process has still to handle
  pc, threat,  \* where the handler is, and the threat in hand
  slot,        \* ApprovalGate._pending: "closed", "open", or the first decision
  approvals,   \* sentinel.defense.approval, not yet consumed
  policyFile,  \* hash of the policy.json the prover is given
  proofPolicy, \* the policy hash among the public inputs in hand
  nonce, sends,\* of the signed transaction; attempts to send it
  txs,         \* transactions the node took from the agent's account, by nonce
  receipts,    \* the verdict of each mined one
  decided,     \* history: decisions operators published, per threat
  heard,       \* history: the first decision read for each threat in this wait
  published,   \* history: outcome events published, per threat
  activations, \* history: defenses activated, per threat
  crashes, faults

handler  == <<pc, threat, slot, proofPolicy, nonce, sends>>
inbox    == <<delivery, batch>>
node     == <<txs, receipts>>
operator == <<approvals, decided, heard>>
bounds   == <<crashes, faults>>
vars     == <<chainVars, inbox, handler, operator, policyFile, node, published,
              activations, bounds>>

Decisions == {"approve", "reject"}

MaxSends == 3   \* with_retry(max_retries=3)

CallFor(e) == [target |-> VictimOf[e], defenseType |-> "Pause", eventId |-> e]

Publish(e, what) == published' = [published EXCEPT ![e] = @ \union {what}]

Fault == faults < MaxFaults /\ faults' = faults + 1 /\ UNCHANGED crashes

Finish == pc' = "ack" /\ slot' = "closed"

-----------------------------------------------------------------------------
(* Chain, operator, detector and policy file: the agent's surroundings *)

Init ==
  /\ policyFile \in Hashes
  /\ currentPolicyHash = policyFile /\ policyVersion = 1
  /\ policyHashByVersion = [v \in 1..MaxVersion |-> IF v = 1 THEN policyFile ELSE Zero]
  /\ learningVerifier = TRUE /\ defenseAgent = Agent
  /\ activeDefense = [t \in Targets |->
       [defenseType |-> "None", eventId |-> Zero, active |-> FALSE]]
  /\ delivery = [e \in Events |-> "none"] /\ batch = {}
  /\ pc = "idle" /\ threat = Zero /\ slot = "closed"
  /\ proofPolicy = Zero /\ nonce = 0 /\ sends = 0
  /\ approvals = <<>> /\ decided = [e \in Events |-> {}]
  /\ heard = [e \in Events |-> "none"]
  /\ txs = <<>> /\ receipts = <<>>
  /\ published = [e \in Events |-> {}] /\ activations = [e \in Events |-> 0]
  /\ crashes = 0 /\ faults = 0

\* The detector publishes a threat on sentinel.detection.confirmed.
Confirm(e) ==
  /\ delivery[e] = "none"
  /\ delivery' = [delivery EXCEPT ![e] = "queued"]
  /\ UNCHANGED <<chainVars, batch, handler, operator, policyFile, node, published,
                 activations, bounds>>

\* An operator decides; the api-gateway publishes a DefenseApprovalEvent.
Decide(e, d) ==
  /\ delivery[e] # "none" /\ e \in Gated /\ Len(approvals) < MaxDecisions
  /\ d \notin decided[e]
  /\ approvals' = Append(approvals, [event |-> e, decision |-> d])
  /\ decided' = [decided EXCEPT ![e] = @ \union {d}]
  /\ UNCHANGED <<chainVars, inbox, handler, heard, policyFile, node, published, activations,
                 bounds>>

\* The learning loop commits a new policy hash; policy.json follows separately.
UpdatePolicy(h) ==
  /\ PublishDefenseUpdate(h, "proof", currentPolicyHash, h)
  /\ UNCHANGED <<inbox, handler, operator, policyFile, node, published, activations, bounds>>

EditPolicyFile(h) ==
  /\ h # policyFile
  /\ policyFile' = h
  /\ UNCHANGED <<chainVars, inbox, handler, operator, node, published, activations, bounds>>

Release(t) ==
  /\ Deactivate(t)
  /\ UNCHANGED <<inbox, handler, operator, policyFile, node, published, activations, bounds>>

\* The agent's transactions are mined in nonce order.
Mine ==
  LET i  == Len(receipts) + 1
      tx == txs[i]
      verdict == VerdictOf(Agent, tx.action, tx.proof, tx.inputs)
  IN
  /\ i <= Len(txs)
  /\ receipts' = Append(receipts, verdict)
  /\ \/ /\ VerifyAndExecute(Agent, tx.action, tx.proof, tx.inputs)
        /\ activations' = [activations EXCEPT ![tx.action.eventId] = @ + 1]
     \/ verdict # "ok" /\ UNCHANGED <<chainVars, activations>>
  /\ UNCHANGED <<txs, inbox, handler, operator, policyFile, published, bounds>>

-----------------------------------------------------------------------------
(* The consumer loop and the process *)

\* Redis marks the entries delivered; if its answer is lost, nobody handles them
\* until a process of this name starts again.
ReadBatch ==
  LET due == {e \in Events : delivery[e] = "queued"} IN
  /\ pc = "idle" /\ batch = {} /\ due # {}
  /\ delivery' = [e \in Events |-> IF e \in due THEN "delivered" ELSE delivery[e]]
  /\ \/ batch' = due /\ UNCHANGED bounds
     \/ Fault /\ UNCHANGED batch
  /\ UNCHANGED <<chainVars, handler, operator, policyFile, node, published, activations>>

\* Mutant: a pattern PATTERN_TO_PRIMITIVE does not have gets a Pause as well.
TakeWithDefault(e) ==
  /\ pc = "idle" /\ e \in batch
  /\ batch' = batch \ {e} /\ threat' = e
  /\ pc' = IF e \in Gated THEN "gate" ELSE "prove"
  /\ slot' = IF e \in Gated THEN "open" ELSE "closed"
  /\ heard' = [x \in Events |-> "none"]
  /\ UNCHANGED <<chainVars, delivery, proofPolicy, nonce, sends, approvals, decided,
                 policyFile, node, published, activations, bounds>>

\* submit_defense up to its first await: which of the three paths is taken.
Take(e) ==
  /\ pc = "idle" /\ e \in batch
  /\ batch' = batch \ {e} /\ threat' = e
  /\ pc' = IF e \notin Known THEN "probe" ELSE IF e \in Gated THEN "gate" ELSE "prove"
  /\ slot' = IF e \in Known \intersect Gated THEN "open" ELSE "closed"
  /\ heard' = [x \in Events |-> "none"]
  /\ UNCHANGED <<chainVars, delivery, proofPolicy, nonce, sends, approvals, decided,
                 policyFile, node, published, activations, bounds>>

\* on_threat swallowed whatever was raised, so the entry is acknowledged.
Ack ==
  /\ pc = "ack"
  /\ pc' = "idle" /\ threat' = Zero
  /\ \/ delivery' = [delivery EXCEPT ![threat] = "acked"] /\ UNCHANGED bounds
     \/ Fault /\ UNCHANGED delivery
  /\ UNCHANGED <<chainVars, batch, slot, proofPolicy, nonce, sends, operator, policyFile,
                 node, published, activations>>

\* Decisions already read but not handled go with the process.
Crash ==
  /\ pc # "down" /\ crashes < MaxCrashes
  /\ crashes' = crashes + 1 /\ UNCHANGED faults
  /\ \E n \in 0..Len(approvals) : approvals' = SubSeq(approvals, n + 1, Len(approvals))
  /\ pc' = "down" /\ threat' = Zero /\ slot' = "closed" /\ batch' = {}
  /\ proofPolicy' = Zero /\ nonce' = 0 /\ sends' = 0
  /\ heard' = [x \in Events |-> "none"]
  /\ UNCHANGED <<chainVars, delivery, decided, policyFile, node, published, activations>>

\* Mutant: nothing is read back.
RestartForgets ==
  /\ pc = "down" /\ pc' = "idle" /\ batch' = {}
  /\ UNCHANGED <<chainVars, delivery, threat, slot, proofPolicy, nonce, sends, operator,
                 policyFile, node, published, activations, bounds>>

\* A process reads back the pending list of its own name only, and that name holds
\* its pid: its predecessor's, as in a container that starts anew, or another one.
Restart ==
  LET pending == {e \in Events : delivery[e] = "delivered"} IN
  /\ pc = "down" /\ pc' = "idle"
  /\ \/ batch' = pending /\ UNCHANGED delivery
     \/ /\ batch' = {}
        /\ delivery' = [e \in Events |-> IF e \in pending THEN "orphaned" ELSE delivery[e]]
  /\ UNCHANGED <<chainVars, threat, slot, proofPolicy, nonce, sends, operator, policyFile,
                 node, published, activations, bounds>>

\* A publish or an RPC on the way raises; on_threat logs and returns.
StepRaises ==
  /\ pc \in {"gate", "prove", "check", "receipt", "probe", "probeRead", "probeSend",
             "probeReceipt"}
  /\ Fault /\ Finish
  /\ UNCHANGED <<chainVars, inbox, threat, proofPolicy, nonce, sends, operator, policyFile,
                 node, published, activations>>

-----------------------------------------------------------------------------
(* ApprovalGate *)

Hears(said) ==
  heard' = IF pc = "gate" /\ heard[said.event] = "none"
           THEN [heard EXCEPT ![said.event] = said.decision] ELSE heard

\* Mutants: the event id of a decision is not looked at; the last decision counts
\* instead of the first.
OnDecisionForAnyone ==
  /\ pc # "down" /\ approvals # <<>>
  /\ approvals' = Tail(approvals) /\ Hears(Head(approvals))
  /\ slot' = IF slot = "open" THEN Head(approvals).decision ELSE slot
  /\ UNCHANGED <<chainVars, inbox, pc, threat, proofPolicy, nonce, sends, decided, policyFile,
                 node, published, activations, bounds>>

OnDecisionLastCounts ==
  /\ pc # "down" /\ approvals # <<>>
  /\ approvals' = Tail(approvals) /\ Hears(Head(approvals))
  /\ slot' = IF slot # "closed" /\ Head(approvals).event = threat
             THEN Head(approvals).decision ELSE slot
  /\ UNCHANGED <<chainVars, inbox, pc, threat, proofPolicy, nonce, sends, decided, policyFile,
                 node, published, activations, bounds>>

\* _on_decision: the first decision for the waiting threat counts, a decision
\* nobody waits for is dropped.
OnDecision ==
  /\ pc # "down" /\ approvals # <<>>
  /\ approvals' = Tail(approvals) /\ Hears(Head(approvals))
  /\ slot' = IF slot = "open" /\ Head(approvals).event = threat
             THEN Head(approvals).decision ELSE slot
  /\ UNCHANGED <<chainVars, inbox, pc, threat, proofPolicy, nonce, sends, decided, policyFile,
                 node, published, activations, bounds>>

\* Mutant: a rejection is reported and then the defense goes on.
GateReportsOnly ==
  /\ pc = "gate" /\ slot \in Decisions
  /\ pc' = "prove" /\ slot' = "closed"
  /\ \/ slot = "approve" /\ UNCHANGED published
     \/ slot = "reject" /\ Publish(threat, "rejected: OPERATOR_REJECTED")
  /\ UNCHANGED <<chainVars, inbox, threat, proofPolicy, nonce, sends, operator, policyFile,
                 node, activations, bounds>>

GateAnswers ==
  /\ pc = "gate" /\ slot \in Decisions
  /\ \/ slot = "approve" /\ pc' = "prove" /\ slot' = "closed" /\ UNCHANGED published
     \/ slot = "reject" /\ Finish /\ Publish(threat, "rejected: OPERATOR_REJECTED")
  /\ UNCHANGED <<chainVars, inbox, threat, proofPolicy, nonce, sends, operator, policyFile,
                 node, activations, bounds>>

\* Mutant: silence counts as consent.
GateTimesOutOpen ==
  /\ pc = "gate" /\ pc' = "prove" /\ slot' = "closed"
  /\ UNCHANGED <<chainVars, inbox, threat, proofPolicy, nonce, sends, operator, policyFile,
                 node, published, activations, bounds>>

\* The timeout may win the race against a decision that has just been set.
GateTimesOut ==
  /\ pc = "gate"
  /\ Finish /\ Publish(threat, "rejected: APPROVAL_TIMEOUT")
  /\ UNCHANGED <<chainVars, inbox, threat, proofPolicy, nonce, sends, operator, policyFile,
                 node, activations, bounds>>

-----------------------------------------------------------------------------
(* submit_defense, known pattern *)

\* The prover hashes the policy file it is given; after three failed attempts,
\* or on a missing rule, an alert is all that remains.
Prove ==
  /\ pc = "prove"
  /\ \/ pc' = "check" /\ proofPolicy' = policyFile /\ UNCHANGED <<slot, published>>
     \/ Finish /\ Publish(threat, "alert") /\ UNCHANGED proofPolicy
  /\ UNCHANGED <<chainVars, inbox, threat, nonce, sends, operator, policyFile, node,
                 activations, bounds>>

\* currentPolicyHash() is compared once; then the transaction is built with the
\* pending nonce and signed.
CheckAndSign ==
  /\ pc = "check"
  /\ \/ /\ proofPolicy = currentPolicyHash
        /\ pc' = "send" /\ nonce' = Len(txs) + 1 /\ sends' = 0
        /\ UNCHANGED <<slot, published>>
     \/ /\ proofPolicy # currentPolicyHash
        /\ Finish /\ Publish(threat, "alert") /\ UNCHANGED <<nonce, sends>>
  /\ UNCHANGED <<chainVars, inbox, threat, proofPolicy, operator, policyFile, node,
                 activations, bounds>>

Transaction(proof) ==
  [action |-> CallFor(threat), proof |-> proof,
   inputs |-> [actionHash |-> CallFor(threat), policyHash |-> proofPolicy, eventId |-> threat]]

\* Mutant: every attempt takes the next nonce.
NodeTakesFreshNonce(proof) == txs' = Append(txs, Transaction(proof))

\* The node adds a transaction whose nonce is the account's next one.
NodeTakes(proof) == nonce = Len(txs) + 1 /\ txs' = Append(txs, Transaction(proof))

\* Mutant: the retries have no end.
SendForEver == sends' = sends + 1 /\ UNCHANGED <<pc, slot>>

\* with_retry gives up after MaxSends attempts; on_threat swallows the error.
SendAgain ==
  /\ sends' = sends + 1
  /\ IF sends' = MaxSends THEN Finish ELSE UNCHANGED <<pc, slot>>

\* Mutant: "submitted" is published before the transaction is sent.
SendReportsFirst ==
  /\ pc = "send" /\ Publish(threat, "submitted")
  /\ \/ NodeTakes("proof") /\ pc' = "receipt" /\ UNCHANGED <<slot, sends, bounds>>
     \/ SendAgain /\ Fault /\ UNCHANGED txs
     \/ nonce <= Len(txs) /\ SendAgain /\ UNCHANGED <<txs, bounds>>
  /\ UNCHANGED <<chainVars, inbox, threat, proofPolicy, nonce, operator, policyFile, receipts,
                 activations>>

Send ==
  /\ pc = "send"
  /\ \/ /\ NodeTakes("proof")
        /\ pc' = "receipt" /\ Publish(threat, "submitted")
        /\ UNCHANGED <<slot, sends, bounds>>
     \/ NodeTakes("proof") /\ SendAgain /\ Fault /\ UNCHANGED published
     \/ NodeTakes("proof") /\ Finish /\ Fault /\ UNCHANGED <<sends, published>>
     \/ SendAgain /\ Fault /\ UNCHANGED <<txs, published>>
     \/ nonce <= Len(txs) /\ SendAgain /\ UNCHANGED <<txs, published, bounds>>
  /\ UNCHANGED <<chainVars, inbox, threat, proofPolicy, nonce, operator, policyFile, receipts,
                 activations>>

\* Fifteen seconds for the receipt; running out of them raises.
AwaitReceipt ==
  /\ pc = "receipt"
  /\ Finish
  /\ \/ /\ nonce <= Len(receipts)
        /\ Publish(threat, IF receipts[nonce] = "ok" THEN "mined: 1" ELSE "mined: 0")
     \/ nonce > Len(receipts) /\ UNCHANGED published
  /\ UNCHANGED <<chainVars, inbox, threat, proofPolicy, nonce, sends, operator, policyFile,
                 node, activations, bounds>>

-----------------------------------------------------------------------------
(* run_constraint_failure_flow, unknown pattern *)

\* Whether the prover refuses (422) or returns a proof, the proof stays empty.
ProbeProver ==
  /\ pc = "probe"
  /\ \/ pc' = "probeRead" /\ UNCHANGED <<slot, published>>
     \/ Finish /\ Publish(threat, "alert")
  /\ UNCHANGED <<chainVars, inbox, threat, proofPolicy, nonce, sends, operator, policyFile,
                 node, activations, bounds>>

\* Policy hash and nonce are read and "submitted" is published before the send.
ProbeRead ==
  /\ pc = "probeRead" /\ pc' = "probeSend"
  /\ proofPolicy' = currentPolicyHash /\ nonce' = Len(txs) + 1
  /\ Publish(threat, "submitted")
  /\ UNCHANGED <<chainVars, inbox, threat, slot, sends, operator, policyFile, node,
                 activations, bounds>>

RejectReason(verdict) ==
  CASE verdict = "stale policy"    -> "rejected: STALE_POLICY"
    [] verdict = "not agent"       -> "rejected: NOT_AGENT"
    [] verdict = "action mismatch" -> "rejected: ACTION_MISMATCH"
    [] OTHER                       -> "rejected: INVALID_PROOF"

\* One attempt; some providers run the call first and surface its revert.
ProbeSend ==
  LET preflight == VerdictOf(Agent, CallFor(threat), "empty", Transaction("empty").inputs) IN
  /\ pc = "probeSend"
  /\ \/ NodeTakes("empty") /\ pc' = "probeReceipt" /\ UNCHANGED <<slot, published, bounds>>
     \/ /\ preflight # "ok" /\ Finish /\ Publish(threat, RejectReason(preflight))
        /\ UNCHANGED <<txs, bounds>>
     \/ /\ NodeTakes("empty") \/ UNCHANGED txs
        /\ Finish /\ Publish(threat, "alert") /\ Fault
  /\ UNCHANGED <<chainVars, inbox, threat, proofPolicy, nonce, sends, operator, policyFile,
                 receipts, activations>>

\* Status 0 is reported as an invalid proof without asking for the reason.
ProbeReceipt ==
  /\ pc = "probeReceipt"
  /\ Finish
  /\ \/ nonce > Len(receipts) /\ Publish(threat, "alert")
     \/ /\ nonce <= Len(receipts)
        /\ Publish(threat, IF receipts[nonce] = "ok" THEN "alert"
                           ELSE RejectReason("invalid proof"))
  /\ UNCHANGED <<chainVars, inbox, threat, proofPolicy, nonce, sends, operator, policyFile,
                 node, activations, bounds>>

-----------------------------------------------------------------------------

AgentStep ==
  \/ Restart \/ ReadBatch \/ \E e \in Events : Take(e)
  \/ GateAnswers \/ GateTimesOut
  \/ Prove \/ CheckAndSign \/ Send \/ AwaitReceipt
  \/ ProbeProver \/ ProbeRead \/ ProbeSend \/ ProbeReceipt
  \/ Ack

Surroundings ==
  \/ \E e \in Events : Confirm(e)
  \/ \E e \in Events, d \in Decisions : Decide(e, d)
  \/ \E h \in Hashes : UpdatePolicy(h) \/ EditPolicyFile(h)
  \/ \E t \in Targets : Release(t)
  \/ Mine

Next == AgentStep \/ OnDecision \/ StepRaises \/ Crash \/ Surroundings

Spec == Init /\ [][Next]_vars

\* The event loop keeps running what is ready, timeouts fire, a process that
\* went down is restarted; nobody promises decisions, mining or good proofs.
FairSpec == Spec /\ WF_vars(AgentStep)

-----------------------------------------------------------------------------

Verdicts == {"ok", "not agent", "stale policy", "action mismatch", "invalid proof",
             "target call failed"}

Outcomes == {"submitted", "mined: 1", "mined: 0", "alert",
             "rejected: OPERATOR_REJECTED", "rejected: APPROVAL_TIMEOUT",
             "rejected: INVALID_PROOF", "rejected: STALE_POLICY", "rejected: NOT_AGENT",
             "rejected: ACTION_MISMATCH"}

Approvals == [event : Events, decision : Decisions]
Transactions == [action : Calldata, proof : Proofs, inputs : Inputs]

TypeOK ==
  /\ ChainTypeOK
  /\ delivery \in [Events -> {"none", "queued", "delivered", "acked", "orphaned"}]
  /\ batch \in SUBSET Events /\ threat \in Events \union {Zero}
  /\ pc \in {"idle", "gate", "prove", "check", "send", "receipt", "probe", "probeRead",
             "probeSend", "probeReceipt", "ack", "down"}
  /\ slot \in {"closed", "open"} \union Decisions
  /\ proofPolicy \in Hashes \union {Zero} /\ policyFile \in Hashes
  /\ nonce \in Nat /\ sends \in 0..MaxSends
  /\ heard \in [Events -> Decisions \union {"none"}]
  /\ decided \in [Events -> SUBSET Decisions] /\ published \in [Events -> SUBSET Outcomes]
  /\ approvals \in Seq(Approvals)
  /\ txs \in Seq(Transactions)
  /\ receipts \in Seq(Verdicts) /\ Len(receipts) <= Len(txs)
  /\ activations \in [Events -> Nat] /\ crashes \in Nat /\ faults \in Nat

\* Whenever a transaction for a gated threat reaches the node, the first decision
\* read for that very threat in this very wait was an approval: one for another
\* threat, one read in an earlier wait (before a crash) or after the timeout, and
\* one that followed a rejection let nothing through.  An approval published
\* during an earlier wait but read only in this one does count.
OnlyApprovedIsSent ==
  [][\A e \in Known \intersect Gated :
       Len(txs') > Len(txs) /\ txs'[Len(txs')].action.eventId = e
         => heard[e] = "approve"]_vars

\* A defense in force was caused by a confirmed threat against that very protocol
\* and by a transaction that was mined "ok" with the proof of its kind: a made
\* one for a known pattern; for an unknown one only the probe's empty one, and
\* only where the verifier takes it.
PauseHasItsThreat ==
  \A t \in Targets : activeDefense[t].active =>
    LET e == activeDefense[t].eventId IN
    /\ delivery[e] # "none" /\ VictimOf[e] = t /\ (e \in Known \/ AcceptsEmpty)
    /\ \E i \in 1..Len(receipts) :
         /\ receipts[i] = "ok" /\ txs[i].action.eventId = e
         /\ txs[i].proof = IF e \in Known THEN "proof" ELSE "empty"

\* However often a send is retried and however late it is mined, one delivery of
\* a threat activates its defense at most once; only redelivery after a crash,
\* with the defense released in between, can do it again.
ActivatedOncePerDelivery == \A e \in Events : activations[e] <= 1 + crashes

\* A threat reported rejected never has a transaction that takes effect, before
\* or after the report, in a life of the agent without a crash.
RejectedStaysOff ==
  \A e \in Events :
    published[e] \intersect {"rejected: OPERATOR_REJECTED", "rejected: APPROVAL_TIMEOUT",
                             "rejected: INVALID_PROOF", "rejected: STALE_POLICY"} # {}
      => activations[e] = 0 \/ crashes > 0

\* Reports match the chain: "submitted" of a known threat has a transaction the
\* node took, "mined" with status 1 an activation.
ReportsMatchChain ==
  \A e \in Events :
    /\ "submitted" \in published[e] /\ e \in Known =>
         \E i \in 1..Len(txs) : txs[i].action.eventId = e
    /\ "mined: 1" \in published[e] => activations[e] > 0

\* A defense comes into force only with a proof the verifier takes, made for the
\* policy committed at that moment, however long ago the agent compared hashes.
ActivatesUnderCurrentPolicy ==
  [][\A t \in Targets :
       activeDefense'[t].active /\ ~activeDefense[t].active =>
         /\ txs[Len(receipts')].inputs.policyHash = currentPolicyHash
         /\ IVerifier(txs[Len(receipts')].proof)]_vars

\* The agent is through with an entry that stays pending: after an error, its XACK
\* or the reply that held it failed, and only another start may read it again.
PassedOver(e) ==
  faults > 0 /\ delivery[e] = "delivered" /\ e \notin batch /\ threat # e

\* No gate, prover, retry or receipt holds the agent for ever: every confirmed
\* threat is acknowledged in the end, whatever its outcome, or was in the hands of
\* a process that died and stays with that process's name, or is passed over.
EveryThreatIsReleased ==
  \A e \in Events :
    delivery[e] = "queued" ~> (delivery[e] \in {"acked", "orphaned"} \/ []PassedOver(e))

\* What constraint_failure.py assumes of a probe that was mined with status 0.
StatusZeroMeansInvalidProof ==
  \A i \in 1..Len(receipts) :
    txs[i].proof = "empty" /\ receipts[i] # "ok" => receipts[i] = "invalid proof"
=============================================================================
