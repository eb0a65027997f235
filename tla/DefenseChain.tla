---------------------------- MODULE DefenseChain ----------------------------
(***************************************************************************)
(* The on-chain side of a defense: DefenseProtocol (the policy authority)  *)
(* and PauseController (the switch it operates), with SentinelGuard's      *)
(* reading of it.  One action is one transaction; a transaction whose      *)
(* require fails reverts, that is, changes nothing.                        *)
(***************************************************************************)
EXTENDS Integers

CONSTANTS
  Hashes,        \* policy hashes other than zero
  Accounts,      \* senders
  Targets,       \* protocols a defense can act on
  Events,        \* event ids other than zero
  DefenseTypes,  \* DefenseType members other than None
  Zero,          \* bytes32(0), address(0)
  AcceptsEmpty,  \* whether the policy verifier accepts an empty proof, as
                 \* MockGroth16Verifier does
  MaxVersion     \* bound: policy versions

ASSUME ChainAssumption ==
  /\ Zero \notin Hashes \union Accounts \union Events
  /\ "Pause" \in DefenseTypes /\ "None" \notin DefenseTypes
  /\ AcceptsEmpty \in BOOLEAN
  /\ MaxVersion \in Nat \ {0}

VARIABLES
  currentPolicyHash, policyVersion, policyHashByVersion,
  learningVerifier,   \* FALSE: address(0), "dev-mode proof acceptance"
  defenseAgent,
  activeDefense       \* PauseController's slot per target

protocol   == <<currentPolicyHash, policyVersion, policyHashByVersion,
                learningVerifier, defenseAgent>>
chainVars  == <<protocol, activeDefense>>

Proofs == {"empty", "proof"}

\* PauseController.activate(target, t, eventId) as calldata; its keccak hash
\* together with the PauseController address stands for the calldata itself.
Calldata == [target : Targets, defenseType : DefenseTypes \union {"None"},
             eventId : Events \union {Zero}]

\* publicInputs = [actionHash, policyHash, eventId]
Inputs == [actionHash : Calldata, policyHash : Hashes \union {Zero},
           eventId : Events \union {Zero}]

-----------------------------------------------------------------------------

ChainInit ==
  /\ currentPolicyHash = Zero /\ policyVersion = 0
  /\ policyHashByVersion = [v \in 1..MaxVersion |-> Zero]
  /\ learningVerifier = TRUE
  /\ defenseAgent = Zero
  /\ activeDefense = [t \in Targets |->
       [defenseType |-> "None", eventId |-> Zero, active |-> FALSE]]

IVerifier(proof) == proof # "empty" \/ AcceptsEmpty

\* Mutant: the first policy is not entered in the history.
InitializeWithoutHistory(policyHash, agent) ==
  /\ policyVersion = 0
  /\ currentPolicyHash' = policyHash
  /\ policyVersion' = 1
  /\ defenseAgent' = agent
  /\ UNCHANGED <<policyHashByVersion, learningVerifier, activeDefense>>

Initialize(policyHash, agent) ==
  /\ policyVersion = 0
  /\ currentPolicyHash' = policyHash
  /\ policyVersion' = 1
  /\ defenseAgent' = agent
  /\ policyHashByVersion' = [policyHashByVersion EXCEPT ![1] = policyHash]
  /\ UNCHANGED <<learningVerifier, activeDefense>>

SetLearningVerifier(set) ==
  /\ learningVerifier' = set
  /\ UNCHANGED <<currentPolicyHash, policyVersion, policyHashByVersion,
                 defenseAgent, activeDefense>>

\* Mutant: an update may commit the hash already in force.
PublishUnchanged(newHash, proof, oldInput, newInput) ==
  /\ policyVersion < MaxVersion
  /\ oldInput = currentPolicyHash
  /\ newInput = newHash
  /\ IF learningVerifier THEN IVerifier(proof) ELSE proof # "empty"
  /\ currentPolicyHash' = newHash
  /\ policyVersion' = policyVersion + 1
  /\ policyHashByVersion' = [policyHashByVersion EXCEPT ![policyVersion + 1] = newHash]
  /\ UNCHANGED <<learningVerifier, defenseAgent, activeDefense>>

\* publishDefenseUpdate and its legacy name updatePolicy.
PublishDefenseUpdate(newHash, proof, oldInput, newInput) ==
  /\ policyVersion < MaxVersion
  /\ newHash # currentPolicyHash
  /\ oldInput = currentPolicyHash
  /\ newInput = newHash
  /\ IF learningVerifier THEN IVerifier(proof) ELSE proof # "empty"
  /\ currentPolicyHash' = newHash
  /\ policyVersion' = policyVersion + 1
  /\ policyHashByVersion' = [policyHashByVersion EXCEPT ![policyVersion + 1] = newHash]
  /\ UNCHANGED <<learningVerifier, defenseAgent, activeDefense>>

\* Mutant: an active slot can be taken over.
CanOverwrite(action) == action.defenseType # "None" /\ action.eventId # Zero

\* Mutant: the event id of a defense is not checked.
CanActivateForNoEvent(action) ==
  action.defenseType # "None" /\ ~activeDefense[action.target].active

\* PauseController.activate, called by DefenseProtocol.
CanActivate(action) ==
  /\ action.defenseType # "None"
  /\ action.eventId # Zero
  /\ ~activeDefense[action.target].active

\* Mutants: one require of verifyAndExecute is missing - the sender's, the
\* policy hash's.
VerdictForAnySender(sender, action, proof, inputs) ==
  IF inputs.policyHash # currentPolicyHash THEN "stale policy"
  ELSE IF inputs.actionHash # action THEN "action mismatch"
  ELSE IF ~IVerifier(proof) THEN "invalid proof"
  ELSE IF ~CanActivate(action) THEN "target call failed"
  ELSE "ok"

VerdictOnAnyPolicy(sender, action, proof, inputs) ==
  IF sender # defenseAgent THEN "not agent"
  ELSE IF inputs.actionHash # action THEN "action mismatch"
  ELSE IF ~IVerifier(proof) THEN "invalid proof"
  ELSE IF ~CanActivate(action) THEN "target call failed"
  ELSE "ok"

\* The first require of verifyAndExecute that fails, or "ok".
VerdictOf(sender, action, proof, inputs) ==
  IF sender # defenseAgent THEN "not agent"
  ELSE IF inputs.policyHash # currentPolicyHash THEN "stale policy"
  ELSE IF inputs.actionHash # action THEN "action mismatch"
  ELSE IF ~IVerifier(proof) THEN "invalid proof"
  ELSE IF ~CanActivate(action) THEN "target call failed"
  ELSE "ok"

Activate(action) ==
  activeDefense' = [activeDefense EXCEPT ![action.target] =
    [defenseType |-> action.defenseType, eventId |-> action.eventId, active |-> TRUE]]

VerifyAndExecute(sender, action, proof, inputs) ==
  /\ VerdictOf(sender, action, proof, inputs) = "ok"
  /\ Activate(action)
  /\ UNCHANGED protocol

\* Governance clears a defense; the slot keeps its type and event id.
Deactivate(target) ==
  /\ activeDefense[target].active
  /\ activeDefense' = [activeDefense EXCEPT ![target].active = FALSE]
  /\ UNCHANGED protocol

\* SentinelGuard.isAllowed: only an active Pause halts the caller.
IsAllowed(caller) ==
  \/ ~activeDefense[caller].active
  \/ activeDefense[caller].defenseType # "Pause"

ChainNext ==
  \/ \E h \in Hashes, a \in Accounts : Initialize(h, a)
  \/ \E set \in BOOLEAN : SetLearningVerifier(set)
  \/ \E h \in Hashes, p \in Proofs, old \in Hashes \union {Zero}, new \in Hashes :
       PublishDefenseUpdate(h, p, old, new)
  \/ \E s \in Accounts, c \in Calldata, p \in Proofs, i \in Inputs :
       VerifyAndExecute(s, c, p, i)
  \/ \E t \in Targets : Deactivate(t)

ChainSpec == ChainInit /\ [][ChainNext]_chainVars

-----------------------------------------------------------------------------

\* Types; and a slot is either untouched or holds a type and an event id, also
\* after governance cleared it.
ChainTypeOK ==
  /\ currentPolicyHash \in Hashes \union {Zero}
  /\ policyVersion \in 0..MaxVersion
  /\ policyHashByVersion \in [1..MaxVersion -> Hashes \union {Zero}]
  /\ learningVerifier \in BOOLEAN
  /\ defenseAgent \in Accounts \union {Zero}
  /\ activeDefense \in [Targets -> [defenseType : DefenseTypes \union {"None"},
                                     eventId : Events \union {Zero},
                                     active : BOOLEAN]]
  /\ \A t \in Targets :
       /\ activeDefense[t].defenseType = "None" <=> activeDefense[t].eventId = Zero
       /\ activeDefense[t].active => activeDefense[t].defenseType # "None"

\* The version counter, the history mapping and the hash every proof is
\* compared with never disagree: the current hash is the history's entry for
\* the current version, and exactly the versions up to it are filled.
HistoryAgrees ==
  /\ policyVersion = 0 => currentPolicyHash = Zero
  /\ policyVersion > 0 => policyHashByVersion[policyVersion] = currentPolicyHash
  /\ \A v \in 1..MaxVersion : policyHashByVersion[v] # Zero <=> v <= policyVersion

\* A defense is in force only for a registered agent and a real event: no
\* sequence of updates made before initialize leads to one.
ActiveIsAuthorized ==
  \A t \in Targets : activeDefense[t].active =>
    /\ defenseAgent # Zero /\ policyVersion > 0
    /\ activeDefense[t].eventId # Zero /\ activeDefense[t].defenseType # "None"

\* The policy part of the contract is an append-only log with one agent.
Log == INSTANCE PolicyLog WITH
  Agents <- Accounts, NoAgent <- Zero, agent <- defenseAgent,
  length <- policyVersion,
  entry <- [v \in 1..policyVersion |-> policyHashByVersion[v]]
PolicyIsALog == Log!Spec

\* A defense in force is replaced only after governance cleared it: no second
\* event takes over the slot of an active one.
ActiveSlotIsKept ==
  [][\A t \in Targets : activeDefense[t].active /\ activeDefense'[t].active
       => activeDefense'[t] = activeDefense[t]]_chainVars
=============================================================================
