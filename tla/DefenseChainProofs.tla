-------------------------- MODULE DefenseChainProofs --------------------------
(***************************************************************************)
(* DefenseProtocol and PauseController for every set of hashes, accounts,  *)
(* targets and events and any bound on versions: the history is coherent,  *)
(* defenses in force are authorized, and the policy is an append-only log. *)
(***************************************************************************)
EXTENDS DefenseChain, TLAPS

USE ChainAssumption

\* The part of the state the log is about only ever moves by one of two
\* transactions; every other one leaves it alone.
LEMMA PolicyMoves ==
  ASSUME ChainNext
  PROVE  \/ \E h \in Hashes, a \in Accounts : Initialize(h, a)
         \/ \E h \in Hashes, p \in Proofs, old \in Hashes \union {Zero}, new \in Hashes :
              PublishDefenseUpdate(h, p, old, new)
         \/ UNCHANGED <<currentPolicyHash, policyVersion, policyHashByVersion, defenseAgent>>
  BY DEF ChainNext, SetLearningVerifier, VerifyAndExecute, Deactivate, protocol

LEMMA ChainStepType == ChainTypeOK /\ [ChainNext]_chainVars => ChainTypeOK'
<1>. SUFFICES ASSUME ChainTypeOK, [ChainNext]_chainVars PROVE ChainTypeOK'
  OBVIOUS
<1>1. ASSUME NEW h \in Hashes, NEW a \in Accounts, Initialize(h, a) PROVE ChainTypeOK'
  BY <1>1 DEF Initialize, ChainTypeOK
<1>2. ASSUME NEW set \in BOOLEAN, SetLearningVerifier(set) PROVE ChainTypeOK'
  BY <1>2 DEF SetLearningVerifier, ChainTypeOK
<1>3. ASSUME NEW h \in Hashes, NEW p \in Proofs, NEW old \in Hashes \union {Zero},
             NEW new \in Hashes, PublishDefenseUpdate(h, p, old, new)
      PROVE  ChainTypeOK'
  <2>1. /\ currentPolicyHash' \in Hashes /\ policyVersion' \in 0..MaxVersion
        /\ policyHashByVersion' \in [1..MaxVersion -> Hashes \union {Zero}]
    BY <1>3 DEF PublishDefenseUpdate, ChainTypeOK
  <2>. QED
    BY <1>3, <2>1 DEF PublishDefenseUpdate, ChainTypeOK
<1>4. ASSUME NEW s \in Accounts, NEW c \in Calldata, NEW p \in Proofs, NEW i \in Inputs,
             VerifyAndExecute(s, c, p, i)
      PROVE  ChainTypeOK'
  <2>1. activeDefense' \in [Targets -> [defenseType : DefenseTypes \union {"None"},
                                        eventId : Events \union {Zero}, active : BOOLEAN]]
    BY <1>4 DEF VerifyAndExecute, Activate, Calldata, ChainTypeOK
  <2>2. CanActivate(c)
    BY <1>4 DEF VerifyAndExecute, VerdictOf
  <2>3. ASSUME NEW t \in Targets
        PROVE  /\ activeDefense'[t].defenseType = "None" <=> activeDefense'[t].eventId = Zero
               /\ activeDefense'[t].active => activeDefense'[t].defenseType # "None"
    <3>1. CASE t = c.target
      BY <1>4, <2>2, <3>1 DEF VerifyAndExecute, Activate, CanActivate, Calldata, ChainTypeOK
    <3>2. CASE t # c.target
      BY <1>4, <3>2 DEF VerifyAndExecute, Activate, Calldata, ChainTypeOK
    <3>. QED
      BY <3>1, <3>2
  <2>. QED
    BY <1>4, <2>1, <2>3 DEF VerifyAndExecute, protocol, ChainTypeOK
<1>5. ASSUME NEW t \in Targets, Deactivate(t) PROVE ChainTypeOK'
  <2>1. activeDefense' \in [Targets -> [defenseType : DefenseTypes \union {"None"},
                                        eventId : Events \union {Zero}, active : BOOLEAN]]
    BY <1>5 DEF Deactivate, ChainTypeOK
  <2>. QED
    BY <1>5, <2>1 DEF Deactivate, protocol, ChainTypeOK
<1>6. CASE UNCHANGED chainVars
  BY <1>6 DEF chainVars, protocol, ChainTypeOK
<1>. QED
  BY <1>1, <1>2, <1>3, <1>4, <1>5, <1>6 DEF ChainNext

LEMMA ChainInitType == ChainInit => ChainTypeOK
  BY DEF ChainInit, ChainTypeOK

LEMMA StepHistoryAgrees ==
  ChainTypeOK /\ HistoryAgrees /\ [ChainNext]_chainVars => HistoryAgrees'
<1>. SUFFICES ASSUME ChainTypeOK, HistoryAgrees, [ChainNext]_chainVars
              PROVE  HistoryAgrees'
  OBVIOUS
<1>1. ASSUME NEW h \in Hashes, NEW a \in Accounts, Initialize(h, a) PROVE HistoryAgrees'
  BY <1>1 DEF Initialize, ChainTypeOK, HistoryAgrees
<1>2. ASSUME NEW h \in Hashes, NEW p \in Proofs, NEW old \in Hashes \union {Zero},
             NEW new \in Hashes, PublishDefenseUpdate(h, p, old, new)
      PROVE  HistoryAgrees'
  BY <1>2 DEF PublishDefenseUpdate, ChainTypeOK, HistoryAgrees
<1>3. CASE UNCHANGED <<currentPolicyHash, policyVersion, policyHashByVersion, defenseAgent>>
  BY <1>3 DEF HistoryAgrees
<1>4. CASE UNCHANGED chainVars
  BY <1>4 DEF chainVars, protocol, HistoryAgrees
<1>. QED
  BY <1>1, <1>2, <1>3, <1>4, PolicyMoves

LEMMA StepActiveIsAuthorized ==
  /\ ChainTypeOK /\ ActiveIsAuthorized
  /\ defenseAgent # Zero => policyVersion > 0
  /\ [ChainNext]_chainVars
  => ActiveIsAuthorized' /\ (defenseAgent' # Zero => policyVersion' > 0)
<1>. SUFFICES ASSUME ChainTypeOK, ActiveIsAuthorized, defenseAgent # Zero => policyVersion > 0,
                     [ChainNext]_chainVars
              PROVE  ActiveIsAuthorized' /\ (defenseAgent' # Zero => policyVersion' > 0)
  OBVIOUS
<1>1. ASSUME NEW h \in Hashes, NEW a \in Accounts, Initialize(h, a)
      PROVE  ActiveIsAuthorized' /\ (defenseAgent' # Zero => policyVersion' > 0)
  BY <1>1 DEF Initialize, ChainTypeOK, ActiveIsAuthorized
<1>2. ASSUME NEW set \in BOOLEAN, SetLearningVerifier(set)
      PROVE  ActiveIsAuthorized' /\ (defenseAgent' # Zero => policyVersion' > 0)
  BY <1>2 DEF SetLearningVerifier, ActiveIsAuthorized
<1>3. ASSUME NEW h \in Hashes, NEW p \in Proofs, NEW old \in Hashes \union {Zero},
             NEW new \in Hashes, PublishDefenseUpdate(h, p, old, new)
      PROVE  ActiveIsAuthorized' /\ (defenseAgent' # Zero => policyVersion' > 0)
  BY <1>3 DEF PublishDefenseUpdate, ChainTypeOK, ActiveIsAuthorized
<1>4. ASSUME NEW s \in Accounts, NEW c \in Calldata, NEW p \in Proofs, NEW i \in Inputs,
             VerifyAndExecute(s, c, p, i)
      PROVE  ActiveIsAuthorized' /\ (defenseAgent' # Zero => policyVersion' > 0)
  <2>1. s = defenseAgent /\ CanActivate(c)
    BY <1>4 DEF VerifyAndExecute, VerdictOf
  <2>2. defenseAgent # Zero
    BY <2>1
  <2>3. UNCHANGED <<policyVersion, defenseAgent>>
    BY <1>4 DEF VerifyAndExecute, protocol
  <2>. QED
    BY <1>4, <2>1, <2>2, <2>3
    DEF VerifyAndExecute, Activate, CanActivate, Calldata, ChainTypeOK, ActiveIsAuthorized
<1>5. ASSUME NEW t \in Targets, Deactivate(t)
      PROVE  ActiveIsAuthorized' /\ (defenseAgent' # Zero => policyVersion' > 0)
  BY <1>5 DEF Deactivate, protocol, ChainTypeOK, ActiveIsAuthorized
<1>6. CASE UNCHANGED chainVars
  BY <1>6 DEF chainVars, protocol, ActiveIsAuthorized
<1>. QED
  BY <1>1, <1>2, <1>3, <1>4, <1>5, <1>6 DEF ChainNext

\* One transaction, seen through the mapping, appends an entry or changes
\* nothing; initialize is the append that also names the agent.
LEMMA LogStep ==
  ASSUME ChainTypeOK, HistoryAgrees, ChainTypeOK', HistoryAgrees', [ChainNext]_chainVars
  PROVE  [Log!Next]_(Log!logVars)
<1>. DEFINE e == [v \in 1..policyVersion |-> policyHashByVersion[v]]
<1>1. ASSUME NEW h \in Hashes, NEW a \in Accounts, Initialize(h, a) PROVE Log!Next
  <2>1. Log!Extend(h)
    BY <1>1 DEF Initialize, Log!Extend, ChainTypeOK
  <2>. QED
    BY <1>1, <2>1 DEF Initialize, Log!Next, Log!Authorize
<1>2. ASSUME NEW h \in Hashes, NEW p \in Proofs, NEW old \in Hashes \union {Zero},
             NEW new \in Hashes, PublishDefenseUpdate(h, p, old, new)
      PROVE  Log!Next
  <2>1. policyVersion > 0 => e[policyVersion] # h
    BY <1>2 DEF PublishDefenseUpdate, HistoryAgrees, ChainTypeOK
  <2>2. policyVersion' = policyVersion + 1
    BY <1>2 DEF PublishDefenseUpdate
  <2>3. \A v \in 1..(policyVersion + 1) :
          policyHashByVersion'[v] = IF v = policyVersion + 1 THEN h ELSE e[v]
    BY <1>2 DEF PublishDefenseUpdate, ChainTypeOK
  <2>4. Log!Extend(h)
    BY <2>1, <2>2, <2>3 DEF Log!Extend
  <2>5. UNCHANGED defenseAgent
    BY <1>2 DEF PublishDefenseUpdate
  <2>. QED
    BY <2>4, <2>5 DEF Log!Next, Log!Commit
<1>3. CASE UNCHANGED <<currentPolicyHash, policyVersion, policyHashByVersion, defenseAgent>>
  BY <1>3 DEF Log!logVars
<1>4. CASE UNCHANGED chainVars
  BY <1>4 DEF chainVars, protocol, Log!logVars
<1>. QED
  BY <1>1, <1>2, <1>3, <1>4, PolicyMoves

\* Type correctness of both contracts.
THEOREM ChainTypeCorrect == ChainSpec => []ChainTypeOK
  BY ChainInitType, ChainStepType, PTL DEF ChainSpec

\* The version counter, the history and the current hash never disagree, after
\* any number of initialize, publishDefenseUpdate and updatePolicy calls.
THEOREM ChainHistoryAgrees == ChainSpec => []HistoryAgrees
<1>1. ChainInit => HistoryAgrees
  BY DEF ChainInit, HistoryAgrees
<1>. QED
  BY <1>1, ChainInitType, ChainStepType, StepHistoryAgrees, PTL DEF ChainSpec

\* A defense is only ever in force for an authorized agent and a real event.
THEOREM ChainActiveIsAuthorized == ChainSpec => []ActiveIsAuthorized
<1>. DEFINE AgentMeansPolicy == defenseAgent # Zero => policyVersion > 0
<1>1. ChainInit => ActiveIsAuthorized /\ AgentMeansPolicy
  BY DEF ChainInit, ActiveIsAuthorized
<1>2. ChainTypeOK /\ ActiveIsAuthorized /\ AgentMeansPolicy /\ [ChainNext]_chainVars
        => ActiveIsAuthorized' /\ AgentMeansPolicy'
  BY StepActiveIsAuthorized
<1>. HIDE DEF AgentMeansPolicy
<1>. QED
  BY <1>1, <1>2, ChainInitType, ChainStepType, PTL DEF ChainSpec

\* The contract implements the append-only policy log.
THEOREM ChainImplementsLog == ChainSpec => PolicyIsALog
<1>1. ChainInit => HistoryAgrees
  BY DEF ChainInit, HistoryAgrees
<1>2. ChainInit => Log!Init
  BY DEF ChainInit, Log!Init
<1>. QED
  BY <1>1, <1>2, ChainInitType, ChainStepType, StepHistoryAgrees, LogStep, PTL
  DEF ChainSpec, PolicyIsALog, Log!Spec

\* verifyAndExecute refuses a target whose slot is active, so a defense in force
\* is replaced only after the governor cleared it.
THEOREM ChainActiveSlotIsKept == ChainSpec => ActiveSlotIsKept
<1>. DEFINE Kept == \A t \in Targets : activeDefense[t].active /\ activeDefense'[t].active
                                       => activeDefense'[t] = activeDefense[t]
<1>1. ASSUME ChainTypeOK, [ChainNext]_chainVars PROVE Kept
  <2>1. CASE UNCHANGED activeDefense
    BY <2>1
  <2>2. ASSUME NEW s \in Accounts, NEW c \in Calldata, NEW p \in Proofs, NEW i \in Inputs,
               VerifyAndExecute(s, c, p, i)
        PROVE  Kept
    BY <1>1, <2>2 DEF VerifyAndExecute, VerdictOf, CanActivate, Activate, Calldata, ChainTypeOK
  <2>3. ASSUME NEW t \in Targets, Deactivate(t) PROVE Kept
    BY <1>1, <2>3 DEF Deactivate, ChainTypeOK
  <2>. QED
    BY <1>1, <2>1, <2>2, <2>3
    DEF ChainNext, Initialize, SetLearningVerifier, PublishDefenseUpdate, chainVars
<1>. QED
  BY <1>1, ChainTypeCorrect, PTL DEF ChainSpec, ActiveSlotIsKept
=============================================================================
