------------------------- MODULE ConsensusVotingProofs -------------------------
(***************************************************************************)
(* ConsensusVoting for every finite set of operators, any thresholds and   *)
(* bundles of any length: types, records that are final, and the ledger    *)
(* it implements.                                                          *)
(***************************************************************************)
EXTENDS ConsensusVoting, FiniteSetTheorems, SequenceTheorems, TLAPS

USE VotingAssumption

\* The distinct operators of a bundle are operators, finitely many.
LEMMA SeenIsFinite ==
  ASSUME NEW b \in Bundle
  PROVE  /\ b.attestations \in Seq(Attestation)
         /\ DistinctOperators(b.attestations) \in SUBSET Operators
         /\ Cardinality(DistinctOperators(b.attestations)) \in Nat
<1>1. b.attestations \in UNION {[1..n -> Attestation] : n \in 0..MaxBundle}
  BY DEF Bundle
<1>2. PICK n \in 0..MaxBundle : b.attestations \in [1..n -> Attestation]
  BY <1>1
<1>3. b.attestations \in Seq(Attestation)
  BY <1>2, SeqDef
<1>4. DistinctOperators(b.attestations) \in SUBSET Operators
  <2>1. \A i \in 1..Len(b.attestations) : b.attestations[i] \in Attestation
    BY <1>3, LenProperties
  <2>. QED
    BY <2>1 DEF DistinctOperators, Attestation
<1>. QED
  BY <1>3, <1>4, FS_Subset, FS_CardinalityType

LEMMA InitType == Init => TypeOK
<1>. SUFFICES ASSUME Init PROVE TypeOK
  OBVIOUS
<1>1. /\ thresholdK \in Nat /\ thresholdN \in Nat /\ minConfidence \in Confidences
      /\ ValidConfig(thresholdK, thresholdN, minConfidence)
  BY DEF Init
<1>. QED
  BY <1>1 DEF Init, TypeOK

LEMMA StepType == TypeOK /\ [Next]_vars => TypeOK'
<1>. SUFFICES ASSUME TypeOK, [Next]_vars PROVE TypeOK'
  OBVIOUS
<1>1. ASSUME NEW o \in Operators, NEW m \in Models \union {None}, RegisterModel(o, m)
      PROVE  TypeOK'
  BY <1>1 DEF RegisterModel, config, TypeOK
<1>2. ASSUME NEW a \in Admins, SetAdmin(a) PROVE TypeOK'
  BY <1>2 DEF SetAdmin, TypeOK
<1>3. ASSUME NEW t \in Thresholds, NEW c \in Confidences, SetThresholds(t[1], t[2], c)
      PROVE  TypeOK'
  <2>1. t[1] \in Nat /\ t[2] \in Nat
    OBVIOUS
  <2>. QED
    BY <1>3, <2>1 DEF SetThresholds, TypeOK
<1>4. ASSUME NEW o \in Operators, Slash(o) PROVE TypeOK'
  BY <1>4 DEF Slash, config, TypeOK
<1>5. ASSUME NEW b \in Bundle, SubmitBundle(b) PROVE TypeOK'
  <2>. DEFINE seen == DistinctOperators(b.attestations)
  <2>1. Cardinality(seen) % CountWrap \in 0..(CountWrap - 1)
    BY SeenIsFinite
  <2>2. [attackerAddress |-> b.attackerAddress,
         aggregatedConfidence |-> b.aggregatedConfidence,
         attestationCount |-> Cardinality(seen) % CountWrap] \in AcceptedBundle
    BY <2>1 DEF AcceptedBundle, Bundle
  <2>. HIDE DEF seen
  <2>4. accepted' \in [Events -> AcceptedBundle \union {None}]
    BY <1>5, <2>2 DEF SubmitBundle, Record, TypeOK, seen
  <2>. QED
    BY <1>5, <2>4 DEF SubmitBundle, Record, config, TypeOK
<1>6. CASE UNCHANGED vars
  BY <1>6 DEF vars, config, TypeOK
<1>. QED
  BY <1>1, <1>2, <1>3, <1>4, <1>5, <1>6 DEF Next

\* One transaction is an administrative step, a decision, or nothing.
LEMMA LedgerStep ==
  ASSUME TypeOK, TypeOK', [Next]_vars
  PROVE  [Ledger!Next]_(Ledger!ledgerVars)
<1>. DEFINE eligible == {o \in Operators \ slashed : modelHash[o] # None}
            decided == [e \in Events |->
                          IF accepted[e] = None THEN None ELSE accepted[e].attackerAddress]
<1>1. CASE UNCHANGED accepted /\ slashed \subseteq slashed'
  <2>1. thresholdK' \in Nat \ {0}
    BY DEF TypeOK, ValidConfig
  <2>2. eligible' \in SUBSET (Operators \ slashed')
    OBVIOUS
  <2>3. decided' = decided
    BY <1>1
  <2>. QED
    BY <1>1, <2>1, <2>2, <2>3 DEF Ledger!Next, Ledger!Administer
<1>2. ASSUME NEW b \in Bundle, SubmitBundle(b) PROVE Ledger!Next
  <2>. DEFINE seen == DistinctOperators(b.attestations)
              e == b.eventId
              a == b.attackerAddress
  <2>1. e \in Events /\ a \in Attackers
    BY DEF Bundle
  <2>2. seen \in SUBSET eligible
    BY <1>2, SeenIsFinite DEF SubmitBundle, Record, Sound, DistinctOperators
  <2>3. Cardinality(seen) >= thresholdK
    BY <1>2 DEF SubmitBundle, Record
  <2>4. decided[e] = None
    BY <1>2, <2>1 DEF SubmitBundle, Record
  <2>5. decided' = [decided EXCEPT ![e] = a]
    <3>1. accepted'[e].attackerAddress = a
      BY <1>2, <2>1 DEF SubmitBundle, Record, TypeOK
    <3>3. accepted'[e] # None
      <4>1. Cardinality(seen) % CountWrap \in 0..(CountWrap - 1)
        BY SeenIsFinite
      <4>2. accepted'[e] \in AcceptedBundle
        BY <1>2, <2>1, <4>1 DEF SubmitBundle, Record, TypeOK, AcceptedBundle, Bundle
      <4>. QED
        BY <4>2
    <3>2. \A f \in Events : f # e => accepted'[f] = accepted[f]
      BY <1>2 DEF SubmitBundle, Record, TypeOK
    <3>. QED
      BY <3>1, <3>2, <3>3, <2>1
  <2>6. UNCHANGED <<thresholdK, slashed, eligible>>
    BY <1>2 DEF SubmitBundle, Record, config
  <2>. HIDE DEF seen, e, a, eligible, decided
  <2>7. \E ev \in Events, at \in Attackers, backing \in SUBSET eligible :
          /\ decided[ev] = None
          /\ Cardinality(backing) >= thresholdK
          /\ decided' = [decided EXCEPT ![ev] = at]
          /\ UNCHANGED <<thresholdK, slashed, eligible>>
    BY <2>1, <2>2, <2>3, <2>4, <2>5, <2>6
  <2>8. Ledger!Decide
    <3>1. \A S : Ledger!Cardinality(S) = Cardinality(S)
      BY DEF Ledger!Cardinality, Cardinality
    <3>. QED
      BY <2>7, <3>1 DEF Ledger!Decide, eligible, decided
  <2>. QED
    BY <2>8 DEF Ledger!Next
<1>3. CASE UNCHANGED vars
  BY <1>3 DEF vars, config, Ledger!ledgerVars
<1>. QED
  BY <1>1, <1>2, <1>3 DEF Next, RegisterModel, SetAdmin, SetThresholds, Slash

\* Type correctness, with thresholds and minimum confidence always valid.
THEOREM VotingTypeCorrect == Spec => []TypeOK
  BY InitType, StepType, PTL DEF Spec

\* Every event is decided at most once and only by a quorum of distinct
\* operators eligible at that moment.
THEOREM VotingDecidesByQuorum == Spec => DecidesByQuorum
<1>1. Init => Ledger!Init
  <2>. SUFFICES ASSUME Init PROVE Ledger!Init
    OBVIOUS
  <2>1. TypeOK
    BY InitType
  <2>. QED
    BY <2>1 DEF Init, Ledger!Init, TypeOK, ValidConfig
<1>. QED
  BY <1>1, InitType, StepType, LedgerStep, PTL DEF Spec, DecidesByQuorum, Ledger!Spec

\* submitBundle answers false for a decided event, so its record is never
\* written again, whatever is slashed or configured in between.
THEOREM VotingRecordsAreFinal == Spec => RecordsAreFinal
<1>1. ASSUME TypeOK, [Next]_vars
      PROVE  \A e \in Events : IsAccepted(e) => accepted'[e] = accepted[e]
  <2>1. CASE UNCHANGED accepted
    BY <2>1
  <2>2. ASSUME NEW b \in Bundle, SubmitBundle(b), NEW e \in Events, IsAccepted(e)
        PROVE  accepted'[e] = accepted[e]
    BY <1>1, <2>2 DEF SubmitBundle, IsAccepted, TypeOK
  <2>. QED
    BY <1>1, <2>1, <2>2 DEF Next, RegisterModel, SetAdmin, SetThresholds, Slash, vars
<1>. QED
  BY <1>1, VotingTypeCorrect, PTL DEF Spec, RecordsAreFinal
=============================================================================
