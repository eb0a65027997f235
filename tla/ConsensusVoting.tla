--------------------------- MODULE ConsensusVoting ---------------------------
(***************************************************************************)
(* ConsensusVoting and the ModelRegistry it consults.  One action is one   *)
(* transaction; a revert, and a submitBundle that returns false, change    *)
(* nothing and are not actions.                                            *)
(***************************************************************************)
EXTENDS Integers, Sequences, FiniteSets

CONSTANTS
  Operators, Models, Events, Attackers, Admins,
  None,             \* bytes32(0): no model registered; no bundle accepted
  Thresholds,       \* the <<k, n>> pairs an admin may ask for
  Confidences,      \* basis points seen in bundles and asked for as minimum
  MaxBundle,        \* bound: attestations in one bundle
  CountWrap         \* 2^8: attestationCount is a uint8

\* What an accepted event is recorded with; acceptedAt # 0 is accepted # None.
AcceptedBundle == [attackerAddress : Attackers, aggregatedConfidence : Confidences,
                   attestationCount : 0..(CountWrap - 1)]

ASSUME VotingAssumption ==
  /\ None \notin Models \union Attackers \union AcceptedBundle
  /\ Thresholds \subseteq Nat \X Nat
  /\ Confidences \subseteq Nat
  /\ MaxBundle \in Nat
  /\ CountWrap \in Nat \ {0}
  /\ IsFiniteSet(Operators)

VARIABLES
  modelHash,                            \* ModelRegistry._modelHash
  admin, thresholdK, thresholdN, minConfidence,
  slashed,
  accepted                              \* per event: the AcceptedBundle, or None

config == <<admin, thresholdK, thresholdN, minConfidence>>
vars == <<modelHash, config, slashed, accepted>>

FullConfidence == 10000

Attestation == [operator : Operators, modelHash : Models, confidence : Confidences]

Bundle == [eventId : Events, attackerAddress : Attackers,
           aggregatedConfidence : Confidences,
           attestations : UNION {[1..n -> Attestation] : n \in 0..MaxBundle}]

ValidConfig(k, n, conf) == k > 0 /\ k <= n /\ conf <= FullConfidence

Init ==
  /\ modelHash = [o \in Operators |-> None]
  /\ admin \in Admins
  /\ \E t \in Thresholds, c \in Confidences :
       /\ ValidConfig(t[1], t[2], c)
       /\ thresholdK = t[1] /\ thresholdN = t[2] /\ minConfidence = c
  /\ slashed = {}
  /\ accepted = [e \in Events |-> None]

\* Anyone may register, re-register, or clear its own model.
RegisterModel(o, m) ==
  /\ modelHash' = [modelHash EXCEPT ![o] = m]
  /\ UNCHANGED <<config, slashed, accepted>>

SetAdmin(next) ==
  /\ admin' = next
  /\ UNCHANGED <<modelHash, thresholdK, thresholdN, minConfidence, slashed, accepted>>

\* Mutant: the bounds on the configuration are not checked.
SetAnyThresholds(k, n, conf) ==
  /\ thresholdK' = k /\ thresholdN' = n /\ minConfidence' = conf
  /\ UNCHANGED <<modelHash, admin, slashed, accepted>>

SetThresholds(k, n, conf) ==
  /\ ValidConfig(k, n, conf)
  /\ thresholdK' = k /\ thresholdN' = n /\ minConfidence' = conf
  /\ UNCHANGED <<modelHash, admin, slashed, accepted>>

Slash(o) ==
  /\ o \notin slashed
  /\ slashed' = slashed \union {o}
  /\ UNCHANGED <<modelHash, config, accepted>>

Sound(att) ==
  /\ att.confidence <= FullConfidence
  /\ att.operator \notin slashed
  /\ modelHash[att.operator] # None /\ modelHash[att.operator] = att.modelHash

\* The operators the loop over the bundle collects in seen[0 .. distinct-1].
DistinctOperators(atts) == {atts[i].operator : i \in 1..Len(atts)}

Record(b, count) ==
  [attackerAddress |-> b.attackerAddress, aggregatedConfidence |-> b.aggregatedConfidence,
   attestationCount |-> count % CountWrap]

\* Mutants: the threshold is compared with attestations, not with operators; a
\* decided event can be submitted again.
SubmitWithDuplicates(b) ==
  LET seen == DistinctOperators(b.attestations) IN
  /\ accepted[b.eventId] = None
  /\ Len(b.attestations) >= thresholdK
  /\ b.aggregatedConfidence >= minConfidence
  /\ \A i \in 1..Len(b.attestations) : Sound(b.attestations[i])
  /\ accepted' = [accepted EXCEPT ![b.eventId] = Record(b, Cardinality(seen))]
  /\ UNCHANGED <<modelHash, config, slashed>>

SubmitAgain(b) ==
  LET seen == DistinctOperators(b.attestations) IN
  /\ b.aggregatedConfidence >= minConfidence
  /\ \A i \in 1..Len(b.attestations) : Sound(b.attestations[i])
  /\ Cardinality(seen) >= thresholdK
  /\ accepted' = [accepted EXCEPT ![b.eventId] = Record(b, Cardinality(seen))]
  /\ UNCHANGED <<modelHash, config, slashed>>

SubmitBundle(b) ==
  LET seen == DistinctOperators(b.attestations) IN
  /\ accepted[b.eventId] = None
  /\ Len(b.attestations) >= thresholdK
  /\ b.aggregatedConfidence >= minConfidence
  /\ \A i \in 1..Len(b.attestations) : Sound(b.attestations[i])
  /\ Cardinality(seen) >= thresholdK
  /\ accepted' = [accepted EXCEPT ![b.eventId] = Record(b, Cardinality(seen))]
  /\ UNCHANGED <<modelHash, config, slashed>>

Next ==
  \/ \E o \in Operators, m \in Models \union {None} : RegisterModel(o, m)
  \/ \E a \in Admins : SetAdmin(a)
  \/ \E t \in Thresholds, c \in Confidences : SetThresholds(t[1], t[2], c)
  \/ \E o \in Operators : Slash(o)
  \/ \E b \in Bundle : SubmitBundle(b)

Spec == Init /\ [][Next]_vars

-----------------------------------------------------------------------------

TypeOK ==
  /\ modelHash \in [Operators -> Models \union {None}]
  /\ admin \in Admins
  /\ thresholdK \in Nat /\ thresholdN \in Nat /\ minConfidence \in Confidences
  /\ ValidConfig(thresholdK, thresholdN, minConfidence)
  /\ slashed \in SUBSET Operators
  /\ accepted \in [Events -> AcceptedBundle \union {None}]

IsAccepted(e) == accepted[e] # None

\* An event is decided once, by thresholdK distinct operators that are neither
\* slashed nor without a registered model at that moment; no later slash, model
\* change or threshold change undoes or rewrites it.
Ledger == INSTANCE QuorumLedger WITH
  Undecided <- None,
  quorum <- thresholdK,
  removed <- slashed,
  eligible <- {o \in Operators \ slashed : modelHash[o] # None},
  decided <- [e \in Events |->
                IF accepted[e] = None THEN None ELSE accepted[e].attackerAddress]
DecidesByQuorum == Ledger!Spec

\* The record of an accepted bundle is final in every field, whatever is
\* submitted, slashed or configured afterwards.
RecordsAreFinal == [][\A e \in Events : IsAccepted(e) => accepted'[e] = accepted[e]]_vars
=============================================================================
