--------------------------- MODULE DetectorProofs ---------------------------
(***************************************************************************)
(* Proofs of the properties of Detector, for every set of addresses, every *)
(* score and deviation and every window.  EntryInv says what an entry's     *)
(* state implies for its confidence, for what was told about it and, while  *)
(* it lives, for its age: one more window per transition.                   *)
(***************************************************************************)
EXTENDS Detector, TLAPS

ConfidenceInv(s) ==
  /\ s.state \in {"IDLE", "FLASH_LOAN_OBSERVED"} => s.told = "below_threshold"
  /\ s.state = "FLASH_LOAN_OBSERVED" => s.confidence >= 4000
  /\ s.state = "ORACLE_IMPACT_OBSERVED" =>
       s.confidence >= 1200 /\ (s.told = "confirmed" => s.confidence >= confirmed_threshold)
  /\ s.state = "CONFIRMED" => s.confidence >= confirmed_threshold

AgeInv(s) ==
  Live(s) =>
    /\ s.state = "IDLE" => s.age <= s.idle
    /\ s.state = "FLASH_LOAN_OBSERVED" => s.age <= Window + s.idle
    /\ s.state = "ORACLE_IMPACT_OBSERVED" =>
         /\ s.confidence < 7200 => s.age <= 2 * Window + s.idle
         /\ s.age <= 3 * Window + s.idle
    /\ s.state = "CONFIRMED" => s.age <= 4 * Window + s.idle

EntryInv(s) == s \in DetectionState /\ ConfidenceInv(s) /\ AgeInv(s)

MemoryInv ==
  \A a \in Addresses : /\ quiet[a] # 0 => a \notin DOMAIN states
                       /\ quiet[a] = 2 => a \notin tx_history

IInv == /\ TypeOK
        /\ \A a \in DOMAIN states : EntryInv(states[a])
        /\ NoExploitIsSilent
        /\ EvidenceIsRecent
        /\ MemoryInv
-----------------------------------------------------------------------------
LEMMA FieldTypes ==
  ASSUME NEW s \in DetectionState
  PROVE  /\ s.state \in Stages /\ s.confidence \in 0..FullConfidence
         /\ s.idle \in 0..MaxIdle /\ s.age \in 0..MaxAge /\ s.told \in Levels
BY DEF DetectionState

LEMMA Ranges ==
  /\ 0 \in 0..MaxIdle /\ 0 \in 0..MaxAge
  /\ 0 \in 0..FullConfidence /\ 4000 \in 0..FullConfidence /\ 9000 \in 0..FullConfidence
BY DetectorAssumption DEF MaxIdle, MaxAge, FullConfidence

LEMMA FullIsNat == FullConfidence \in Nat
BY DEF FullConfidence

LEMMA CappedBounds ==
  ASSUME NEW m \in 0..FullConfidence, NEW c \in Nat
  PROVE  Capped(m + c) \in 0..FullConfidence /\ Capped(m + c) >= m
BY DEF Capped, FullConfidence

\* What a transition changes.
LEMMA MovedEntry ==
  ASSUME NEW s \in DetectionState, NEW st \in Stages, NEW c \in 0..FullConfidence
  PROVE  /\ Moved(s, st, c) \in DetectionState
         /\ Moved(s, st, c).state = st /\ Moved(s, st, c).confidence = c
         /\ Moved(s, st, c).idle = 0 /\ Moved(s, st, c).age = s.age
         /\ Moved(s, st, c).told = s.told
<1>1. 0 \in 0..MaxIdle BY Ranges
<1> QED BY <1>1 DEF Moved, DetectionState

\* A boost changes the confidence only, and only upwards.
LEMMA BoostedEntry ==
  ASSUME NEW s \in DetectionState, NEW c \in Nat
  PROVE  /\ Boosted(s, c) \in DetectionState
         /\ Boosted(s, c).confidence = Capped(s.confidence + c)
         /\ Boosted(s, c).confidence >= s.confidence
         /\ Boosted(s, c).state = s.state /\ Boosted(s, c).told = s.told
         /\ Boosted(s, c).idle = s.idle /\ Boosted(s, c).age = s.age
<1>1. Capped(s.confidence + c) \in 0..FullConfidence /\ Capped(s.confidence + c) >= s.confidence
  BY FieldTypes, CappedBounds
<1>2. \A n : n \in 0..FullConfidence => [s EXCEPT !.confidence = n] \in DetectionState
  BY DEF DetectionState
<1>3. \A n : /\ [s EXCEPT !.confidence = n].confidence = n
             /\ [s EXCEPT !.confidence = n].state = s.state
             /\ [s EXCEPT !.confidence = n].told = s.told
             /\ [s EXCEPT !.confidence = n].idle = s.idle
             /\ [s EXCEPT !.confidence = n].age = s.age
  BY DEF DetectionState
<1>4. Boosted(s, c) = [s EXCEPT !.confidence = Capped(s.confidence + c)]
  BY DEF Boosted
<1> QED BY <1>1, <1>2, <1>3, <1>4

\* A boost keeps what is known of an entry.
LEMMA BoostKeepsEntry ==
  ASSUME NEW s, EntryInv(s), NEW c \in Nat
  PROVE  /\ EntryInv(Boosted(s, c)) /\ Boosted(s, c).told = s.told
         /\ Live(s) => Live(Boosted(s, c))
<1> DEFINE t == Boosted(s, c)
<1>1. s \in DetectionState BY DEF EntryInv
<1>2. /\ t \in DetectionState /\ t.confidence >= s.confidence
      /\ t.state = s.state /\ t.told = s.told /\ t.idle = s.idle /\ t.age = s.age
  BY <1>1, BoostedEntry
<1> HIDE DEF t
<1>3. /\ s.confidence \in Int /\ t.confidence \in Int /\ s.age \in Int /\ s.idle \in Int
  BY <1>1, <1>2, FieldTypes
<1>4. ConfidenceInv(t)
  BY <1>2, <1>3 DEF EntryInv, ConfidenceInv, confirmed_threshold
<1>5. AgeInv(t)
  BY <1>2, <1>3, DetectorAssumption DEF EntryInv, AgeInv, Live
<1> QED BY <1>2, <1>4, <1>5 DEF EntryInv, Live, t

LEMMA FreshEntry ==
  /\ EntryInv(Fresh) /\ Live(Fresh) /\ Fresh.told = "below_threshold"
<1>1. Fresh \in DetectionState
  BY Ranges DEF Fresh, DetectionState, Stages, Levels
<1>2. /\ Fresh.state = "IDLE" /\ Fresh.told = "below_threshold"
      /\ Fresh.idle = 0 /\ Fresh.age = 0
  BY DEF Fresh
<1>3. ConfidenceInv(Fresh) BY <1>2 DEF ConfidenceInv
<1>4. AgeInv(Fresh) /\ Live(Fresh) BY <1>2, DetectorAssumption DEF AgeInv, Live
<1> QED BY <1>1, <1>2, <1>3, <1>4 DEF EntryInv

LEMMA GetOrCreateEntry ==
  ASSUME \A a \in DOMAIN states : EntryInv(states[a]), NEW a \in Addresses
  PROVE  /\ EntryInv(GetOrCreate(a)) /\ Live(GetOrCreate(a))
         /\ a \in DOMAIN states /\ Live(states[a]) => GetOrCreate(a) = states[a]
BY FreshEntry DEF GetOrCreate

LEMMA FlashLoanEntry ==
  ASSUME NEW s, EntryInv(s), Live(s), NEW x \in Scores
  PROVE  LET t == ObserveFlashLoan(s, x)
         IN  EntryInv(t) /\ Live(t) /\ t.told = s.told
<1> DEFINE seen == IF s.state = "IDLE" THEN Moved(s, "FLASH_LOAN_OBSERVED", 4000) ELSE s
<1>1. s \in DetectionState BY DEF EntryInv
<1>2. EntryInv(seen) /\ Live(seen) /\ seen.told = s.told
  <2>1. CASE s.state = "IDLE"
    <3> DEFINE m == Moved(s, "FLASH_LOAN_OBSERVED", 4000)
    <3>1. /\ m \in DetectionState /\ m.state = "FLASH_LOAN_OBSERVED"
          /\ m.confidence = 4000 /\ m.idle = 0 /\ m.age = s.age /\ m.told = s.told
      BY <1>1, MovedEntry, Ranges DEF Stages
    <3>2. s.age \in Int /\ s.idle \in Int BY <1>1, FieldTypes
    <3>3. s.age <= s.idle /\ s.idle <= Window
      BY <2>1 DEF EntryInv, AgeInv, Live
    <3>4. s.told = "below_threshold" BY <2>1 DEF EntryInv, ConfidenceInv
    <3> HIDE DEF m
    <3>5. AgeInv(m) /\ Live(m)
      BY <3>1, <3>2, <3>3, DetectorAssumption DEF AgeInv, Live
    <3>6. ConfidenceInv(m) BY <3>1, <3>4 DEF ConfidenceInv
    <3> QED BY <2>1, <3>1, <3>5, <3>6 DEF EntryInv, m
  <2>2. CASE s.state # "IDLE"
    BY <2>2
  <2> QED BY <2>1, <2>2
<1>3. 150 * x \in Nat BY DetectorAssumption
<1> HIDE DEF seen
<1>4. /\ EntryInv(Boosted(seen, 150 * x)) /\ Live(Boosted(seen, 150 * x))
      /\ Boosted(seen, 150 * x).told = s.told
  BY <1>2, <1>3, BoostKeepsEntry
<1> QED BY <1>4 DEF ObserveFlashLoan, seen

\* Scaling leaves at least three tenths and never increases.
LEMMA ScaledBounds ==
  ASSUME NEW c \in Nat, c >= 4000, c <= FullConfidence, NEW d \in Nat
  PROVE  Scaled(c, d) \in 0..FullConfidence /\ Scaled(c, d) >= 1200
<1> DEFINE k == 3 + (IF d < 7 THEN d ELSE 7)
<1>1. k \in 3..10 OBVIOUS
<1> HIDE DEF k
<1>2. c * k \in Nat /\ c * k >= 12000 /\ c * k <= 10 * FullConfidence
  <2>1. k = 3 \/ k = 4 \/ k = 5 \/ k = 6 \/ k = 7 \/ k = 8 \/ k = 9 \/ k = 10
    BY <1>1
  <2> QED BY <2>1 DEF FullConfidence
<1>3. \A m \in Nat : m >= 12000 /\ m <= 10 * FullConfidence
        => (m \div 10) \in 0..FullConfidence /\ (m \div 10) >= 1200
  BY DEF FullConfidence
<1>4. Scaled(c, d) = (c * k) \div 10 BY DEF Scaled, k
<1> QED BY <1>2, <1>3, <1>4

LEMMA OracleEntry ==
  ASSUME NEW s, EntryInv(s), Live(s), NEW d \in Deviations, NEW x \in Scores
  PROVE  LET t == ObserveOracleImpact(s, d, x)
         IN  EntryInv(t) /\ Live(t) /\ t.told = s.told
<1> DEFINE n == Scaled(s.confidence, d)
           m == Moved(s, "ORACLE_IMPACT_OBSERVED", n)
<1>1. s \in DetectionState BY DEF EntryInv
<1>2. 100 * x \in Nat BY DetectorAssumption
<1>3. CASE s.state = "IDLE"
  BY <1>3 DEF ObserveOracleImpact
<1>4. CASE s.state = "FLASH_LOAN_OBSERVED"
  <2>1. s.confidence \in 0..FullConfidence BY <1>1, FieldTypes
  <2>2. s.confidence >= 4000 /\ s.told = "below_threshold"
    BY <1>4 DEF EntryInv, ConfidenceInv
  <2>3. Scaled(s.confidence, d) \in 0..FullConfidence /\ Scaled(s.confidence, d) >= 1200
    <3>1. s.confidence \in Nat /\ s.confidence <= FullConfidence
      BY <2>1, FullIsNat
    <3>2. d \in Nat BY DetectorAssumption
    <3> QED BY <2>2, <3>1, <3>2, ScaledBounds
  <2>4. /\ m \in DetectionState /\ m.state = "ORACLE_IMPACT_OBSERVED"
        /\ m.confidence >= 1200
        /\ m.idle = 0 /\ m.age = s.age /\ m.told = s.told
    <3> HIDE DEF n
    <3>1. n \in 0..FullConfidence /\ n >= 1200 BY <2>3 DEF n
    <3>2. "ORACLE_IMPACT_OBSERVED" \in Stages BY DEF Stages
    <3> QED BY <1>1, <3>1, <3>2, MovedEntry
  <2> HIDE DEF m
  <2>5. s.age \in Int /\ s.idle \in Int BY <1>1, FieldTypes
  <2>6. s.age <= Window + s.idle /\ s.idle <= Window
    BY <1>4 DEF EntryInv, AgeInv, Live
  <2>7. AgeInv(m) /\ Live(m)
    BY <2>4, <2>5, <2>6, DetectorAssumption DEF AgeInv, Live
  <2>8. ConfidenceInv(m)
    BY <2>2, <2>4 DEF ConfidenceInv
  <2>9. EntryInv(m) BY <2>4, <2>7, <2>8 DEF EntryInv
  <2>10. /\ EntryInv(Boosted(m, 100 * x)) /\ Live(Boosted(m, 100 * x))
         /\ Boosted(m, 100 * x).told = s.told
    <3>1. m.told = s.told /\ Live(m) BY <2>4, <2>7
    <3> QED BY <1>2, <2>9, <3>1, BoostKeepsEntry
  <2> QED BY <1>4, <2>10 DEF ObserveOracleImpact, m
<1>5. CASE s.state \notin {"IDLE", "FLASH_LOAN_OBSERVED"}
  <2>1. /\ EntryInv(Boosted(s, 100 * x)) /\ Live(Boosted(s, 100 * x))
        /\ Boosted(s, 100 * x).told = s.told
    BY <1>2, BoostKeepsEntry
  <2> QED BY <1>5, <2>1 DEF ObserveOracleImpact
<1> QED BY <1>3, <1>4, <1>5

\* An exploit call yields a verdict, no weaker than one already given, and adds
\* at most one window to what is known of the age.
LEMMA ExploitEntry ==
  ASSUME NEW s, EntryInv(s), Live(s)
  PROVE  LET t == ObserveExploitCall(s)
         IN  /\ EntryInv(t) /\ Live(t) /\ t.told = s.told
             /\ t.age = s.age /\ t.age <= 5 * Window
             /\ t.state \in {"ORACLE_IMPACT_OBSERVED", "CONFIRMED"}
             /\ t.confidence >= candidate_threshold
             /\ s.told = "confirmed" => t.confidence >= confirmed_threshold
<1>1. s \in DetectionState BY DEF EntryInv
<1>2. /\ s.confidence \in Int /\ s.confidence \in 0..FullConfidence
      /\ s.age \in Int /\ s.idle \in Int
  BY <1>1, FieldTypes
<1>3. /\ s.idle <= Window /\ AgeInv(s) /\ ConfidenceInv(s)
  BY DEF EntryInv, Live
<1>4. CASE s.state = "IDLE"
  <2> DEFINE m == Moved(s, "CONFIRMED", 9000)
  <2>1. /\ m \in DetectionState /\ m.state = "CONFIRMED" /\ m.confidence = 9000
        /\ m.idle = 0 /\ m.age = s.age /\ m.told = s.told
    BY <1>1, MovedEntry, Ranges DEF Stages
  <2>2. s.age <= s.idle /\ s.told = "below_threshold"
    BY <1>3, <1>4 DEF AgeInv, ConfidenceInv, Live
  <2> HIDE DEF m
  <2>3. AgeInv(m) /\ Live(m) /\ m.age <= 5 * Window
    BY <1>2, <1>3, <2>1, <2>2, DetectorAssumption DEF AgeInv, Live
  <2>4. /\ ConfidenceInv(m) /\ m.confidence >= candidate_threshold
        /\ m.confidence >= confirmed_threshold
    BY <2>1 DEF ConfidenceInv, confirmed_threshold, candidate_threshold
  <2> QED BY <1>4, <2>1, <2>3, <2>4 DEF ObserveExploitCall, EntryInv, m
<1>5. CASE s.state = "CONFIRMED"
  <2>1. s.age <= 4 * Window + s.idle /\ s.confidence >= confirmed_threshold
    BY <1>3, <1>5 DEF AgeInv, ConfidenceInv, Live
  <2>2. s.age <= 5 * Window
    BY <1>2, <1>3, <2>1, DetectorAssumption
  <2>3. s.confidence >= candidate_threshold
    BY <1>2, <2>1 DEF candidate_threshold, confirmed_threshold
  <2> QED BY <1>5, <2>1, <2>2, <2>3 DEF ObserveExploitCall
<1>6. CASE s.state \in {"FLASH_LOAN_OBSERVED", "ORACLE_IMPACT_OBSERVED"}
  <2> DEFINE c == Capped(s.confidence + 6000)
             st == IF c >= confirmed_threshold THEN "CONFIRMED" ELSE s.state
             m == Moved(s, st, c)
  <2>1. /\ c \in 0..FullConfidence /\ c \in Nat
        /\ c >= 7200 /\ c >= s.confidence
        /\ s.confidence >= 2500 => c >= confirmed_threshold
    <3>1. s.confidence >= 1200
      BY <1>2, <1>3, <1>6 DEF ConfidenceInv
    <3>2. \A k \in 0..FullConfidence : k >= 1200 =>
            /\ Capped(k + 6000) \in Nat /\ Capped(k + 6000) >= 7200
            /\ k >= 2500 => Capped(k + 6000) >= confirmed_threshold
      BY DEF Capped, FullConfidence, confirmed_threshold
    <3>3. c \in 0..FullConfidence /\ c >= s.confidence
      BY <1>2, CappedBounds
    <3> QED BY <1>2, <3>1, <3>2, <3>3
  <2>2. /\ st \in Stages /\ st \in {"ORACLE_IMPACT_OBSERVED", "CONFIRMED"}
        /\ st = "CONFIRMED" => c >= confirmed_threshold
        /\ st # "CONFIRMED" =>
             /\ s.state = "ORACLE_IMPACT_OBSERVED" /\ ~ (c >= confirmed_threshold)
    <3> HIDE DEF c
    <3>1. CASE s.state = "ORACLE_IMPACT_OBSERVED"
      BY <3>1 DEF Stages
    <3>2. CASE s.state = "FLASH_LOAN_OBSERVED"
      <4>1. s.confidence >= 4000 BY <1>3, <3>2 DEF ConfidenceInv
      <4>2. s.confidence >= 2500 BY <1>2, <4>1
      <4>3. c >= confirmed_threshold BY <2>1, <4>2
      <4> QED BY <4>3 DEF Stages
    <3> QED BY <1>6, <3>1, <3>2
  <2> HIDE DEF c, st
  <2>3. /\ m \in DetectionState /\ m.state = st /\ m.confidence = c
        /\ m.idle = 0 /\ m.age = s.age /\ m.told = s.told
    BY <1>1, <2>1, <2>2, MovedEntry
  <2> HIDE DEF m
  <2>4. c >= candidate_threshold /\ c >= 1200
    BY <2>1 DEF candidate_threshold
  <2>5. s.told = "confirmed" => c >= confirmed_threshold
    <3>1. s.told = "confirmed" => s.confidence >= confirmed_threshold
      BY <1>3, <1>6 DEF ConfidenceInv
    <3> QED BY <1>2, <2>1, <3>1 DEF confirmed_threshold
  <2>6. ConfidenceInv(m)
    <3>1. m.state = "ORACLE_IMPACT_OBSERVED" =>
            m.confidence >= 1200 /\ (m.told = "confirmed" => m.confidence >= confirmed_threshold)
      BY <2>3, <2>4, <2>5
    <3>2. m.state = "CONFIRMED" => m.confidence >= confirmed_threshold
      BY <2>2, <2>3
    <3>3. m.state \in {"ORACLE_IMPACT_OBSERVED", "CONFIRMED"} BY <2>2, <2>3
    <3> QED BY <3>1, <3>2, <3>3 DEF ConfidenceInv
  <2>7. /\ s.age <= 4 * Window
        /\ st # "CONFIRMED" => s.age <= 3 * Window
    <3>1. CASE s.state = "FLASH_LOAN_OBSERVED"
      <4>1. s.age <= Window + s.idle BY <1>3, <3>1 DEF AgeInv, Live
      <4> QED BY <1>2, <1>3, <4>1, DetectorAssumption
    <3>2. CASE s.state = "ORACLE_IMPACT_OBSERVED"
      <4>1. /\ s.age <= 3 * Window + s.idle
            /\ s.confidence < 7200 => s.age <= 2 * Window + s.idle
        BY <1>3, <3>2 DEF AgeInv, Live
      <4>2. s.age <= 4 * Window
        BY <1>2, <1>3, <4>1, DetectorAssumption
      <4>3. st # "CONFIRMED" => s.confidence < 7200
        <5>1. st # "CONFIRMED" => ~ (s.confidence >= 2500) BY <2>1, <2>2
        <5> QED BY <1>2, <5>1
      <4>4. s.confidence < 7200 => s.age <= 3 * Window
        BY <1>2, <1>3, <4>1, DetectorAssumption
      <4> QED BY <4>2, <4>3, <4>4
    <3> QED BY <1>6, <3>1, <3>2
  <2>8. AgeInv(m) /\ Live(m) /\ m.age <= 5 * Window
    <3>1. Live(m) /\ m.age <= 5 * Window
      BY <1>2, <2>3, <2>7, DetectorAssumption DEF Live
    <3>2. m.age <= 4 * Window + m.idle
      BY <1>2, <2>3, <2>7, DetectorAssumption
    <3>3. m.state # "CONFIRMED" => ~ (m.confidence < 7200) /\ m.age <= 3 * Window + m.idle
      BY <1>2, <2>1, <2>3, <2>7, DetectorAssumption
    <3>4. m.state \in {"ORACLE_IMPACT_OBSERVED", "CONFIRMED"} BY <2>2, <2>3
    <3> QED BY <3>1, <3>2, <3>3, <3>4 DEF AgeInv
  <2>9. ObserveExploitCall(s) = m
    BY <1>6 DEF ObserveExploitCall, Exploited, m, st, c
  <2> QED BY <2>2, <2>3, <2>4, <2>5, <2>6, <2>8, <2>9 DEF EntryInv
<1>7. s.state \in Stages BY <1>1, FieldTypes
<1> QED BY <1>4, <1>5, <1>6, <1>7 DEF Stages

\* The entry a transaction leaves goes in, the others stay as they were.
LEMMA WithEntry ==
  ASSUME NEW a \in Addresses, NEW t
  PROVE  /\ DOMAIN With(a, t) = DOMAIN states \union {a}
         /\ With(a, t)[a] = t
         /\ \A b \in DOMAIN states : b # a => With(a, t)[b] = states[b]
BY DEF With

\* What the clean-up at the end of evaluate keeps.
LEMMA CleanupKeeps ==
  ASSUME IInv, NEW a \in Addresses, NEW known,
         DOMAIN known \subseteq DOMAIN states \union {a},
         \A b \in DOMAIN known : EntryInv(known[b]),
         Cleanup(a, known)
  PROVE  /\ DOMAIN states' \subseteq DOMAIN known
         /\ \A b \in DOMAIN states' : states'[b] = known[b]
         /\ DOMAIN states' \subseteq Addresses
         /\ \A b \in DOMAIN states' : states'[b] \in DetectionState
         /\ tx_history' \subseteq Addresses
         /\ quiet' \in [Addresses -> 0..2]
         /\ \A b \in DOMAIN states' : EntryInv(states'[b])
         /\ MemoryInv'
<1>1. DOMAIN known \subseteq Addresses /\ tx_history \subseteq Addresses
      /\ quiet \in [Addresses -> 0..2]
  BY DEF IInv, TypeOK
<1>2. /\ DOMAIN states' = {b \in DOMAIN known : Live(known[b])}
      /\ \A b \in DOMAIN states' : states'[b] = known[b]
  BY DEF Cleanup, CleanupExpired
<1>3. tx_history' = {b \in tx_history : b \in DOMAIN known} \union {a}
  BY DEF Cleanup
<1>4. /\ quiet' \in [Addresses -> 0..2]
      /\ \A b \in Addresses :
           quiet'[b] = IF b = a \/ (b \in DOMAIN known /\ Live(known[b])) THEN 0
                       ELSE IF quiet[b] < 2 THEN quiet[b] + 1 ELSE 2
  BY <1>1 DEF Cleanup
<1>5. MemoryInv'
  <2> SUFFICES ASSUME NEW b \in Addresses
               PROVE  /\ quiet'[b] # 0 => b \notin DOMAIN states'
                      /\ quiet'[b] = 2 => b \notin tx_history'
    BY DEF MemoryInv
  <2>1. quiet'[b] # 0 => b # a /\ ~ (b \in DOMAIN known /\ Live(known[b]))
    BY <1>4
  <2>2. quiet'[b] = 2 => quiet[b] # 0
    BY <1>1, <1>4
  <2>3. quiet[b] # 0 => b \notin DOMAIN states
    BY DEF IInv, MemoryInv
  <2> QED BY <1>2, <1>3, <2>1, <2>2, <2>3
<1> QED BY <1>1, <1>2, <1>3, <1>4, <1>5 DEF EntryInv

\* An entry put in and cleaned up after: for the sender, and for everybody else.
LEMMA TransactionKeeps ==
  ASSUME IInv, NEW a \in Addresses, NEW t, EntryInv(t),
         Cleanup(a, With(a, t))
  PROVE  /\ DOMAIN states' \subseteq Addresses
         /\ \A b \in DOMAIN states' : states'[b] \in DetectionState
         /\ tx_history' \subseteq Addresses
         /\ quiet' \in [Addresses -> 0..2]
         /\ \A b \in DOMAIN states' : EntryInv(states'[b])
         /\ MemoryInv'
         /\ a \in DOMAIN states' => states'[a] = t
         /\ \A b \in DOMAIN states \intersect DOMAIN states' :
              b # a => states'[b] = states[b]
<1> DEFINE known == With(a, t)
<1>1. /\ DOMAIN known = DOMAIN states \union {a} /\ known[a] = t
      /\ \A b \in DOMAIN states : b # a => known[b] = states[b]
  BY WithEntry
<1>2. Cleanup(a, known) OBVIOUS
<1> HIDE DEF known
<1>3. \A b \in DOMAIN known : EntryInv(known[b])
  BY <1>1 DEF IInv
<1> QED BY <1>1, <1>2, <1>3, CleanupKeeps

LEMMA InitIInv == Init => IInv
<1> SUFFICES ASSUME Init PROVE IInv
  OBVIOUS
<1>1. DOMAIN states = {} BY DEF Init
<1>2. TypeOK BY <1>1, Ranges DEF Init, TypeOK
<1>3. NoExploitIsSilent BY DEF Init, NoExploitIsSilent
<1>4. EvidenceIsRecent BY DetectorAssumption DEF Init, EvidenceIsRecent
<1>5. MemoryInv BY <1>1 DEF Init, MemoryInv
<1> QED BY <1>1, <1>2, <1>3, <1>4, <1>5 DEF IInv

LEMMA NoVerdictKeeps ==
  ASSUME NoVerdict
  PROVE  /\ NoExploitIsSilent' /\ EvidenceIsRecent'
         /\ verdict' \in [level : Levels \union {"none"}, age : 0..MaxAge]
BY Ranges, DetectorAssumption DEF NoVerdict, NoExploitIsSilent, EvidenceIsRecent

\* Time passing only lets an entry expire, or stay within one window more.
LEMMA OlderEntry ==
  ASSUME NEW s, EntryInv(s)
  PROVE  LET t == [s EXCEPT !.idle = Older(@, MaxIdle), !.age = Older(@, MaxAge)]
         IN  EntryInv(t) /\ t.told = s.told
<1> DEFINE i == Older(s.idle, MaxIdle)
           g == Older(s.age, MaxAge)
           t == [s EXCEPT !.idle = i, !.age = g]
<1>1. s \in DetectionState /\ ConfidenceInv(s) /\ AgeInv(s) BY DEF EntryInv
<1>2. s.idle \in 0..MaxIdle /\ s.age \in 0..MaxAge /\ MaxIdle \in Nat /\ MaxAge \in Nat
  BY <1>1, FieldTypes, DetectorAssumption DEF MaxIdle, MaxAge
<1>3. i \in 0..MaxIdle /\ g \in 0..MaxAge BY <1>2 DEF Older
<1>4. i <= Window => i = s.idle + 1 BY <1>2, DetectorAssumption DEF Older, MaxIdle
<1>5. g <= s.age + 1 BY <1>2 DEF Older
<1> HIDE DEF i, g
<1>6. /\ t \in DetectionState /\ t.idle = i /\ t.age = g /\ t.state = s.state
      /\ t.confidence = s.confidence /\ t.told = s.told
  BY <1>1, <1>3 DEF DetectionState
<1> HIDE DEF t
<1>7. ConfidenceInv(t) BY <1>1, <1>6 DEF ConfidenceInv
<1>8. AgeInv(t)
  <2> SUFFICES ASSUME Live(t)
               PROVE  /\ t.state = "IDLE" => t.age <= t.idle
                      /\ t.state = "FLASH_LOAN_OBSERVED" => t.age <= Window + t.idle
                      /\ t.state = "ORACLE_IMPACT_OBSERVED" =>
                           /\ t.confidence < 7200 => t.age <= 2 * Window + t.idle
                           /\ t.age <= 3 * Window + t.idle
                      /\ t.state = "CONFIRMED" => t.age <= 4 * Window + t.idle
    BY DEF AgeInv
  <2>1. i = s.idle + 1 /\ s.idle <= Window
    BY <1>2, <1>4, <1>6, DetectorAssumption DEF Live
  <2>2. Live(s) BY <2>1 DEF Live
  <2>3. \A w \in Nat : s.age <= w + s.idle => g <= w + i
    BY <1>2, <1>3, <1>5, <2>1
  <2>4. s.age <= s.idle => g <= i
    BY <1>2, <1>3, <1>5, <2>1
  <2>5. Window \in Nat /\ 2 * Window \in Nat /\ 3 * Window \in Nat /\ 4 * Window \in Nat
    BY DetectorAssumption
  <2> QED BY <1>1, <1>6, <2>2, <2>3, <2>4, <2>5 DEF AgeInv
<1> QED BY <1>6, <1>7, <1>8 DEF EntryInv, t, i, g

\* One step: the invariant is kept, and no live confirmed address is downgraded.
Kept(a) == states[a].told = "confirmed" /\ Live(states[a]) => states'[a].told = "confirmed"

LEMMA StepIInv ==
  IInv /\ [Next]_vars => IInv' /\ \A a \in DOMAIN states \intersect DOMAIN states' : Kept(a)
<1> SUFFICES ASSUME IInv, [Next]_vars
             PROVE  IInv' /\ \A a \in DOMAIN states \intersect DOMAIN states' : Kept(a)
  OBVIOUS
<1>0. \A a \in DOMAIN states : EntryInv(states[a]) BY DEF IInv
<1>1. ASSUME NEW a \in Addresses, NEW x \in Scores, FlashLoanTx(a, x)
      PROVE  IInv' /\ \A b \in DOMAIN states \intersect DOMAIN states' : Kept(b)
  <2> DEFINE s == GetOrCreate(a)
             t == ObserveFlashLoan(s, x)
  <2>1. EntryInv(s) /\ Live(s) /\ (a \in DOMAIN states /\ Live(states[a]) => s = states[a])
    BY <1>0, GetOrCreateEntry
  <2> HIDE DEF s
  <2>2. EntryInv(t) /\ t.told = s.told BY <2>1, FlashLoanEntry
  <2>3. Cleanup(a, With(a, t)) /\ NoVerdict BY <1>1 DEF FlashLoanTx, s
  <2> HIDE DEF t
  <2> QED BY <2>1, <2>2, <2>3, TransactionKeeps, NoVerdictKeeps DEF IInv, TypeOK, Kept
<1>2. ASSUME NEW a \in Addresses, NEW d \in Deviations, NEW x \in Scores, OracleTx(a, d, x)
      PROVE  IInv' /\ \A b \in DOMAIN states \intersect DOMAIN states' : Kept(b)
  <2> DEFINE s == GetOrCreate(a)
             t == ObserveOracleImpact(s, d, x)
  <2>1. EntryInv(s) /\ Live(s) /\ (a \in DOMAIN states /\ Live(states[a]) => s = states[a])
    BY <1>0, GetOrCreateEntry
  <2> HIDE DEF s
  <2>2. EntryInv(t) /\ t.told = s.told BY <2>1, OracleEntry
  <2>3. Cleanup(a, With(a, t)) /\ NoVerdict BY <1>2 DEF OracleTx, s
  <2> HIDE DEF t
  <2> QED BY <2>1, <2>2, <2>3, TransactionKeeps, NoVerdictKeeps DEF IInv, TypeOK, Kept
<1>3. ASSUME NEW a \in Addresses, OtherTx(a)
      PROVE  IInv' /\ \A b \in DOMAIN states \intersect DOMAIN states' : Kept(b)
  <2>1. Cleanup(a, states) /\ NoVerdict BY <1>3 DEF OtherTx
  <2> QED BY <1>0, <2>1, CleanupKeeps, NoVerdictKeeps DEF IInv, TypeOK, Kept
<1>4. ASSUME NEW a \in Addresses, NEW x \in Scores, ExploitTx(a, x)
      PROVE  IInv' /\ \A b \in DOMAIN states \intersect DOMAIN states' : Kept(b)
  <2> DEFINE s == GetOrCreate(a)
             u == ObserveExploitCall(s)
             v == Boosted(u, 150 * x)
             level == Level(v.confidence)
             t == [v EXCEPT !.told = level]
  <2>1. EntryInv(s) /\ Live(s) /\ (a \in DOMAIN states /\ Live(states[a]) => s = states[a])
    BY <1>0, GetOrCreateEntry
  <2>2. /\ Cleanup(a, With(a, t))
        /\ verdict' = [level |-> level, age |-> v.age]
    BY <1>4 DEF ExploitTx
  <2> HIDE DEF s
  <2>3. /\ EntryInv(u) /\ u.age <= 5 * Window
        /\ u.state \in {"ORACLE_IMPACT_OBSERVED", "CONFIRMED"}
        /\ u.confidence >= candidate_threshold
        /\ s.told = "confirmed" => u.confidence >= confirmed_threshold
    BY <2>1, ExploitEntry
  <2> HIDE DEF u
  <2>4. 150 * x \in Nat /\ u \in DetectionState
    BY <2>3, DetectorAssumption DEF EntryInv
  <2>5. /\ EntryInv(v) /\ v \in DetectionState
        /\ v.confidence >= u.confidence /\ v.state = u.state /\ v.age = u.age
    BY <2>3, <2>4, BoostedEntry, BoostKeepsEntry
  <2> HIDE DEF v
  <2>6. /\ v.confidence \in 0..FullConfidence /\ v.confidence \in Int /\ u.confidence \in Int
        /\ v.age \in 0..MaxAge
    BY <2>4, <2>5, FieldTypes
  <2>7. /\ v.confidence >= candidate_threshold
        /\ s.told = "confirmed" => v.confidence >= confirmed_threshold
    BY <2>3, <2>5, <2>6 DEF candidate_threshold, confirmed_threshold
  <2>8. /\ level \in {"candidate", "confirmed"}
        /\ level = "confirmed" => v.confidence >= confirmed_threshold
        /\ s.told = "confirmed" => level = "confirmed"
    BY <2>7 DEF Level
  <2> HIDE DEF level
  <2>9. /\ t \in DetectionState /\ t.told = level /\ t.state = v.state
        /\ t.confidence = v.confidence /\ t.idle = v.idle /\ t.age = v.age
    BY <2>5, <2>8 DEF DetectionState, Levels
  <2> HIDE DEF t
  <2>10. EntryInv(t)
    <3>1. ConfidenceInv(t) BY <2>3, <2>5, <2>8, <2>9 DEF EntryInv, ConfidenceInv
    <3>2. AgeInv(t) BY <2>5, <2>9 DEF EntryInv, AgeInv, Live
    <3> QED BY <2>9, <3>1, <3>2 DEF EntryInv
  <2>11. /\ verdict' \in [level : Levels \union {"none"}, age : 0..MaxAge]
         /\ NoExploitIsSilent' /\ EvidenceIsRecent'
    BY <2>2, <2>3, <2>5, <2>6, <2>8 DEF Levels, NoExploitIsSilent, EvidenceIsRecent
  <2> QED BY <2>1, <2>2, <2>8, <2>9, <2>10, <2>11, TransactionKeeps DEF IInv, TypeOK, Kept
<1>5. CASE Tick
  <2> DEFINE old(s) == [s EXCEPT !.idle = Older(@, MaxIdle), !.age = Older(@, MaxAge)]
  <2>1. /\ DOMAIN states' = DOMAIN states
        /\ \A a \in DOMAIN states : states'[a] = old(states[a])
        /\ UNCHANGED <<tx_history, quiet>> /\ NoVerdict
    BY <1>5 DEF Tick
  <2>2. \A a \in DOMAIN states : EntryInv(old(states[a])) /\ old(states[a]).told = states[a].told
    BY <1>0, OlderEntry
  <2> HIDE DEF old
  <2>3. \A a \in DOMAIN states' : EntryInv(states'[a]) /\ states'[a].told = states[a].told
    BY <2>1, <2>2
  <2>4. MemoryInv' BY <2>1 DEF IInv, MemoryInv
  <2>5. TypeOK' BY <2>1, <2>3, NoVerdictKeeps DEF IInv, TypeOK, EntryInv
  <2> QED BY <2>1, <2>3, <2>4, <2>5, NoVerdictKeeps DEF IInv, Kept
<1>6. CASE Restart
  <2>1. DOMAIN states' = {} /\ tx_history' = {} /\ NoVerdict
        /\ quiet' = [a \in Addresses |-> 0]
    BY <1>6 DEF Restart
  <2>2. MemoryInv' BY <2>1 DEF MemoryInv
  <2>3. TypeOK' BY <2>1, NoVerdictKeeps DEF TypeOK
  <2> QED BY <2>1, <2>2, <2>3, NoVerdictKeeps DEF IInv
<1>7. CASE UNCHANGED vars
  <2>1. IInv' BY <1>7
    DEF vars, IInv, TypeOK, NoExploitIsSilent, EvidenceIsRecent, MemoryInv
  <2> QED BY <1>7, <2>1 DEF vars, Kept
<1> QED BY <1>1, <1>2, <1>3, <1>4, <1>5, <1>6, <1>7 DEF Next

THEOREM DetectorInvariant == Spec => []IInv
<1> QED BY InitIInv, StepIInv, PTL DEF Spec

\* TypeOK: confidence, times and memory stay within their types.
THEOREM DetectorTypeCorrect == Spec => []TypeOK
<1>1. IInv => TypeOK BY DEF IInv
<1> QED BY DetectorInvariant, <1>1, PTL

\* NoExploitIsSilent: whatever precedes it, an exploit call is at least a candidate.
THEOREM DetectorNeverSilent == Spec => []NoExploitIsSilent
<1>1. IInv => NoExploitIsSilent BY DEF IInv
<1> QED BY DetectorInvariant, <1>1, PTL

\* EvidenceIsRecent: five windows bound what a verdict can count, for any window.
THEOREM DetectorEvidenceRecent == Spec => []EvidenceIsRecent
<1>1. IInv => EvidenceIsRecent BY DEF IInv
<1> QED BY DetectorInvariant, <1>1, PTL

\* ForgottenInTime: memory follows the active addresses, however many there are.
THEOREM DetectorForgets == Spec => []ForgottenInTime
<1>1. IInv => ForgottenInTime
  BY DEF IInv, MemoryInv, ForgottenInTime
<1> QED BY DetectorInvariant, <1>1, PTL

\* NeverDowngraded: a live confirmed address is never reported as less.
THEOREM DetectorNeverDowngrades == Spec => NeverDowngraded
<1>1. IInv /\ [Next]_vars =>
        [\A a \in DOMAIN states \intersect DOMAIN states' :
           /\ states[a].told = "confirmed" /\ Live(states[a])
           => states'[a].told = "confirmed"]_vars
  BY StepIInv DEF Kept
<1> QED BY DetectorInvariant, <1>1, PTL DEF Spec, NeverDowngraded
=============================================================================
