------------------------------ MODULE Detector ------------------------------
(***************************************************************************)
(* One detection operator: Operator.evaluate with its DetectionStateMachine *)
(* and tx_history, fed one mempool transaction at a time by the stream      *)
(* consumer.  Confidence is in basis points, a machine-learning score in    *)
(* tenths, a price deviation in percent; scores and deviations are inputs.  *)
(* A timestamp t is represented by the time since it, so that the model     *)
(* needs no bound on the clock.                                             *)
(***************************************************************************)
EXTENDS Integers

CONSTANTS
  Addresses,        \* transaction senders
  Scores,           \* anomaly and sequence scores, 0..10
  Deviations,       \* price deviations in percent
  Window            \* window_seconds

ASSUME DetectorAssumption ==
  Scores \subseteq 0..10 /\ Deviations \subseteq Nat /\ Window \in Nat

VARIABLES
  states,           \* DetectionStateMachine.states: a partial function
  tx_history,       \* addresses with an entry in Operator.tx_history
  verdict,          \* history: what evaluate returned in the last step
  quiet             \* history: evaluations of others since a's entry expired, up to 2

vars == <<states, tx_history, verdict, quiet>>

FullConfidence == 10000
candidate_threshold == 6000
confirmed_threshold == 8500

\* Bounds: an entry untouched for longer than the window is expired, whatever
\* the time; ages beyond what EvidenceIsRecent allows are not told apart.
MaxIdle == Window + 1
MaxAge == 5 * Window + 1
Older(t, bound) == IF t < bound THEN t + 1 ELSE t

Levels == {"below_threshold", "candidate", "confirmed"}

Stages == {"IDLE", "FLASH_LOAN_OBSERVED", "ORACLE_IMPACT_OBSERVED", "CONFIRMED"}

DetectionState ==
  [state : Stages,
   confidence : 0..FullConfidence,
   idle : 0..MaxIdle,                   \* time since last_updated
   age : 0..MaxAge,                     \* time since first_seen
   told : Levels]                       \* history: level of its last verdict

Fresh == [state |-> "IDLE", confidence |-> 0, idle |-> 0, age |-> 0,
          told |-> "below_threshold"]

Live(s) == s.idle <= Window

GetOrCreate(a) ==
  IF a \in DOMAIN states /\ Live(states[a]) THEN states[a] ELSE Fresh

\* Mutant: the sum is not capped.
Uncapped(c) == c

Capped(c) == IF c <= FullConfidence THEN c ELSE FullConfidence

Boosted(s, c) == [s EXCEPT !.confidence = Capped(@ + c)]

\* An observation that counts: it sets last_updated.
Moved(s, state, c) == [s EXCEPT !.state = state, !.confidence = c, !.idle = 0]

\* Mutant: every flash loan counts as an update.
ObserveFlashLoanRefreshing(s, anomaly) ==
  Boosted(IF s.state = "IDLE" THEN Moved(s, "FLASH_LOAN_OBSERVED", 4000)
          ELSE [s EXCEPT !.idle = 0],
          150 * anomaly)

\* observe_flash_loan and the boost evaluate adds to it: any further flash
\* loan adds the boost again, without being an update.
ObserveFlashLoan(s, anomaly) ==
  Boosted(IF s.state = "IDLE" THEN Moved(s, "FLASH_LOAN_OBSERVED", 4000) ELSE s,
          150 * anomaly)

\* c * (0.3 + min(deviation / 10, 0.7))
Scaled(c, deviation) ==
  (c * (3 + (IF deviation < 7 THEN deviation ELSE 7))) \div 10

\* Mutant: an oracle impact is taken at any point after the flash loan.
ObserveOracleImpactAnyTime(s, deviation, anomaly) ==
  IF s.state = "IDLE" THEN s
  ELSE Boosted(Moved(s, "ORACLE_IMPACT_OBSERVED", Scaled(s.confidence, deviation)),
               100 * anomaly)

ObserveOracleImpact(s, deviation, anomaly) ==
  CASE s.state = "IDLE" -> s
    [] s.state = "FLASH_LOAN_OBSERVED" ->
         Boosted(Moved(s, "ORACLE_IMPACT_OBSERVED", Scaled(s.confidence, deviation)),
                 100 * anomaly)
    [] OTHER -> Boosted(s, 100 * anomaly)

\* An exploit call after other observations: CONFIRMED if that is enough.
Exploited(s) ==
  LET c == Capped(s.confidence + 6000)
  IN  Moved(s, IF c >= confirmed_threshold THEN "CONFIRMED" ELSE s.state, c)

\* Mutant: the branch asks for the oracle impact.
ObserveExploitCallInOrder(s) ==
  CASE s.state = "ORACLE_IMPACT_OBSERVED" -> Exploited(s)
    [] s.state = "IDLE" -> Moved(s, "CONFIRMED", 9000)
    [] OTHER -> s

ObserveExploitCall(s) ==
  CASE s.state \in {"FLASH_LOAN_OBSERVED", "ORACLE_IMPACT_OBSERVED"} -> Exploited(s)
    [] s.state = "IDLE" -> Moved(s, "CONFIRMED", 9000)
    [] s.state = "CONFIRMED" -> s

Level(c) == IF c >= confirmed_threshold THEN "confirmed"
            ELSE IF c >= candidate_threshold THEN "candidate"
            ELSE "below_threshold"

Init ==
  /\ states = [a \in {} |-> Fresh]
  /\ tx_history = {}
  /\ verdict = [level |-> "none", age |-> 0]
  /\ quiet = [a \in Addresses |-> 0]

With(a, s) == [b \in DOMAIN states \union {a} |-> IF b = a THEN s ELSE states[b]]

\* Mutant: expired entries stay.
CleanupNothing(known) == known

CleanupExpired(known) == [b \in {c \in DOMAIN known : Live(known[c])} |-> known[b]]

\* How evaluate ends: the sender's transaction is in the history, which then
\* loses the addresses without an entry, and the expired entries go after it.
Cleanup(a, known) ==
  /\ tx_history' = {b \in tx_history : b \in DOMAIN known} \union {a}
  /\ states' = CleanupExpired(known)
  /\ quiet' = [b \in Addresses |->
                 IF b = a \/ (b \in DOMAIN known /\ Live(known[b])) THEN 0
                 ELSE IF quiet[b] < 2 THEN quiet[b] + 1 ELSE 2]

NoVerdict == verdict' = [level |-> "none", age |-> 0]

FlashLoanTx(a, anomaly) ==
  Cleanup(a, With(a, ObserveFlashLoan(GetOrCreate(a), anomaly))) /\ NoVerdict

OracleTx(a, deviation, anomaly) ==
  Cleanup(a, With(a, ObserveOracleImpact(GetOrCreate(a), deviation, anomaly))) /\ NoVerdict

OtherTx(a) == Cleanup(a, states) /\ NoVerdict

\* The only transaction with a verdict; "below_threshold" returns None.
ExploitTx(a, seq) ==
  LET s == Boosted(ObserveExploitCall(GetOrCreate(a)), 150 * seq)
      level == Level(s.confidence)
  IN  /\ Cleanup(a, With(a, [s EXCEPT !.told = level]))
      /\ verdict' = [level |-> level, age |-> s.age]

\* Time passes.
Tick ==
  /\ states' = [a \in DOMAIN states |->
                  [states[a] EXCEPT !.idle = Older(@, MaxIdle), !.age = Older(@, MaxAge)]]
  /\ UNCHANGED <<tx_history, quiet>> /\ NoVerdict

\* The process dies and comes up again: everything it knew was in memory.
Restart ==
  /\ states' = [a \in {} |-> Fresh]
  /\ tx_history' = {}
  /\ NoVerdict
  /\ quiet' = [a \in Addresses |-> 0]

Next ==
  \/ \E a \in Addresses :
       \/ \E x \in Scores : FlashLoanTx(a, x) \/ ExploitTx(a, x)
       \/ \E d \in Deviations, x \in Scores : OracleTx(a, d, x)
       \/ OtherTx(a)
  \/ Tick
  \/ Restart

Spec == Init /\ [][Next]_vars
-----------------------------------------------------------------------------
\* Types: confidence stays between 0 and 10000 basis points.
TypeOK ==
  /\ DOMAIN states \subseteq Addresses
  /\ \A a \in DOMAIN states : states[a] \in DetectionState
  /\ tx_history \subseteq Addresses
  /\ verdict \in [level : Levels \union {"none"}, age : 0..MaxAge]
  /\ quiet \in [Addresses -> 0..2]

\* Every exploit call evaluate sees yields at least a candidate, whatever came
\* before it: the branch that returns None is never taken, because a flash loan
\* and an oracle impact leave at least 1200 of the base confidence.
NoExploitIsSilent == verdict.level # "below_threshold"

\* While an address's entry lives, evaluate never follows a confirmed verdict
\* with a weaker one: nothing scales a confidence down once an exploit call came.
NeverDowngraded ==
  [][\A a \in DOMAIN states \intersect DOMAIN states' :
       /\ states[a].told = "confirmed" /\ Live(states[a])
       => states'[a].told = "confirmed"]_vars

\* The window slides at transitions only: an entry may wait one window each as
\* IDLE, after the flash loan, after the oracle impact, after a first exploit call
\* that stays below the threshold, and as CONFIRMED.  So no verdict comes more than
\* five windows after first_seen, however much the address goes on sending.
EvidenceIsRecent == verdict.age <= 5 * Window

\* The two clean-ups at the end of evaluate forget an address two evaluations of
\* others after its window has passed, so memory follows the active addresses.
ForgottenInTime ==
  \A a \in Addresses : quiet[a] = 2 => a \notin tx_history \union DOMAIN states

\* What the comment in observe_exploit_call states: an exploit call after an
\* oracle impact reaches the confirmed threshold.
OracleImpactConfirms ==
  [][\A a \in Addresses :
       (\E x \in Scores : ExploitTx(a, x)) /\ GetOrCreate(a).state = "ORACLE_IMPACT_OBSERVED"
       => states'[a].state = "CONFIRMED"]_vars
=============================================================================
