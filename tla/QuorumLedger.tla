---------------------------- MODULE QuorumLedger ----------------------------
(***************************************************************************)
(* What ConsensusVoting promises: an event is decided once and for all,    *)
(* and only when at least quorum distinct eligible operators stand behind  *)
(* it.  Who is eligible, and the quorum, may change between decisions; a   *)
(* removed operator never becomes eligible again.                          *)
(***************************************************************************)
EXTENDS Integers, FiniteSets

CONSTANTS Operators, Events, Attackers, Undecided

VARIABLES
  quorum,    \* distinct operators needed
  removed,   \* operators struck off
  eligible,  \* operators whose vote counts now
  decided    \* per event: the attacker named, or Undecided

ledgerVars == <<quorum, removed, eligible, decided>>

Init ==
  /\ quorum \in Nat \ {0}
  /\ removed = {} /\ eligible \in SUBSET Operators
  /\ decided = [e \in Events |-> Undecided]

Administer ==
  /\ quorum' \in Nat \ {0}
  /\ removed \subseteq removed'
  /\ eligible' \in SUBSET (Operators \ removed')
  /\ UNCHANGED decided

Decide ==
  \E e \in Events, a \in Attackers, backing \in SUBSET eligible :
    /\ decided[e] = Undecided
    /\ Cardinality(backing) >= quorum
    /\ decided' = [decided EXCEPT ![e] = a]
    /\ UNCHANGED <<quorum, removed, eligible>>

Next == Administer \/ Decide

Spec == Init /\ [][Next]_ledgerVars
=============================================================================
