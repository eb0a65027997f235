------------------------------ MODULE PolicyLog ------------------------------
(***************************************************************************)
(* What DefenseProtocol promises about the defense policy: an append-only  *)
(* log of committed hashes.  Nothing is rewritten, an entry differs from   *)
(* the one before it, and one agent at most is ever authorized, with the   *)
(* first entry or not at all.                                              *)
(***************************************************************************)
EXTENDS Integers

CONSTANTS Hashes, Agents, NoAgent

VARIABLES
  length,  \* entries in the log
  entry,   \* entry[v]: the hash committed as version v, for v <= length
  agent    \* the authorized agent

logVars == <<length, entry, agent>>

Init == length = 0 /\ entry \in [{} -> Hashes] /\ agent = NoAgent

Extend(h) ==
  /\ length > 0 => entry[length] # h
  /\ length' = length + 1
  /\ entry' = [v \in 1..(length + 1) |-> IF v = length + 1 THEN h ELSE entry[v]]

Commit == \E h \in Hashes : Extend(h) /\ UNCHANGED agent

Authorize == length = 0 /\ \E h \in Hashes : Extend(h) /\ agent' \in Agents

Next == Commit \/ Authorize

Spec == Init /\ [][Next]_logVars
=============================================================================
