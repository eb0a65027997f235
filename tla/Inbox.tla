------------------------------- MODULE Inbox -------------------------------
(***************************************************************************)
(* What a subscriber of a sentinel.* stream expects of StreamConsumer:     *)
(* entries are numbered in the order they were published and are put       *)
(* before the handler for the first time in that order, none left out.     *)
(* Later attempts at the same entry (redelivery) are stutters here.        *)
(***************************************************************************)
EXTENDS Integers

VARIABLES
  sent,   \* number of entries published
  seen    \* entries put before the handler at least once

inboxVars == <<sent, seen>>

Init == sent = 0 /\ seen = {}

Send == sent' = sent + 1 /\ UNCHANGED seen

Attempt ==
  /\ \E i \in 1..sent :
       /\ i \notin seen
       /\ 1..(i-1) \subseteq seen
       /\ seen' = seen \union {i}
  /\ UNCHANGED sent

Next == Send \/ Attempt

Spec == Init /\ [][Next]_inboxVars

FairSpec == Spec /\ WF_inboxVars(Attempt)
=============================================================================
