------------------------ MODULE StreamConsumerProofs ------------------------
(***************************************************************************)
(* StreamConsumer for every set of names, batch size, stream length and    *)
(* number of crashes: nothing the group delivered is lost, data goes only  *)
(* by eviction, and an inherited backlog is finished before polling.       *)
(***************************************************************************)
EXTENDS StreamConsumer, WellFoundedInduction, FiniteSetTheorems, TLAPS

USE ConsumerAssumption

\* COUNT n of a non-empty pending list is not empty: its oldest entry is there.
LEMMA OldestNonEmpty ==
  ASSUME NEW S \in SUBSET Nat, S # {}, NEW n \in Nat \ {0}
  PROVE  Oldest(S, n) # {}
<1>1. PICK m \in S : \A j \in S : ~ (<<j, m>> \in OpToRel(<, Nat))
  BY WFMin, NatLessThanWellFounded
<1>2. \A j \in S : ~ (j < m)
  BY <1>1 DEF OpToRel
<1>3. {j \in S : j < m} = {}
  BY <1>2
<1>4. Cardinality({j \in S : j < m}) = 0
  BY <1>3, FS_EmptySet
<1>. QED
  BY <1>4 DEF Oldest

\* XREADGROUP > hands out the entries between the last delivered one (or the
\* eviction point) and its own new last delivered entry, and only those.
LEMMA ReplyShape ==
  ASSUME TypeOK, NEW reply \in SUBSET (1..published), XReadNew(reply)
  PROVE  /\ lastDelivered' \in Nat /\ lastDelivered' > lastDelivered
         /\ reply \subseteq Nat \ {0} /\ \A i \in reply : i > lastDelivered
         /\ \A i \in (lastDelivered + 1)..lastDelivered' : i <= trimmed \/ i \in reply
         /\ pel' = [pel EXCEPT ![name] = @ \union reply]
         /\ blank' = {} /\ UNCHANGED <<published, trimmed>>
<1>. DEFINE from == Later(lastDelivered, trimmed) + 1
<1>2. /\ from \in Nat /\ from > lastDelivered
      /\ from = lastDelivered + 1 \/ from = trimmed + 1
      /\ from > trimmed
  BY DEF TypeOK, Later
<1>3. reply = {i \in from..published : i < from + Count}
  BY DEF XReadNew
<1>4. lastDelivered' \in reply
  BY DEF XReadNew
<1>. HIDE DEF from
<1>5. \A i \in reply : i \in Nat /\ i >= from /\ i <= published
  BY <1>2, <1>3 DEF TypeOK
<1>6. \A i \in from..lastDelivered' : i \in reply
  BY <1>2, <1>3, <1>4, <1>5 DEF TypeOK
<1>7. \A i \in (lastDelivered + 1)..lastDelivered' : i <= trimmed \/ i \in reply
  <2>. SUFFICES ASSUME NEW i \in (lastDelivered + 1)..lastDelivered', i > trimmed
                PROVE  i \in reply
    BY <1>4, <1>5 DEF TypeOK
  <2>1. i \in from..lastDelivered'
    BY <1>2, <1>4, <1>5 DEF TypeOK
  <2>. QED
    BY <2>1, <1>6
<1>8. lastDelivered' \in Nat /\ lastDelivered' > lastDelivered
  BY <1>2, <1>4, <1>5 DEF TypeOK
<1>9. reply \subseteq Nat \ {0} /\ \A i \in reply : i > lastDelivered
  BY <1>2, <1>5 DEF TypeOK
<1>. QED
  BY <1>7, <1>8, <1>9 DEF XReadNew

\* Read or lost, a reply to XREADGROUP > is pending under the process's name.
LEMMA NewReplyShape ==
  ASSUME TypeOK, ReadNew \/ ReplyLost
  PROVE  \E reply \in SUBSET (Nat \ {0}) :
           /\ lastDelivered' \in Nat /\ lastDelivered' > lastDelivered
           /\ \A i \in reply : i > lastDelivered
           /\ \A i \in (lastDelivered + 1)..lastDelivered' : i <= trimmed \/ i \in reply
           /\ pel' = [pel EXCEPT ![name] = @ \union reply]
           /\ gone' = gone \union ((lastDelivered + 1)..trimmed)
           /\ blank' = {} /\ UNCHANGED <<published, trimmed>>
           /\ ReadNew => batch' = reply
<1>1. CASE ReadNew
  <2>1. PICK reply \in SUBSET (1..published) : XReadNew(reply) /\ batch' = reply
    BY <1>1 DEF ReadNew
  <2>2. gone' = gone \union ((lastDelivered + 1)..trimmed)
    BY <1>1 DEF ReadNew, NewlyEvicted
  <2>. QED
    BY <2>1, <2>2, ReplyShape
<1>2. CASE ReplyLost
  <2>1. PICK reply \in SUBSET (1..published) : XReadNew(reply)
    BY <1>2 DEF ReplyLost
  <2>2. gone' = gone \union ((lastDelivered + 1)..trimmed) /\ ~ReadNew
    <3>1. readErrors' # readErrors
      BY <1>2 DEF ReplyLost, TypeOK
    <3>. QED
      BY <1>2, <3>1 DEF ReplyLost, ReadNew, NewlyEvicted, faults
  <2>. QED
    BY <2>1, <2>2, ReplyShape
<1>. QED
  BY <1>1, <1>2

\* An entry counted as gone lies in the part of the stream MAXLEN has cut.
GoneOnlyByEviction == \A i \in gone : i <= trimmed

\* The strengthening that makes the properties inductive: what is about to be
\* acknowledged is accounted for, what came back without fields was evicted,
\* and start() saw no more than what is delivered by now.
IInv ==
  /\ TypeOK
  /\ NothingLost
  /\ GoneOnlyByEviction
  /\ BacklogFirst
  /\ \A i \in blank : i <= trimmed
  /\ acking # 0 => acking \in handled \union gone
  /\ startMark <= lastDelivered

LEMMA InitIInv == Init => IInv
<1>. SUFFICES ASSUME Init PROVE IInv
  OBVIOUS
<1>1. TypeOK
  BY DEF Init, TypeOK, Idle
<1>2. NothingLost
  BY DEF Init, NothingLost
<1>. QED
  BY <1>1, <1>2 DEF Init, IInv, GoneOnlyByEviction, BacklogFirst

\* The process, the stream and the histories keep their types.
LEMMA StepTypeOK == TypeOK /\ [Next]_vars => TypeOK'
<1>. SUFFICES ASSUME TypeOK, [Next]_vars PROVE TypeOK'
  OBVIOUS
<1>1. CASE Publish
  BY <1>1 DEF Publish, Idle, XAdd, Later, TypeOK, process, history, faults
<1>2. ASSUME NEW n \in Names, Start(n) PROVE TypeOK'
  BY <1>2 DEF Start, Idle, TypeOK, redis, faults
<1>3. CASE ReadPending
  BY <1>3 DEF ReadPending, Idle, XReadOwnPending, Oldest, TypeOK, redis, history, faults
<1>4. CASE ReadNew \/ ReplyLost
  <2>1. PICK reply \in SUBSET (Nat \ {0}) :
          /\ lastDelivered' \in Nat
          /\ pel' = [pel EXCEPT ![name] = @ \union reply]
          /\ gone' = gone \union ((lastDelivered + 1)..trimmed)
          /\ blank' = {} /\ UNCHANGED <<published, trimmed>>
          /\ ReadNew => batch' = reply
    BY <1>4, NewReplyShape
  <2>2. gone' \in SUBSET Nat
    BY <2>1 DEF TypeOK
  <2>3. pel' \in [Names -> SUBSET (Nat \ {0})] /\ pel'[name] = pel[name] \union reply
    BY <2>1 DEF TypeOK
  <2>4. /\ UNCHANGED <<pc, running, name, acking, tried, handled, startMark, crashes,
                       failures>>
        /\ readErrors' \in Nat /\ pc = "poll" /\ acking = 0
        /\ batch' \in {batch, reply}
    <3>1. CASE ReadNew
      BY <3>1, <2>1 DEF ReadNew, TypeOK, faults, Idle
    <3>2. CASE ReplyLost
      BY <3>2 DEF ReplyLost, TypeOK, Idle
    <3>. QED
      BY <1>4, <3>1, <3>2
  <2>. QED
    BY <2>1, <2>2, <2>3, <2>4 DEF TypeOK
<1>5. CASE LoopExit
  BY <1>5 DEF LoopExit, Idle, TypeOK, redis, history, faults
<1>6. CASE Stop
  <2>1. UNCHANGED <<redis, pc, name, batch, blank, acking, history, failures, readErrors>>
    BY <1>6 DEF Stop
  <2>2. running' \in BOOLEAN
    BY <1>6 DEF Stop
  <2>3. crashes' \in Nat
    BY <1>6 DEF Stop, TypeOK
  <2>. QED
    BY <2>1, <2>2, <2>3 DEF TypeOK, Idle, redis, history
<1>7. ASSUME NEW i \in batch, HandlerReturns(i) PROVE TypeOK'
  BY <1>7 DEF HandlerReturns, Idle, AtEntry, TypeOK, redis, faults
<1>8. ASSUME NEW i \in batch, HandlerRaises(i) PROVE TypeOK'
  BY <1>8 DEF HandlerRaises, Idle, AtEntry, TypeOK, redis
<1>9. ASSUME NEW i \in batch, ParseRaises(i) PROVE TypeOK'
  BY <1>9 DEF ParseRaises, Idle, AtEntry, TypeOK, redis, faults
<1>10. CASE Ack
  BY <1>10 DEF Ack, Idle, XAck, TypeOK, history, faults
<1>11. CASE AckRaises
  BY <1>11 DEF AckRaises, Idle, TypeOK, redis, history
<1>12. CASE Crash
  BY <1>12 DEF Crash, Idle, TypeOK, redis, history
<1>13. CASE UNCHANGED vars
  BY <1>13 DEF TypeOK, Idle, vars, redis, process, history, faults
<1>14. CASE PendingReadRaises
  BY <1>14 DEF PendingReadRaises, TypeOK, Idle, redis, history
<1>. QED
  BY <1>1, <1>2, <1>3, <1>4, <1>5, <1>6, <1>7, <1>8, <1>9, <1>10, <1>11, <1>12, <1>13, <1>14
  DEF Next, Dispatch

LEMMA StepIInv == IInv /\ [Next]_vars => IInv'
<1>. SUFFICES ASSUME IInv, [Next]_vars PROVE IInv'
  OBVIOUS
<1>0. TypeOK /\ TypeOK'
  BY StepTypeOK DEF IInv
<1>. USE <1>0 DEF IInv
<1>1. CASE Publish
  <2>1. trimmed' >= trimmed
    BY <1>1 DEF Publish, XAdd, Later, TypeOK
  <2>2. GoneOnlyByEviction' /\ \A i \in blank' : i <= trimmed'
    BY <1>1, <2>1 DEF Publish, process, history, GoneOnlyByEviction, TypeOK
  <2>. QED
    BY <1>1, <2>2 DEF Publish, XAdd, process, history, NothingLost, BacklogFirst
<1>2. ASSUME NEW n \in Names, Start(n) PROVE IInv'
  BY <1>2 DEF Start, redis, NothingLost, GoneOnlyByEviction, BacklogFirst, TypeOK
<1>3. CASE ReadPending
  <2>1. UNCHANGED redis /\ UNCHANGED <<running, name, acking, history, faults>>
        /\ batch' = Oldest(pel[name], Count) /\ blank' = {i \in batch' : i <= trimmed}
    BY <1>3 DEF ReadPending, XReadOwnPending
  <2>2. pc' = "poll" => pel[name] = {}
    BY <1>3, <2>1, OldestNonEmpty DEF ReadPending, TypeOK
  <2>3. BacklogFirst'
    BY <2>1, <2>2 DEF BacklogFirst, redis
  <2>. QED
    BY <2>1, <2>3 DEF redis, history, NothingLost, GoneOnlyByEviction
<1>4. CASE ReadNew \/ ReplyLost
  <2>1. /\ UNCHANGED <<pc, running, name, acking, tried, handled, startMark>>
        /\ acking = 0
    BY <1>4 DEF ReadNew, ReplyLost, Idle
  <2>2. PICK reply \in SUBSET (Nat \ {0}) :
          /\ lastDelivered' \in Nat /\ lastDelivered' > lastDelivered
          /\ \A i \in reply : i > lastDelivered
          /\ \A i \in (lastDelivered + 1)..lastDelivered' : i <= trimmed \/ i \in reply
          /\ pel' = [pel EXCEPT ![name] = @ \union reply]
          /\ gone' = gone \union ((lastDelivered + 1)..trimmed)
          /\ blank' = {} /\ UNCHANGED <<published, trimmed>>
    BY <1>4, NewReplyShape
  <2>3. GoneOnlyByEviction'
    BY <2>2 DEF GoneOnlyByEviction, TypeOK
  <2>4. /\ \A n \in Names : pel[n] \subseteq pel'[n]
        /\ pel'[name] = pel[name] \union reply
    BY <2>2 DEF TypeOK
  <2>5. NothingLost'
    <3>. SUFFICES ASSUME NEW i \in 1..lastDelivered'
                  PROVE  i \in (handled \union gone)' \/ \E n \in Names : i \in pel'[n]
      BY DEF NothingLost
    <3>1. CASE i <= lastDelivered
      <4>1. i \in 1..lastDelivered
        BY <3>1 DEF TypeOK
      <4>. QED
        BY <4>1, <2>1, <2>2, <2>4 DEF NothingLost
    <3>2. CASE i > lastDelivered
      <4>1. i \in (lastDelivered + 1)..lastDelivered'
        BY <3>2, <2>2 DEF TypeOK
      <4>2. CASE i <= trimmed
        BY <4>1, <4>2, <2>2 DEF TypeOK
      <4>3. CASE i \in reply
        BY <4>3, <2>4 DEF TypeOK
      <4>. QED
        BY <4>1, <4>2, <4>3, <2>2
    <3>. QED
      BY <3>1, <3>2, <2>2 DEF TypeOK
  <2>6. BacklogFirst'
    BY <2>1, <2>2, <2>4 DEF BacklogFirst, TypeOK
  <2>. QED
    BY <2>1, <2>2, <2>3, <2>5, <2>6 DEF TypeOK
<1>5. CASE LoopExit
  BY <1>5 DEF LoopExit, redis, history, NothingLost, GoneOnlyByEviction, BacklogFirst
<1>6. CASE Stop
  BY <1>6 DEF Stop, redis, history, NothingLost, GoneOnlyByEviction, BacklogFirst
<1>7. ASSUME NEW i \in batch, HandlerReturns(i) PROVE IInv'
  BY <1>7 DEF HandlerReturns, redis, NothingLost, GoneOnlyByEviction, BacklogFirst, TypeOK
<1>8. ASSUME NEW i \in batch, HandlerRaises(i) PROVE IInv'
  BY <1>8 DEF HandlerRaises, redis, NothingLost, GoneOnlyByEviction, BacklogFirst, TypeOK
<1>9. ASSUME NEW i \in batch, ParseRaises(i) PROVE IInv'
  BY <1>9 DEF ParseRaises, AtEntry, redis, NothingLost, GoneOnlyByEviction, BacklogFirst, TypeOK
<1>10. CASE Ack
  <2>1. /\ pel' = [pel EXCEPT ![name] = @ \ {acking}] /\ acking \in handled \union gone
        /\ UNCHANGED <<trimmed, lastDelivered, pc, name, blank, handled, gone, startMark>>
        /\ acking' = 0
    BY <1>10 DEF Ack, XAck, history
  <2>2. NothingLost'
    BY <2>1 DEF NothingLost, TypeOK
  <2>3. BacklogFirst'
    BY <2>1 DEF BacklogFirst, TypeOK
  <2>. QED
    BY <2>1, <2>2, <2>3 DEF GoneOnlyByEviction
<1>11. CASE AckRaises
  BY <1>11 DEF AckRaises, redis, history, NothingLost, GoneOnlyByEviction, BacklogFirst
<1>12. CASE Crash
  BY <1>12 DEF Crash, redis, history, NothingLost, GoneOnlyByEviction, BacklogFirst
<1>13. CASE UNCHANGED vars
  BY <1>13 DEF vars, redis, process, history, NothingLost, GoneOnlyByEviction, BacklogFirst
<1>14. CASE PendingReadRaises
  BY <1>14 DEF PendingReadRaises, redis, history, NothingLost, GoneOnlyByEviction, BacklogFirst
<1>. QED
  BY <1>1, <1>2, <1>3, <1>4, <1>5, <1>6, <1>7, <1>8, <1>9, <1>10, <1>11, <1>12, <1>13, <1>14
  DEF Next, Dispatch

\* Type correctness of the consumer, the stream and the pending lists.
THEOREM ConsumerTypeCorrect == Spec => []TypeOK
<1>1. Init => TypeOK
  BY InitIInv DEF IInv
<1>. QED
  BY <1>1, StepTypeOK, PTL DEF Spec

\* Whatever the crashes, restarts under other names, handler errors and XACK
\* errors, an entry XREADGROUP delivered stays pending until a handler returned
\* on it, unless MAXLEN evicted its data first.
THEOREM ConsumerNothingLost == Spec => []NothingLost
<1>1. IInv => NothingLost
  BY DEF IInv
<1>. QED
  BY <1>1, InitIInv, StepIInv, PTL DEF Spec

\* _process_pending leaves no inherited entry of its name behind when _poll
\* asks for new ones.
THEOREM ConsumerBacklogFirst == Spec => []BacklogFirst
<1>1. IInv => BacklogFirst
  BY DEF IInv
<1>. QED
  BY <1>1, InitIInv, StepIInv, PTL DEF Spec

-----------------------------------------------------------------------------
(* First attempts, where every process has the same name, the stream holds  *)
(* all that is published, no entry breaks json.loads and no reply is lost    *)

Undisturbed ==
  /\ \A m, n \in Names : m = n
  /\ MaxEntries <= MaxLen
  /\ \A i \in 1..MaxEntries : i \notin Malformed
  /\ MaxReadErrors = 0

\* What has been delivered and not yet tried is pending, and in the reply at
\* hand no entry is ahead of an untried one that is not in it.
OrderInv ==
  /\ trimmed = 0 /\ lastDelivered <= published /\ published <= MaxEntries
  /\ \A n \in Names : pel[n] \subseteq 1..lastDelivered
  /\ batch \subseteq 1..lastDelivered
  /\ tried \subseteq 1..lastDelivered
  /\ \A i \in tried : 1..(i-1) \subseteq tried
  /\ \A i \in 1..lastDelivered : i \in tried \/ i \in pel[name]
  /\ pc = "poll" => 1..lastDelivered \subseteq tried \union batch
  /\ \A i \in batch : 1..(i-1) \subseteq tried \union batch
  /\ acking # 0 => acking \in tried

\* The oldest n pending entries leave no older pending entry out.
LEMMA OldestIsPrefix ==
  ASSUME NEW S \in SUBSET Nat, NEW n \in Nat, NEW i \in Oldest(S, n), NEW j \in S, j < i
  PROVE  j \in Oldest(S, n)
<1>. DEFINE before(k) == {m \in S : m < k}
<1>1. i \in Nat /\ j \in Nat
  BY DEF Oldest
<1>2. before(i) \subseteq 0..i
  <2>. SUFFICES ASSUME NEW m \in S, m < i PROVE m \in 0..i
    OBVIOUS
  <2>1. m \in Nat
    OBVIOUS
  <2>. QED
    BY <1>1, <2>1
<1>3. before(j) \subseteq before(i)
  <2>. SUFFICES ASSUME NEW m \in S, m < j PROVE m < i
    OBVIOUS
  <2>1. m \in Nat
    OBVIOUS
  <2>. QED
    BY <1>1, <2>1
<1>4. IsFiniteSet(before(i))
  <2>1. IsFiniteSet(0..i)
    BY <1>1, FS_Interval
  <2>. HIDE DEF before
  <2>. QED
    BY <1>2, <2>1, FS_Subset
<1>5. /\ Cardinality(before(j)) <= Cardinality(before(i))
      /\ Cardinality(before(j)) \in Nat /\ Cardinality(before(i)) \in Nat
  <2>. HIDE DEF before
  <2>. QED
    BY <1>3, <1>4, FS_Subset, FS_CardinalityType
<1>6. Cardinality(before(i)) < n
  BY DEF Oldest
<1>7. Cardinality(before(j)) < n
  <2>. HIDE DEF before
  <2>. QED
    BY <1>5, <1>6
<1>. QED
  BY <1>7 DEF Oldest

\* In these circumstances the loop over the reply is at the oldest entry not yet
\* tried, or at one tried before.
LEMMA AtEntryInOrder ==
  ASSUME TypeOK, OrderInv, NEW i \in batch, AtEntry(i)
  PROVE  /\ i \in 1..lastDelivered /\ i \in 1..published /\ i # 0
         /\ 1..(i-1) \subseteq tried
         /\ tried' = tried \union {i}
<1>1. i \in 1..lastDelivered /\ i \in 1..published
  BY DEF OrderInv, TypeOK
<1>2. ASSUME NEW j \in 1..(i-1) PROVE j \in tried
  <2>1. j \in tried \union batch
    BY DEF OrderInv
  <2>2. j \notin batch
    BY <1>1, <1>2 DEF AtEntry
  <2>. QED
    BY <2>1, <2>2
<1>. QED
  BY <1>1, <1>2 DEF AtEntry

\* Taking the entry out of the reply keeps the order.
LEMMA DispatchKeepsOrder ==
  ASSUME TypeOK, OrderInv, NEW i \in batch, AtEntry(i), batch' = batch \ {i},
         acking' \in {0, i}, UNCHANGED <<published, trimmed, lastDelivered, pel, pc, name>>
  PROVE  OrderInv'
<1>1. /\ i \in 1..lastDelivered /\ 1..(i-1) \subseteq tried /\ tried' = tried \union {i}
  BY AtEntryInOrder
<1>2. tried' \union batch' = tried \union batch
  BY <1>1
<1>3. \A k \in tried' : 1..(k-1) \subseteq tried'
  BY <1>1 DEF OrderInv
<1>4. \A k \in batch' : 1..(k-1) \subseteq tried' \union batch'
  BY <1>2 DEF OrderInv
<1>5. pc' = "poll" => 1..lastDelivered' \subseteq tried' \union batch'
  BY <1>2 DEF OrderInv
<1>6. tried' \subseteq 1..lastDelivered' /\ batch' \subseteq 1..lastDelivered'
  BY <1>1 DEF OrderInv
<1>. QED
  BY <1>1, <1>3, <1>4, <1>5, <1>6 DEF OrderInv

LEMMA StepOrder ==
  Undisturbed /\ TypeOK /\ OrderInv /\ [Next]_vars => OrderInv'
<1>. SUFFICES ASSUME Undisturbed, TypeOK, OrderInv, [Next]_vars PROVE OrderInv'
  OBVIOUS
<1>1. CASE Publish
  <2>1. trimmed' = 0
    BY <1>1 DEF Publish, XAdd, Later, Undisturbed, OrderInv, TypeOK
  <2>. QED
    BY <1>1, <2>1 DEF Publish, XAdd, process, history, OrderInv, TypeOK
<1>2. ASSUME NEW n \in Names, Start(n) PROVE OrderInv'
  <2>1. name' = name
    BY <1>2 DEF Start, Undisturbed, TypeOK
  <2>. QED
    BY <1>2, <2>1 DEF Start, redis, OrderInv
<1>3. CASE ReadPending
  <2>1. /\ UNCHANGED redis /\ UNCHANGED <<name, acking, tried>>
        /\ batch' = Oldest(pel[name], Count) /\ pc' \in {"poll", "pending"}
        /\ pc' = "poll" => batch' = {}
    BY <1>3 DEF ReadPending, XReadOwnPending, history
  <2>2. pel[name] \in SUBSET Nat /\ pel[name] \subseteq 1..lastDelivered
    BY DEF TypeOK, OrderInv
  <2>3. pc' = "poll" => pel[name] = {}
    BY <2>1, <2>2, OldestNonEmpty
  <2>4. pc' = "poll" => 1..lastDelivered \subseteq tried
    BY <2>3 DEF OrderInv
  <2>5. batch' \subseteq pel[name]
    BY <2>1 DEF Oldest
  <2>6. ASSUME NEW i \in batch', NEW j \in 1..(i-1) PROVE j \in tried \union batch'
    <3>1. j \in 1..lastDelivered /\ j < i
      BY <2>2, <2>5, <2>6 DEF TypeOK
    <3>2. CASE j \in pel[name]
      BY <2>1, <2>2, <3>1, <3>2, OldestIsPrefix
    <3>. QED
      BY <3>1, <3>2 DEF OrderInv
  <2>. QED
    BY <2>1, <2>2, <2>4, <2>5, <2>6 DEF redis, OrderInv
<1>4. CASE ReadNew
  <2>1. UNCHANGED <<pc, name, acking, tried>> /\ pc = "poll" /\ batch = {}
    BY <1>4 DEF ReadNew, Idle
  <2>2. /\ lastDelivered' \in Nat /\ lastDelivered' > lastDelivered
        /\ \A i \in (lastDelivered + 1)..lastDelivered' : i \in batch'
        /\ pel' = [pel EXCEPT ![name] = @ \union batch']
        /\ UNCHANGED <<published, trimmed>>
    <3>1. \A i \in (lastDelivered + 1)..lastDelivered' : i > trimmed
      BY DEF OrderInv, TypeOK
    <3>2. PICK reply \in SUBSET (Nat \ {0}) :
            /\ lastDelivered' \in Nat /\ lastDelivered' > lastDelivered
            /\ \A i \in (lastDelivered + 1)..lastDelivered' : i <= trimmed \/ i \in reply
            /\ pel' = [pel EXCEPT ![name] = @ \union reply]
            /\ UNCHANGED <<published, trimmed>> /\ batch' = reply
      BY <1>4, NewReplyShape
    <3>. QED
      BY <3>1, <3>2 DEF TypeOK, OrderInv
  <2>3. batch' \subseteq 1..lastDelivered' /\ lastDelivered' <= published
    <3>1. PICK reply \in SUBSET (1..published) : XReadNew(reply) /\ batch' = reply
      BY <1>4 DEF ReadNew
    <3>. QED
      BY <2>2, <3>1 DEF XReadNew, TypeOK
  <2>4. 1..lastDelivered \subseteq tried
    BY <2>1 DEF OrderInv
  <2>5. 1..lastDelivered' \subseteq tried' \union batch'
    <3>1. ASSUME NEW k \in 1..lastDelivered'
          PROVE  k \in 1..lastDelivered \/ k \in (lastDelivered + 1)..lastDelivered'
      BY <2>2 DEF TypeOK
    <3>. QED
      BY <2>1, <2>2, <2>4, <3>1
  <2>6. \A i \in batch' : 1..(i-1) \subseteq tried' \union batch'
    BY <2>2, <2>3, <2>5
  <2>7. tried' \subseteq 1..lastDelivered' /\ \A i \in tried' : 1..(i-1) \subseteq tried'
    BY <2>1, <2>2 DEF OrderInv, TypeOK
  <2>8. pel'[name] = pel[name] \union batch'
    BY <2>2 DEF TypeOK
  <2>9. \A n \in Names : pel'[n] \subseteq pel[n] \union batch'
    BY <2>2 DEF TypeOK
  <2>10. 1..lastDelivered \subseteq 1..lastDelivered'
    BY <2>2 DEF TypeOK
  <2>11. \A n \in Names : pel'[n] \subseteq 1..lastDelivered'
    BY <2>3, <2>9, <2>10 DEF OrderInv
  <2>12. \A i \in 1..lastDelivered' : i \in tried' \/ i \in pel'[name']
    BY <2>1, <2>5, <2>8
  <2>. QED
    BY <2>1, <2>2, <2>3, <2>5, <2>6, <2>7, <2>12, <2>11 DEF OrderInv
<1>5. CASE LoopExit
  BY <1>5 DEF LoopExit, redis, history, OrderInv
<1>6. CASE Stop
  BY <1>6 DEF Stop, redis, history, OrderInv
<1>7. ASSUME NEW i \in batch, HandlerReturns(i) PROVE OrderInv'
  BY <1>7, DispatchKeepsOrder DEF HandlerReturns, redis
<1>8. ASSUME NEW i \in batch, HandlerRaises(i) PROVE OrderInv'
  <2>1. acking = 0
    BY <1>8 DEF HandlerRaises, AtEntry
  <2>. QED
    BY <1>8, <2>1, DispatchKeepsOrder DEF HandlerRaises, redis
<1>9. ASSUME NEW i \in batch, ParseRaises(i) PROVE OrderInv'
  <2>1. i \in 1..MaxEntries
    BY DEF OrderInv, TypeOK
  <2>. QED
    BY <1>9, <2>1 DEF ParseRaises, Parses, Undisturbed
<1>10. CASE Ack
  <2>1. /\ pel' = [pel EXCEPT ![name] = @ \ {acking}] /\ acking \in tried /\ acking' = 0
        /\ UNCHANGED <<published, trimmed, lastDelivered, pc, name, batch, tried>>
    BY <1>10 DEF Ack, XAck, history, OrderInv
  <2>2. \A n \in Names : pel'[n] \subseteq pel[n]
    BY <2>1 DEF TypeOK
  <2>3. pel'[name] = pel[name] \ {acking}
    BY <2>1 DEF TypeOK
  <2>4. \A i \in 1..lastDelivered : i \in tried \/ i \in pel'[name]
    BY <2>1, <2>3 DEF OrderInv
  <2>. QED
    BY <2>1, <2>2, <2>4 DEF OrderInv
<1>11. CASE AckRaises
  BY <1>11 DEF AckRaises, redis, history, OrderInv
<1>12. CASE Crash
  BY <1>12 DEF Crash, redis, history, OrderInv
<1>13. CASE UNCHANGED vars
  BY <1>13 DEF vars, redis, process, history, OrderInv
<1>14. ~PendingReadRaises /\ ~ReplyLost
  BY DEF PendingReadRaises, ReplyLost, Undisturbed, TypeOK
<1>. QED
  BY <1>1, <1>2, <1>3, <1>4, <1>5, <1>6, <1>7, <1>8, <1>9, <1>10, <1>11, <1>12, <1>13, <1>14
  DEF Next, Dispatch

\* One step of the consumer is a publication, a first attempt or a stutter.
LEMMA InboxStep ==
  ASSUME Undisturbed, TypeOK, OrderInv, [Next]_vars
  PROVE  [InPublicationOrder!Next]_(InPublicationOrder!inboxVars)
<1>. USE DEF InPublicationOrder!Next, InPublicationOrder!inboxVars
<1>1. CASE Publish
  BY <1>1 DEF Publish, XAdd, history, InPublicationOrder!Send
<1>2. ASSUME NEW i \in batch, HandlerReturns(i) \/ HandlerRaises(i) \/ ParseRaises(i)
      PROVE  [InPublicationOrder!Next]_(InPublicationOrder!inboxVars)
  <2>1. AtEntry(i) /\ UNCHANGED published
    BY <1>2 DEF HandlerReturns, HandlerRaises, ParseRaises, redis
  <2>2. /\ i \in 1..published /\ 1..(i-1) \subseteq tried /\ tried' = tried \union {i}
    BY <2>1, AtEntryInOrder
  <2>3. CASE i \in tried
    BY <2>1, <2>2, <2>3
  <2>4. CASE i \notin tried
    BY <2>1, <2>2, <2>4 DEF InPublicationOrder!Attempt
  <2>. QED
    BY <2>3, <2>4
<1>3. CASE ReadNew
  BY <1>3 DEF ReadNew, XReadNew
<1>4. CASE ReadPending
  BY <1>4 DEF ReadPending, XReadOwnPending, redis, history
<1>5. CASE UNCHANGED vars
  BY <1>5 DEF vars, redis, history
<1>6. ~PendingReadRaises /\ ~ReplyLost
  BY DEF PendingReadRaises, ReplyLost, Undisturbed, TypeOK
<1>. QED
  BY <1>1, <1>2, <1>3, <1>4, <1>5, <1>6
  DEF Next, Dispatch, Start, LoopExit, Stop, Ack, XAck, AckRaises, Crash, redis, history

\* Through crashes, restarts under the same name, poison entries and failing
\* XACKs, as long as no XREADGROUP raises, _dispatch first attempts entries in publication order and skips none.
THEOREM ConsumerAttemptsInOrder == Undisturbed => (Spec => FirstAttemptsInOrder)
<1>. SUFFICES ASSUME Undisturbed PROVE Spec => FirstAttemptsInOrder
  OBVIOUS
<1>1. Init => OrderInv /\ InPublicationOrder!Init
  BY DEF Init, OrderInv, InPublicationOrder!Init
<1>2. TypeOK /\ OrderInv /\ [Next]_vars => OrderInv'
  BY StepOrder
<1>3. TypeOK /\ OrderInv /\ [Next]_vars
        => [InPublicationOrder!Next]_(InPublicationOrder!inboxVars)
  BY InboxStep
<1>. QED
  BY <1>1, <1>2, <1>3, ConsumerTypeCorrect, PTL
  DEF Spec, FirstAttemptsInOrder, InPublicationOrder!Spec
=============================================================================
