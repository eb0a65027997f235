--------------------------- MODULE StreamConsumer ---------------------------
(***************************************************************************)
(* One sentinel.* Redis stream, its publisher and the one consumer process *)
(* of one consumer group (store/sentinel_streams).  Entries are numbered   *)
(* in publication order.  Redis keeps, per consumer NAME, the pending list *)
(* (PEL) of entries delivered but not acknowledged; a process reads back   *)
(* only the pending list of the name it runs under.                        *)
(***************************************************************************)
EXTENDS Integers, FiniteSets

CONSTANTS
  Names,        \* consumer names a process may run under (they hold its pid)
  Count,        \* entries asked for by one XREADGROUP
  MaxLen,       \* entries the stream keeps (XADD MAXLEN)
  Malformed,    \* entries whose data field is not JSON
  Poison,       \* entries the handler raises on, every time
  MaxEntries,   \* bound: entries published
  MaxCrashes,   \* bound: crashes and stops of the consumer process
  MaxFailures,  \* bound: transient handler and XACK errors
  MaxReadErrors \* bound: XREADGROUP calls that raise in the process

ASSUME ConsumerAssumption ==
  /\ Names # {}
  /\ Count \in Nat \ {0}
  /\ MaxLen \in Nat \ {0}
  /\ MaxEntries \in Nat /\ MaxCrashes \in Nat
  /\ MaxFailures \in Nat /\ MaxReadErrors \in Nat

VARIABLES
  published,      \* entries added to the stream so far: 1..published
  trimmed,        \* entries 1..trimmed were evicted by MAXLEN
  lastDelivered,  \* the group's last-delivered entry
  pel,            \* per consumer name: delivered, not acknowledged
  pc,             \* "down", "pending" (_process_pending) or "poll" (_poll)
  running,        \* self._running
  name,           \* the name this process runs under
  batch,          \* entries of the current reply still to dispatch
  blank,          \* those of them Redis returned without fields
  acking,         \* the entry whose handler returned and whose XACK is due, or 0
  tried,          \* history: entries the dispatch loop reached
  handled,        \* history: entries whose handler returned with their data
  gone,           \* history: entries evicted before any handler had their data
  startMark,      \* history: lastDelivered when this process started
  crashes, failures, readErrors

redis    == <<published, trimmed, lastDelivered, pel>>
process  == <<pc, running, name, batch, blank, acking>>
history  == <<tried, handled, gone, startMark>>
faults   == <<crashes, failures, readErrors>>
vars     == <<redis, process, history, faults>>

-----------------------------------------------------------------------------
(* Redis, as the code uses it *)

\* The n smallest members of a set of entries: XREADGROUP ... COUNT n.
Oldest(S, n) == {i \in S : Cardinality({j \in S : j < i}) < n}

Later(a, b) == IF a > b THEN a ELSE b

XAdd ==
  /\ published' = published + 1
  /\ trimmed' = Later(trimmed, published + 1 - MaxLen)
  /\ UNCHANGED <<lastDelivered, pel>>

\* XREADGROUP ... STREAMS s 0: this name's pending list, oldest first; an
\* entry MAXLEN evicted meanwhile comes back without its fields.
XReadOwnPending(reply) ==
  /\ reply = Oldest(pel[name], Count)
  /\ blank' = {i \in reply : i <= trimmed}
  /\ UNCHANGED redis

\* XREADGROUP ... STREAMS s >: the oldest entries the group has not delivered.
XReadNew(reply) ==
  /\ LET from == Later(lastDelivered, trimmed) + 1
     IN  reply = {i \in from..published : i < from + Count}
  /\ pel' = [pel EXCEPT ![name] = @ \union reply]
  /\ lastDelivered' \in reply /\ \A i \in reply : i <= lastDelivered'
  /\ blank' = {}
  /\ UNCHANGED <<published, trimmed>>

XAck(i) ==
  /\ pel' = [pel EXCEPT ![name] = @ \ {i}]
  /\ UNCHANGED <<published, trimmed, lastDelivered>>

-----------------------------------------------------------------------------

Init ==
  /\ published = 0 /\ trimmed = 0 /\ lastDelivered = 0
  /\ pel = [n \in Names |-> {}]
  /\ pc = "down" /\ running = FALSE /\ name \in Names
  /\ batch = {} /\ blank = {} /\ acking = 0
  /\ tried = {} /\ handled = {} /\ gone = {} /\ startMark = 0
  /\ crashes = 0 /\ failures = 0 /\ readErrors = 0

Publish ==
  /\ published < MaxEntries
  /\ XAdd
  /\ UNCHANGED <<process, history, faults>>

\* Mutant: a restarted process asks for new entries at once.
StartSkipsPending(n) ==
  /\ pc = "down"
  /\ pc' = "poll" /\ running' = TRUE /\ name' = n
  /\ startMark' = lastDelivered
  /\ UNCHANGED <<redis, batch, blank, acking, tried, handled, gone, faults>>

\* start(): the group is created at entry 0 or already there, then the
\* process re-reads the pending list of its own name.
Start(n) ==
  /\ pc = "down"
  /\ pc' = "pending" /\ running' = TRUE /\ name' = n
  /\ startMark' = lastDelivered
  /\ UNCHANGED <<redis, batch, blank, acking, tried, handled, gone, faults>>

Idle == batch = {} /\ acking = 0

\* Mutant: one batch of the pending list is read, not all of it.
ReadPendingOnce ==
  /\ pc = "pending" /\ running /\ Idle
  /\ \E reply \in SUBSET pel[name] : XReadOwnPending(reply) /\ batch' = reply
  /\ pc' = "poll"
  /\ UNCHANGED <<running, name, acking, history, faults>>

\* Mutant: an empty reply does not end the loop.
ReadPendingForever ==
  /\ pc = "pending" /\ running /\ Idle
  /\ \E reply \in SUBSET pel[name] : XReadOwnPending(reply) /\ batch' = reply
  /\ UNCHANGED <<pc, running, name, acking, history, faults>>

ReadPending ==
  /\ pc = "pending" /\ running /\ Idle
  /\ \E reply \in SUBSET pel[name] : XReadOwnPending(reply) /\ batch' = reply
  /\ pc' = IF batch' = {} THEN "poll" ELSE "pending"
  /\ UNCHANGED <<running, name, acking, history, faults>>

\* The start() of a process ends with any error of xgroup_create or of reading
\* its pending list: neither is caught.
PendingReadRaises ==
  /\ pc = "pending" /\ running /\ Idle /\ readErrors < MaxReadErrors
  /\ pc' = "down" /\ readErrors' = readErrors + 1
  /\ UNCHANGED <<redis, running, name, batch, blank, acking, history, crashes, failures>>

NewlyEvicted == (lastDelivered + 1)..trimmed

\* Mutant: the stream is read with the NOACK option.
ReadNewNoAck ==
  /\ pc = "poll" /\ running /\ Idle
  /\ \E i \in (Later(lastDelivered, trimmed) + 1)..published :
       /\ i <= Later(lastDelivered, trimmed) + Count
       /\ batch' = (Later(lastDelivered, trimmed) + 1)..i /\ lastDelivered' = i
  /\ gone' = gone \union NewlyEvicted
  /\ UNCHANGED <<published, trimmed, pel, pc, running, name, blank, acking, tried,
                 handled, startMark, faults>>

ReadNew ==
  /\ pc = "poll" /\ running /\ Idle
  /\ \E reply \in SUBSET (1..published) : XReadNew(reply) /\ batch' = reply
  /\ gone' = gone \union NewlyEvicted
  /\ UNCHANGED <<pc, running, name, acking, tried, handled, startMark, faults>>

\* XREADGROUP > raises after Redis has handed the entries out: _poll logs the
\* error and polls on, and the entries stay pending without being dispatched.
\* (A call that raises before Redis saw it changes nothing.)
ReplyLost ==
  /\ pc = "poll" /\ running /\ Idle /\ readErrors < MaxReadErrors
  /\ \E reply \in SUBSET (1..published) : XReadNew(reply)
  /\ gone' = gone \union NewlyEvicted
  /\ readErrors' = readErrors + 1
  /\ UNCHANGED <<pc, running, name, batch, acking, tried, handled, startMark,
                 crashes, failures>>

\* The loops test self._running between batches.
LoopExit ==
  /\ pc \in {"pending", "poll"} /\ ~running /\ Idle
  /\ pc' = "down"
  /\ UNCHANGED <<redis, running, name, batch, blank, acking, history, faults>>

Stop ==
  /\ running /\ pc # "down" /\ crashes < MaxCrashes
  /\ running' = FALSE /\ crashes' = crashes + 1
  /\ UNCHANGED <<redis, pc, name, batch, blank, acking, history,
                 failures, readErrors>>

-----------------------------------------------------------------------------
(* _dispatch *)

\* Mutant: the reply is worked through from its end.
AtNewestEntry(i) ==
  /\ pc \in {"pending", "poll"} /\ acking = 0
  /\ i \in batch /\ \A j \in batch : i >= j
  /\ tried' = tried \union {i}

\* The entry the loop over the batch is at.
AtEntry(i) ==
  /\ pc \in {"pending", "poll"} /\ acking = 0
  /\ i \in batch /\ \A j \in batch : i <= j
  /\ tried' = tried \union {i}

Parses(i) == i \in blank \/ i \notin Malformed

HandlerReturns(i) ==
  /\ AtEntry(i) /\ Parses(i) /\ i \notin Poison
  /\ handled' = IF i \in blank THEN handled ELSE handled \union {i}
  /\ gone' = IF i \in blank /\ i \notin handled THEN gone \union {i} ELSE gone
  /\ acking' = i /\ batch' = batch \ {i} /\ blank' = blank \ {i}
  /\ UNCHANGED <<redis, pc, running, name, startMark, faults>>

\* Mutant: XACK in a finally clause, whether or not the handler raised.
HandlerRaisesAcks(i) ==
  /\ AtEntry(i) /\ Parses(i)
  /\ \/ i \in Poison /\ UNCHANGED failures
     \/ i \notin Poison /\ failures < MaxFailures /\ failures' = failures + 1
  /\ acking' = i /\ batch' = batch \ {i} /\ blank' = blank \ {i}
  /\ UNCHANGED <<redis, pc, running, name, handled, gone, startMark,
                 crashes, readErrors>>

HandlerRaises(i) ==
  /\ AtEntry(i) /\ Parses(i)
  /\ \/ i \in Poison /\ UNCHANGED failures
     \/ i \notin Poison /\ failures < MaxFailures /\ failures' = failures + 1
  /\ batch' = batch \ {i} /\ blank' = blank \ {i}
  /\ UNCHANGED <<redis, pc, running, name, acking, handled, gone, startMark,
                 crashes, readErrors>>

\* json.loads is outside the try: in _poll the rest of the batch is given up,
\* in _process_pending the exception leaves start().
ParseRaises(i) ==
  /\ AtEntry(i) /\ ~Parses(i)
  /\ batch' = {} /\ blank' = {}
  /\ pc' = IF pc = "pending" THEN "down" ELSE "poll"
  /\ UNCHANGED <<redis, running, name, acking, handled, gone, startMark, faults>>

Ack ==
  /\ acking # 0
  /\ XAck(acking)
  /\ acking' = 0
  /\ UNCHANGED <<pc, running, name, batch, blank, history, faults>>

\* The XACK itself may raise: logged like a handler error, not repeated.
AckRaises ==
  /\ acking # 0 /\ failures < MaxFailures
  /\ acking' = 0 /\ failures' = failures + 1
  /\ UNCHANGED <<redis, pc, running, name, batch, blank, history, crashes, readErrors>>

Crash ==
  /\ pc # "down" /\ crashes < MaxCrashes
  /\ crashes' = crashes + 1
  /\ pc' = "down" /\ batch' = {} /\ blank' = {} /\ acking' = 0
  /\ UNCHANGED <<redis, running, name, history, failures, readErrors>>

Dispatch ==
  \E i \in batch : HandlerReturns(i) \/ HandlerRaises(i) \/ ParseRaises(i)

Next ==
  \/ Publish
  \/ \E n \in Names : Start(n)
  \/ ReadPending \/ PendingReadRaises \/ ReadNew \/ ReplyLost
  \/ LoopExit \/ Stop
  \/ Dispatch
  \/ Ack \/ AckRaises \/ Crash

Spec == Init /\ [][Next]_vars

\* The event loop runs whatever is ready, and the supervisor restarts a
\* process that went down; nothing is assumed about publishing or faults.
Fairness ==
  /\ WF_vars(\E n \in Names : Start(n))
  /\ WF_vars(ReadPending) /\ WF_vars(ReadNew) /\ WF_vars(LoopExit)
  /\ WF_vars(Dispatch) /\ WF_vars(Ack)

FairSpec == Spec /\ Fairness

-----------------------------------------------------------------------------

\* Types; and the reply a process works through is pending under its own name
\* to the last entry, the one about to be acknowledged is out of it, and a
\* process that is down holds neither.
TypeOK ==
  /\ published \in Nat /\ trimmed \in Nat /\ lastDelivered \in Nat
  /\ pel \in [Names -> SUBSET (Nat \ {0})]
  /\ pc \in {"down", "pending", "poll"} /\ running \in BOOLEAN /\ name \in Names
  /\ batch \in SUBSET pel[name] /\ blank \in SUBSET batch
  /\ acking \in Nat /\ acking \notin batch
  /\ pc = "down" => Idle
  /\ tried \in SUBSET Nat /\ handled \in SUBSET Nat /\ gone \in SUBSET Nat
  /\ startMark \in Nat /\ crashes \in Nat /\ failures \in Nat /\ readErrors \in Nat

\* Every entry the group delivered is still on somebody's pending list, or a
\* handler returned on its data, or MAXLEN had evicted the data first: no crash
\* between handler and XACK, no handler error, malformed entry or lost reply
\* makes the group forget an entry.
NothingLost ==
  \A i \in 1..lastDelivered :
    i \in handled \union gone \/ \E n \in Names : i \in pel[n]

\* Once the consumer polls for new entries, nothing it inherited under its name
\* is still waiting: entries pending at start() are all acknowledged first.
BacklogFirst ==
  pc = "poll" => \A i \in pel[name] : i > startMark

\* First attempts happen in publication order, with no entry left out: for a
\* consumer that keeps its name and reads without errors, on a stream that evicts
\* nothing.  (A lost reply breaks the order: later entries are attempted first.)
InPublicationOrder == INSTANCE Inbox WITH sent <- published, seen <- tried
FirstAttemptsInOrder == InPublicationOrder!Spec

\* Every published entry reaches a handler that returns, if the process keeps
\* being restarted under the same name, and crashes and errors stop.
EveryEntryHandled == \A i \in 1..MaxEntries : (i <= published) ~> (i \in handled)

\* Entries that wait for ever: on the pending list of a name no process has any
\* more; passed over by a polling process, which never re-reads its own list (the
\* reply was lost, or cut short by an entry that is not JSON); or behind a replay
\* that ends at an entry which is not JSON or whose handler always raises.
Orphaned(i) == \E n \in Names \ {name} : i \in pel[n]
PassedOver(i) == pc = "poll" /\ i \in pel[name] \ batch
StuckInReplay == pc # "poll" /\ pel[name] \intersect (Poison \union Malformed) # {}

\* Nothing else keeps an entry from its first attempt: every published entry
\* reaches the dispatch loop or is evicted, or one of the three holds for good.
OnlyPoisonStarves ==
  \A i \in 1..MaxEntries :
    (i <= published) ~>
      (i \in tried \union gone \/ [](Orphaned(i) \/ PassedOver(i) \/ StuckInReplay))
=============================================================================
